------------------------------ MODULE RspUcode ------------------------------
(***************************************************************************)
(* The C++ that RSPRecomp emits for a microcode with overlays, executed:   *)
(* one function for the text as a task starts it ("initial"), one for each *)
(* choice of an overlay per slot (a permutation), and a wrapper.  A DMA    *)
(* into IMEM leaves the running function; the wrapper notes the overlay    *)
(* and calls the permutation, which goes on after the DMA.  `at' is the    *)
(* address of the instruction whose code runs and `step' the part of it:   *)
(*   "label"  before the instruction, at its label if it has one           *)
(*   "instr"  at its own code                                              *)
(*   "slot"   in a transfer, before the copy of its delay slot             *)
(*   "go"     after that copy                                              *)
(*   "swap"   returned to the wrapper with SwapOverlay                     *)
(***************************************************************************)
EXTENDS RspCode

CONSTANTS
  WatchdogLimit,  (* 100000000 labels                                       *)
  MaxTasks        (* bound: tasks started                                   *)

ASSUME UcodeAssumption == WatchdogLimit \in Nat /\ MaxTasks \in Nat \ {0}

VARIABLES
  ucode,    (* the microcode                                                *)
  slots,    (* the wrapper's slots: overlays, counted from 0                *)
  code,     (* the words of the function that runs                          *)
  at, step,
  jump,     (* ctx->jump_target                                             *)
  resume,   (* ctx->resume_address and resume_delay                         *)
  regs,     (* the registers and the DMA's, in ctx                          *)
  ticks,    (* ctx->watchdog_count                                          *)
  exit,     (* the reason the task has returned with                        *)
  tasks     (* tasks started                                                *)

ucodeVars == <<ucode, slots, code, at, step, jump, resume, regs, ticks, exit, tasks>>

-----------------------------------------------------------------------------
(* The permutations in the order of advance_overlay_counter, the last slot *)
(* fastest, and the wrapper's index into them.                             *)
Weight(u) ==                       (* of slot 0: how many there are *)
  LET w[i \in 0..Slots] == IF i = Slots THEN 1 ELSE Len(u.overlays[i + 1]) * w[i + 1] IN w
Index(u, c) ==
  LET sum[i \in 0..Slots] == IF i = 0 THEN 0 ELSE sum[i - 1] + c[i] * Weight(u)[i] IN sum[Slots]

Zeros == [i \in 1..Slots |-> 0]
Advanced(u, c) ==
  LET free == {i \in 1..Slots : c[i] + 1 < Len(u.overlays[i])}
      last == CHOOSE i \in free : \A j \in free : j <= i
  IN  [i \in 1..Slots |-> CASE i < last -> c[i] [] i = last -> c[i] + 1 [] i > last -> 0]
Nth(u, n) == LET c[i \in 0..n] == IF i = 0 THEN Zeros ELSE Advanced(u, c[i - 1]) IN c[n]

(* The text with the chosen overlays copied in, slot after slot.           *)
Patched(u, c) ==
  LET image[i \in 0..Slots] ==
        IF i = 0 THEN u.text ELSE Loaded(u, image[i - 1], i, c[i] + 1)
  IN  image[Slots]
Permutation(u, n) == Patched(u, Nth(u, n))
Choices(u) ==
  {c \in [1..Slots -> 0..MaxOverlays - 1] : \A s \in 1..Slots : c[s] < Len(u.overlays[s])}
Images(u)  == {Patched(u, c) : c \in Choices(u)}

-----------------------------------------------------------------------------
(* collect_branch_targets *)
DirectTargets(c) == {c[a].target : a \in {b \in Text : c[b].op = "branch"}}
JumpsThrough(c)  == {c[a].reg : a \in {b \in Text : c[b].op \in {"jr", "jalr"}}}
(* Faulty variant: only a link is taken for the address of a later jump.   *)
FaultyIndirectTargets(u, c) ==
  {a + 2 : a \in {b \in Text : Links(c[b])}} \cup u.extra
IndirectTargets(u, c) ==
  {a + 2 : a \in {b \in Text : Links(c[b])}}
    \cup {c[a].value : a \in {b \in Text : c[b].op = "li" /\ "t" \in JumpsThrough(c)}}
    \cup u.extra
Targets(u, c) == DirectTargets(c) \cup IndirectTargets(u, c)

(* collect_resume_targets, over all permutations: every DMA, and the ones  *)
(* in delay slots.                                                         *)
ResumeTargets(u) == UNION {{a \in Text : c[a].op = "dma"} : c \in Images(u)}
InSlot(c, a) == a > 0 /\ Transfers(c[a - 1])
DelayTargets(u) ==
  UNION {{a \in Text : c[a].op = "dma" /\ InSlot(c, a)} : c \in Images(u)}

-----------------------------------------------------------------------------
UcodeInit ==
  /\ ucode \in Ucodes
  /\ slots = Zeros
  /\ code = ucode.text
  /\ at = 0 /\ step = "label"
  /\ jump = 0
  /\ resume = [at |-> 0, delay |-> FALSE]
  /\ regs = [ra |-> Size, t |-> Size, dma |-> Data]
  /\ ticks = 0
  /\ exit = "none"
  /\ tasks = 1

Running(part) == exit = "none" /\ step = part
Ins  == code[at]
Here == IF step = "slot" THEN at + 1 ELSE at      (* the instruction itself *)

(* The watchdog counts at a label, and the text has an end.                *)
(* Faulty variant: the count is compared before it is raised.              *)
FaultyBegin ==
  /\ Running("label")
  /\ LET labelled == at \in Targets(ucode, code) \cap Text IN
       /\ ticks' = IF labelled THEN ticks + 1 ELSE ticks
       /\ exit' = CASE at \notin Text                     -> "ImemOverrun"
                    [] labelled /\ ticks > WatchdogLimit  -> "Watchdog"
                    [] OTHER                             -> "none"
  /\ step' = IF exit' = "none" THEN "instr" ELSE step
  /\ UNCHANGED <<ucode, slots, code, at, jump, resume, regs, tasks>>

Begin ==
  /\ Running("label")
  /\ LET labelled == at \in Targets(ucode, code) \cap Text IN
       /\ ticks' = IF labelled THEN ticks + 1 ELSE ticks
       /\ exit' = CASE at \notin Text                     -> "ImemOverrun"
                    [] labelled /\ ticks' > WatchdogLimit -> "Watchdog"
                    [] OTHER                             -> "none"
  /\ step' = IF exit' = "none" THEN "instr" ELSE step
  /\ UNCHANGED <<ucode, slots, code, at, jump, resume, regs, tasks>>

(* An address the config gives up at, also in a delay slot.                *)
Executing(part) == Running(part) /\ Here \notin ucode.unsupported
Unsupported ==
  /\ exit = "none" /\ step \in {"instr", "slot"} /\ Here \in ucode.unsupported
  /\ exit' = "Unsupported"
  /\ UNCHANGED <<ucode, slots, code, at, step, jump, resume, regs, ticks, tasks>>

Moves(w) == w.op \in {"plain", "li", "name", "dma"} /\ ~Swaps(w, regs)

PlainInstr ==
  /\ Executing("instr") /\ Moves(Ins)
  /\ regs' = Effect(Ins, regs)
  /\ at' = at + 1 /\ step' = "label"
  /\ UNCHANGED <<ucode, slots, code, jump, resume, ticks, exit, tasks>>

(* The target of a jr is saved before the slot, that of a branch is in the *)
(* code after it.                                                          *)
Transfer ==
  /\ Executing("instr") /\ Transfers(Ins)
  /\ jump' = IF Ins.op = "branch" THEN jump ELSE regs[Ins.reg]
  /\ regs' = Linked(Ins, at, regs)
  /\ step' = "slot"
  /\ UNCHANGED <<ucode, slots, code, at, resume, ticks, exit, tasks>>

(* The link of bgezal and bltzal is inside the `if'.                       *)
NotTaken ==
  /\ Executing("instr") /\ Ins.op = "branch" /\ Ins.cond
  /\ at' = at + 1 /\ step' = "label"
  /\ UNCHANGED <<ucode, slots, code, jump, resume, regs, ticks, exit, tasks>>

DelaySlot ==
  /\ Executing("slot") /\ Moves(code[Here])
  /\ regs' = Effect(code[Here], regs)
  /\ step' = "go"
  /\ UNCHANGED <<ucode, slots, code, at, jump, resume, ticks, exit, tasks>>

(* A direct target has a label; an indirect one if the switch lists it.    *)
Target == IF Ins.op = "branch" THEN Ins.target ELSE jump
Go ==
  /\ Running("go")
  /\ IF Ins.op = "branch" \/ jump \in Targets(ucode, code)
       THEN at' = Target /\ step' = "label" /\ UNCHANGED exit
       ELSE exit' = "UnhandledJumpTarget" /\ UNCHANGED <<at, step>>
  /\ UNCHANGED <<ucode, slots, code, jump, resume, regs, ticks, tasks>>

Broke ==
  /\ (Executing("instr") \/ Executing("slot")) /\ code[Here].op = "break"
  /\ exit' = "Broke"
  /\ UNCHANGED <<ucode, slots, code, at, step, jump, resume, regs, ticks, tasks>>

-----------------------------------------------------------------------------
(* mtc0 SP_RD_LEN with an IMEM address. *)
DmaRead ==
  /\ (Executing("instr") \/ Executing("slot")) /\ Swaps(code[Here], regs)
  /\ resume' = [at |-> Here, delay |-> step = "slot"]
  /\ step' = "swap"
  /\ UNCHANGED <<ucode, slots, code, at, jump, regs, ticks, exit, tasks>>

(* The wrapper's loop: the permutation is called, and its resume switch    *)
(* goes on after the DMA, or after the slot's copy.                        *)
(* Faulty variant: the permutation starts the watchdog anew.               *)
FaultySwapOverlay ==
  /\ Running("swap")
  /\ slots' = [slots EXCEPT ![regs.dma[1]] = regs.dma[2] - 1]
  /\ code' = Permutation(ucode, Index(ucode, slots'))
  /\ ticks' = 0
  /\ IF resume.delay THEN step' = "go" /\ UNCHANGED at
                     ELSE step' = "label" /\ at' = resume.at + 1
  /\ UNCHANGED <<ucode, jump, resume, regs, exit, tasks>>

SwapOverlay ==
  /\ Running("swap")
  /\ slots' = [slots EXCEPT ![regs.dma[1]] = regs.dma[2] - 1]
  /\ code' = Permutation(ucode, Index(ucode, slots'))
  /\ IF resume.at \notin (IF resume.delay THEN DelayTargets(ucode) ELSE ResumeTargets(ucode))
     THEN exit' = "UnhandledResumeTarget" /\ UNCHANGED <<at, step>>
     ELSE /\ UNCHANGED exit
          /\ IF resume.delay THEN step' = "go" /\ UNCHANGED at
                             ELSE step' = "label" /\ at' = resume.at + 1
  /\ UNCHANGED <<ucode, jump, resume, regs, ticks, tasks>>

(* The next task: the wrapper is called again; ctx is static thread_local. *)
(* Faulty variant: so are the slots.                                       *)
FaultyNextTask ==
  /\ exit # "none" /\ tasks < MaxTasks
  /\ code' = ucode.text
  /\ at' = 0 /\ step' = "label"
  /\ ticks' = 0
  /\ exit' = "none"
  /\ tasks' = tasks + 1
  /\ UNCHANGED <<ucode, slots, jump, resume, regs>>

NextTask ==
  /\ exit # "none" /\ tasks < MaxTasks
  /\ slots' = Zeros
  /\ code' = ucode.text
  /\ at' = 0 /\ step' = "label"
  /\ ticks' = 0
  /\ exit' = "none"
  /\ tasks' = tasks + 1
  /\ UNCHANGED <<ucode, jump, resume, regs>>

UcodeNext ==
  \/ Begin \/ Unsupported \/ PlainInstr \/ Transfer \/ NotTaken \/ DelaySlot
  \/ Go \/ Broke \/ DmaRead \/ SwapOverlay \/ NextTask

UcodeSpec == UcodeInit /\ [][UcodeNext]_ucodeVars
(* The host runs the emitted functions without waiting.                    *)
FairSpec == UcodeSpec /\ WF_ucodeVars(UcodeNext)

-----------------------------------------------------------------------------
(* Microcodes whose overlays fill their slots and share no word; whose     *)
(* text is what the first overlays leave; ...                              *)
Extent(u, s, k) == u.start[s]..u.start[s] + Len(u.overlays[s][k]) - 1
FillsSlots(u) ==
  \A s, r \in 1..Slots : \A k \in DOMAIN u.overlays[s] : \A j \in DOMAIN u.overlays[r] :
    /\ Extent(u, s, k) \subseteq Text
    /\ IF s = r THEN Extent(u, s, k) = Extent(u, r, j)
                ELSE Extent(u, s, k) \cap Extent(u, r, j) = {}
StartsWithFirst(u) == u.text = Patched(u, Zeros)
(* ... that replace no transfer with a DMA in its slot; whose delay slots  *)
(* are in the text and no transfers; whose linking branches are always     *)
(* taken; and which do not end in a call.                                  *)
KeepsSlots(u) ==
  \A c, d \in Images(u) : \A a \in Text :
    InSlot(c, a) /\ c[a].op = "dma" => d[a - 1] = c[a - 1]
Translatable(u) ==
  \A c \in Images(u) : \A a \in Text : Transfers(c[a]) =>
    /\ a + 1 \in Text /\ ~Transfers(c[a + 1])
    /\ Links(c[a]) => Always(c[a]) /\ a + 2 \in Text
Followed(u) ==
  FillsSlots(u) /\ StartsWithFirst(u) /\ KeepsSlots(u) /\ Translatable(u)
AllFollowed == \A u \in Ucodes : Followed(u)

(* ... and whose overlays leave no address behind for others to jump to.   *)
KeepsAddresses(u) ==
  \A c \in Images(u) : \A a \in Text :
    Links(c[a]) \/ c[a].op = "li" => u.text[a] = c[a] /\ \A d \in Images(u) : d[a] = c[a]

Reasons == {"none", "Broke", "ImemOverrun", "Watchdog", "Unsupported",
            "UnhandledJumpTarget", "UnhandledResumeTarget"}

(* The slots hold overlays, the wrapper is only entered from a DMA, and    *)
(* the watchdog lets no task pass its limit.                               *)
UcodeTypeOK ==
  /\ ucode \in Microcodes
  /\ slots \in [1..Slots -> Nat]
  /\ \A s \in 1..Slots : slots[s] + 1 \in DOMAIN ucode.overlays[s]
  /\ code \in Images(ucode) \cup {ucode.text}
  /\ at \in Addresses
  /\ step \in {"label", "instr", "slot", "go", "swap"}
  /\ step # "label" => at \in Text
  /\ step \in {"slot", "go"} => at + 1 \in Text
  /\ jump \in Addresses
  /\ resume \in [at : Text, delay : BOOLEAN]
  /\ regs \in Registers
  /\ ticks \in 0..WatchdogLimit + 1
  /\ exit \in Reasons
  /\ exit = "none" => ticks <= WatchdogLimit
  /\ tasks \in 1..MaxTasks

(* The RSP's pc and pending transfer at each point of the emitted code.    *)
PC ==
  CASE step = "slot" \/ (step = "swap" /\ resume.delay) -> at + 1
    [] step = "go"                                     -> Target
    [] OTHER                                           -> at
Pending ==
  IF step = "slot" \/ (step = "swap" /\ resume.delay) THEN Target ELSE NoAddress

Rsp == INSTANCE RspMachine
         WITH imem <- code, pc <- PC, pending <- Pending, halted <- (exit # "none")

(* The emitted functions and their wrapper execute what the RSP would, if  *)
(* every microcode is Followed, over any order of swaps: the code that     *)
(* runs is what has been loaded, and it goes on where a swap left it.      *)
FollowsRsp == Rsp!MSpec

(* No task ends because the emitted code has no label for an address it is *)
(* asked to go on at, unless that is outside of the text.                  *)
NeverLost ==
  Followed(ucode) /\ KeepsAddresses(ucode) =>
    /\ exit # "UnhandledResumeTarget"
    /\ exit = "UnhandledJumpTarget" => jump \notin Text

(* Every task returns: each loop, also one through a swap, passes a label, *)
(* and the watchdog counts over swaps.                                     *)
TaskEnds == []<>(exit # "none")
=============================================================================
