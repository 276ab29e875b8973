---------------------------- MODULE FunctionBody ----------------------------
(***************************************************************************)
(* The C function that recompile_function emits for one guest function     *)
(* (recompilation.cpp), executed.  Every instruction is emitted at its own *)
(* place, the delay slot of a transfer once more inside it; control moves  *)
(* by gotos to labels, calls and returns.  `at' is the guest address of    *)
(* the instruction whose code is running and `step' the part of it:        *)
(*   "entry"     before the first instruction                              *)
(*   "instr"     at the start of the instruction's code                    *)
(*   "slot"      in a transfer, before the copy of its delay slot          *)
(*   "go"        after that copy                                           *)
(*   "away"      in a called function                                      *)
(*   "left"      returned, with left = [by, target]                        *)
(*   "rejected", "paused", "callHole", "branchHole": the other ends        *)
(*   "noLabel"   at a goto without a label: not C                          *)
(* What a call site does with a callee's tail calls is module HostCalls.   *)
(***************************************************************************)
EXTENDS MipsCode

CONSTANTS
  Entries,       (* func.dispatch_entry_vrams, in the function              *)
  EntryVram,     (* func.entry_vram                                         *)
  Requested,     (* static_funcs_out of the section, in the function        *)
  HostReturn,    (* ctx->host_return_target when the function is called     *)
  NextCallable,  (* a function starts right after this one                  *)
  Unresolved     (* addresses no section and no symbol claims               *)

(* What recompile_function refuses to translate, or no compiler generates. *)
Translatable(c) ==
  \A i \in Local : Transfers(c[i]) => i < N /\ c[i + 1].op = "plain"

ASSUME BodyAssumption ==
  /\ \A c \in Codes : Translatable(c)
  /\ Entries \subseteq 2..N
  /\ EntryVram \in Local
  /\ Requested \subseteq Local
  /\ HostReturn \in Elsewhere \cup {After}
  /\ NextCallable \in BOOLEAN
  /\ Unresolved \subseteq Elsewhere

VARIABLES
  code,       (* the function                                               *)
  at, step,   (* where in the emitted code                                  *)
  jump,       (* the target decided at the transfer, for the register kinds
                 jr_target_X and jr_addend_X                                *)
  regs,       (* ctx->r31 and t                                             *)
  dispatch,   (* ctx->dispatch_entry_target                                 *)
  left,       (* how the function was left                                  *)
  yielded     (* the last step was a loop checkpoint                        *)

vars == <<code, at, step, jump, regs, dispatch, left, yielded>>

-----------------------------------------------------------------------------
(* Faulty variant: a j contributes no label.                               *)
FaultyBranchTargets(c) ==
  {c[i].target : i \in {j \in Local : c[j].op = "jal" \/ (c[j].op = "branch" /\ c[j].cond)}}

BranchTargets(c)   == {c[i].target : i \in {j \in Local : c[j].op \in {"branch", "jal"}}}
SwitchTargets(c)   == UNION {c[i].entries : i \in {j \in Local : c[j].op = "switch"}}
(* Faulty variant: only the call through a register contributes the label. *)
FaultyReturnAddresses(c) == {i + 2 : i \in {j \in Local : c[j].op = "jalr"}}

ReturnAddresses(c) == {i + 2 : i \in {j \in Local : Links(c[j])}}

(* The labels of pass one, other than that of the function's start. *)
Labels(c) ==
  ((BranchTargets(c) \cup SwitchTargets(c) \cup ReturnAddresses(c)
      \cup Entries \cup {EntryVram} \cup Requested) \cap Local) \ {1}

Goto(a) ==
  /\ at' = a
  /\ step' = IF a \in Labels(code) \cup {1} THEN "instr" ELSE "noLabel"

Running(part) == step = part /\ at \in Local
Ins == code[at]

(* The address a register jump reads only after its delay slot. *)
ReadsLate(ins) == ins.op = "jalr" \/ (ins.op = "jr" /\ ins.reg = "t")
Target == IF ReadsLate(Ins) THEN regs.t ELSE jump

Leave(by, target) == step' = "left" /\ left' = [by |-> by, target |-> target]

(* emit_tailcall_by_address, and by_function: a return if the caller waits *)
(* for that address.                                                       *)
LeaveFor(target) == Leave(IF target = HostReturn THEN "return" ELSE "tailcall", target)

-----------------------------------------------------------------------------
Init ==
  /\ code \in Codes
  /\ at = EntryVram
  /\ step = "entry"
  /\ jump = NoAddress
  /\ regs \in Registers
  /\ dispatch \in {NoAddress} \cup (IF Entries = {} THEN {} ELSE Local)
  /\ left = [by |-> "none", target |-> NoAddress]
  /\ yielded = FALSE

(* The function is entered at its entry, or at a dispatch entry. *)
Enter ==
  /\ step = "entry" /\ dispatch = NoAddress
  /\ Goto(EntryVram)
  /\ UNCHANGED <<code, jump, regs, dispatch, left, yielded>>

(* Faulty variant: the dispatch entry is not cleared.                      *)
FaultyEnterAt ==
  /\ step = "entry" /\ dispatch \in Entries
  /\ Goto(dispatch)
  /\ UNCHANGED <<code, jump, regs, dispatch, left, yielded>>

EnterAt ==
  /\ step = "entry" /\ dispatch \in Entries
  /\ Goto(dispatch)
  /\ dispatch' = NoAddress
  /\ UNCHANGED <<code, jump, regs, left, yielded>>

(* Faulty variant: an unknown entry runs the function from its start.      *)
FaultyReject ==
  /\ step = "entry" /\ dispatch # NoAddress /\ dispatch \notin Entries
  /\ dispatch' = NoAddress
  /\ Goto(EntryVram)
  /\ UNCHANGED <<code, jump, regs, left, yielded>>

Reject ==
  /\ step = "entry" /\ dispatch # NoAddress /\ dispatch \notin Entries
  /\ step' = "rejected"
  /\ at' = dispatch                       (* dispatch_entry_rejected_target *)
  /\ dispatch' = NoAddress
  /\ UNCHANGED <<code, jump, regs, left, yielded>>

-----------------------------------------------------------------------------
PlainInstr ==
  /\ Running("instr") /\ Ins.op = "plain"
  /\ regs' \in Effects(Ins, regs)
  /\ at' = at + 1
  /\ yielded' = FALSE
  /\ UNCHANGED <<code, step, jump, dispatch, left>>

(* A branch to itself waits for ever and never gets to its delay slot.     *)
WaitsForever(ins) == ins.op = "branch" /\ ~ins.cond /\ ~ins.link /\ ins.target = at

Pause ==
  /\ Running("instr") /\ WaitsForever(Ins)
  /\ step' = "paused"
  /\ yielded' = FALSE
  /\ UNCHANGED <<code, at, jump, regs, dispatch, left>>

(* A call nothing can be found for: the runtime aborts before the slot.    *)
CallsHole(ins) == Links(ins) /\ ins.op # "jalr" /\ ins.target \in Unresolved

(* What a transfer computes before its delay slot. *)
Decided(ins) ==
  CASE ins.op \in {"branch", "jal"}           -> {ins.target}
    [] ins.op = "switch"                      -> ins.entries
    [] ins.op = "jr" /\ ins.reg = "ra"        -> {regs.ra}
    [] OTHER                                  -> {NoAddress}

Transfer ==
  /\ Running("instr") /\ Transfers(Ins) /\ ~WaitsForever(Ins)
  /\ jump' \in Decided(Ins)
  /\ regs' = Linked(Ins, at, regs)
  /\ step' = IF CallsHole(Ins) THEN "callHole" ELSE "slot"
  /\ yielded' = FALSE
  /\ UNCHANGED <<code, at, dispatch, left>>

(* The `if' is not entered; `goto skip_N' passes a likely branch's slot.   *)
NotTaken ==
  /\ Running("instr") /\ Ins.op = "branch" /\ Ins.cond
  /\ regs' = Linked(Ins, at, regs)
  /\ at' = IF Ins.likely THEN at + 2 ELSE at + 1
  /\ yielded' = FALSE
  /\ UNCHANGED <<code, step, jump, dispatch, left>>

DelaySlot ==
  /\ Running("slot")
  /\ regs' \in Effects(code[at + 1], regs)
  /\ step' = "go"
  /\ yielded' = FALSE
  /\ UNCHANGED <<code, at, jump, dispatch, left>>

-----------------------------------------------------------------------------
(* Where a transfer goes on within the function: a target in the function, *)
(* for a jr $ra only if it has a label.                                    *)
StaysHere(ins) ==
  CASE ins.op \in {"branch", "jal", "switch"} -> jump \in Local
    [] ins.op = "jr" /\ ins.reg = "ra"        -> jump \in Labels(code)
    [] OTHER                                  -> FALSE

(* Faulty variant: only a branch to an earlier address is a back-edge.     *)
FaultyChecked(ins) == ins.op = "branch" /\ jump < at

(* emit_branch_tree's RECOMP_LOOP_CHECKPOINT_VRAM. *)
Checked(ins) == ins.op = "branch" /\ jump <= at

GoHere ==
  /\ Running("go") /\ StaysHere(Ins)
  /\ Goto(jump)
  /\ yielded' = Checked(Ins)
  /\ UNCHANGED <<code, jump, regs, dispatch, left>>

Call ==
  /\ Running("go") /\ Links(Ins) /\ ~StaysHere(Ins)
  /\ step' = "away"
  /\ yielded' = FALSE
  /\ UNCHANGED <<code, at, jump, regs, dispatch, left>>

(* The callee has returned; `goto after_N' passes the delay slot. *)
Returned ==
  /\ Running("away")
  /\ at' = at + 2
  /\ step' = "instr"
  /\ regs' \in {[regs EXCEPT !.t = v] : v \in TValues}
  /\ UNCHANGED <<code, jump, dispatch, left, yielded>>

(* jr $ra: host_return_target tells a return from a tail call. *)
JumpAway ==
  /\ Running("go") /\ ~Links(Ins) /\ ~StaysHere(Ins)
  /\ IF Ins.op = "branch" /\ jump \in Unresolved
       THEN step' = "branchHole" /\ UNCHANGED left
       ELSE IF ReadsLate(Ins) THEN Leave("tailcall", Target)
                              ELSE LeaveFor(Target)
  /\ yielded' = FALSE
  /\ UNCHANGED <<code, at, jump, regs, dispatch>>

(* function_end_allows_fallthrough *)
FallsThrough(c) ==
  IF N >= 2 /\ Transfers(c[N - 1])
    THEN \/ Links(c[N - 1])
         \/ c[N - 1].op = "branch" /\ c[N - 1].cond
    ELSE TRUE

(* After the last instruction: on to the next function, or out of this one *)
(* as if it had returned.                                                  *)
RunOff ==
  /\ step = "instr" /\ at = After
  /\ IF FallsThrough(code) /\ NextCallable THEN LeaveFor(After)
                                           ELSE Leave("return", HostReturn)
  /\ yielded' = FALSE
  /\ UNCHANGED <<code, at, jump, regs, dispatch>>

(* Bodies whose translation can follow the guest: no delay slot writes the *)
(* register its own jump still reads, or the $ra a call is about to give   *)
(* its callee; and control that gets past the last word finds a function.  *)
KeepsTarget(c) ==
  \A i \in Local :
    Transfers(c[i]) => /\ ReadsLate(c[i]) => c[i + 1].writes # "t"
                       /\ Links(c[i]) => c[i + 1].writes # "ra"
EndIsFollowed(c) ==
  IF FallsThrough(c) THEN NextCallable ELSE N \notin Labels(c)

Next ==
  \/ Enter \/ EnterAt \/ Reject
  \/ PlainInstr \/ Pause \/ Transfer \/ NotTaken \/ DelaySlot
  \/ GoHere \/ Call \/ Returned \/ JumpAway \/ RunOff

Spec == Init /\ [][Next]_vars
(* The host runs generated code, and the functions it calls, without end.  *)
FairSpec == Spec /\ WF_vars(Next)

-----------------------------------------------------------------------------
Steps == {"entry", "instr", "slot", "go", "away", "left", "rejected", "paused",
          "callHole", "branchHole", "noLabel"}

(* The registers hold addresses, control is at an instruction or just      *)
(* after the last, and no code runs with a dispatch entry pending, which a *)
(* function called from it would take for its own.                         *)
TypeOK ==
  /\ Translatable(code)
  /\ at \in Local \cup {After}
  /\ step \in Steps
  /\ jump \in {NoAddress} \cup Addresses
  /\ regs \in Registers
  /\ dispatch \in {NoAddress} \cup Local
  /\ step # "entry" => dispatch = NoAddress
  /\ left \in [by : {"none", "return", "tailcall"}, target : {NoAddress} \cup Addresses]
  /\ yielded \in BOOLEAN

(* Every goto has its label, so the function compiles and no transfer      *)
(* within it is lost (pass one against pass two).                          *)
NoMissingLabel == step # "noLabel"

(* A local jr $ra to the return address of a call of this function resumes *)
(* there; it is never handed to the dispatcher as a tail call, which would *)
(* enter the function anew (pass one's link labels).                       *)
ReturnsStayLocal ==
  left.by = "tailcall" =>
    \A i \in Local : Links(code[i]) /\ i + 2 \in Local => left.target # i + 2

(* The guest's pc, pending transfer and registers at each point of the C.  *)
PC ==
  CASE step = "entry"                        -> IF dispatch = NoAddress THEN EntryVram ELSE dispatch
    [] step \in {"slot", "callHole"}         -> at + 1
    [] step \in {"go", "away", "branchHole"} -> Target
    [] step = "left"                         -> left.target
    [] OTHER                                 -> at

Pending == IF step \in {"slot", "callHole"} THEN Target ELSE NoAddress

Guest == INSTANCE MipsFunction WITH pc <- PC, pending <- Pending

(* The emitted function executes the instructions the CPU would, in the    *)
(* CPU's order, and leaves with the guest where the CPU would be.          *)
FollowsGuest == Guest!MSpec

(* A loop that stays in the function passes a checkpoint again and again   *)
(* (RECOMP_LOOP_CHECKPOINT), when only branches can close one: a jump      *)
(* table, a jal into the function and a local jr $ra have no checkpoint.   *)
Inside == step \in {"instr", "slot", "go"}
OnlyBranchesLoop(c) ==
  \A i \in Local : /\ c[i].op = "jal" => c[i].target \notin Local
                  /\ c[i].op # "switch" /\ c[i] # Jr("ra")
LoopsYield == OnlyBranchesLoop(code) => []<>(yielded \/ ~Inside)
=============================================================================
