------------------------- MODULE FunctionBodyProofs -------------------------
(***************************************************************************)
(* The translation of one function for every body, every entry and every   *)
(* set of requested statics: the emitted C compiles, keeps its types and,  *)
(* for the bodies FunctionBody names, does what the CPU does.              *)
(***************************************************************************)
EXTENDS FunctionBody, TLAPS

InTransfer == step \in {"slot", "go", "away", "callHole", "branchHole"}

(* What a transfer under way has decided. *)
JumpDecided ==
  /\ at \in Local /\ at < N /\ Transfers(Ins)
  /\ Ins.op \in {"branch", "jal"} => jump = Ins.target
  /\ Ins.op = "switch" => jump \in Ins.entries
  /\ Ins.op = "jr" /\ Ins.reg = "ra" => jump \in Addresses

IInv ==
  /\ TypeOK
  /\ code \in Codes
  /\ InTransfer => JumpDecided
  /\ step = "entry" => at = EntryVram
  /\ NoMissingLabel
  /\ ReturnsStayLocal

-----------------------------------------------------------------------------
(* The shapes of the instructions. *)
LEMMA Shapes ==
  ASSUME NEW ins \in Instructions
  PROVE  /\ ins.op \in {"plain", "branch", "jal", "jr", "jalr", "switch"}
         /\ ins.op = "plain" => ins.writes \in {"none", "ra", "t"}
         /\ ins.op = "branch" => /\ ins.target \in Addresses
                                 /\ ins.cond \in BOOLEAN /\ ins.likely \in BOOLEAN
                                 /\ ins.link \in BOOLEAN
         /\ ins.op = "jal" => ins.target \in Addresses
         /\ ins.op = "jr" => ins.reg \in {"ra", "t"}
         /\ ins.op = "switch" => ins.entries \subseteq Local
<1>1. CASE ins \in {Plain(reg) : reg \in {"none", "ra", "t"}}
  BY <1>1 DEF Plain
<1>2. CASE ins \in {Branch(cond, likely, link, target) :
            cond \in BOOLEAN, likely \in BOOLEAN, link \in BOOLEAN, target \in Addresses}
  BY <1>2 DEF Branch
<1>3. CASE ins \in {Jal(target) : target \in Addresses}
  BY <1>3 DEF Jal
<1>4. CASE ins \in {Jr(reg) : reg \in {"ra", "t"}}
  BY <1>4 DEF Jr
<1>5. CASE ins \in {Jalr}
  BY <1>5 DEF Jalr
<1>6. CASE ins \in {Switch(entries) : entries \in SUBSET Local}
  BY <1>6 DEF Switch
<1>7. QED
  BY <1>1, <1>2, <1>3, <1>4, <1>5, <1>6 DEF Instructions

LEMMA InstrShape ==
  ASSUME NEW c \in Codes, NEW a \in Local
  PROVE  c[a] \in Instructions
BY CodeAssumption DEF Bodies

LEMMA SlotShape ==
  ASSUME NEW c \in Codes, NEW a \in Local, Transfers(c[a])
  PROVE  a < N /\ a + 1 \in Local /\ c[a + 1].op = "plain"
BY CodeAssumption, BodyAssumption DEF Local, Translatable

LEMMA Arithmetic ==
  /\ N \in Nat \ {0} /\ 1 \in Local /\ After \notin Local
  /\ Local \subseteq Addresses /\ After \in Addresses /\ Elsewhere \subseteq Addresses
  /\ Elsewhere \cap Local = {} /\ After \notin Elsewhere
  /\ NoAddress \notin Addresses
  /\ \A a \in Local : a + 1 \in Local \cup {After}
  /\ \A a \in Local : a < N => a + 2 \in Local \cup {After}
BY CodeAssumption DEF Local, After, Addresses, NoAddress

LEMMA EffectsTyped ==
  ASSUME NEW ins \in Instructions, NEW r \in Registers, NEW r2 \in Effects(ins, r)
  PROVE  r2 \in Registers
BY CodeAssumption DEF Effects, Registers

LEMMA LinkedTyped ==
  ASSUME NEW ins \in Instructions, NEW r \in Registers, NEW a \in Local, a < N
  PROVE  Linked(ins, a, r) \in Registers
BY Arithmetic DEF Linked, Registers, Addresses

LEMMA EntryLabels ==
  ASSUME NEW c
  PROVE  /\ EntryVram \in Labels(c) \cup {1}
         /\ Entries \subseteq Labels(c) /\ Entries \subseteq Local
<1>1. Entries \subseteq Local /\ 1 \notin Entries
  BY BodyAssumption, CodeAssumption DEF Local
<1>2. QED
  BY <1>1, BodyAssumption DEF Labels

-----------------------------------------------------------------------------
LEMMA InitIInv == Init => IInv
<1> SUFFICES ASSUME Init PROVE IInv
  OBVIOUS
<1>1. TypeOK
  BY BodyAssumption, CodeAssumption DEF Init, TypeOK, Steps, Addresses
<1>2. QED
  BY <1>1 DEF Init, IInv, InTransfer, NoMissingLabel, ReturnsStayLocal

LEMMA NextIInv == IInv /\ [Next]_vars => IInv'
<1> SUFFICES ASSUME IInv, [Next]_vars PROVE IInv'
  OBVIOUS
<1>t. TypeOK /\ code \in Codes /\ NoMissingLabel /\ ReturnsStayLocal
  BY DEF IInv
<1>1. CASE Enter
  <2>1. step' = "instr" /\ at' = EntryVram
    BY <1>1, EntryLabels DEF Enter, Goto
  <2>2. TypeOK'
    BY <1>1, <1>t, <2>1, BodyAssumption DEF Enter, TypeOK, Steps
  <2>3. QED
    BY <1>1, <1>t, <2>1, <2>2 DEF Enter, IInv, InTransfer, NoMissingLabel, ReturnsStayLocal
<1>2. CASE EnterAt
  <2>1. step' = "instr" /\ at' = dispatch /\ dispatch \in Local
    BY <1>2, EntryLabels DEF EnterAt, Goto
  <2>2. TypeOK'
    BY <1>2, <1>t, <2>1 DEF EnterAt, TypeOK, Steps
  <2>3. QED
    BY <1>2, <1>t, <2>1, <2>2 DEF EnterAt, IInv, InTransfer, NoMissingLabel, ReturnsStayLocal
<1>3. CASE Reject
  <2>1. TypeOK'
    BY <1>3, <1>t DEF Reject, TypeOK, Steps
  <2>2. QED
    BY <1>3, <1>t, <2>1 DEF Reject, IInv, InTransfer, NoMissingLabel, ReturnsStayLocal
<1>4. CASE PlainInstr
  <2>1. regs' \in Registers
    BY <1>4, <1>t, InstrShape, EffectsTyped DEF PlainInstr, Running, Ins, TypeOK
  <2>2. at' \in Local \cup {After}
    BY <1>4, Arithmetic DEF PlainInstr, Running
  <2>3. TypeOK'
    BY <1>4, <1>t, <2>1, <2>2 DEF PlainInstr, Running, TypeOK
  <2>4. QED
    BY <1>4, <1>t, <2>3 DEF PlainInstr, Running, IInv, InTransfer, NoMissingLabel, ReturnsStayLocal
<1>5. CASE Pause
  <2>1. TypeOK'
    BY <1>5, <1>t DEF Pause, Running, TypeOK, Steps
  <2>2. QED
    BY <1>5, <1>t, <2>1 DEF Pause, IInv, InTransfer, NoMissingLabel, ReturnsStayLocal
<1>6. CASE Transfer
  <2>1. at \in Local /\ Ins \in Instructions /\ at < N /\ Transfers(Ins)
    BY <1>6, <1>t, InstrShape, SlotShape DEF Transfer, Running, Ins
  <2>2. regs' \in Registers
    BY <1>6, <1>t, <2>1, LinkedTyped DEF Transfer, TypeOK
  <2>3. /\ jump' \in {NoAddress} \cup Addresses
        /\ Ins.op \in {"branch", "jal"} => jump' = Ins.target
        /\ Ins.op = "switch" => jump' \in Ins.entries
        /\ Ins.op = "jr" /\ Ins.reg = "ra" => jump' \in Addresses
    <3>1. regs.ra \in Addresses
      BY <1>t DEF TypeOK, Registers
    <3>2. jump' \in Decided(Ins)
      BY <1>6 DEF Transfer
    <3>3. QED
      BY <2>1, <3>1, <3>2, Shapes, Arithmetic DEF Decided
  <2>4. TypeOK'
    BY <1>6, <1>t, <2>2, <2>3 DEF Transfer, Running, TypeOK, Steps
  <2>5. JumpDecided'
    BY <1>6, <2>1, <2>3 DEF Transfer, JumpDecided, Ins
  <2>6. step' \in {"slot", "callHole"}
    BY <1>6 DEF Transfer
  <2>7. QED
    BY <1>6, <1>t, <2>4, <2>5, <2>6 DEF Transfer, IInv, NoMissingLabel, ReturnsStayLocal
<1>7. CASE NotTaken
  <2>1. at \in Local /\ Ins \in Instructions /\ at < N
    BY <1>7, <1>t, InstrShape, SlotShape DEF NotTaken, Running, Ins, Transfers
  <2>2. regs' \in Registers
    BY <1>7, <1>t, <2>1, LinkedTyped DEF NotTaken, TypeOK
  <2>3. at' \in Local \cup {After}
    BY <1>7, <2>1, Arithmetic DEF NotTaken
  <2>4. TypeOK'
    BY <1>7, <1>t, <2>2, <2>3 DEF NotTaken, Running, TypeOK
  <2>5. QED
    BY <1>7, <1>t, <2>4 DEF NotTaken, Running, IInv, InTransfer, NoMissingLabel, ReturnsStayLocal
<1>8. CASE DelaySlot
  <2>1. JumpDecided
    BY <1>8 DEF DelaySlot, Running, IInv, InTransfer
  <2>2. code[at + 1] \in Instructions
    BY <1>t, <2>1, InstrShape, SlotShape DEF JumpDecided, Ins
  <2>3. regs' \in Registers
    BY <1>8, <1>t, <2>2, EffectsTyped DEF DelaySlot, TypeOK
  <2>4. TypeOK'
    BY <1>8, <1>t, <2>3 DEF DelaySlot, Running, TypeOK, Steps
  <2>5. JumpDecided'
    BY <1>8, <2>1 DEF DelaySlot, JumpDecided, Ins
  <2>6. QED
    BY <1>8, <1>t, <2>4, <2>5 DEF DelaySlot, IInv, NoMissingLabel, ReturnsStayLocal
<1>9. CASE GoHere
  <2>1. JumpDecided
    BY <1>9 DEF GoHere, Running, IInv, InTransfer
  <2>2. Ins \in Instructions
    BY <1>t, <2>1, InstrShape DEF JumpDecided, Ins
  <2>3. jump \in Labels(code) \cup {1} /\ jump \in Local
    <3>1. CASE Ins.op \in {"branch", "jal"}
      BY <1>9, <2>1, <3>1 DEF GoHere, StaysHere, JumpDecided, Labels, BranchTargets, SwitchTargets, Ins
    <3>2. CASE Ins.op = "switch"
      BY <1>9, <2>1, <3>2 DEF GoHere, StaysHere, JumpDecided, Labels, BranchTargets, SwitchTargets, Ins
    <3>3. CASE Ins.op \in {"jr", "jalr"}
      BY <1>9, <3>3 DEF GoHere, StaysHere, Labels
    <3>4. QED
      BY <2>1, <2>2, <3>1, <3>2, <3>3, Shapes DEF JumpDecided, Transfers
  <2>4. step' = "instr" /\ at' = jump
    BY <1>9, <2>3 DEF GoHere, Goto
  <2>5. yielded' \in BOOLEAN
    BY <1>9 DEF GoHere, Checked
  <2>6. TypeOK'
    BY <1>9, <1>t, <2>3, <2>4, <2>5 DEF GoHere, Running, TypeOK, Steps
  <2>7. QED
    BY <1>9, <1>t, <2>4, <2>6 DEF GoHere, IInv, InTransfer, NoMissingLabel, ReturnsStayLocal
<1>10. CASE Call
  <2>1. JumpDecided
    BY <1>10 DEF Call, Running, IInv, InTransfer
  <2>2. TypeOK'
    BY <1>10, <1>t DEF Call, Running, TypeOK, Steps
  <2>3. JumpDecided'
    BY <1>10, <2>1 DEF Call, JumpDecided, Ins
  <2>4. QED
    BY <1>10, <1>t, <2>2, <2>3 DEF Call, IInv, NoMissingLabel, ReturnsStayLocal
<1>11. CASE Returned
  <2>1. JumpDecided
    BY <1>11 DEF Returned, Running, IInv, InTransfer
  <2>2. at' \in Local \cup {After}
    BY <1>11, <2>1, Arithmetic DEF Returned, JumpDecided
  <2>3. regs' \in Registers
    BY <1>11, <1>t DEF Returned, TypeOK, Registers
  <2>4. TypeOK'
    BY <1>11, <1>t, <2>2, <2>3 DEF Returned, Running, TypeOK, Steps
  <2>5. QED
    BY <1>11, <1>t, <2>4 DEF Returned, IInv, InTransfer, NoMissingLabel, ReturnsStayLocal
<1>12. CASE JumpAway
  <2>1. JumpDecided
    BY <1>12 DEF JumpAway, Running, IInv, InTransfer
  <2>2. Ins \in Instructions
    BY <1>t, <2>1, InstrShape DEF JumpDecided, Ins
  <2>3. /\ Target \in Addresses
        /\ \A i \in Local : Links(code[i]) /\ i + 2 \in Local => Target # i + 2
    <3>1. CASE ReadsLate(Ins)
      BY <1>t, <3>1, Arithmetic, CodeAssumption DEF Target, TypeOK, Registers
    <3>2. CASE Ins.op \in {"branch", "jal", "switch"}
      BY <1>12, <2>1, <2>2, <3>2, Shapes, Arithmetic
      DEF Target, ReadsLate, JumpAway, StaysHere, JumpDecided
    <3>3. CASE Ins.op = "jr" /\ Ins.reg = "ra"
      <4>1. Target = jump /\ jump \in Addresses /\ jump \notin Labels(code)
        BY <1>12, <2>1, <3>3 DEF Target, ReadsLate, JumpAway, StaysHere, JumpDecided
      <4>2. \A i \in Local : Links(code[i]) /\ i + 2 \in Local => i + 2 \in Labels(code)
        BY CodeAssumption DEF Labels, ReturnAddresses, Local
      <4>3. QED
        BY <4>1, <4>2
    <3>4. QED
      BY <2>1, <2>2, <3>1, <3>2, <3>3, Shapes DEF JumpDecided, Transfers, ReadsLate
  <2>4. CASE step' = "branchHole" /\ UNCHANGED left
    <3>1. TypeOK'
      BY <1>12, <1>t, <2>4 DEF JumpAway, Running, TypeOK, Steps
    <3>2. JumpDecided'
      BY <1>12, <2>1 DEF JumpAway, JumpDecided, Ins
    <3>3. QED
      BY <1>12, <1>t, <2>4, <3>1, <3>2 DEF JumpAway, IInv, NoMissingLabel, ReturnsStayLocal
  <2>5. CASE /\ step' = "left"
             /\ left' \in [by : {"return", "tailcall"}, target : {Target}]
    <3>1. TypeOK'
      BY <1>12, <1>t, <2>3, <2>5 DEF JumpAway, Running, TypeOK, Steps
    <3>2. ReturnsStayLocal'
      BY <1>12, <2>3, <2>5 DEF JumpAway, ReturnsStayLocal
    <3>3. QED
      BY <1>12, <1>t, <2>5, <3>1, <3>2 DEF JumpAway, IInv, InTransfer, NoMissingLabel
  <2>6. QED
    BY <1>12, <2>4, <2>5 DEF JumpAway, LeaveFor, Leave
<1>13. CASE RunOff
  <2>1. /\ step' = "left"
        /\ left' \in [by : {"return", "tailcall"}, target : {After, HostReturn}]
        /\ left'.by = "tailcall" => left'.target = After
    BY <1>13 DEF RunOff, LeaveFor, Leave
  <2>2. TypeOK'
    BY <1>13, <1>t, <2>1, Arithmetic, BodyAssumption DEF RunOff, TypeOK, Steps
  <2>3. ReturnsStayLocal'
    BY <1>13, <2>1, Arithmetic DEF RunOff, ReturnsStayLocal
  <2>4. QED
    BY <1>13, <1>t, <2>1, <2>2, <2>3 DEF RunOff, IInv, InTransfer, NoMissingLabel
<1>14. CASE UNCHANGED vars
  BY <1>14 DEF vars, IInv, TypeOK, InTransfer, JumpDecided, Ins, NoMissingLabel, ReturnsStayLocal
<1>15. QED
  BY <1>1, <1>2, <1>3, <1>4, <1>5, <1>6, <1>7, <1>8, <1>9, <1>10, <1>11, <1>12, <1>13, <1>14
  DEF Next

(* The inductive invariant holds in every reachable state.                 *)
THEOREM Invariance == Spec => []IInv
BY InitIInv, NextIInv, PTL DEF Spec

(* The emitted function keeps its types and consumes its dispatch entry    *)
(* before it runs any code (recompile_function_impl).                      *)
THEOREM TypeCorrect == Spec => []TypeOK
<1>1. IInv => TypeOK
  BY DEF IInv
<1>2. QED
  BY <1>1, Invariance, PTL

(* Pass one emits a label for every goto of pass two.                      *)
THEOREM LabelsEmitted == Spec => []NoMissingLabel
<1>1. IInv => NoMissingLabel
  BY DEF IInv
<1>2. QED
  BY <1>1, Invariance, PTL

(* A jr $ra to a return address of this function's own calls is a goto.    *)
THEOREM LocalReturns == Spec => []ReturnsStayLocal
<1>1. IInv => ReturnsStayLocal
  BY DEF IInv
<1>2. QED
  BY <1>1, Invariance, PTL

-----------------------------------------------------------------------------
(* Refinement.  RInv is what a step of the guest's CPU needs to know        *)
(* beyond IInv, when the bodies keep their targets and are followed by a    *)
(* function if control can get to their end.                                *)
Followable == \A c \in Codes : KeepsTarget(c) /\ EndIsFollowed(c)

RInv ==
  /\ InTransfer /\ Links(Ins) => regs.ra = at + 2
  /\ step = "away" => Links(Ins) /\ ~StaysHere(Ins)
  /\ step = "instr" /\ at \in {N, After} => FallsThrough(code)

LEMMA TargetTyped ==
  ASSUME IInv, InTransfer
  PROVE  Target \in Addresses
<1>1. JumpDecided /\ TypeOK /\ Ins \in Instructions
  BY InstrShape DEF IInv, JumpDecided, Ins
<1>2. CASE ReadsLate(Ins)
  BY <1>1, <1>2, Arithmetic, CodeAssumption DEF Target, TypeOK, Registers
<1>3. CASE ~ReadsLate(Ins)
  BY <1>1, <1>3, Shapes, Arithmetic DEF Target, ReadsLate, JumpDecided, Transfers
<1>4. QED
  BY <1>2, <1>3

(* A slot's copy leaves alone what its transfer still needs. *)
LEMMA SlotKeeps ==
  ASSUME Followable, NEW c \in Codes, NEW a \in Local, Transfers(c[a]),
         NEW r \in Registers, NEW r2 \in Effects(c[a + 1], r)
  PROVE  /\ ReadsLate(c[a]) => r2.t = r.t
         /\ Links(c[a]) => r2.ra = r.ra
<1>1. KeepsTarget(c) /\ c[a + 1] \in Instructions /\ c[a + 1].op = "plain"
  BY SlotShape, InstrShape DEF Followable
<1>2. c[a + 1].writes \in {"none", "ra", "t"}
  BY <1>1, Shapes
<1>3. QED
  BY <1>1, <1>2 DEF KeepsTarget, Effects, Registers

(* Control gets to the last word by a label only in a body that lets it    *)
(* fall through.                                                           *)
LEMMA LabelledEnd ==
  ASSUME Followable, NEW c \in Codes, NEW a \in (Labels(c) \cup {1}) \cap Local,
         a \in {N, After}
  PROVE  FallsThrough(c)
<1>1. a = N
  BY CodeAssumption DEF Local, After
<1>2. CASE N = 1
  BY <1>2 DEF FallsThrough
<1>3. CASE N # 1
  BY <1>1, <1>3 DEF Followable, EndIsFollowed
<1>4. QED
  BY <1>2, <1>3

(* Or past a transfer that falls through, or past the slot of an earlier   *)
(* one.                                                                    *)
LEMMA PastTransfer ==
  ASSUME NEW c \in Codes, NEW a \in Local, Transfers(c[a]),
         Links(c[a]) \/ (c[a].op = "branch" /\ c[a].cond),
         NEW next \in {a + 1, a + 2}, next \in {N, After}
  PROVE  FallsThrough(c)
<1>1. a < N /\ a + 1 \in Local /\ ~Transfers(c[a + 1])
  BY SlotShape DEF Transfers
<1>2. N \in Nat /\ a \in Nat /\ (a = N - 1 \/ a = N - 2)
  BY <1>1, CodeAssumption DEF Local, After
<1>3. CASE a = N - 1
  BY <1>3 DEF FallsThrough
<1>4. CASE a = N - 2
  <2>1. N - 1 = a + 1
    BY <1>2, <1>4
  <2>2. QED
    BY <1>1, <2>1 DEF FallsThrough
<1>5. QED
  BY <1>2, <1>3, <1>4

LEMMA InitRInv == Followable /\ Init => RInv
BY DEF Init, RInv, InTransfer

LEMMA NextRInv == Followable /\ IInv /\ IInv' /\ RInv /\ [Next]_vars => RInv'
<1> SUFFICES ASSUME Followable, IInv, IInv', RInv, [Next]_vars PROVE RInv'
  OBVIOUS
<1>t. TypeOK /\ code \in Codes /\ at \in Local \cup {After} /\ N \in Nat \ {0}
  BY CodeAssumption DEF IInv, TypeOK
<1>1. CASE Enter
  BY <1>1, <1>t, EntryLabels, LabelledEnd, BodyAssumption DEF Enter, Goto, RInv, InTransfer, FallsThrough
<1>2. CASE EnterAt
  BY <1>2, <1>t, EntryLabels, LabelledEnd DEF EnterAt, Goto, RInv, InTransfer, FallsThrough
<1>3. CASE Reject
  BY <1>3 DEF Reject, RInv, InTransfer
<1>4. CASE PlainInstr
  <2>1. at' = N => FallsThrough(code)
    BY <1>4, <1>t DEF PlainInstr, Running, Ins, FallsThrough, Transfers, Local
  <2>2. at' = After => FallsThrough(code)
    BY <1>4, <1>t DEF PlainInstr, Running, RInv, Local, After
  <2>3. QED
    BY <1>4, <2>1, <2>2 DEF PlainInstr, Running, RInv, InTransfer, FallsThrough
<1>5. CASE Pause
  BY <1>5 DEF Pause, RInv, InTransfer
<1>6. CASE Transfer
  <2>1. step' \in {"slot", "callHole"}
    BY <1>6 DEF Transfer
  <2>2. Links(Ins) => regs'.ra = at + 2
    BY <1>6, <1>t DEF Transfer, Linked, TypeOK, Registers
  <2>3. QED
    BY <1>6, <2>1, <2>2 DEF Transfer, RInv, Ins
<1>7. CASE NotTaken
  <2>1. at \in Local /\ at < N /\ Transfers(code[at]) /\ Ins.op = "branch" /\ Ins.cond
    BY <1>7, <1>t, SlotShape DEF NotTaken, Running, Ins, Transfers
  <2>2. at' = at + 1 \/ at' = at + 2
    BY <1>7 DEF NotTaken
  <2>3. at' \in {N, After} => FallsThrough(code)
    BY <1>t, <2>1, <2>2, PastTransfer DEF Ins
  <2>4. QED
    BY <1>7, <2>3 DEF NotTaken, Running, RInv, InTransfer, FallsThrough
<1>8. CASE DelaySlot
  <2>1. JumpDecided
    BY <1>8 DEF DelaySlot, Running, IInv, InTransfer
  <2>2. Links(Ins) => regs'.ra = regs.ra
    BY <1>8, <1>t, <2>1, SlotKeeps DEF DelaySlot, JumpDecided, Ins, TypeOK
  <2>3. QED
    BY <1>8, <2>2 DEF DelaySlot, Running, RInv, InTransfer, Ins
<1>9. CASE GoHere
  <2>1. step' = "instr" /\ at' = jump /\ jump \in (Labels(code) \cup {1}) \cap Local
    <3>1. step' # "noLabel"
      BY DEF IInv, NoMissingLabel
    <3>2. step' = "instr" /\ at' = jump /\ jump \in Labels(code) \cup {1}
      BY <1>9, <3>1 DEF GoHere, Goto
    <3>3. Labels(code) \cup {1} \subseteq Local
      BY CodeAssumption DEF Labels, Local
    <3>4. QED
      BY <3>2, <3>3
  <2>2. at' \in {N, After} => FallsThrough(code)
    BY <1>t, <2>1, LabelledEnd
  <2>3. QED
    BY <1>9, <2>1, <2>2 DEF GoHere, RInv, InTransfer, FallsThrough
<1>10. CASE Call
  BY <1>10 DEF Call, Running, RInv, InTransfer, Ins, StaysHere, Labels, BranchTargets, SwitchTargets, ReturnAddresses
<1>11. CASE Returned
  <2>1. JumpDecided /\ Links(code[at])
    BY <1>11 DEF Returned, Running, IInv, InTransfer, RInv, Ins
  <2>2. at' \in {N, After} => FallsThrough(code)
    <3>1. at \in Local /\ Transfers(code[at]) /\ at' = at + 2
      BY <1>11, <2>1 DEF Returned, JumpDecided, Ins
    <3>2. QED
      BY <1>t, <2>1, <3>1, PastTransfer
  <2>3. QED
    BY <1>11, <2>2 DEF Returned, RInv, InTransfer, FallsThrough
<1>12. CASE JumpAway
  BY <1>12 DEF JumpAway, LeaveFor, Leave, RInv, InTransfer, Ins
<1>13. CASE RunOff
  BY <1>13 DEF RunOff, LeaveFor, Leave, RInv, InTransfer
<1>14. CASE UNCHANGED vars
  BY <1>14 DEF vars, RInv, InTransfer, Ins, StaysHere, Labels, BranchTargets, SwitchTargets,
               ReturnAddresses, FallsThrough
<1>15. QED
  BY <1>1, <1>2, <1>3, <1>4, <1>5, <1>6, <1>7, <1>8, <1>9, <1>10, <1>11, <1>12, <1>13, <1>14
  DEF Next

-----------------------------------------------------------------------------
(* The CPU's module reads the code as this one does. *)
LEMMA SameReading ==
  /\ Guest!Local = Local /\ Guest!After = After /\ Guest!NoAddress = NoAddress
  /\ Guest!Registers = Registers /\ Guest!Bodies = Bodies
  /\ \A ins, r : Guest!Effects(ins, r) = Effects(ins, r)
  /\ \A ins, a, r : Guest!Linked(ins, a, r) = Linked(ins, a, r)
  /\ \A ins : Guest!Transfers(ins) <=> Transfers(ins)
<1>1. Guest!Local = Local /\ Guest!After = After /\ Guest!NoAddress = NoAddress
  BY DEF Guest!Local, Local, Guest!After, After, Guest!NoAddress, NoAddress
<1>2. Guest!Addresses = Addresses
  BY <1>1 DEF Guest!Addresses, Addresses
<1>3. Guest!Registers = Registers
  BY <1>2 DEF Guest!Registers, Registers
<1>4. Guest!Instructions = Instructions
  BY <1>1, <1>2 DEF Guest!Instructions, Instructions, Guest!Plain, Plain, Guest!Branch, Branch,
     Guest!Jal, Jal, Guest!Jr, Jr, Guest!Jalr, Jalr, Guest!Switch, Switch
<1>5. Guest!Bodies = Bodies
  BY <1>1, <1>4 DEF Guest!Bodies, Bodies
<1>6. \A ins, r : Guest!Effects(ins, r) = Effects(ins, r)
  BY DEF Guest!Effects, Effects
<1>7. \A ins, a, r : Guest!Linked(ins, a, r) = Linked(ins, a, r)
  BY DEF Guest!Linked, Linked, Guest!Links, Links
<1>8. \A ins : Guest!Transfers(ins) <=> Transfers(ins)
  BY DEF Guest!Transfers, Transfers
<1>9. QED
  BY <1>1, <1>3, <1>5, <1>6, <1>7, <1>8

LEMMA InitSimulates == Init => Guest!MInit
<1> SUFFICES ASSUME Init PROVE Guest!MInit
  OBVIOUS
<1>1. PC \in Local /\ Pending = NoAddress
  BY BodyAssumption DEF Init, PC, Pending, NoAddress
<1>2. QED
  BY <1>1, CodeAssumption, SameReading DEF Init, Guest!MInit

LEMMA NextSimulates ==
  Followable /\ IInv /\ IInv' /\ RInv /\ [Next]_vars => [Guest!MNext]_(Guest!mvars)
<1> SUFFICES ASSUME Followable, IInv, IInv', RInv, [Next]_vars
             PROVE  [Guest!MNext]_(Guest!mvars)
  OBVIOUS
<1>t. TypeOK /\ code \in Codes /\ NoMissingLabel'
  BY DEF IInv
<1>s. ASSUME UNCHANGED <<code, PC, Pending, regs>>
      PROVE  [Guest!MNext]_(Guest!mvars)
  BY <1>s DEF Guest!mvars
<1>1. CASE Enter
  <2>1. step' = "instr" /\ at' = EntryVram
    BY <1>1, EntryLabels DEF Enter, Goto
  <2>2. QED
    BY <1>1, <1>s, <2>1 DEF Enter, PC, Pending
<1>2. CASE EnterAt
  <2>1. step' = "instr" /\ at' = dispatch /\ dispatch # NoAddress
    BY <1>2, EntryLabels DEF EnterAt, Goto, Local, NoAddress
  <2>2. QED
    BY <1>2, <1>s, <2>1 DEF EnterAt, PC, Pending
<1>3. CASE Reject
  BY <1>3, <1>s DEF Reject, PC, Pending
<1>4. CASE PlainInstr
  <2>1. PC = at /\ Pending = NoAddress /\ PC' = at + 1 /\ Pending' = NoAddress
    BY <1>4 DEF PlainInstr, Running, PC, Pending
  <2>2. Guest!MPlain
    BY <1>4, <2>1, SameReading DEF PlainInstr, Running, Ins, Guest!MPlain
  <2>3. QED
    BY <2>2 DEF Guest!MNext
<1>5. CASE Pause
  BY <1>5, <1>s DEF Pause, Running, PC, Pending
<1>6. CASE Transfer
  <2>1. PC = at /\ Pending = NoAddress /\ PC' = at + 1 /\ Pending' = Target'
    BY <1>6 DEF Transfer, Running, PC, Pending
  <2>2. at \in Local /\ Ins \in Instructions /\ Transfers(Ins) /\ Ins' = Ins
    BY <1>6, <1>t, InstrShape DEF Transfer, Running, Ins
  <2>3. regs'.t = regs.t
    BY <1>6, <1>t DEF Transfer, Linked, TypeOK, Registers
  <2>4. Target' \in Guest!JumpTargets(Ins)
    BY <1>6, <2>2, <2>3, Shapes
    DEF Transfer, Decided, Target, ReadsLate, Guest!JumpTargets, Transfers
  <2>5. Guest!MTransfer
    BY <1>6, <2>1, <2>2, <2>4, SameReading DEF Transfer, Ins, Guest!MTransfer
  <2>6. QED
    BY <2>5 DEF Guest!MNext
<1>7. CASE NotTaken
  <2>1. PC = at /\ Pending = NoAddress /\ PC' = at' /\ Pending' = NoAddress
    BY <1>7 DEF NotTaken, Running, PC, Pending
  <2>2. Guest!MNotTaken
    BY <1>7, <2>1, SameReading DEF NotTaken, Running, Ins, Transfers, Guest!MNotTaken
  <2>3. QED
    BY <2>2 DEF Guest!MNext
<1>8. CASE DelaySlot
  <2>1. InTransfer /\ JumpDecided
    BY <1>8 DEF DelaySlot, Running, IInv, InTransfer
  <2>2. at + 1 \in Local /\ code[at + 1].op = "plain"
    BY <1>t, <2>1, SlotShape DEF JumpDecided, Ins
  <2>3. PC = at + 1 /\ Pending = Target /\ PC' = Target' /\ Pending' = NoAddress
    BY <1>8 DEF DelaySlot, Running, PC, Pending
  <2>4. Target # NoAddress
    BY <2>1, TargetTyped, Arithmetic
  <2>5. Target' = Target
    BY <1>8, <1>t, <2>1, SlotKeeps DEF DelaySlot, JumpDecided, TypeOK, Target, Ins
  <2>6. Guest!MPlain
    BY <1>8, <2>2, <2>3, <2>4, <2>5, SameReading DEF DelaySlot, Guest!MPlain
  <2>7. QED
    BY <2>6 DEF Guest!MNext
<1>9. CASE GoHere
  <2>1. InTransfer /\ JumpDecided /\ Target = jump
    BY <1>9 DEF GoHere, Running, IInv, InTransfer, StaysHere, ReadsLate, Target
  <2>2. step' = "instr" /\ at' = jump
    BY <1>9, <1>t DEF GoHere, Goto, NoMissingLabel
  <2>3. QED
    BY <1>9, <1>s, <2>1, <2>2 DEF GoHere, Running, PC, Pending
<1>10. CASE Call
  <2>1. Target' = Target
    BY <1>10 DEF Call, Target, Ins
  <2>2. QED
    BY <1>10, <1>s, <2>1 DEF Call, Running, PC, Pending
<1>11. CASE Returned
  <2>1. InTransfer /\ JumpDecided /\ Links(Ins) /\ ~StaysHere(Ins) /\ regs.ra = at + 2
    BY <1>11 DEF Returned, Running, IInv, InTransfer, RInv
  <2>2. Target \notin Local
    <3>1. CASE Ins.op = "jalr"
      BY <1>t, <3>1, Arithmetic, CodeAssumption DEF Target, ReadsLate, TypeOK, Registers
    <3>2. CASE Ins.op \in {"branch", "jal"}
      BY <2>1, <3>2 DEF Target, ReadsLate, StaysHere
    <3>3. QED
      BY <2>1, <3>1, <3>2 DEF Links
  <2>3. PC = Target /\ Pending = NoAddress /\ PC' = at + 2 /\ Pending' = NoAddress
    BY <1>11 DEF Returned, Running, PC, Pending
  <2>4. at + 2 \in Local \cup {After}
    BY <2>1, Arithmetic DEF JumpDecided
  <2>5. Guest!MComesBack
    BY <1>11, <2>1, <2>2, <2>3, <2>4, SameReading DEF Returned, Guest!MComesBack
  <2>6. QED
    BY <2>5 DEF Guest!MNext
<1>12. CASE JumpAway
  <2>1. step' \in {"branchHole", "left"} /\ (step' = "left" => left'.target = Target)
    BY <1>12 DEF JumpAway, LeaveFor, Leave
  <2>2. PC = Target /\ Pending = NoAddress /\ PC' = Target /\ Pending' = NoAddress
    BY <1>12, <2>1 DEF JumpAway, Running, PC, Pending, Target, Ins
  <2>3. QED
    BY <1>12, <1>s, <2>2 DEF JumpAway
<1>13. CASE RunOff
  <2>1. FallsThrough(code) /\ NextCallable
    BY <1>13, <1>t DEF RunOff, RInv, Followable, EndIsFollowed
  <2>2. step' = "left" /\ left'.target = After
    BY <1>13, <2>1 DEF RunOff, LeaveFor, Leave
  <2>3. QED
    BY <1>13, <1>s, <2>2 DEF RunOff, PC, Pending
<1>14. CASE UNCHANGED vars
  BY <1>14, <1>s DEF vars, PC, Pending, Target, Ins, ReadsLate
<1>15. QED
  BY <1>1, <1>2, <1>3, <1>4, <1>5, <1>6, <1>7, <1>8, <1>9, <1>10, <1>11, <1>12, <1>13, <1>14
  DEF Next

(* The emitted function does what the guest's CPU does with the original,  *)
(* for every body whose delay slots keep what their transfers still read   *)
(* and whose end is followed by a function (recompile_function_impl).      *)
THEOREM Refinement == Followable => (Spec => FollowsGuest)
<1> SUFFICES ASSUME Followable PROVE Spec => FollowsGuest
  OBVIOUS
<1>1. Init => RInv
  BY InitRInv
<1>2. IInv /\ IInv' /\ RInv /\ [Next]_vars => RInv'
  BY NextRInv
<1>3. IInv /\ IInv' /\ RInv /\ [Next]_vars => [Guest!MNext]_(Guest!mvars)
  BY NextSimulates
<1>4. QED
  BY <1>1, <1>2, <1>3, Invariance, InitSimulates, PTL DEF Spec, FollowsGuest, Guest!MSpec
=============================================================================
