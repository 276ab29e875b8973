-------------------------- MODULE MCFunctionBounds --------------------------
(* Every body of N words over a small instruction set, slots included. *)
EXTENDS FunctionBounds

CONSTANTS Straight,   (* words outside delay slots                           *)
          Slots,      (* words in delay slots                                *)
          Branches, Jumps

Table1    == <<N - 1, N>>
Table2    == <<N, Nowhere>>
Table3    == <<Nowhere>>
Ops       == {Word("plain"), Word("wipe")}
Loads     == {Load(Table1)}
OddWords  == {Word("bad"), Load(Table2), Load(Table3)}
OnlyPlain     == {Word("plain")}
FirstStraight == Ops \cup Loads
MoreStraight  == Ops \cup Loads \cup OddWords
PlainSlots == {Word("plain")}
LoadSlots  == {Word("plain"), Load(Table1)}
CondBranches == {Branch(TRUE, a) : a \in {1, N - 1, N, Nowhere}}
FarBranches  == {Branch(TRUE, a) : a \in {7, N}}
BothBranches == {Branch(cond, a) : cond \in BOOLEAN, a \in {1, 3, N}}
FarJumps   == {Jump("j", Nowhere)}
NearJumps  == {Jump("j", 5)}
Leaving    == {Word("return"), Word("jr"), Jump("jal", 1), Jump("jal", N)}

RECURSIVE BodiesFrom(_)
BodiesFrom(n) ==
  IF n = 0 THEN {<<>>}
  ELSE LET one == BodiesFrom(n - 1)
           two == IF n = 1 THEN {} ELSE BodiesFrom(n - 2)
           moving == Leaving \cup Branches \cup Jumps
           odd == IF n = N - 2 THEN {} ELSE OddWords   (* at one place only  *)
       IN  {<<ins>> \o b : ins \in Straight \ odd, b \in one}
             \cup {<<ins, slot>> \o b : ins \in moving, slot \in Slots, b \in two}
             \cup IF n = 1 THEN {<<Word("return")>>} ELSE {}   (* no slot left *)
AllBodies == BodiesFrom(N)

GoodBodies == {c \in AllBodies : Coverable(c)}

(* Bodies that are not: a j inside, a branch to a slot, a load in a slot.  *)
JumpBodies       == {c \in AllBodies : SlotsAside(c) /\ InBlock(c) /\ InScan(c)}
SlotTargetBodies == {c \in AllBodies : InBlock(c) /\ InScan(c)}
SlotLoadBodies   == {c \in AllBodies : SlotsAside(c) /\ InBlock(c)}
=============================================================================
