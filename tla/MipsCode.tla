------------------------------ MODULE MipsCode ------------------------------
(***************************************************************************)
(* The body of one guest function as the recompiler sees it: N             *)
(* instructions at the word addresses 1..N.  Only what moves control or a  *)
(* register that control depends on is told apart: $ra, and one register   *)
(* "t" that holds the address of a function somewhere else.                *)
(***************************************************************************)
EXTENDS Naturals

CONSTANTS
  N,          (* words of the function                                      *)
  Codes,      (* the bodies considered                                      *)
  Elsewhere,  (* addresses outside the function and not just after it       *)
  RaValues,   (* what an instruction may put into $ra                       *)
  TValues     (* what an instruction may put into t                         *)

Local     == 1..N
After     == N + 1
NoAddress == 0
Addresses == Local \cup {After} \cup Elsewhere
Registers == [ra : Addresses, t : TValues]

(* An ordinary instruction; a branch or a j (unconditional when ~cond);    *)
(* jal; jr and jalr through a register; a jr recognised as a jump table.   *)
Plain(reg)   == [op |-> "plain", writes |-> reg]
Branch(cond, likely, link, target) ==
  [op |-> "branch", cond |-> cond, likely |-> likely, link |-> link, target |-> target]
Jal(target)  == [op |-> "jal", target |-> target]
Jr(reg)      == [op |-> "jr", reg |-> reg]
Jalr         == [op |-> "jalr"]
Switch(entries) == [op |-> "switch", entries |-> entries]

Instructions ==
  {Plain(reg) : reg \in {"none", "ra", "t"}}
    \cup {Branch(cond, likely, link, target) :
            cond \in BOOLEAN, likely \in BOOLEAN, link \in BOOLEAN, target \in Addresses}
    \cup {Jal(target) : target \in Addresses}
    \cup {Jr(reg) : reg \in {"ra", "t"}} \cup {Jalr}
    \cup {Switch(entries) : entries \in SUBSET Local}

Bodies == [Local -> Instructions]

ASSUME CodeAssumption ==
  /\ N \in Nat \ {0}
  /\ Codes \subseteq Bodies
  /\ Elsewhere \subseteq Nat /\ Elsewhere \cap 0..N + 1 = {}
  /\ RaValues \subseteq Addresses
  /\ TValues \subseteq Elsewhere

-----------------------------------------------------------------------------
Links(ins) == ins.op \in {"jal", "jalr"} \/ (ins.op = "branch" /\ ins.link)
Transfers(ins) == ins.op # "plain"

(* What executing an ordinary instruction may leave in the registers. *)
Effects(ins, regs) ==
  CASE ins.writes = "ra" -> {[regs EXCEPT !.ra = v] : v \in RaValues}
    [] ins.writes = "t"  -> {[regs EXCEPT !.t = v] : v \in TValues}
    [] OTHER             -> {regs}

(* The link write of a call at address a. *)
Linked(ins, a, regs) == IF Links(ins) THEN [regs EXCEPT !.ra = a + 2] ELSE regs
=============================================================================
