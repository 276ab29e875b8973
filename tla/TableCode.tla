------------------------------ MODULE TableCode ------------------------------
(***************************************************************************)
(* The words of a function that its jump tables are found in.  Control     *)
(* arrives at the function's start or at a label with any values, runs     *)
(* the words in order and goes away at a jr; a branch that is taken arrives *)
(* at another label.  Registers and words of the stack frame are places,   *)
(* place 0 is $zero; the function is at the addresses 1..Len(code).        *)
(***************************************************************************)
EXTENDS Integers, Sequences

CONSTANTS
  Functions,  (* the functions considered                                   *)
  LastPlace,  (* places are 0..LastPlace                                    *)
  DataStart   (* the address before the section's constant data             *)

Places == 0..LastPlace
Ops    == {"lui", "addiu", "addu", "move", "load", "other", "unseen", "jr"}

(* "move": or and daddu with $zero, lw and sw of the stack frame; "other": *)
(* writes d with what these do not compute; "unseen": so does a store to   *)
(* the frame through another register, or a call.                          *)
Words           == [op : Ops, d : Places, s : Places, t : Places, imm : Int]
FunctionRecords == [code : Seq(Words), labels : SUBSET Nat, data : Seq(Int)]

ASSUME TableAssumption ==
  /\ LastPlace \in Nat /\ DataStart \in Int
  /\ Functions \subseteq FunctionRecords
  /\ \A f \in Functions :
       /\ f.labels \subseteq DOMAIN f.code
       /\ \A i \in DOMAIN f.code : f.code[i].op # "jr" => f.code[i].d # 0

-----------------------------------------------------------------------------
Elsewhere       == 0
Within(f, a)    == a \in DOMAIN f.code
Word(f, a)      == IF a - DataStart \in DOMAIN f.data THEN f.data[a - DataStart] ELSE Elsewhere
Starts(f)       == {1} \cup f.labels

Straight == {"lui", "addiu", "addu", "move", "load"}
Reads(w) ==
  CASE w.op \in {"addiu", "load"} -> {w.s}
    [] w.op = "addu"              -> {w.s, w.t}
    [] OTHER                      -> {}

(* What the CPU writes. *)
Result(f, w, mem) ==
  CASE w.op = "lui"   -> w.imm
    [] w.op = "addiu" -> mem[w.s] + w.imm
    [] w.op = "addu"  -> mem[w.s] + mem[w.t]
    [] w.op = "move"  -> mem[w.s]
    [] w.op = "load"  -> Word(f, mem[w.s] + w.imm)
=============================================================================
