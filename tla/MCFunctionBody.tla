--------------------------- MODULE MCFunctionBody ---------------------------
(* Every translatable body of N words over a small instruction set. *)
EXTENDS FunctionBody, Sequences

CONSTANTS Targets,    (* of branches and jal                                 *)
          Writes,     (* what plain instructions write                       *)
          SlotWrites  (* what delay slots write                              *)

Transferring ==
  {b \in {Branch(cond, likely, link, target) :
            cond \in BOOLEAN, likely \in BOOLEAN, link \in BOOLEAN, target \in Targets} :
     b.cond \/ ~(b.likely \/ b.link)}
  \cup {Jal(target) : target \in Targets}
  \cup {Jr("ra"), Jr("t"), Jalr}
  \cup {Switch({a, b}) : a, b \in Targets \cap Local}

RECURSIVE BodiesFrom(_)
BodiesFrom(n) ==
  IF n = 0 THEN {<<>>}
  ELSE {<<Plain(w)>> \o b : w \in Writes, b \in BodiesFrom(n - 1)}
       \cup IF n = 1 THEN {}
            ELSE {<<ins, Plain(w)>> \o b :
                    ins \in Transferring, w \in SlotWrites, b \in BodiesFrom(n - 2)}
AllBodies  == BodiesFrom(N)
GoodBodies == {b \in AllBodies : KeepsTarget(b) /\ EndIsFollowed(b)}
=============================================================================
