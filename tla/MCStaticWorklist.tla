-------------------------- MODULE MCStaticWorklist --------------------------
(* Two sections of two places; code that calls at most one place. *)
EXTENDS StaticWorklist

CONSTANTS a1, b1, a2, b2, NativeSets

SectionOf == [p \in Places |-> IF p \in {a1, b1} THEN 1 ELSE 2]
AtMostOne == {{}} \cup {{p} : p \in Places}
NoLinks   == [p \in Places |-> {}]
Same      == [p \in Places |-> p]

AllPrograms ==
  {p \in [bodies : {{a1}, {a1, a2}, {b2}}, natives : NativeSets,
          calls : [Places -> AtMostOne],
          links : {NoLinks, [NoLinks EXCEPT ![a1] = {b1}], [NoLinks EXCEPT ![b2] = {a2, b2}]},
          owner : {Same, [Same EXCEPT ![b1] = a1]},
          data : {{}, {a2}}, fails : {{}, {a1}, {b2}},
          seeds : {{}, {a2}, {b1, b2}}, ownFiles : BOOLEAN] :
     /\ WellFormed(p)
     /\ \A a \in Places :   (* the places with code of their own             *)
          a \in p.natives \cup p.data \/ p.owner[a] # a => p.calls[a] = {}}
ForwardPrograms == {p \in AllPrograms : Forward(p)}
SharedFilePrograms == {p \in AllPrograms : ~p.ownFiles}

(* A file for every function, and only known functions call; an alias may be needed.  *)
AliasPrograms == {p \in AllPrograms : p.ownFiles /\ \A a \in Places \ p.bodies : p.calls[a] = {}}
=============================================================================
