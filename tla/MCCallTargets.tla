--------------------------- MODULE MCCallTargets ---------------------------
(* A main section at 0..3, two overlays A and B that share 4..6, and a     *)
(* relocatable one, linked at 10..12 and loaded at 7 or at 10.             *)
EXTENDS CallTargets

CONSTANTS SymbolsOfA, SymbolsOfB, SymbolsOfR, RamOfR, FromMain, FromA, IntoR, FromR, Lookups

Fixed(a, n)     == [ram |-> a, linked |-> a, size |-> n, relocatable |-> FALSE, homes |-> {a}]
Moving(ram)     == [ram |-> ram, linked |-> 10, size |-> 3, relocatable |-> TRUE, homes |-> {7, 10}]
Sym(s, a, off, n, kind) == [section |-> s, vram |-> a, off |-> off, size |-> n, kind |-> kind]
Site(s, form, a, r)     == [section |-> s, form |-> form, vram |-> a, reloc |-> r]

AllPrograms ==
  {[sections |-> <<Fixed(0, 4), Fixed(4, 3), Fixed(4, 3), Moving(ram)>>,
    symbols  |-> <<Sym(1, 0, 0, 4, "code")>> \o a \o b \o r,
    sites    |-> <<m, fa, ir, fr>>,
    always   |-> l] :
     a \in SymbolsOfA, b \in SymbolsOfB, r \in SymbolsOfR, ram \in RamOfR,
     m \in FromMain, fa \in FromA, ir \in IntoR, fr \in FromR, l \in Lookups}
LinkedPrograms == {p \in AllPrograms : Linked(p)}

OverlayA == {<<>>, <<Sym(2, 4, 0, 3, "code")>>, <<Sym(2, 4, 0, 0, "manual")>>, <<Sym(2, 4, 0, 0, "reimplemented")>>}
OverlayB == {<<>>, <<Sym(3, 4, 0, 2, "code")>>, <<Sym(3, 4, 0, 0, "empty"), Sym(3, 5, 1, 2, "code")>>}
Moved    == {<<Sym(4, 11, 1, 2, "code")>>}
OneWindow  == {10}
TwoWindows == {10, 14}
AdjacentWindows == {13}
MainCalls  == {Site(1, "jal", 4, 0), Site(1, "jal", 5, 0), Site(1, "branch", 4, 0), Site(1, "jal", 7, 0)}
ACalls     == {Site(2, "jal", 0, 0), Site(2, "jal", 5, 0), Site(2, "branch", 5, 0)}
RCalls     == {Site(1, "jal", 10, 4), Site(1, "jal", 11, 4), Site(1, "jal", 15, 4), Site(1, "jal", 13, 4),
               Site(1, "pointer", 11, 4), Site(1, "pointer", 12, 4), Site(1, "pointer", 5, 2)}
CallsFromR == {Site(4, "jal", 0, 0), Site(4, "jal", 1, 0), Site(4, "branch", 12, 4)}
=============================================================================
