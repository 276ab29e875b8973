----------------------------- MODULE MCRspUcode -----------------------------
(* A loader at 0..3, a slot with two overlays at 4, one with three at 5,   *)
(* and the end of the text at 6, where the config may give up.             *)
EXTENDS RspUcode

CONSTANTS Heads, Overlays1, Overlays2, Refused

Loaders ==
  {[text |-> [a \in Text |-> CASE a < 4 -> h[a + 1] [] a = 4 -> o1[1][1]
                               [] a = 5 -> o2[1][1] [] OTHER -> Break],
    start |-> <<4, 5>>, overlays |-> <<o1, o2>>, extra |-> {}, unsupported |-> r] :
     h \in Heads, o1 \in Overlays1, o2 \in Overlays2, r \in Refused}

(* Loads of either slot before, in and after a transfer into the overlays, *)
(* and a branch that decides which slot is loaded.                         *)
LoaderHeads ==
  ({Name(<<1, 2>>), Name(<<2, 3>>), Li(4)}
     \X {Dma, Branch(TRUE, FALSE, 4), Branch(FALSE, TRUE, 4), Jr("t"), Jalr}
     \X {Dma, Name(<<2, 2>>)} \X {Plain, Jr("ra")})
  \cup {<<Branch(TRUE, FALSE, 3), Name(<<1, 2>>), Name(<<2, 2>>), Dma>>}
FirstSlot  == {<< <<Plain>>, <<w>> >> : w \in {Branch(FALSE, FALSE, 0), Name(<<1, 1>>), Jr("ra")}}
SecondSlot == {<< <<Plain>>, <<w>>, <<Name(<<1, 1>>)>> >> :
                 w \in {Name(<<1, 2>>), Branch(TRUE, FALSE, 2), Dma}}
EndRefused == {{}, {6}}
FollowedUcodes == {u \in Loaders : Followed(u)}
=============================================================================
