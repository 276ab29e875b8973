---------------------------- MODULE MCJumpTables ----------------------------
(* Three places besides $zero: registers 1 and 2, and 3, a word of the     *)
(* stack frame.  Tables of two entries at DataStart + 1 and + 4.           *)
EXTENDS JumpTables

CONSTANTS W1, W2, W3, W4, W5, W6, Labels, Datas

W(op, d, s, t, i) == [op |-> op, d |-> d, s |-> s, t |-> t, imm |-> i]
Lui(d)         == W("lui", d, 0, 0, DataStart)
Addiu(d, s, i) == W("addiu", d, s, 0, i)
Add(d, s, t)   == W("addu", d, s, t, 0)
Move(d, s)     == W("move", d, s, 0, 0)
Lw(d, s, i)    == W("load", d, s, 0, i)
Any(d)         == W("other", d, 0, 0, 0)
Unseen(d)      == W("unseen", d, 0, 0, 0)
Jr(s)          == W("jr", 0, s, 0, 0)

Chains ==
  {[code |-> c, labels |-> l, data |-> d] :
     c \in W1 \X W2 \X W3 \X W4 \X W5 \X W6, l \in Labels, d \in Datas}

(* Two tables, found from the second to the first by address.              *)
TwoTables ==
  {[code |-> <<Lui(1), Add(2, a, b), Lw(2, 2, i), Jr(2), Lui(1), Add(1, 1, 3), Lw(1, 1, j), Jr(1)>>,
    labels |-> {5}, data |-> d] :
     a \in {1}, b \in {2, 0}, i \in {1, 3, 4}, j \in {1, 4}, d \in Datas}

(* A word between that changes what is known, or reads it; and two tables  *)
(* for one addend.                                                         *)
Disturbed ==
  {[code |-> c, labels |-> {}, data |-> d] :
     c \in {<<Lui(1), Add(1, 1, 2), Lw(1, 1, 1), w, Jr(1)>> :
              w \in {Unseen(1), Unseen(2), Addiu(2, 1, 0), Addiu(2, 3, 0)}}
           \cup {<<Lui(1), Move(3, 1), w, Move(1, 3), Add(1, 1, 2), Lw(1, 1, 1), Jr(1)>> :
              w \in {Unseen(1), Unseen(3), Any(1), Any(3)}}
           \cup {<<Lui(1), Add(1, 1, 2), Lw(2, 1, i), Lw(3, 1, j), Jr(2), Jr(3)>> :
              i \in {1, 4}, j \in {1, 4}},
     d \in Datas}

AllFunctions == Chains \cup TwoTables \cup Disturbed

First  == {Lui(1)}
Second == {Addiu(1, 1, 1), Any(2), Move(3, 1), Unseen(3)}
Third  == {Add(1, 1, 2), Add(1, 2, 1), Add(2, 1, 2), Move(1, 3), Addiu(1, 1, 1)}
Fourth == {Lw(1, 1, 0), Lw(1, 1, 1), Lw(2, 2, 4), Addiu(1, 1, 3), Add(1, 1, 2)}
Fifth  == {Lw(1, 1, 0), Lw(1, 1, 1), Move(3, 1), Unseen(3), Jr(2), Jr(1)}
Sixth  == {Jr(1), Jr(3)}
SomeLabels == {{}, {2}, {6}}
TwoByTwo   == {<<3, 5, 0, 6, 2, 0>>, <<3, 5, 4, 6, 2>>}
=============================================================================
