---------------------------- MODULE MCAudioTask -----------------------------
(* The orders in which a reader's compiler may copy a slot. *)
EXTENDS AudioTaskRing

CONSTANTS b1, b2

IndexFirst == {<<"idx", "data">>}
IndexLast  == {<<"data", "idx">>}
AnyOrder   == IndexFirst \cup IndexLast
=============================================================================
