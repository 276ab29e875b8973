------------------------------ MODULE TraceLog ------------------------------
(***************************************************************************)
(* What the RSP instruction trace promises its readers: everything         *)
(* recorded is a log; an event is fetched by its position in the log for   *)
(* as long as it is among the newest Capacity, and the first BootCapacity  *)
(* events are kept for ever.                                               *)
(***************************************************************************)
EXTENDS Naturals, Sequences

CONSTANTS Capacity, BootCapacity, Events, Positions, Missing

VARIABLES
  log,      (* events recorded, oldest first                              *)
  reply     (* what the last query answered: [query, pos, event]          *)

LInit == log = <<>> /\ reply = [query |-> "none", pos |-> 0, event |-> Missing]

LRecord == \E e \in Events : log' = Append(log, e) /\ UNCHANGED reply

InWindow(pos) == pos < Len(log) /\ Len(log) - pos <= Capacity
InBoot(pos)   == pos < Len(log) /\ pos < BootCapacity

LAnswer(query, pos, present) ==
  /\ reply' = [query |-> query, pos |-> pos,
               event |-> IF present THEN log[pos + 1] ELSE Missing]
  /\ UNCHANGED log

LNext ==
  \/ LRecord
  \/ \E pos \in Positions : \/ LAnswer("get", pos, InWindow(pos))
                            \/ LAnswer("boot", pos, InBoot(pos))

LSpec == LInit /\ [][LNext]_<<log, reply>>
=============================================================================
