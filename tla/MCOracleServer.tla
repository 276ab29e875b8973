--------------------------- MODULE MCOracleServer ---------------------------
(* The commands the clients send. *)
EXTENDS OracleServer

CONSTANTS c1, c2

Command(name, n) == [name |-> name, n |-> n]
AllCommands == {Command("read", 0), Command("step_frame", 0),
                Command("step_frame", 3), Command("reset", 0), Command("quit", 0)}
FewCommands == AllCommands \ {Command("step_frame", 0)}
=============================================================================
