--------------------------- MODULE OracleService ----------------------------
(***************************************************************************)
(* What the oracle server promises its clients: it serves one connection   *)
(* at a time, to the end; it carries out each whole request once, in the   *)
(* order they were asked; and a client reads the answers in that order.    *)
(***************************************************************************)
EXTENDS Naturals, Sequences, FiniteSets

CONSTANTS Conns, NoConn

VARIABLES
  turn,       (* the connection being served, or NoConn                     *)
  past,       (* connections whose turn is over                             *)
  asked,      (* whole requests sent on each connection                     *)
  handled,    (* requests carried out, as <<connection, number>>            *)
  received    (* the numbers of the answers read, on each connection        *)

svars == <<turn, past, asked, handled, received>>

HandledOf(c) == Cardinality({i \in DOMAIN handled : handled[i][1] = c})

SInit ==
  /\ turn = NoConn /\ past = {}
  /\ asked = [c \in Conns |-> 0]
  /\ handled = <<>>
  /\ received = [c \in Conns |-> <<>>]

STake(c) ==
  /\ turn = NoConn /\ c \notin past
  /\ turn' = c
  /\ UNCHANGED <<past, asked, handled, received>>

SLeave ==
  /\ turn # NoConn
  /\ turn' = NoConn /\ past' = past \cup {turn}
  /\ UNCHANGED <<asked, handled, received>>

SAsk(c) ==
  /\ asked' = [asked EXCEPT ![c] = @ + 1]
  /\ UNCHANGED <<turn, past, handled, received>>

SHandle ==
  /\ turn # NoConn /\ HandledOf(turn) < asked[turn]
  /\ handled' = Append(handled, <<turn, HandledOf(turn) + 1>>)
  /\ UNCHANGED <<turn, past, asked, received>>

SReceive(c) ==
  /\ Len(received[c]) < HandledOf(c)
  /\ received' = [received EXCEPT ![c] = Append(@, Len(@) + 1)]
  /\ UNCHANGED <<turn, past, asked, handled>>

SNext == SLeave \/ SHandle \/ \E c \in Conns : STake(c) \/ SAsk(c) \/ SReceive(c)

SSpec == SInit /\ [][SNext]_svars
=============================================================================
