---------------------------- MODULE OracleServer ----------------------------
(***************************************************************************)
(* The oracle server (ares_oracle_server.cpp): one thread that brings up   *)
(* the emulator and serves one TCP connection after the other, reading     *)
(* pieces of the stream into a line buffer, carrying out each line and     *)
(* sending its answer with a blocking send().                              *)
(*                                                                         *)
(* A line is two pieces, its text and its newline, which the network may   *)
(* deliver together or apart.  The socket buffers are bounded.  A client   *)
(* (external) sends up to Burst requests, then reads the answers to all of *)
(* them, and so on; it may go at any moment, also in the middle of a line, *)
(* and what it sent last may or may not arrive.                            *)
(***************************************************************************)
EXTENDS AresBridge, FiniteSets, FiniteSetsExt, SequencesExt

CONSTANTS
  Conns,          (* connections ever made                                  *)
  NoConn,
  Commands,       (* what a client asks for: records [name, n]              *)
  MaxRequests,    (* bound: requests on one connection                      *)
  Burst,          (* requests a client sends before it reads                *)
  RecvCapacity,   (* pieces that fit between a client and recv()            *)
  SendCapacity,   (* answers that fit between send() and a client           *)
  Backlog         (* connections that may wait for accept()                 *)

ASSUME ServerAssumption ==
  /\ NoConn \notin Conns
  /\ Commands \subseteq [name : {"read", "step_frame", "reset", "quit"}, n : Nat]
  /\ MaxRequests \in Nat /\ Burst \in Nat \ {0}
  /\ RecvCapacity \in Nat \ {0} /\ SendCapacity \in Nat \ {0} /\ Backlog \in Nat

VARIABLES
  at,         (* where the server is: "boot", "accept", "recv", "lines",
                 "send", "close" or "exit"                                  *)
  client,     (* the accepted connection, or NoConn                         *)
  buf,        (* the line buffer                                            *)
  resp,       (* the answer to send: the number of its request, or 0         *)
  pending,    (* connections waiting for accept(), oldest first             *)
  toServer,   (* socket buffers: pieces that recv() may return              *)
  toClient,   (* socket buffers: answers sent and not read                  *)
  conn,       (* the client's side: [state, mode, next, mid, got]           *)
  log         (* history: the requests carried out and their results        *)

serverVars == <<at, client, buf, resp>>
netVars    == <<pending, toServer, toClient, conn>>
vars       == <<bridgeVars, serverVars, netVars, log>>

-----------------------------------------------------------------------------
NoCommand      == [name |-> "newline", n |-> 0]
Text(c, k, x)  == [c |-> c, k |-> k, cmd |-> x]
Newline(c)     == Text(c, 0, NoCommand)
IsNewline(p)   == p.k = 0
Pieces == {Text(c, k, x) : c \in Conns, k \in 1..MaxRequests, x \in Commands}
            \cup {Newline(c) : c \in Conns}

Init ==
  /\ BridgeInit
  /\ at = "boot" /\ client = NoConn /\ buf = <<>> /\ resp = 0
  /\ pending = <<>>
  /\ toServer = [c \in Conns |-> <<>>]
  /\ toClient = [c \in Conns |-> <<>>]
  /\ conn = [c \in Conns |-> [state |-> "new", mode |-> "send", next |-> 1,
                              mid |-> FALSE, got |-> <<>>]]
  /\ log = <<>>

(* main: ares_init and ares_reset, then serve's sockets; exit if any fails. *)
BootInit ==
  /\ at = "boot" /\ ~initialized
  /\ \E status \in Statuses :
       /\ ares_init(status)
       /\ at' = IF status = "OK" THEN "boot" ELSE "exit"
  /\ UNCHANGED <<client, buf, resp, netVars, log>>

BootReset ==
  /\ at = "boot" /\ initialized
  /\ \E status \in Statuses :
       /\ ares_reset(status)
       /\ at' \in IF status = "OK" THEN {"accept", "exit"} ELSE {"exit"}
  /\ UNCHANGED <<client, buf, resp, netVars, log>>

Accept ==
  /\ at = "accept" /\ pending # <<>>
  /\ client' = Head(pending) /\ pending' = Tail(pending)
  /\ at' = "recv"
  /\ UNCHANGED <<bridgeVars, buf, resp, toServer, toClient, conn, log>>

(* recv() returns some of what has arrived. *)
Recv ==
  /\ at = "recv"
  /\ \E n \in 1..Len(toServer[client]) :
       /\ buf' = buf \o SubSeq(toServer[client], 1, n)
       /\ toServer' = [toServer EXCEPT ![client] = SubSeq(@, n + 1, Len(@))]
  /\ at' = "lines"
  /\ UNCHANGED <<bridgeVars, client, resp, pending, toClient, conn, log>>

(* recv() returns 0 or an error. *)
RecvEnds ==
  /\ at = "recv" /\ toServer[client] = <<>> /\ conn[client].state = "gone"
  /\ at' = "close"
  /\ UNCHANGED <<bridgeVars, client, buf, resp, netVars, log>>

HasLine     == \E i \in DOMAIN buf : IsNewline(buf[i])
NewlineAt   == Min({i \in DOMAIN buf : IsNewline(buf[i])})
Line        == SubSeq(buf, 1, NewlineAt - 1)

BufferAfter == SubSeq(buf, NewlineAt + 1, Len(buf))

NoMoreLines ==
  /\ at = "lines" /\ ~HasLine
  /\ at' = "recv"
  /\ UNCHANGED <<bridgeVars, client, buf, resp, netVars, log>>

-----------------------------------------------------------------------------
(* Faulty variant: only the lower end is clamped. *)
FaultyClamped(n) == IF n < 1 THEN 1 ELSE n

Clamped(n) == IF n < 1 THEN 1 ELSE IF n > FrameCap THEN FrameCap ELSE n

(* What handle() does for a command other than quit.  "read" stands for all
   that leave the emulator alone. *)
Execute(cmd, done, status) ==
  \/ cmd.name = "read" /\ ares_read(status) /\ done = 0
  \/ cmd.name = "reset" /\ ares_reset(status) /\ done = 0
  \/ cmd.name = "step_frame" /\ ares_step_frames(Clamped(cmd.n), done, status)

(* The first command on the line counts. *)
Handle ==
  /\ at = "lines" /\ HasLine
  /\ LET request == Head(Line)
     IN /\ request.cmd.name # "quit"
        /\ \E status \in Statuses, done \in 0..Clamped(request.cmd.n) :
             /\ Execute(request.cmd, done, status)
             /\ log' = Append(log, [c |-> request.c, k |-> request.k,
                                    name |-> request.cmd.name, done |-> done])
        /\ resp' = request.k
  /\ buf' = BufferAfter
  /\ at' = "send"
  /\ UNCHANGED <<client, netVars>>

(* quit: ExitProcess, without an answer and without ares_shutdown. *)
Quit ==
  /\ at = "lines" /\ HasLine
  /\ Head(Line).cmd.name = "quit"
  /\ log' = Append(log, [c |-> Head(Line).c, k |-> Head(Line).k,
                         name |-> "quit", done |-> 0])
  /\ buf' = BufferAfter
  /\ at' = "exit"
  /\ UNCHANGED <<bridgeVars, client, resp, netVars>>

(* Faulty variant: one line is carried out for each recv(). *)
FaultySend ==
  /\ at = "send"
  /\ \/ /\ conn[client].state = "gone"
        /\ UNCHANGED toClient
     \/ /\ conn[client].state # "gone"
        /\ Len(toClient[client]) < SendCapacity
        /\ toClient' = [toClient EXCEPT ![client] = Append(@, resp)]
  /\ resp' = 0 /\ at' = "recv"
  /\ UNCHANGED <<bridgeVars, client, buf, pending, toServer, conn, log>>

(* send() blocks while a client that is there leaves no room; its result is
   not looked at, and what is sent to one that has gone is lost. *)
Send ==
  /\ at = "send"
  /\ \/ /\ conn[client].state = "gone"
        /\ UNCHANGED toClient
     \/ /\ conn[client].state # "gone"
        /\ Len(toClient[client]) < SendCapacity
        /\ toClient' = [toClient EXCEPT ![client] = Append(@, resp)]
  /\ resp' = 0 /\ at' = "lines"
  /\ UNCHANGED <<bridgeVars, client, buf, pending, toServer, conn, log>>

(* Faulty variant: the line buffer outlives its connection. *)
FaultyClose ==
  /\ at = "close"
  /\ client' = NoConn
  /\ at' = "accept"
  /\ UNCHANGED <<bridgeVars, buf, resp, netVars, log>>

Close ==
  /\ at = "close"
  /\ client' = NoConn /\ buf' = <<>>
  /\ at' = "accept"
  /\ UNCHANGED <<bridgeVars, resp, netVars, log>>

ServerStep ==
  \/ BootInit \/ BootReset \/ Accept \/ Recv \/ RecvEnds \/ NoMoreLines
  \/ Handle \/ Quit \/ Send \/ Close

-----------------------------------------------------------------------------
(* The clients. *)
Running == at \notin {"boot", "exit"}
Here(c) == Running /\ conn[c].state = "here"
Asked(c) == conn[c].next - 1 - (IF conn[c].mid THEN 1 ELSE 0)

Connect(c) ==
  /\ Running /\ conn[c].state = "new"
  /\ Len(pending) < Backlog
  /\ pending' = Append(pending, c)
  /\ conn' = [conn EXCEPT ![c].state = "here"]
  /\ UNCHANGED <<bridgeVars, serverVars, toServer, toClient, log>>

RoomToSend(c) == Len(toServer[c]) < RecvCapacity

SendText(c) ==
  /\ Here(c) /\ conn[c].mode = "send" /\ ~conn[c].mid /\ RoomToSend(c)
  /\ conn[c].next <= MaxRequests
  /\ \E x \in Commands :
       toServer' = [toServer EXCEPT ![c] = Append(@, Text(c, conn[c].next, x))]
  /\ conn' = [conn EXCEPT ![c].mid = TRUE, ![c].next = @ + 1]
  /\ UNCHANGED <<bridgeVars, serverVars, pending, toClient, log>>

(* With the newline the client decides whether to ask more before it reads. *)
SendNewline(c) ==
  /\ Here(c) /\ conn[c].mode = "send" /\ conn[c].mid /\ RoomToSend(c)
  /\ toServer' = [toServer EXCEPT ![c] = Append(@, Newline(c))]
  /\ \E mode \in {"send", "read"} :
       /\ mode = "send" => /\ conn[c].next <= MaxRequests
                           /\ conn[c].next - 1 - Len(conn[c].got) < Burst
       /\ conn' = [conn EXCEPT ![c].mid = FALSE, ![c].mode = mode]
  /\ UNCHANGED <<bridgeVars, serverVars, pending, toClient, log>>

ReadAnswer(c) ==
  /\ Here(c) /\ conn[c].mode = "read" /\ toClient[c] # <<>>
  /\ conn' = [conn EXCEPT
                ![c].got = Append(@, Head(toClient[c])),
                ![c].mode = IF Len(conn[c].got) + 1 = Asked(c) THEN "send" ELSE @]
  /\ toClient' = [toClient EXCEPT ![c] = Tail(@)]
  /\ UNCHANGED <<bridgeVars, serverVars, pending, toServer, log>>

(* The client goes; the last pieces may be lost with the connection. *)
Leave(c) ==
  /\ Here(c)
  /\ conn' = [conn EXCEPT ![c].state = "gone", ![c].mode = "send"]
  /\ \/ UNCHANGED toServer
     \/ toServer' = [toServer EXCEPT ![c] = <<>>]
  /\ toClient' = [toClient EXCEPT ![c] = <<>>]
  /\ UNCHANGED <<bridgeVars, serverVars, pending, log>>

Finished(c) == Here(c) /\ Len(conn[c].got) = MaxRequests
Talk(c) == SendText(c) \/ SendNewline(c) \/ ReadAnswer(c)

Next ==
  \/ ServerStep
  \/ \E c \in Conns : Connect(c) \/ Talk(c) \/ Leave(c)

(* The server's thread runs; a client goes on talking, and goes when it has
   all its answers. *)
Spec ==
  /\ Init /\ [][Next]_vars
  /\ WF_vars(ServerStep)
  /\ \A c \in Conns : WF_vars(Talk(c)) /\ WF_vars(Finished(c) /\ Leave(c))

-----------------------------------------------------------------------------
(* The server's place, its buffers and the clients' states have their      *)
(* types, and no buffer exceeds its capacity.                              *)
TypeOK ==
  /\ initialized \in BOOLEAN /\ system_loaded \in BOOLEAN
  /\ ares \in {"empty", "loaded", "powered"} /\ frames \in Nat
  /\ portMissed \in BOOLEAN /\ loadedTwice \in BOOLEAN
  /\ at \in {"boot", "accept", "recv", "lines", "send", "close", "exit"}
  /\ client \in Conns \cup {NoConn}
  /\ buf \in Seq(Pieces) /\ resp \in 0..MaxRequests
  /\ pending \in Seq(Conns) /\ Len(pending) <= Backlog
  /\ toServer \in [Conns -> Seq(Pieces)] /\ toClient \in [Conns -> Seq(1..MaxRequests)]
  /\ \A c \in Conns : /\ Len(toServer[c]) <= RecvCapacity
                       /\ Len(toClient[c]) <= SendCapacity
  /\ conn \in [Conns -> [state : {"new", "here", "gone"}, mode : {"send", "read"},
                         next : 1..MaxRequests + 1, mid : BOOLEAN,
                         got : Seq(1..MaxRequests)]]
  /\ log \in Seq([c : Conns, k : 1..MaxRequests, done : 0..FrameCap,
                  name : {"read", "step_frame", "reset", "quit"}])

(* However the stream is cut and whoever goes in the middle of it, the     *)
(* server is the service: whole requests, once each, in order, one         *)
(* connection at a time, and answers in that order.                        *)
Service == INSTANCE OracleService WITH
  turn     <- client,
  past     <- {c \in Conns : conn[c].state # "new" /\ c # client
                             /\ ~Contains(pending, c)},
  asked    <- [c \in Conns |-> Asked(c)],
  handled  <- [i \in DOMAIN log |-> <<log[i].c, log[i].k>>],
  received <- [c \in Conns |-> conn[c].got]
ServiceSpec == Service!SSpec

(* The emulator stands exactly where the answers say: as many frames after *)
(* the last reset as step_frame commands have answered since, also when    *)
(* resets fail and other connections step it.                              *)
FramesAnswered ==
  frames = FoldLeft(LAMBDA sum, r : IF r.name = "reset" THEN 0 ELSE sum + r.done,
                    0, log)

(* Every whole request of a client that stays is answered, unless the      *)
(* server is told to quit.                                                 *)
Answered ==
  \A c \in Conns : \A k \in 1..MaxRequests :
    Asked(c) >= k ~> \/ Len(conn[c].got) >= k
                     \/ conn[c].state = "gone"
                     \/ at = "exit"
=============================================================================
