------------------------- MODULE OracleServerProofs -------------------------
(***************************************************************************)
(* The oracle server for any number of connections and requests, any       *)
(* buffers and any way the stream is cut: it implements OracleService.     *)
(***************************************************************************)
EXTENDS OracleServer, Integers, FiniteSetTheorems, SequenceTheorems,
        WellFoundedInduction, TLAPS

(* Requests of one connection that have been carried out. *)
CountOf(l, c) == Cardinality({i \in DOMAIN l : l[i].c = c})
Done(c)   == CountOf(log, c)

(* Pieces sent on a connection, and the number on the p-th of them: odd     *)
(* ones are requests, even ones newlines.                                   *)
Sent(c)     == 2 * (conn[c].next - 1) - (IF conn[c].mid THEN 1 ELSE 0)
NumberAt(p) == IF p % 2 = 0 THEN 0 ELSE (p + 1) \div 2
Buffered(c) == IF c = client THEN buf ELSE <<>>
Gone(c)     == conn[c].state = "gone"
Follows(c, p, s) ==
  \A j \in 1..Len(s) : s[j].c = c /\ s[j].k = NumberAt(p + j)

(* After h requests the buffer b and the socket s hold the next stretch of  *)
(* a stream of t pieces; all of its rest, while the client is there.        *)
Stretch(c, h, b, s, t, gone) ==
  /\ Follows(c, 2 * h, b)
  /\ Follows(c, 2 * h + Len(b), s)
  /\ 2 * h + Len(b) + Len(s) <= t
  /\ ~gone => 2 * h + Len(b) + Len(s) = t

(* Where the server is, and which connection it serves. *)
Places ==
  /\ at \in {"boot", "accept"} => client = NoConn
  /\ at \in {"recv", "lines", "send", "close"} => client \in Conns
  /\ at = "close" => conn[client].state = "gone" /\ toServer[client] = <<>>
  /\ at = "boot" => pending = <<>>
  /\ client = NoConn => buf = <<>>
  /\ client \in Conns => conn[client].state # "new"

Queue ==
  /\ \A i \in 1..Len(pending) :
       pending[i] # client /\ conn[pending[i]].state # "new"
  /\ \A i, j \in 1..Len(pending) : pending[i] = pending[j] => i = j

(* What is buffered is the stretch of the stream after what was handled. *)
Stream(c) == Stretch(c, Done(c), Buffered(c), toServer[c], Sent(c), Gone(c))
Streams   == \A c \in Conns : Stream(c)

Sending(c) == IF at = "send" /\ c = client THEN 1 ELSE 0
Exited     == at = "exit"

(* After h requests a client has read the answers got, the answers q are on *)
(* their way to it and e are in the server's hands.                         *)
Exchange(got, q, e, h, gone, exited) ==
  /\ \A i \in 1..Len(got) : got[i] = i
  /\ \A i \in 1..Len(q) : q[i] = Len(got) + i
  /\ Len(got) + Len(q) + e <= h
  /\ ~gone /\ ~exited => Len(got) + Len(q) + e = h
  /\ gone => q = <<>>

AnswersTo(c) ==
  /\ Exchange(conn[c].got, toClient[c], Sending(c), Done(c), Gone(c), Exited)
  /\ Sending(c) = 1 => resp = Done(c)
Answers == \A c \in Conns : AnswersTo(c)

Emulator ==
  /\ LoadedIsPowered
  /\ ares = "loaded" \/ loadedTwice => portMissed

IInv == TypeOK /\ Places /\ Queue /\ Streams /\ Answers /\ Emulator

-----------------------------------------------------------------------------
LogRecords == [c : Conns, k : 1..MaxRequests, done : 0..FrameCap,
               name : {"read", "step_frame", "reset", "quit"}]

LEMMA CountNat ==
  ASSUME NEW S, NEW l \in Seq(S), NEW c
  PROVE  /\ {i \in DOMAIN l : l[i].c = c} \subseteq 1..Len(l)
         /\ IsFiniteSet({i \in DOMAIN l : l[i].c = c})
         /\ CountOf(l, c) \in Nat
<1>1. DOMAIN l = 1..Len(l) /\ Len(l) \in Nat
  BY LenProperties
<1>2. IsFiniteSet(1..Len(l))
  BY <1>1, FS_Interval
<1>3. {i \in DOMAIN l : l[i].c = c} \subseteq 1..Len(l)
  BY <1>1
<1>4. IsFiniteSet({i \in DOMAIN l : l[i].c = c})
  BY <1>2, <1>3, FS_Subset
<1>5. QED
  BY <1>3, <1>4, FS_CardinalityType DEF CountOf

LEMMA CountEmpty == \A c : CountOf(<<>>, c) = 0
<1> TAKE c
<1>1. {i \in DOMAIN <<>> : <<>>[i].c = c} = {}
  OBVIOUS
<1>2. QED
  BY <1>1, FS_EmptySet DEF CountOf

LEMMA CountAppend ==
  ASSUME NEW S, NEW l \in Seq(S), NEW e \in S, NEW c
  PROVE  CountOf(Append(l, e), c) = CountOf(l, c) + (IF e.c = c THEN 1 ELSE 0)
<1> DEFINE here == {i \in DOMAIN l : l[i].c = c}
           next == {i \in DOMAIN Append(l, e) : Append(l, e)[i].c = c}
<1>1. /\ DOMAIN l = 1..Len(l) /\ Len(l) \in Nat
      /\ DOMAIN Append(l, e) = 1..Len(l) + 1
      /\ \A i \in 1..Len(l) : Append(l, e)[i] = l[i]
      /\ Append(l, e)[Len(l) + 1] = e
  BY AppendProperties, LenProperties
<1>2. IsFiniteSet(here) /\ Len(l) + 1 \notin here /\ CountOf(l, c) \in Nat
  <2>1. here \subseteq 1..Len(l) /\ IsFiniteSet(here) /\ CountOf(l, c) \in Nat
    BY CountNat
  <2>2. QED
    BY <1>1, <2>1
<1>3. CASE e.c = c
  <2>1. next = here \cup {Len(l) + 1}
    BY <1>1, <1>3
  <2>2. Cardinality(here \cup {Len(l) + 1}) = Cardinality(here) + 1
    BY <1>2, FS_AddElement
  <2>3. QED
    BY <1>3, <2>1, <2>2 DEF CountOf
<1>4. CASE e.c # c
  <2>1. next = here
    BY <1>1, <1>4
  <2>2. CountOf(Append(l, e), c) = CountOf(l, c)
    BY <2>1 DEF CountOf
  <2>3. QED
    BY <1>2, <1>4, <2>2
<1>5. QED
  BY <1>3, <1>4

LEMMA DoneNat == TypeOK => \A c : Done(c) \in Nat
BY CountNat DEF TypeOK, Done

LEMMA PieceTypes ==
  ASSUME NEW p \in Pieces
  PROVE  /\ p.c \in Conns /\ p.k \in Nat
         /\ p.k # 0 => p.k \in 1..MaxRequests /\ p.cmd \in Commands
BY ServerAssumption DEF Pieces, Text, Newline

LEMMA NewPieces ==
  ASSUME NEW c \in Conns
  PROVE  /\ Newline(c) \in Pieces /\ Newline(c).c = c /\ Newline(c).k = 0
         /\ \A k \in 1..MaxRequests, x \in Commands :
              Text(c, k, x) \in Pieces /\ Text(c, k, x).c = c /\ Text(c, k, x).k = k
BY DEF Pieces, Text, Newline

(* The numbers on a stream: odd pieces are requests, even ones newlines.    *)
LEMMA Numbers ==
  ASSUME NEW h \in Nat
  PROVE  /\ NumberAt(2 * h + 1) = h + 1
         /\ NumberAt(2 * h + 2) = 0
         /\ \A p \in Nat : NumberAt(p) \in Nat
BY DEF NumberAt

(* What the operations of the server and of the client do to a stretch.     *)
LEMMA Moved ==
  ASSUME NEW c, NEW h \in Nat, NEW b \in Seq(Pieces), NEW s \in Seq(Pieces), NEW t \in Int,
         NEW gone \in BOOLEAN, Stretch(c, h, b, s, t, gone), NEW n \in 1..Len(s)
  PROVE  /\ b \o SubSeq(s, 1, n) \in Seq(Pieces)
         /\ SubSeq(s, n + 1, Len(s)) \in Seq(Pieces)
         /\ Len(SubSeq(s, n + 1, Len(s))) <= Len(s)
         /\ Stretch(c, h, b \o SubSeq(s, 1, n), SubSeq(s, n + 1, Len(s)), t, gone)
<1>1. Len(b) \in Nat /\ Len(s) \in Nat /\ n \in Nat /\ 1 <= n /\ n <= Len(s)
  BY LenProperties
<1>2. \A i \in 1..Len(s) : s[i] \in Pieces
  BY ElementOfSeq
<1> DEFINE x == SubSeq(s, 1, n)
           y == SubSeq(s, n + 1, Len(s))
           z == b \o x
<1>3. x \in Seq(Pieces) /\ Len(x) = n /\ \A i \in 1..n : x[i] = s[i]
  <2>1. \A i \in 1..n : s[i] \in Pieces
    BY <1>1, <1>2
  <2>2. QED
    BY <1>1, <2>1, SubSeqProperties
<1>4. y \in Seq(Pieces) /\ Len(y) = Len(s) - n /\ \A i \in 1..Len(y) : y[i] = s[n + i]
  <2>1. \A i \in n + 1..Len(s) : s[i] \in Pieces
    BY <1>1, <1>2
  <2>2. /\ y \in Seq(Pieces) /\ Len(y) = IF n + 1 <= Len(s) THEN Len(s) - (n + 1) + 1 ELSE 0
        /\ \A i \in 1..Len(s) - (n + 1) + 1 : y[i] = s[n + 1 + i - 1]
    BY <1>1, <2>1, SubSeqProperties
  <2>3. QED
    BY <1>1, <2>2
<1> HIDE DEF x, y
<1>5. /\ z \in Seq(Pieces) /\ Len(z) = Len(b) + n
      /\ \A i \in 1..Len(z) : z[i] = IF i <= Len(b) THEN b[i] ELSE x[i - Len(b)]
  <2>1. /\ z \in Seq(Pieces) /\ Len(z) = Len(b) + Len(x)
        /\ \A i \in 1..Len(b) + Len(x) : z[i] = IF i <= Len(b) THEN b[i] ELSE x[i - Len(b)]
    BY <1>3, ConcatProperties
  <2>2. QED
    BY <1>3, <2>1
<1> HIDE DEF z
<1>6. Follows(c, 2 * h, z)
  <2> SUFFICES ASSUME NEW j \in 1..Len(z)
               PROVE  z[j].c = c /\ z[j].k = NumberAt(2 * h + j)
    BY DEF Follows
  <2>1. CASE j <= Len(b)
    <3>1. j \in 1..Len(b) /\ z[j] = b[j]
      BY <1>1, <1>5, <2>1
    <3>2. QED
      BY <3>1 DEF Stretch, Follows
  <2>2. CASE j > Len(b)
    <3>1. j - Len(b) \in 1..n /\ j - Len(b) \in 1..Len(s)
      BY <1>1, <1>5, <2>2
    <3>2. z[j] = s[j - Len(b)]
      <4>1. x[j - Len(b)] = s[j - Len(b)]
        BY <1>3, <3>1
      <4>2. z[j] = x[j - Len(b)]
        BY <1>1, <1>5, <2>2
      <4>3. QED
        BY <4>1, <4>2
    <3>3. 2 * h + Len(b) + (j - Len(b)) = 2 * h + j
      BY <1>1, <1>5
    <3>4. QED
      BY <3>1, <3>2, <3>3 DEF Stretch, Follows
  <2>3. QED
    BY <1>1, <1>5, <2>1, <2>2
<1>7. Follows(c, 2 * h + Len(z), y)
  <2> SUFFICES ASSUME NEW j \in 1..Len(y)
               PROVE  y[j].c = c /\ y[j].k = NumberAt(2 * h + Len(z) + j)
    BY DEF Follows
  <2>1. n + j \in 1..Len(s) /\ 2 * h + Len(b) + (n + j) = 2 * h + Len(z) + j
    BY <1>1, <1>4, <1>5
  <2>2. QED
    BY <1>4, <2>1 DEF Stretch, Follows
<1>8. 2 * h + Len(z) + Len(y) = 2 * h + Len(b) + Len(s)
  BY <1>1, <1>4, <1>5
<1>9. Len(y) <= Len(s)
  BY <1>1, <1>4
<1>10. QED
  BY <1>4, <1>5, <1>6, <1>7, <1>8, <1>9 DEF Stretch, x, y, z

LEMMA CutLength ==
  ASSUME NEW l \in Nat, l >= 2
  PROVE  l - 3 + 1 = l - 2 /\ (IF 3 <= l THEN l - 3 + 1 ELSE 0) = l - 2
OBVIOUS

LEMMA TakenOff ==
  ASSUME NEW c, NEW h \in Nat, NEW b \in Seq(Pieces), NEW s \in Seq(Pieces), NEW t \in Int,
         NEW gone \in BOOLEAN, Stretch(c, h, b, s, t, gone), Len(b) >= 2
  PROVE  /\ SubSeq(b, 3, Len(b)) \in Seq(Pieces)
         /\ Stretch(c, h + 1, SubSeq(b, 3, Len(b)), s, t, gone)
<1> DEFINE y == SubSeq(b, 3, Len(b))
<1>1. Len(b) \in Nat /\ Len(s) \in Nat
  BY LenProperties
<1>2. y \in Seq(Pieces) /\ Len(y) = Len(b) - 2 /\ \A i \in 1..Len(y) : y[i] = b[i + 2]
  <2>1. \A i \in 3..Len(b) : b[i] \in Pieces
    BY <1>1, ElementOfSeq
  <2>2. /\ y \in Seq(Pieces) /\ Len(y) = IF 3 <= Len(b) THEN Len(b) - 3 + 1 ELSE 0
        /\ \A i \in 1..Len(b) - 3 + 1 : y[i] = b[3 + i - 1]
    BY <1>1, <2>1, SubSeqProperties
  <2>3. Len(b) - 3 + 1 = Len(b) - 2 /\ Len(y) = Len(b) - 2
    BY <1>1, <2>2, CutLength
  <2>4. \A i \in 1..Len(y) : i \in 1..Len(b) - 3 + 1 /\ 3 + i - 1 = i + 2
    BY <1>1, <2>3
  <2>5. QED
    BY <2>2, <2>3, <2>4
<1> HIDE DEF y
<1>3. Follows(c, 2 * (h + 1), y)
  <2> SUFFICES ASSUME NEW j \in 1..Len(y)
               PROVE  y[j].c = c /\ y[j].k = NumberAt(2 * (h + 1) + j)
    BY DEF Follows
  <2>1. j + 2 \in 1..Len(b) /\ 2 * h + (j + 2) = 2 * (h + 1) + j
    BY <1>1, <1>2
  <2>2. QED
    BY <1>2, <2>1 DEF Stretch, Follows
<1>4. 2 * (h + 1) + Len(y) = 2 * h + Len(b)
  BY <1>1, <1>2
<1>5. QED
  BY <1>2, <1>3, <1>4 DEF Stretch, y

LEMMA SentOn ==
  ASSUME NEW c, NEW h \in Nat, NEW b \in Seq(Pieces), NEW s \in Seq(Pieces), NEW t \in Int,
         Stretch(c, h, b, s, t, FALSE), NEW p \in Pieces, p.c = c, p.k = NumberAt(t + 1)
  PROVE  /\ Append(s, p) \in Seq(Pieces) /\ Len(Append(s, p)) = Len(s) + 1
         /\ Stretch(c, h, b, Append(s, p), t + 1, FALSE)
<1> DEFINE y == Append(s, p)
<1>1. Len(b) \in Nat /\ Len(s) \in Nat
  BY LenProperties
<1>2. /\ y \in Seq(Pieces) /\ Len(y) = Len(s) + 1 /\ y[Len(s) + 1] = p
      /\ \A i \in 1..Len(s) : y[i] = s[i]
  BY AppendProperties
<1> HIDE DEF y
<1>3. Follows(c, 2 * h + Len(b), y)
  <2> SUFFICES ASSUME NEW j \in 1..Len(y)
               PROVE  y[j].c = c /\ y[j].k = NumberAt(2 * h + Len(b) + j)
    BY DEF Follows
  <2>1. CASE j \in 1..Len(s)
    BY <1>2, <2>1 DEF Stretch, Follows
  <2>2. CASE j = Len(s) + 1
    <3>1. 2 * h + Len(b) + j = t + 1
      BY <1>1, <2>2 DEF Stretch
    <3>2. QED
      BY <1>2, <2>2, <3>1
  <2>3. QED
    BY <1>1, <1>2, <2>1, <2>2
<1>4. 2 * h + Len(b) + Len(y) = t + 1
  <2>1. 2 * h + Len(b) + Len(s) = t
    BY Zenon DEF Stretch
  <2>2. QED
    BY <1>1, <1>2, <2>1
<1>5. QED
  BY <1>2, <1>3, <1>4 DEF Stretch, y

LEMMA LeftBehind ==
  ASSUME NEW c, NEW h \in Nat, NEW b \in Seq(Pieces), NEW s \in Seq(Pieces), NEW t \in Int,
         NEW gone \in BOOLEAN, Stretch(c, h, b, s, t, gone)
  PROVE  /\ Stretch(c, h, b, s, t, TRUE)
         /\ Stretch(c, h, b, <<>>, t, TRUE)
         /\ Stretch(c, h, <<>>, <<>>, t, TRUE)
<1>1. Len(b) \in Nat /\ Len(s) \in Nat /\ Len(<<>>) = 0
  BY LenProperties, EmptySeq
<1>2. 2 * h + Len(b) + 0 <= t /\ 2 * h + 0 + 0 <= t
  BY <1>1 DEF Stretch
<1>3. \A p : Follows(c, p, <<>>)
  BY <1>1 DEF Follows
<1>4. QED
  BY <1>1, <1>2, <1>3 DEF Stretch

LEMMA OneLess ==
  ASSUME NEW g \in Nat, NEW q \in Nat, NEW h \in Nat, NEW e \in {0, 1}, g + q + e <= h
  PROVE  g + 0 + e <= h /\ (q >= 1 => g < h)
OBVIOUS

LEMMA Shifted ==
  ASSUME NEW g \in Nat, NEW q \in Nat, q >= 1
  PROVE  /\ (g + 1) + (q - 1) = g + q
         /\ \A i \in 1..q - 1 : i + 1 \in 1..q /\ g + (i + 1) = (g + 1) + i
OBVIOUS

LEMMA OneMore ==
  ASSUME NEW g \in Nat, NEW q \in Nat, NEW h \in Nat
  PROVE  /\ g + q + 1 = g + (q + 1) + 0
         /\ g + q + 1 = g + (q + 1)
         /\ g + q + 0 <= h => g + q + 1 <= h + 1 /\ g + q + 0 <= h + 1
         /\ g + q + 0 = h => g + q + 1 = h + 1
OBVIOUS

(* A whole line in the buffer is one request of the connection: the next.   *)
LEMMA NextLine ==
  ASSUME TypeOK, Places, Streams, at = "lines", HasLine
  PROVE  /\ client \in Conns /\ Len(buf) >= 2
         /\ NewlineAt = 2 /\ Head(Line) = buf[1]
         /\ buf[1].c = client /\ buf[1].k = Done(client) + 1
         /\ buf[1].k \in 1..MaxRequests /\ buf[1].cmd \in Commands
<1> DEFINE h == Done(client)
<1>1. /\ client \in Conns /\ h \in Nat
      /\ buf \in Seq(Pieces) /\ DOMAIN buf = 1..Len(buf) /\ Len(buf) \in Nat
  BY DoneNat, LenProperties DEF TypeOK, Places
<1>2. Follows(client, 2 * h, buf)
  BY <1>1 DEF Streams, Stream, Stretch, Buffered
<1> HIDE DEF h
<1>3. NumberAt(2 * h + 1) = h + 1 /\ NumberAt(2 * h + 2) = 0
  BY <1>1, Numbers
<1>4. PICK n \in 1..Len(buf) : buf[n].k = 0
  BY <1>1 DEF HasLine, IsNewline
<1>5. 1 \in 1..Len(buf) /\ buf[1].k = h + 1 /\ buf[1].c = client
  BY <1>1, <1>2, <1>3, <1>4 DEF Follows
<1>6. Len(buf) >= 2
  BY <1>1, <1>4, <1>5
<1>7. 2 \in 1..Len(buf) /\ buf[2].k = 0
  BY <1>1, <1>2, <1>3, <1>6 DEF Follows
<1>8. NewlineAt = 2
  <2> DEFINE ends == {i \in DOMAIN buf : IsNewline(buf[i])}
  <2>1. 2 \in ends /\ \A i \in ends : i \in Nat /\ 2 <= i
    BY <1>1, <1>5, <1>7 DEF IsNewline
  <2> HIDE DEF ends
  <2>2. Min(ends) = 2
    BY <2>1 DEF Min
  <2>3. QED
    BY <2>2 DEF NewlineAt, ends
<1>9. Head(Line) = buf[1]
  BY <1>1, <1>6, <1>8, HeadTailOfSubSeq DEF Line
<1>10. buf[1] \in Pieces
  BY <1>1, <1>5, ElementOfSeq
<1>11. buf[1].k \in 1..MaxRequests /\ buf[1].cmd \in Commands
  BY <1>1, <1>5, <1>10, PieceTypes
<1>12. QED
  BY <1>1, <1>5, <1>6, <1>8, <1>9, <1>11 DEF h

-----------------------------------------------------------------------------
BridgeTypes ==
  /\ initialized \in BOOLEAN /\ system_loaded \in BOOLEAN
  /\ ares \in {"empty", "loaded", "powered"} /\ frames \in Nat
  /\ portMissed \in BOOLEAN /\ loadedTwice \in BOOLEAN

ServerTypes ==
  /\ at \in {"boot", "accept", "recv", "lines", "send", "close", "exit"}
  /\ client \in Conns \cup {NoConn}
  /\ buf \in Seq(Pieces) /\ resp \in 0..MaxRequests
NetTypes ==
  /\ pending \in Seq(Conns) /\ Len(pending) <= Backlog
  /\ toServer \in [Conns -> Seq(Pieces)] /\ toClient \in [Conns -> Seq(1..MaxRequests)]
  /\ \A c \in Conns : /\ Len(toServer[c]) <= RecvCapacity
                       /\ Len(toClient[c]) <= SendCapacity
  /\ conn \in [Conns -> [state : {"new", "here", "gone"}, mode : {"send", "read"},
                         next : 1..MaxRequests + 1, mid : BOOLEAN,
                         got : Seq(1..MaxRequests)]]
LogTypes == log \in Seq(LogRecords)

LEMMA TypeParts ==
  /\ TypeOK <=> BridgeTypes /\ ServerTypes /\ NetTypes /\ LogTypes
  /\ TypeOK' <=> BridgeTypes' /\ ServerTypes' /\ NetTypes' /\ LogTypes'
BY DEF TypeOK, BridgeTypes, ServerTypes, NetTypes, LogTypes, LogRecords

LEMMA InitIInv == Init => IInv
<1> SUFFICES ASSUME Init PROVE IInv
  OBVIOUS
<1>1. TypeOK
  <2>1. <<>> \in Seq(Pieces) /\ <<>> \in Seq(Conns) /\ <<>> \in Seq(1..MaxRequests)
        /\ <<>> \in Seq(LogRecords) /\ Len(<<>>) = 0
    BY EmptySeq
  <2>2. MaxRequests \in Nat /\ Backlog \in Nat /\ RecvCapacity \in Nat /\ SendCapacity \in Nat
    BY ServerAssumption
  <2>3. BridgeTypes
    BY DEF Init, BridgeInit, BridgeTypes
  <2>4. /\ at \in {"boot"} /\ client = NoConn /\ buf = <<>> /\ resp = 0 /\ pending = <<>>
        /\ log = <<>>
        /\ toServer \in [Conns -> {<<>>}] /\ toClient \in [Conns -> {<<>>}]
    BY DEF Init
  <2>5. conn \in [Conns -> [state : {"new", "here", "gone"}, mode : {"send", "read"},
                           next : 1..MaxRequests + 1, mid : BOOLEAN,
                           got : Seq(1..MaxRequests)]]
    BY <2>1, <2>2 DEF Init
  <2>6. /\ toServer \in [Conns -> Seq(Pieces)] /\ toClient \in [Conns -> Seq(1..MaxRequests)]
        /\ \A c \in Conns : Len(toServer[c]) <= RecvCapacity /\ Len(toClient[c]) <= SendCapacity
    <3>1. /\ toServer \in [Conns -> Seq(Pieces)] /\ toClient \in [Conns -> Seq(1..MaxRequests)]
          /\ \A c \in Conns : toServer[c] = <<>> /\ toClient[c] = <<>>
      BY <2>1 DEF Init
    <3>2. QED
      BY <2>1, <2>2, <3>1
  <2>7. /\ at \in {"boot", "accept", "recv", "lines", "send", "close", "exit"}
        /\ client \in Conns \cup {NoConn} /\ buf \in Seq(Pieces) /\ resp \in 0..MaxRequests
        /\ pending \in Seq(Conns) /\ Len(pending) <= Backlog /\ log \in Seq(LogRecords)
    BY <2>1, <2>2, <2>4
  <2>8. QED
    BY <2>3, <2>5, <2>6, <2>7 DEF TypeOK, BridgeTypes, LogRecords
<1>2. \A c : Done(c) = 0
  BY CountEmpty DEF Init, Done
<1>3. Places /\ Queue
  BY ServerAssumption DEF Init, Places, Queue
<1>4. Streams /\ Answers
  BY <1>2, ServerAssumption
     DEF Init, Streams, Stream, Stretch, Answers, AnswersTo, Exchange, Exited, Exchange, Exited, Follows, Buffered, Sent, Gone, Sending
<1>5. Emulator
  BY DEF Init, BridgeInit, Emulator, LoadedIsPowered
<1>6. QED
  BY <1>1, <1>3, <1>4, <1>5 DEF IInv

(* What the emulator's invariant needs: it depends on the bridge alone.     *)
LEMMA EmulatorKept == Emulator /\ UNCHANGED bridgeVars => Emulator'
BY DEF Emulator, bridgeVars, LoadedIsPowered

LEMMA ResetKeeps ==
  ASSUME Emulator, BridgeTypes, NEW status, ares_reset(status)
  PROVE  Emulator' /\ BridgeTypes'
<1>1. CASE ~initialized
  BY <1>1 DEF ares_reset, bridgeVars, Emulator, LoadedIsPowered, BridgeTypes
<1>2. CASE initialized
  <2>1. /\ LoadRefused \/ PortMissing \/ PoweredOn
        /\ frames' = 0 /\ initialized' = initialized
    BY <1>2 DEF ares_reset
  <2>2. Unloaded \in {"empty", "loaded"} /\ (Unloaded = "loaded" => portMissed)
    BY DEF Unloaded, Emulator, LoadedIsPowered, BridgeTypes
  <2>3. CASE LoadRefused
    BY <2>1, <2>2, <2>3 DEF LoadRefused, Emulator, LoadedIsPowered, BridgeTypes
  <2>4. CASE PortMissing
    BY <2>1, <2>2, <2>4 DEF PortMissing, Emulator, LoadedIsPowered, BridgeTypes
  <2>5. CASE PoweredOn
    BY <2>1, <2>2, <2>5 DEF PoweredOn, Emulator, LoadedIsPowered, BridgeTypes
  <2>6. QED
    BY <2>1, <2>3, <2>4, <2>5
<1>3. QED
  BY <1>1, <1>2

LEMMA StreamTypes ==
  ASSUME TypeOK, NEW c \in Conns
  PROVE  /\ Done(c) \in Nat /\ Sent(c) \in Int /\ Gone(c) \in BOOLEAN
         /\ Buffered(c) \in Seq(Pieces) /\ toServer[c] \in Seq(Pieces)
<1>1. Done(c) \in Nat
  BY DoneNat
<1>2. conn[c].next \in Nat /\ conn[c].mid \in BOOLEAN
  BY ServerAssumption DEF TypeOK
<1>3. Sent(c) \in Int /\ Gone(c) \in BOOLEAN
  BY <1>2 DEF Sent, Gone
<1>4. buf \in Seq(Pieces) /\ toServer[c] \in Seq(Pieces)
  BY DEF TypeOK
<1>5. Buffered(c) \in Seq(Pieces)
  BY <1>4, EmptySeq DEF Buffered
<1>6. QED
  BY <1>1, <1>3, <1>4, <1>5

(* The streams and answers do not depend on where the server is outside of  *)
(* send().                                                                  *)
LEMMA BootInv ==
  ASSUME IInv, BootInit \/ BootReset
  PROVE  IInv'
<1>1. /\ at = "boot" /\ at' \in {"boot", "accept", "exit"}
      /\ UNCHANGED <<client, buf, resp, pending, toServer, toClient, conn, log>>
  BY DEF BootInit, BootReset, netVars
<1>2. Emulator' /\ BridgeTypes'
  <2>1. Emulator /\ BridgeTypes
    BY DEF IInv, TypeOK, BridgeTypes
  <2>2. CASE BootInit
    <3>1. PICK status : ares_init(status)
      BY <2>2 DEF BootInit
    <3>2. UNCHANGED <<system_loaded, ares, frames, portMissed, loadedTwice>>
          /\ initialized' \in {initialized, TRUE}
      BY <3>1 DEF ares_init, bridgeVars
    <3>3. QED
      BY <2>1, <3>2 DEF BridgeTypes, Emulator, LoadedIsPowered
  <2>3. CASE BootReset
    BY <2>1, <2>3, ResetKeeps DEF BootReset
  <2>4. QED
    BY <2>2, <2>3
<1>3. TypeOK'
  BY <1>1, <1>2 DEF IInv, TypeOK, BridgeTypes
<1>4. Places' /\ Queue'
  BY <1>1 DEF IInv, Places, Queue
<1>5. \A c : Done(c)' = Done(c)
  BY <1>1 DEF Done
<1>6. Streams'
  BY <1>1, <1>5 DEF IInv, Streams, Stream, Buffered, Sent, Gone
<1>7. Answers'
  BY <1>1, <1>5 DEF IInv, Answers, AnswersTo, Exchange, Exited, Sending, Gone
<1>8. QED
  BY <1>2, <1>3, <1>4, <1>6, <1>7 DEF IInv

LEMMA AcceptInv ==
  ASSUME IInv, Accept
  PROVE  IInv'
<1>1. /\ at = "accept" /\ at' = "recv" /\ client = NoConn /\ buf = <<>>
      /\ pending # <<>> /\ client' = Head(pending) /\ pending' = Tail(pending)
      /\ UNCHANGED <<bridgeVars, buf, resp, toServer, toClient, conn, log>>
      /\ pending \in Seq(Conns)
  BY DEF IInv, Accept, Places, TypeOK
<1>2. /\ client' = pending[1] /\ client' \in Conns
      /\ pending' \in Seq(Conns) /\ Len(pending') = Len(pending) - 1
      /\ Len(pending) \in Nat \ {0}
      /\ \A i \in 1..Len(pending') : pending'[i] = pending[i + 1]
  BY <1>1, HeadTailProperties, EmptySeq
<1>3. Emulator'
  BY <1>1, EmulatorKept DEF IInv
<1>4. TypeOK'
  <2>1. BridgeTypes /\ ServerTypes /\ NetTypes /\ LogTypes
    BY TypeParts DEF IInv
  <2>2. BridgeTypes' /\ LogTypes'
    BY <1>1, <2>1 DEF BridgeTypes, LogTypes, bridgeVars
  <2>3. ServerTypes'
    BY <1>1, <1>2, <2>1 DEF ServerTypes
  <2>4. Len(pending') <= Backlog
    BY <1>2, <2>1, ServerAssumption DEF NetTypes
  <2>5. NetTypes'
    BY <1>1, <1>2, <2>1, <2>4 DEF NetTypes
  <2>6. QED
    BY <2>2, <2>3, <2>5, TypeParts
<1>5. Places' /\ Queue'
  BY <1>1, <1>2, ServerAssumption DEF IInv, Places, Queue
<1>6. \A c : Done(c)' = Done(c)
  BY <1>1 DEF Done
<1>7. Streams'
  <2>1. \A c : Buffered(c)' = Buffered(c)
    BY <1>1 DEF Buffered
  <2>2. QED
    BY <1>1, <1>6, <2>1 DEF IInv, Streams, Stream, Sent, Gone
<1>8. Answers'
  BY <1>1, <1>2, <1>6 DEF IInv, Answers, AnswersTo, Exchange, Exited, Sending, Gone
<1>9. QED
  BY <1>3, <1>4, <1>5, <1>7, <1>8 DEF IInv

LEMMA CloseInv ==
  ASSUME IInv, Close
  PROVE  IInv'
<1>1. /\ at = "close" /\ at' = "accept" /\ client \in Conns
      /\ client' = NoConn /\ client' \notin Conns /\ buf' = <<>>
      /\ conn[client].state = "gone" /\ toServer[client] = <<>>
      /\ UNCHANGED <<bridgeVars, resp, pending, toServer, toClient, conn, log>>
  BY ServerAssumption DEF IInv, Close, Places, netVars
<1>2. Emulator'
  BY <1>1, EmulatorKept DEF IInv
<1>3. TypeOK'
  BY <1>1, EmptySeq DEF IInv, TypeOK, bridgeVars
<1>4. pending \in Seq(Conns) /\ \A i \in 1..Len(pending) : pending[i] \in Conns
  BY ElementOfSeq DEF IInv, TypeOK
<1>5. Places' /\ Queue'
  BY <1>1, <1>4 DEF IInv, Places, Queue
<1>6. \A c : Done(c)' = Done(c) /\ Done(c) \in Nat
  BY <1>1, DoneNat DEF Done, IInv
<1>7. Streams'
  <2> SUFFICES ASSUME NEW c \in Conns PROVE Stream(c)'
    BY DEF Streams
  <2>1. Stretch(c, Done(c), Buffered(c), toServer[c], Sent(c), Gone(c))
    BY DEF IInv, Streams, Stream
  <2>2. Sent(c)' = Sent(c) /\ Gone(c)' = Gone(c) /\ Buffered(c)' = <<>> /\ toServer'[c] = toServer[c]
    BY <1>1 DEF Sent, Gone, Buffered
  <2>3. CASE c = client
    <3>1. toServer[c] = <<>> /\ Gone(c) = TRUE
      BY <1>1, <2>3 DEF Gone
    <3>2. Stretch(c, Done(c), <<>>, <<>>, Sent(c), TRUE)
      BY <1>6, <2>1, StreamTypes, LeftBehind DEF IInv
    <3>3. QED
      BY <1>6, <2>2, <3>1, <3>2 DEF Stream
  <2>4. CASE c # client
    <3>1. Buffered(c) = <<>>
      BY <2>4 DEF Buffered
    <3>2. QED
      BY <1>6, <2>1, <2>2, <3>1 DEF Stream
  <2>5. QED
    BY <2>3, <2>4
<1>8. Answers'
  BY <1>1, <1>6 DEF IInv, Answers, AnswersTo, Exchange, Exited, Sending, Gone
<1>9. QED
  BY <1>2, <1>3, <1>5, <1>7, <1>8 DEF IInv

LEMMA StayInv ==
  ASSUME IInv, RecvEnds \/ NoMoreLines
  PROVE  IInv'
<1>1. /\ at \in {"recv", "lines"} /\ at' \in {"close", "recv"}
      /\ at' = "close" => toServer[client] = <<>> /\ conn[client].state = "gone"
      /\ UNCHANGED <<bridgeVars, client, buf, resp, pending, toServer, toClient, conn, log>>
  BY DEF RecvEnds, NoMoreLines, netVars
<1>2. Emulator'
  BY <1>1, EmulatorKept DEF IInv
<1>3. TypeOK'
  BY <1>1 DEF IInv, TypeOK, bridgeVars
<1>4. Places' /\ Queue'
  BY <1>1 DEF IInv, Places, Queue
<1>5. \A c : Done(c)' = Done(c)
  BY <1>1 DEF Done
<1>6. Streams'
  BY <1>1, <1>5 DEF IInv, Streams, Stream, Buffered, Sent, Gone
<1>7. Answers'
  BY <1>1, <1>5 DEF IInv, Answers, AnswersTo, Exchange, Exited, Sending, Gone
<1>8. QED
  BY <1>2, <1>3, <1>4, <1>6, <1>7 DEF IInv

LEMMA RecvInv ==
  ASSUME IInv, Recv
  PROVE  IInv'
<1>1. /\ at = "recv" /\ at' = "lines" /\ client \in Conns
      /\ toServer \in [Conns -> Seq(Pieces)]
      /\ UNCHANGED <<bridgeVars, client, resp, pending, toClient, conn, log>>
  BY DEF IInv, Recv, Places, TypeOK
<1> DEFINE s == toServer[client]
<1>2. PICK n \in 1..Len(s) :
        /\ buf' = buf \o SubSeq(s, 1, n)
        /\ toServer' = [toServer EXCEPT ![client] = SubSeq(s, n + 1, Len(s))]
  BY <1>1 DEF Recv
<1>3. /\ Stretch(client, Done(client), buf, s, Sent(client), Gone(client))
      /\ Done(client) \in Nat /\ Sent(client) \in Int /\ Gone(client) \in BOOLEAN
      /\ buf \in Seq(Pieces) /\ s \in Seq(Pieces)
  BY <1>1, StreamTypes DEF IInv, Streams, Stream, Buffered, TypeOK
<1>4. /\ toServer'[client] = SubSeq(s, n + 1, Len(s))
      /\ \A c \in Conns \ {client} : toServer'[c] = toServer[c]
  BY <1>1, <1>2
<1> HIDE DEF s
<1>5. /\ buf' \in Seq(Pieces) /\ toServer'[client] \in Seq(Pieces)
      /\ Len(toServer'[client]) <= Len(s)
      /\ Stretch(client, Done(client), buf', toServer'[client], Sent(client), Gone(client))
  <2>1. /\ buf \o SubSeq(s, 1, n) \in Seq(Pieces)
        /\ SubSeq(s, n + 1, Len(s)) \in Seq(Pieces)
        /\ Len(SubSeq(s, n + 1, Len(s))) <= Len(s)
        /\ Stretch(client, Done(client), buf \o SubSeq(s, 1, n), SubSeq(s, n + 1, Len(s)),
                   Sent(client), Gone(client))
    BY <1>3, Moved
  <2>2. QED
    BY <1>2, <1>4, <2>1
<1>6. TypeOK'
  <2>1. toServer' \in [Conns -> Seq(Pieces)]
    BY <1>1, <1>2, <1>4, <1>5
  <2>2. Len(toServer'[client]) <= RecvCapacity
    <3>1. /\ Len(s) <= RecvCapacity /\ RecvCapacity \in Nat
          /\ Len(s) \in Nat /\ Len(toServer'[client]) \in Nat
      BY <1>1, <1>3, <1>5, LenProperties, ServerAssumption DEF IInv, TypeOK, s
    <3>2. QED
      BY <1>5, <3>1
  <2>3. \A c \in Conns : Len(toServer'[c]) <= RecvCapacity
    BY <1>4, <2>2 DEF IInv, TypeOK
  <2>4. QED
    BY <1>1, <1>5, <2>1, <2>3 DEF IInv, TypeOK, bridgeVars
<1>7. Emulator' /\ Places' /\ Queue'
  BY <1>1, EmulatorKept, ServerAssumption DEF IInv, Places, Queue
<1>8. \A c : Done(c)' = Done(c) /\ Sent(c)' = Sent(c) /\ Gone(c)' = Gone(c)
  BY <1>1 DEF Done, Sent, Gone
<1>9. Streams'
  <2> SUFFICES ASSUME NEW c \in Conns PROVE Stream(c)'
    BY DEF Streams
  <2>1. CASE c = client
    <3>1. Buffered(c)' = buf'
      BY <1>1, <2>1 DEF Buffered
    <3>2. QED
      BY <1>5, <1>8, <2>1, <3>1 DEF Stream
  <2>2. CASE c # client
    <3>1. Buffered(c)' = Buffered(c) /\ toServer'[c] = toServer[c]
      BY <1>1, <1>4, <2>2 DEF Buffered
    <3>2. QED
      BY <1>8, <3>1 DEF IInv, Streams, Stream
  <2>3. QED
    BY <2>1, <2>2
<1>10. Answers'
  BY <1>1, <1>8 DEF IInv, Answers, AnswersTo, Exchange, Exited, Sending
<1>11. QED
  BY <1>6, <1>7, <1>9, <1>10 DEF IInv

(* What a line leaves behind, whatever the command does to the emulator.    *)
LEMMA LineTaken ==
  ASSUME IInv, at = "lines", HasLine,
         NEW name \in {"read", "step_frame", "reset", "quit"}, NEW done \in 0..FrameCap,
         log' = Append(log, [c |-> Head(Line).c, k |-> Head(Line).k, name |-> name, done |-> done]),
         buf' = BufferAfter, UNCHANGED <<client, netVars>>
  PROVE  /\ log' \in Seq(LogRecords) /\ buf' \in Seq(Pieces)
         /\ Done(client)' = Done(client) + 1
         /\ \A c : c # client => Done(c)' = Done(c)
         /\ Streams'
<1>1. /\ client \in Conns /\ Len(buf) >= 2 /\ NewlineAt = 2
      /\ Head(Line).c = client /\ Head(Line).k \in 1..MaxRequests
  BY NextLine DEF IInv
<1> DEFINE e == [c |-> Head(Line).c, k |-> Head(Line).k, name |-> name, done |-> done]
<1>2. e \in LogRecords /\ e.c = client /\ log \in Seq(LogRecords)
  BY <1>1 DEF LogRecords, IInv, TypeOK
<1>3. log' = Append(log, e)
  OBVIOUS
<1> HIDE DEF e
<1>4. log' \in Seq(LogRecords)
  BY <1>2, <1>3, AppendProperties
<1>5. \A c : Done(c)' = Done(c) + (IF client = c THEN 1 ELSE 0)
  <2> TAKE c
  <2>1. CountOf(log', c) = CountOf(log, c) + (IF client = c THEN 1 ELSE 0)
    BY <1>2, <1>3, CountAppend
  <2>2. QED
    BY <2>1 DEF Done, CountOf
<1>6. \A c : Done(c) \in Nat
  BY DoneNat DEF IInv
<1>7. /\ Stretch(client, Done(client), buf, toServer[client], Sent(client), Gone(client))
      /\ Sent(client) \in Int /\ Gone(client) \in BOOLEAN
      /\ buf \in Seq(Pieces) /\ toServer[client] \in Seq(Pieces)
  BY <1>1, StreamTypes DEF IInv, Streams, Stream, Buffered, TypeOK
<1>8. buf' = SubSeq(buf, 3, Len(buf))
  BY <1>1 DEF BufferAfter
<1>9. /\ buf' \in Seq(Pieces)
      /\ Stretch(client, Done(client) + 1, buf', toServer[client], Sent(client), Gone(client))
  <2>1. /\ SubSeq(buf, 3, Len(buf)) \in Seq(Pieces)
        /\ Stretch(client, Done(client) + 1, SubSeq(buf, 3, Len(buf)), toServer[client],
                   Sent(client), Gone(client))
    BY <1>1, <1>6, <1>7, TakenOff
  <2>2. QED
    BY <1>8, <2>1
<1>10. Streams'
  <2> SUFFICES ASSUME NEW c \in Conns PROVE Stream(c)'
    BY DEF Streams
  <2>1. Sent(c)' = Sent(c) /\ Gone(c)' = Gone(c) /\ toServer'[c] = toServer[c]
    BY DEF Sent, Gone, netVars
  <2>2. CASE c = client
    <3>1. Buffered(c)' = buf' /\ Done(c)' = Done(c) + 1
      BY <1>5, <2>2 DEF Buffered
    <3>2. QED
      BY <1>9, <2>1, <2>2, <3>1 DEF Stream
  <2>3. CASE c # client
    <3>1. Buffered(c)' = Buffered(c) /\ Done(c)' = Done(c)
      BY <1>5, <1>6, <2>3 DEF Buffered
    <3>2. QED
      BY <2>1, <3>1 DEF IInv, Streams, Stream
  <2>4. QED
    BY <2>2, <2>3
<1>11. QED
  BY <1>4, <1>5, <1>6, <1>9, <1>10

LEMMA HandleInv ==
  ASSUME IInv, Handle
  PROVE  IInv'
<1> DEFINE request == Head(Line)
<1>1. /\ at = "lines" /\ at' = "send" /\ HasLine /\ buf' = BufferAfter /\ resp' = request.k
      /\ UNCHANGED <<client, pending, toServer, toClient, conn>> /\ UNCHANGED <<client, netVars>>
  BY DEF Handle, netVars
<1>2. /\ client \in Conns /\ request.c = client /\ request.k = Done(client) + 1
      /\ request.k \in 1..MaxRequests /\ request.cmd \in Commands
  BY <1>1, NextLine DEF IInv
<1>3. PICK status \in Statuses, done \in 0..Clamped(request.cmd.n) :
        /\ Execute(request.cmd, done, status)
        /\ log' = Append(log, [c |-> request.c, k |-> request.k,
                               name |-> request.cmd.name, done |-> done])
  BY DEF Handle
<1>4. /\ request.cmd.n \in Nat
      /\ request.cmd.name \in {"read", "step_frame", "reset", "quit"}
  BY <1>2, ServerAssumption
<1> HIDE DEF request
<1>5. Clamped(request.cmd.n) \in Nat /\ Clamped(request.cmd.n) <= FrameCap /\ FrameCap \in Nat
  BY <1>4, FrameCapAssumption DEF Clamped
<1>6. done \in 0..FrameCap
  BY <1>3, <1>5
<1>7. Emulator' /\ BridgeTypes'
  <2>1. Emulator /\ BridgeTypes
    BY DEF IInv, TypeOK, BridgeTypes
  <2>2. CASE ares_reset(status)
    BY <2>1, <2>2, ResetKeeps
  <2>3. CASE UNCHANGED bridgeVars
    BY <2>1, <2>3, EmulatorKept DEF BridgeTypes, bridgeVars
  <2>4. CASE /\ frames' = frames + Clamped(request.cmd.n)
             /\ UNCHANGED <<initialized, system_loaded, ares, portMissed, loadedTwice>>
    <3>1. frames' \in Nat
      BY <1>5, <2>1, <2>4 DEF BridgeTypes
    <3>2. QED
      BY <2>1, <2>4, <3>1 DEF BridgeTypes, Emulator, LoadedIsPowered
  <2>5. QED
    BY <1>3, <2>2, <2>3, <2>4 DEF Execute, ares_read, ares_step_frames
<1>8. /\ log' \in Seq(LogRecords) /\ buf' \in Seq(Pieces)
      /\ Done(client)' = Done(client) + 1
      /\ \A c : c # client => Done(c)' = Done(c)
      /\ Streams'
  BY <1>1, <1>3, <1>4, <1>6, LineTaken DEF request
<1>9. TypeOK'
  <2>1. ServerTypes /\ NetTypes
    BY TypeParts DEF IInv
  <2>2. resp' \in 0..MaxRequests
    BY <1>1, <1>2, ServerAssumption
  <2>3. ServerTypes'
    BY <1>1, <1>8, <2>1, <2>2 DEF ServerTypes
  <2>4. NetTypes' /\ LogTypes'
    BY <1>1, <1>8, <2>1 DEF NetTypes, LogTypes
  <2>5. QED
    BY <1>7, <2>3, <2>4, TypeParts
<1>10. Places' /\ Queue'
  BY <1>1, <1>2, ServerAssumption DEF IInv, Places, Queue
<1>11. Answers'
  <2> SUFFICES ASSUME NEW c \in Conns PROVE AnswersTo(c)'
    BY DEF Answers
  <2>1. AnswersTo(c)
    BY DEF IInv, Answers
  <2>2. /\ Len(conn[c].got) \in Nat /\ Len(toClient[c]) \in Nat /\ Done(c) \in Nat
    BY DoneNat, LenProperties DEF IInv, TypeOK
  <2>3. CASE c = client
    <3>1. Sending(c) = 0 /\ Sending(c)' = 1 /\ Done(c)' = Done(c) + 1 /\ Gone(c)' = Gone(c)
      BY <1>1, <1>8, <2>3 DEF Sending, Gone
    <3>2. /\ Len(conn[c].got) + Len(toClient[c]) + 1 <= Done(c) + 1
          /\ ~Gone(c) => Len(conn[c].got) + Len(toClient[c]) + 1 = Done(c) + 1
      <4>1. /\ Len(conn[c].got) + Len(toClient[c]) + 0 <= Done(c)
            /\ ~Gone(c) => Len(conn[c].got) + Len(toClient[c]) + 0 = Done(c)
        BY <1>1, <2>1, <3>1 DEF AnswersTo, Exchange, Exited
      <4>2. QED
        <5> DEFINE g == Len(conn[c].got)
                   q == Len(toClient[c])
                   h == Done(c)
        <5>1. g \in Nat /\ q \in Nat /\ h \in Nat
          BY <2>2
        <5>2. g + q + 0 <= h /\ (~Gone(c) => g + q + 0 = h)
          BY <4>1
        <5> HIDE DEF g, q, h
        <5>3. g + q + 1 <= h + 1 /\ (~Gone(c) => g + q + 1 = h + 1)
          BY <5>1, <5>2, OneMore
        <5>4. QED
          BY <5>3 DEF g, q, h
    <3>3. resp' = Done(c) + 1 /\ conn' = conn /\ toClient' = toClient
      BY <1>1, <1>2, <2>3
    <3>4. QED
      BY <1>1, <2>1, <3>1, <3>2, <3>3 DEF AnswersTo, Exchange, Exited
  <2>4. CASE c # client
    <3>1. /\ Sending(c) = 0 /\ Sending(c)' = 0 /\ Done(c)' = Done(c) /\ Gone(c)' = Gone(c)
          /\ Exited' = Exited
          /\ toClient'[c] = toClient[c] /\ conn'[c].got = conn[c].got
      BY <1>1, <1>8, <2>4 DEF Sending, Gone, Exited
    <3>2. Sending(c)' # 1
      BY <3>1
    <3>3. QED
      BY <2>1, <3>1, <3>2, Zenon DEF AnswersTo
  <2>5. QED
    BY <2>3, <2>4
<1>12. QED
  BY <1>7, <1>8, <1>9, <1>10, <1>11 DEF IInv

LEMMA QuitInv ==
  ASSUME IInv, Quit
  PROVE  IInv'
<1>1. /\ at = "lines" /\ at' = "exit" /\ HasLine /\ buf' = BufferAfter
      /\ UNCHANGED <<bridgeVars, client, resp, pending, toServer, toClient, conn>>
      /\ UNCHANGED <<client, netVars>>
      /\ log' = Append(log, [c |-> Head(Line).c, k |-> Head(Line).k, name |-> "quit", done |-> 0])
  BY DEF Quit, netVars
<1>2. /\ log' \in Seq(LogRecords) /\ buf' \in Seq(Pieces)
      /\ Done(client)' = Done(client) + 1
      /\ \A c : c # client => Done(c)' = Done(c)
      /\ Streams'
  <2>1. 0 \in 0..FrameCap
    BY FrameCapAssumption
  <2>2. QED
    BY <1>1, <2>1, LineTaken
<1>3. client \in Conns
  BY <1>1 DEF IInv, Places
<1>4. TypeOK'
  BY <1>1, <1>2 DEF IInv, TypeOK, LogRecords, bridgeVars
<1>5. Places' /\ Queue' /\ Emulator'
  BY <1>1, <1>3, EmulatorKept, ServerAssumption DEF IInv, Places, Queue
<1>6. Answers'
  <2> SUFFICES ASSUME NEW c \in Conns PROVE AnswersTo(c)'
    BY DEF Answers
  <2>1. AnswersTo(c)
    BY DEF IInv, Answers
  <2>2. /\ Len(conn[c].got) \in Nat /\ Len(toClient[c]) \in Nat /\ Done(c) \in Nat
    BY DoneNat, LenProperties DEF IInv, TypeOK
  <2>3. /\ Sending(c) = 0 /\ Sending(c)' = 0 /\ Done(c)' \in {Done(c), Done(c) + 1}
        /\ Gone(c)' = Gone(c)
    BY <1>1, <1>2 DEF Sending, Gone
  <2>4. Len(conn[c].got) + Len(toClient[c]) + 0 <= Done(c)'
    <3>1. Len(conn[c].got) + Len(toClient[c]) + 0 <= Done(c)
      BY <2>1, <2>3 DEF AnswersTo, Exchange, Exited
    <3>2. QED
      <4>1. CASE Done(c)' = Done(c)
        BY <3>1, <4>1
      <4>2. CASE Done(c)' = Done(c) + 1
        <5>1. Len(conn[c].got) + Len(toClient[c]) + 0 <= Done(c) + 1
          BY <2>2, <3>1, OneMore
        <5>2. QED
          BY <4>2, <5>1
      <4>3. QED
        BY <2>3, <4>1, <4>2
  <2>5. Exited' = TRUE /\ toClient'[c] = toClient[c] /\ conn'[c].got = conn[c].got
    BY <1>1 DEF Exited
  <2>6. Exchange(conn[c].got, toClient[c], 0, Done(c)', Gone(c), TRUE)
    BY <2>1, <2>4 DEF AnswersTo, Exchange
  <2>7. QED
    <3>1. Sending(c)' # 1
      BY <2>3
    <3>2. QED
      BY <2>3, <2>5, <2>6, <3>1, Zenon DEF AnswersTo
<1>7. QED
  BY <1>2, <1>4, <1>5, <1>6 DEF IInv

LEMMA SendInv ==
  ASSUME IInv, Send
  PROVE  IInv'
<1>1. /\ at = "send" /\ at' = "lines" /\ client \in Conns /\ resp' = 0
      /\ UNCHANGED <<bridgeVars, client, buf, pending, toServer, conn, log>>
      /\ toClient \in [Conns -> Seq(1..MaxRequests)]
  BY DEF IInv, Send, Places, TypeOK
<1>2. \A c : Done(c)' = Done(c) /\ Done(c) \in Nat
  BY <1>1, DoneNat DEF Done, IInv
<1>3. \A c \in Conns : Sending(c) = (IF c = client THEN 1 ELSE 0) /\ Sending(c)' = 0 /\ Gone(c)' = Gone(c)
  BY <1>1 DEF Sending, Gone
<1>4. \A c \in Conns : Len(conn[c].got) \in Nat /\ Len(toClient[c]) \in Nat
  BY LenProperties DEF IInv, TypeOK
<1>5. /\ toClient' \in [Conns -> Seq(1..MaxRequests)]
      /\ \A c \in Conns : Len(toClient'[c]) <= SendCapacity /\ AnswersTo(c)'
  <2>1. CASE Gone(client) /\ UNCHANGED toClient
    <3>1. ASSUME NEW c \in Conns PROVE AnswersTo(c)'
      BY <1>1, <1>2, <1>3, <1>4, <2>1 DEF IInv, Answers, AnswersTo, Exchange, Exited
    <3>2. QED
      BY <1>1, <2>1, <3>1 DEF IInv, TypeOK
  <2>2. CASE /\ ~Gone(client) /\ Len(toClient[client]) < SendCapacity
             /\ toClient' = [toClient EXCEPT ![client] = Append(toClient[client], resp)]
    <3> DEFINE q == Append(toClient[client], resp)
    <3>1. AnswersTo(client) /\ resp = Done(client)
      <4>1. AnswersTo(client) /\ Sending(client) = 1
        BY <1>1, <1>3 DEF IInv, Answers
      <4>2. QED
        BY <4>1 DEF AnswersTo
    <3>2. resp = Len(conn[client].got) + Len(toClient[client]) + 1
      BY <1>1, <1>3, <2>2, <3>1 DEF AnswersTo, Exchange, Exited
    <3>3. resp \in 1..MaxRequests
      BY <1>1, <1>4, <3>2, ServerAssumption DEF IInv, TypeOK
    <3>4. /\ q \in Seq(1..MaxRequests) /\ Len(q) = Len(toClient[client]) + 1
          /\ q[Len(toClient[client]) + 1] = resp
          /\ \A i \in 1..Len(toClient[client]) : q[i] = toClient[client][i]
      BY <1>1, <3>3, AppendProperties
    <3>5. toClient'[client] = q /\ \A c \in Conns \ {client} : toClient'[c] = toClient[c]
      BY <1>1, <2>2
    <3>6. toClient' \in [Conns -> Seq(1..MaxRequests)]
      BY <1>1, <2>2, <3>4
    <3> HIDE DEF q
    <3>7. ASSUME NEW c \in Conns, c = client PROVE AnswersTo(c)'
      <4>1. \A i \in 1..Len(q) : q[i] = Len(conn[client].got) + i
        <5> SUFFICES ASSUME NEW i \in 1..Len(q) PROVE q[i] = Len(conn[client].got) + i
          OBVIOUS
        <5>1. CASE i \in 1..Len(toClient[client])
          BY <1>1, <3>1, <3>4, <5>1 DEF AnswersTo, Exchange, Exited
        <5>2. CASE i = Len(toClient[client]) + 1
          <6>1. /\ Len(conn[client].got) \in Nat /\ Len(toClient[client]) \in Nat
            BY <1>1, <1>4
          <6>2. Len(conn[client].got) + Len(toClient[client]) + 1 = Len(conn[client].got) + (Len(toClient[client]) + 1)
            BY <5>2, <6>1, OneMore
          <6>3. QED
            BY <3>2, <3>4, <5>2, <6>2
        <5>3. QED
          BY <1>1, <1>4, <3>4, <5>1, <5>2
      <4>2. Len(conn[client].got) + Len(q) + 0 = Done(client)
        <5>1. Len(conn[client].got) \in Nat /\ Len(toClient[client]) \in Nat
          BY <1>1, <1>4
        <5>2. Len(conn[client].got) + (Len(toClient[client]) + 1) + 0 = resp
          BY <3>2, <5>1, OneMore
        <5>3. QED
          BY <3>1, <3>4, <5>2
      <4>3. QED
        <5>1. Done(client) \in Nat
          BY <1>2
        <5>2. \A i \in 1..Len(conn[client].got) : conn[client].got[i] = i
          BY <3>1 DEF AnswersTo, Exchange
        <5>3. ~Gone(client)
          BY <2>2
        <5>4. Exchange(conn[c].got, q, 0, Done(c), Gone(c), FALSE)
          BY <3>7, <4>1, <4>2, <5>1, <5>2, <5>3 DEF Exchange
        <5>5. /\ conn'[c].got = conn[c].got /\ toClient'[c] = q /\ Sending(c)' = 0
              /\ Done(c)' = Done(c) /\ Gone(c)' = Gone(c) /\ Exited' = FALSE
          BY <1>1, <1>2, <1>3, <3>5, <3>7 DEF Exited
        <5>6. Sending(c)' # 1
          BY <5>5
        <5>7. QED
          BY <5>4, <5>5, <5>6, Zenon DEF AnswersTo
    <3>8. ASSUME NEW c \in Conns \ {client} PROVE AnswersTo(c)'
      <4>1. /\ conn'[c].got = conn[c].got /\ toClient'[c] = toClient[c]
            /\ Sending(c) = 0 /\ Sending(c)' = 0 /\ Done(c)' = Done(c) /\ Gone(c)' = Gone(c)
            /\ Exited' = Exited
        BY <1>1, <1>2, <1>3, <3>5 DEF Exited
      <4>2. AnswersTo(c) /\ Sending(c)' # 1
        BY <4>1 DEF IInv, Answers
      <4>3. QED
        BY <4>1, <4>2, Zenon DEF AnswersTo
    <3>9. Len(toClient'[client]) <= SendCapacity
      BY <1>1, <1>4, <2>2, <3>4, <3>5, ServerAssumption
    <3>10. ASSUME NEW c \in Conns PROVE AnswersTo(c)'
      <4>1. CASE c = client
        BY <3>7, <4>1
      <4>2. CASE c # client
        BY <3>8, <4>2
      <4>3. QED
        BY <4>1, <4>2
    <3>11. \A c \in Conns : Len(toClient'[c]) <= SendCapacity
      <4>1. \A c \in Conns \ {client} : Len(toClient'[c]) <= SendCapacity
        BY <3>5 DEF IInv, TypeOK
      <4>2. QED
        BY <3>9, <4>1
    <3>12. QED
      BY <3>6, <3>10, <3>11
  <2>3. QED
    BY <2>1, <2>2 DEF Send, Gone
<1>6. TypeOK'
  BY <1>1, <1>5, ServerAssumption DEF IInv, TypeOK, bridgeVars
<1>7. Places' /\ Queue' /\ Emulator'
  BY <1>1, EmulatorKept, ServerAssumption DEF IInv, Places, Queue
<1>8. Streams'
  BY <1>1, <1>2 DEF IInv, Streams, Stream, Buffered, Sent, Gone
<1>9. QED
  BY <1>5, <1>6, <1>7, <1>8 DEF IInv, Answers

-----------------------------------------------------------------------------
(* The clients' steps leave the server, the emulator and the log alone.     *)
ConnType == [state : {"new", "here", "gone"}, mode : {"send", "read"},
             next : 1..MaxRequests + 1, mid : BOOLEAN, got : Seq(1..MaxRequests)]

LEMMA ClientStep ==
  ASSUME IInv, NEW c \in Conns, Connect(c) \/ Talk(c) \/ Leave(c)
  PROVE  /\ at \notin {"boot", "exit"}
         /\ UNCHANGED <<bridgeVars, at, client, buf, resp, log>>
         /\ \A d : Done(d)' = Done(d) /\ Buffered(d)' = Buffered(d) /\ Sending(d)' = Sending(d)
         /\ Emulator'
         /\ conn \in [Conns -> ConnType] /\ conn[c] \in ConnType
         /\ Len(conn[c].got) \in Nat /\ Len(toClient[c]) \in Nat
<1>1. at \notin {"boot", "exit"} /\ UNCHANGED <<bridgeVars, at, client, buf, resp, log>>
  BY DEF Connect, Talk, SendText, SendNewline, ReadAnswer, Leave, Here, Running, serverVars
<1>2. Emulator'
  BY <1>1, EmulatorKept DEF IInv
<1>3. conn \in [Conns -> ConnType] /\ conn[c] \in ConnType
  BY DEF IInv, TypeOK, ConnType
<1>4. Len(conn[c].got) \in Nat /\ Len(toClient[c]) \in Nat
  BY LenProperties DEF IInv, TypeOK
<1>5. QED
  BY <1>1, <1>2, <1>3, <1>4 DEF Done, Buffered, Sending

(* Only the part of the connection that takes the step can change.          *)
LEMMA OtherConns ==
  ASSUME IInv, NEW c \in Conns, Connect(c) \/ Talk(c) \/ Leave(c),
         conn' \in [Conns -> ConnType],
         toServer' \in [Conns -> Seq(Pieces)], toClient' \in [Conns -> Seq(1..MaxRequests)],
         Len(toServer'[c]) <= RecvCapacity, Len(toClient'[c]) <= SendCapacity,
         pending' \in Seq(Conns), Len(pending') <= Backlog,
         \A d \in Conns \ {c} : /\ conn'[d] = conn[d] /\ toServer'[d] = toServer[d]
                                /\ toClient'[d] = toClient[d],
         Stretch(c, Done(c), Buffered(c), toServer'[c], Sent(c)', Gone(c)'),
         AnswersTo(c)', Places', Queue'
  PROVE  IInv'
<1>1. /\ UNCHANGED <<bridgeVars, at, client, buf, resp, log>>
      /\ \A d : Done(d)' = Done(d) /\ Buffered(d)' = Buffered(d) /\ Sending(d)' = Sending(d)
      /\ Emulator'
  BY ClientStep
<1>2. TypeOK'
  <2>1. \A d \in Conns : Len(toServer'[d]) <= RecvCapacity /\ Len(toClient'[d]) <= SendCapacity
    <3>1. \A d \in Conns \ {c} : Len(toServer'[d]) <= RecvCapacity /\ Len(toClient'[d]) <= SendCapacity
      BY DEF IInv, TypeOK
    <3>2. QED
      BY <3>1
  <2>2. QED
    BY <1>1, <2>1 DEF IInv, TypeOK, ConnType, bridgeVars
<1>3. Streams'
  <2> SUFFICES ASSUME NEW d \in Conns PROVE Stream(d)'
    BY DEF Streams
  <2>1. CASE d = c
    BY <1>1, <2>1 DEF Stream
  <2>2. CASE d # c
    <3>1. Sent(d)' = Sent(d) /\ Gone(d)' = Gone(d) /\ toServer'[d] = toServer[d]
      BY <2>2 DEF Sent, Gone
    <3>2. QED
      BY <1>1, <3>1 DEF IInv, Streams, Stream
  <2>3. QED
    BY <2>1, <2>2
<1>4. Answers'
  <2> SUFFICES ASSUME NEW d \in Conns PROVE AnswersTo(d)'
    BY DEF Answers
  <2>1. CASE d = c
    BY <2>1
  <2>2. CASE d # c
    <3>1. conn'[d] = conn[d] /\ Gone(d)' = Gone(d) /\ toClient'[d] = toClient[d]
      BY <2>2 DEF Gone
    <3>2. QED
      <4>1. AnswersTo(d) /\ resp' = resp /\ Exited' = Exited
        BY <1>1 DEF IInv, Answers, Exited
      <4>2. QED
        BY <1>1, <3>1, <4>1 DEF AnswersTo
  <2>3. QED
    BY <2>1, <2>2
<1>5. QED
  BY <1>1, <1>2, <1>3, <1>4 DEF IInv

LEMMA ConnectInv ==
  ASSUME IInv, NEW c \in Conns, Connect(c)
  PROVE  IInv'
<1>1. /\ UNCHANGED <<bridgeVars, at, client, buf, resp, log>>
      /\ \A d : Done(d)' = Done(d) /\ Buffered(d)' = Buffered(d) /\ Sending(d)' = Sending(d)
      /\ conn \in [Conns -> ConnType] /\ conn[c] \in ConnType
      /\ at \notin {"boot", "exit"}
  BY ClientStep
<1>2. /\ conn[c].state = "new" /\ Len(pending) < Backlog /\ pending' = Append(pending, c)
      /\ conn' = [conn EXCEPT ![c] = [conn[c] EXCEPT !.state = "here"]]
      /\ UNCHANGED <<toServer, toClient>>
  BY DEF Connect
<1>3. /\ conn' \in [Conns -> ConnType] /\ \A d \in Conns \ {c} : conn'[d] = conn[d]
      /\ conn'[c].state = "here" /\ conn'[c].next = conn[c].next /\ conn'[c].mid = conn[c].mid
      /\ conn'[c].got = conn[c].got
  BY <1>1, <1>2 DEF ConnType
<1>4. Sent(c)' = Sent(c) /\ Gone(c) = FALSE /\ Gone(c)' = FALSE
  BY <1>2, <1>3 DEF Sent, Gone
<1>5. Stretch(c, Done(c), Buffered(c), toServer'[c], Sent(c)', Gone(c)')
  BY <1>2, <1>4 DEF IInv, Streams, Stream
<1>6. AnswersTo(c)'
  <2>1. /\ AnswersTo(c) /\ resp' = resp /\ Exited' = Exited
        /\ conn'[c].got = conn[c].got /\ toClient'[c] = toClient[c] /\ Gone(c)' = Gone(c)
    BY <1>1, <1>2, <1>3, <1>4 DEF IInv, Answers, Exited
  <2>2. QED
    BY <1>1, <2>1 DEF AnswersTo
<1>7. /\ pending \in Seq(Conns) /\ Len(pending) \in Nat
      /\ pending' \in Seq(Conns) /\ Len(pending') = Len(pending) + 1
      /\ pending'[Len(pending) + 1] = c
      /\ \A i \in 1..Len(pending) : pending'[i] = pending[i] /\ pending[i] \in Conns
  BY <1>2, AppendProperties, LenProperties, ElementOfSeq DEF IInv, TypeOK
<1>8. c # client /\ \A i \in 1..Len(pending) : pending[i] # c
  BY <1>2 DEF IInv, Places, Queue
<1>9. Places'
  BY <1>1, <1>2, <1>3, <1>8 DEF IInv, Places
<1>10. Queue'
  <2>1. \A i \in 1..Len(pending') : i \in 1..Len(pending) \/ i = Len(pending) + 1
    BY <1>7
  <2>2. \A i \in 1..Len(pending') : pending'[i] # client' /\ conn'[pending'[i]].state # "new"
    BY <1>1, <1>3, <1>7, <1>8, <2>1 DEF IInv, Queue
  <2>3. \A i, j \in 1..Len(pending') : pending'[i] = pending'[j] => i = j
    BY <1>7, <1>8, <2>1 DEF IInv, Queue
  <2>4. QED
    BY <2>2, <2>3 DEF Queue
<1>11. QED
  <2>1. Len(pending') <= Backlog
    BY <1>2, <1>7, ServerAssumption
  <2>2. QED
    BY <1>2, <1>3, <1>5, <1>6, <1>7, <1>9, <1>10, <2>1, OtherConns DEF IInv, TypeOK

(* What a client that sends keeps, and what its piece must carry.           *)
LEMMA PieceInv ==
  ASSUME IInv, NEW c \in Conns, SendText(c) \/ SendNewline(c), NEW p \in Pieces,
         p.c = c, p.k = NumberAt(Sent(c) + 1),
         toServer' = [toServer EXCEPT ![c] = Append(toServer[c], p)],
         conn' \in [Conns -> ConnType], \A d \in Conns \ {c} : conn'[d] = conn[d],
         conn'[c].state = conn[c].state, conn'[c].got = conn[c].got,
         Sent(c)' = Sent(c) + 1
  PROVE  IInv'
<1>1. /\ UNCHANGED <<bridgeVars, at, client, buf, resp, log>>
      /\ \A d : Done(d)' = Done(d) /\ Buffered(d)' = Buffered(d) /\ Sending(d)' = Sending(d)
  BY ClientStep DEF Talk
<1>2. /\ conn[c].state = "here" /\ Len(toServer[c]) < RecvCapacity
      /\ UNCHANGED <<pending, toClient>>
  BY DEF SendText, SendNewline, Here, RoomToSend
<1>3. /\ Done(c) \in Nat /\ Sent(c) \in Int /\ Gone(c) = FALSE /\ Gone(c)' = FALSE
      /\ Buffered(c) \in Seq(Pieces) /\ toServer[c] \in Seq(Pieces)
      /\ Stretch(c, Done(c), Buffered(c), toServer[c], Sent(c), FALSE)
  <2>1. Gone(c) = FALSE /\ Gone(c)' = FALSE
    BY <1>2 DEF Gone
  <2>2. QED
    BY <2>1, StreamTypes DEF IInv, Streams, Stream
<1>4. /\ Append(toServer[c], p) \in Seq(Pieces)
      /\ Len(Append(toServer[c], p)) = Len(toServer[c]) + 1
      /\ Stretch(c, Done(c), Buffered(c), Append(toServer[c], p), Sent(c) + 1, FALSE)
  <2> DEFINE h == Done(c)
             b == Buffered(c)
             s == toServer[c]
             t == Sent(c)
  <2>1. /\ h \in Nat /\ b \in Seq(Pieces) /\ s \in Seq(Pieces) /\ t \in Int
        /\ Stretch(c, h, b, s, t, FALSE) /\ p.c = c /\ p.k = NumberAt(t + 1)
    BY <1>3
  <2> HIDE DEF h, b, s, t
  <2>2. /\ Append(s, p) \in Seq(Pieces) /\ Len(Append(s, p)) = Len(s) + 1
        /\ Stretch(c, h, b, Append(s, p), t + 1, FALSE)
    BY <2>1, SentOn
  <2>3. QED
    BY <2>2 DEF h, b, s, t
<1>5. /\ toServer'[c] = Append(toServer[c], p) /\ toServer' \in [Conns -> Seq(Pieces)]
      /\ \A d \in Conns \ {c} : toServer'[d] = toServer[d]
  BY <1>4 DEF IInv, TypeOK
<1>6. Len(toServer'[c]) <= RecvCapacity
  <2>1. Len(toServer[c]) \in Nat
    BY <1>3, LenProperties
  <2>2. QED
    BY <1>2, <1>4, <1>5, <2>1, ServerAssumption
<1>7. Stretch(c, Done(c), Buffered(c), toServer'[c], Sent(c)', Gone(c)')
  BY <1>3, <1>4, <1>5
<1>8. AnswersTo(c)'
  BY <1>1, <1>2, <1>3 DEF IInv, Answers, AnswersTo, Exchange, Exited
<1>9. Places' /\ Queue'
  <2>1. \A d \in Conns : conn'[d].state = conn[d].state
    OBVIOUS
  <2>2. \A i \in 1..Len(pending) : pending[i] \in Conns
    BY ElementOfSeq DEF IInv, TypeOK
  <2>3. at = "close" => client # c /\ toServer'[client] = toServer[client]
    BY <1>2, <1>5 DEF IInv, Places
  <2>4. QED
    BY <1>1, <1>2, <2>1, <2>2, <2>3 DEF IInv, Places, Queue
<1>10. QED
  BY <1>2, <1>5, <1>6, <1>7, <1>8, <1>9, OtherConns DEF IInv, TypeOK, Talk

LEMMA SendTextInv ==
  ASSUME IInv, NEW c \in Conns, SendText(c)
  PROVE  IInv'
<1>1. conn \in [Conns -> ConnType] /\ conn[c] \in ConnType
  BY ClientStep DEF Talk
<1>2. PICK x \in Commands :
        toServer' = [toServer EXCEPT ![c] = Append(toServer[c], Text(c, conn[c].next, x))]
  BY DEF SendText
<1>3. /\ conn[c].mid = FALSE /\ conn[c].next <= MaxRequests
      /\ conn' = [conn EXCEPT ![c] = [conn[c] EXCEPT !.mid = TRUE, !.next = conn[c].next + 1]]
  BY <1>1 DEF SendText, ConnType
<1>4. conn[c].next \in 1..MaxRequests /\ conn[c].next + 1 \in 1..MaxRequests + 1
  BY <1>1, <1>3, ServerAssumption DEF ConnType
<1> DEFINE p == Text(c, conn[c].next, x)
<1>5. p \in Pieces /\ p.c = c /\ p.k = conn[c].next
  BY <1>4, NewPieces
<1>6. /\ conn' \in [Conns -> ConnType] /\ \A d \in Conns \ {c} : conn'[d] = conn[d]
      /\ conn'[c].state = conn[c].state /\ conn'[c].got = conn[c].got
      /\ conn'[c].mid = TRUE /\ conn'[c].next = conn[c].next + 1
  BY <1>1, <1>3, <1>4 DEF ConnType
<1>7. Sent(c)' = Sent(c) + 1 /\ Sent(c) = 2 * (conn[c].next - 1)
  BY <1>3, <1>4, <1>6 DEF Sent
<1>8. NumberAt(Sent(c) + 1) = conn[c].next
  <2>1. conn[c].next - 1 \in Nat /\ conn[c].next - 1 + 1 = conn[c].next
    BY <1>4
  <2>2. NumberAt(2 * (conn[c].next - 1) + 1) = conn[c].next - 1 + 1
    BY <2>1, Numbers
  <2>3. QED
    BY <1>7, <2>1, <2>2
<1>9. toServer' = [toServer EXCEPT ![c] = Append(toServer[c], p)]
  BY <1>2
<1> HIDE DEF p
<1>10. p.k = NumberAt(Sent(c) + 1)
  BY <1>5, <1>8
<1>11. QED
  BY <1>5, <1>6, <1>7, <1>9, <1>10, PieceInv

LEMMA SendNewlineInv ==
  ASSUME IInv, NEW c \in Conns, SendNewline(c)
  PROVE  IInv'
<1>1. conn \in [Conns -> ConnType] /\ conn[c] \in ConnType
  BY ClientStep DEF Talk
<1>2. toServer' = [toServer EXCEPT ![c] = Append(toServer[c], Newline(c))]
  BY DEF SendNewline
<1>3. PICK mode \in {"send", "read"} :
        /\ conn[c].mid = TRUE
        /\ conn' = [conn EXCEPT ![c] = [conn[c] EXCEPT !.mid = FALSE, !.mode = mode]]
  <2>1. conn[c].mid = TRUE
    <3>1. conn[c].mid \in BOOLEAN
      BY <1>1 DEF ConnType
    <3>2. conn[c].mid
      BY DEF SendNewline
    <3>3. QED
      BY <3>1, <3>2
  <2>2. PICK mode \in {"send", "read"} :
          conn' = [conn EXCEPT ![c].mid = FALSE, ![c].mode = mode]
    BY DEF SendNewline
  <2>3. conn' = [conn EXCEPT ![c] = [conn[c] EXCEPT !.mid = FALSE, !.mode = mode]]
    BY <1>1, <2>2 DEF ConnType
  <2>4. QED
    BY <2>1, <2>3
<1>4. Newline(c) \in Pieces /\ Newline(c).c = c /\ Newline(c).k = 0
  BY NewPieces
<1>5. /\ conn' \in [Conns -> ConnType] /\ \A d \in Conns \ {c} : conn'[d] = conn[d]
      /\ conn'[c].state = conn[c].state /\ conn'[c].got = conn[c].got
      /\ conn'[c].mid = FALSE /\ conn'[c].next = conn[c].next
  BY <1>1, <1>3 DEF ConnType
<1>6. conn[c].next \in Nat
  BY <1>1, ServerAssumption DEF ConnType
<1>7. Sent(c)' = Sent(c) + 1 /\ Sent(c) + 1 = 2 * (conn[c].next - 1)
  BY <1>3, <1>5, <1>6 DEF Sent
<1>8. NumberAt(Sent(c) + 1) = 0
  BY <1>6, <1>7 DEF NumberAt
<1>9. QED
  BY <1>2, <1>4, <1>5, <1>7, <1>8, PieceInv

LEMMA ReadAnswerInv ==
  ASSUME IInv, NEW c \in Conns, ReadAnswer(c)
  PROVE  /\ IInv'
         /\ Len(conn[c].got) < Done(c)
         /\ Head(toClient[c]) = Len(conn[c].got) + 1
<1>1. /\ UNCHANGED <<bridgeVars, at, client, buf, resp, log>>
      /\ \A d : Done(d)' = Done(d) /\ Buffered(d)' = Buffered(d) /\ Sending(d)' = Sending(d)
      /\ conn \in [Conns -> ConnType] /\ conn[c] \in ConnType
      /\ at \notin {"boot", "exit"}
      /\ Len(conn[c].got) \in Nat /\ Len(toClient[c]) \in Nat
  BY ClientStep DEF Talk
<1> DEFINE q == toClient[c]
           g == conn[c].got
<1>2. PICK mode \in {"send", "read"} :
        conn' = [conn EXCEPT ![c] = [conn[c] EXCEPT !.got = Append(g, Head(q)), !.mode = mode]]
  <2>1. conn' = [conn EXCEPT
                   ![c] = [conn[c] EXCEPT
                             !.got = Append(g, Head(q)),
                             !.mode = IF Len(g) + 1 = Asked(c) THEN "send" ELSE conn[c].mode]]
    BY <1>1 DEF ReadAnswer
  <2>2. conn[c].mode \in {"send", "read"}
    BY <1>1 DEF ConnType
  <2>3. QED
    BY <2>1, <2>2
<1>3. /\ q # <<>> /\ toClient' = [toClient EXCEPT ![c] = Tail(q)]
      /\ UNCHANGED <<pending, toServer>>
      /\ q \in Seq(1..MaxRequests) /\ g \in Seq(1..MaxRequests)
  BY <1>1 DEF ReadAnswer, IInv, TypeOK, ConnType
<1>4. /\ Head(q) \in 1..MaxRequests /\ Tail(q) \in Seq(1..MaxRequests)
      /\ Len(Tail(q)) = Len(q) - 1 /\ Len(q) >= 1
      /\ \A i \in 1..Len(Tail(q)) : Tail(q)[i] = q[i + 1]
      /\ Head(q) = q[1]
  <2>1. /\ Head(q) \in 1..MaxRequests /\ Tail(q) \in Seq(1..MaxRequests)
        /\ Len(Tail(q)) = Len(q) - 1
        /\ \A i \in 1..Len(Tail(q)) : Tail(q)[i] = q[i + 1]
    BY <1>3, HeadTailProperties
  <2>2. Len(q) \in Nat \ {0}
    BY <1>3, EmptySeq
  <2>3. Head(q) = q[1]
    BY <1>3
  <2>4. QED
    BY <2>1, <2>2, <2>3
<1> DEFINE n == Append(g, Head(q))
<1>5. /\ n \in Seq(1..MaxRequests) /\ Len(n) = Len(g) + 1 /\ n[Len(g) + 1] = Head(q)
      /\ \A i \in 1..Len(g) : n[i] = g[i]
  BY <1>3, <1>4, AppendProperties
<1>6. /\ conn' \in [Conns -> ConnType] /\ \A d \in Conns \ {c} : conn'[d] = conn[d]
      /\ conn'[c].state = conn[c].state /\ conn'[c].got = n
      /\ conn'[c].mid = conn[c].mid /\ conn'[c].next = conn[c].next
  BY <1>1, <1>2, <1>5 DEF ConnType
<1>7. /\ toClient' \in [Conns -> Seq(1..MaxRequests)] /\ toClient'[c] = Tail(q)
      /\ \A d \in Conns \ {c} : toClient'[d] = toClient[d]
  BY <1>3, <1>4 DEF IInv, TypeOK
<1>8. AnswersTo(c) /\ Gone(c) = FALSE /\ Gone(c)' = FALSE
  BY <1>6 DEF IInv, Answers, ReadAnswer, Here, Gone
<1>9. 1 \in 1..Len(q) /\ Head(q) = Len(g) + 1
  BY <1>1, <1>4, <1>8 DEF AnswersTo, Exchange, Exited
<1>10. Len(g) < Done(c)
  <2>1. Len(g) + Len(q) + Sending(c) <= Done(c) /\ Sending(c) \in {0, 1} /\ Done(c) \in Nat
    BY <1>8, DoneNat DEF AnswersTo, Exchange, Exited, Sending, IInv
  <2>2. QED
    BY <1>1, <1>4, <2>1, OneLess
<1>11. AnswersTo(c)'
  <2> HIDE DEF n
  <2> DEFINE l == Len(g)
  <2>5. l \in Nat
    BY <1>1
  <2>6. \A i \in 1..l : n[i] = i
    BY <1>5, <1>8 DEF AnswersTo, Exchange, Exited
  <2>7. n[l + 1] = l + 1 /\ Len(n) = l + 1
    BY <1>5, <1>9
  <2> HIDE DEF l
  <2>1. \A i \in 1..Len(n) : n[i] = i
    <3> SUFFICES ASSUME NEW i \in 1..l + 1 PROVE n[i] = i
      BY <2>7
    <3>1. i \in 1..l \/ i = l + 1
      BY <2>5
    <3>2. QED
      BY <2>6, <2>7, <3>1
  <2>2. \A i \in 1..Len(Tail(q)) : Tail(q)[i] = Len(n) + i
    <3> SUFFICES ASSUME NEW i \in 1..Len(Tail(q)) PROVE Tail(q)[i] = Len(n) + i
      OBVIOUS
    <3>1. i + 1 \in 1..Len(q) /\ Len(g) + (i + 1) = Len(n) + i
      <4>1. i \in 1..Len(q) - 1 /\ Len(n) = Len(g) + 1
        BY <1>4, <1>5
      <4>2. Len(g) \in Nat /\ Len(q) \in Nat /\ Len(q) >= 1
        BY <1>1, <1>4
      <4>3. i + 1 \in 1..Len(q) /\ Len(g) + (i + 1) = (Len(g) + 1) + i
        BY <4>1, <4>2, Shifted
      <4>4. QED
        BY <4>1, <4>3
    <3>2. QED
      BY <1>4, <1>8, <3>1 DEF AnswersTo, Exchange, Exited
  <2>3. Len(n) + Len(Tail(q)) = Len(g) + Len(q)
    <3>1. Len(g) \in Nat /\ Len(q) \in Nat /\ Len(q) >= 1
      BY <1>1, <1>4
    <3>2. (Len(g) + 1) + (Len(q) - 1) = Len(g) + Len(q)
      BY <3>1, Shifted
    <3>3. QED
      BY <1>4, <1>5, <3>2
  <2>4. QED
    <3>1. Exchange(n, Tail(q), Sending(c), Done(c), FALSE, Exited)
      BY <1>8, <2>1, <2>2, <2>3 DEF AnswersTo, Exchange
    <3>2. resp' = resp /\ Exited' = Exited
      BY <1>1 DEF Exited
    <3>3. QED
      BY <1>1, <1>6, <1>7, <1>8, <3>1, <3>2 DEF AnswersTo
<1>12. Stretch(c, Done(c), Buffered(c), toServer'[c], Sent(c)', Gone(c)')
  <2>1. Sent(c)' = Sent(c)
    BY <1>6 DEF Sent
  <2>2. QED
    BY <1>3, <1>8, <2>1 DEF IInv, Streams, Stream
<1>13. Places' /\ Queue'
  <2>1. \A d \in Conns : conn'[d].state = conn[d].state
    BY <1>6
  <2>2. \A i \in 1..Len(pending) : pending[i] \in Conns
    BY ElementOfSeq DEF IInv, TypeOK
  <2>3. QED
    BY <1>1, <1>3, <2>1, <2>2 DEF IInv, Places, Queue
<1>14. Len(toClient'[c]) <= SendCapacity
  BY <1>1, <1>4, <1>7, ServerAssumption DEF IInv, TypeOK
<1>15. IInv'
  BY <1>3, <1>6, <1>7, <1>11, <1>12, <1>13, <1>14, OtherConns DEF IInv, TypeOK, Talk
<1>16. QED
  BY <1>9, <1>10, <1>15

LEMMA LeaveInv ==
  ASSUME IInv, NEW c \in Conns, Leave(c)
  PROVE  IInv'
<1>1. /\ UNCHANGED <<bridgeVars, at, client, buf, resp, log>>
      /\ \A d : Done(d)' = Done(d) /\ Buffered(d)' = Buffered(d) /\ Sending(d)' = Sending(d)
      /\ conn \in [Conns -> ConnType] /\ conn[c] \in ConnType
      /\ Len(conn[c].got) \in Nat /\ Len(toClient[c]) \in Nat
  BY ClientStep
<1>2. /\ conn' = [conn EXCEPT ![c] = [conn[c] EXCEPT !.state = "gone", !.mode = "send"]]
      /\ toServer' = toServer \/ toServer' = [toServer EXCEPT ![c] = <<>>]
      /\ toClient' = [toClient EXCEPT ![c] = <<>>]
      /\ conn[c].state = "here" /\ pending' = pending
  BY <1>1 DEF Leave, Here
<1>3. /\ conn' \in [Conns -> ConnType] /\ \A d \in Conns \ {c} : conn'[d] = conn[d]
      /\ conn'[c].state = "gone" /\ conn'[c].got = conn[c].got
      /\ conn'[c].mid = conn[c].mid /\ conn'[c].next = conn[c].next
  BY <1>1, <1>2 DEF ConnType
<1>4. <<>> \in Seq(Pieces) /\ <<>> \in Seq(1..MaxRequests) /\ Len(<<>>) = 0
  BY EmptySeq
<1>5. /\ toClient' \in [Conns -> Seq(1..MaxRequests)] /\ toClient'[c] = <<>>
      /\ toServer' \in [Conns -> Seq(Pieces)] /\ toServer'[c] \in {toServer[c], <<>>}
      /\ \A d \in Conns \ {c} : toClient'[d] = toClient[d] /\ toServer'[d] = toServer[d]
  BY <1>2, <1>4 DEF IInv, TypeOK
<1>6. Stretch(c, Done(c), Buffered(c), toServer'[c], Sent(c)', Gone(c)')
  <2>1. Gone(c)' = TRUE /\ Sent(c)' = Sent(c)
    BY <1>3 DEF Gone, Sent
  <2>2. /\ Stretch(c, Done(c), Buffered(c), toServer[c], Sent(c), TRUE)
        /\ Stretch(c, Done(c), Buffered(c), <<>>, Sent(c), TRUE)
    <3>1. Stretch(c, Done(c), Buffered(c), toServer[c], Sent(c), Gone(c))
      BY DEF IInv, Streams, Stream
    <3>2. QED
      BY <3>1, StreamTypes, LeftBehind DEF IInv
  <2>3. QED
    BY <1>5, <2>1, <2>2
<1>7. AnswersTo(c)'
  <2>1. AnswersTo(c) /\ Sending(c) \in {0, 1} /\ Done(c) \in Nat
    BY DoneNat DEF IInv, Answers, Sending
  <2>2. Len(conn[c].got) + 0 + Sending(c) <= Done(c)
    <3>1. Len(conn[c].got) + Len(toClient[c]) + Sending(c) <= Done(c)
      BY <2>1 DEF AnswersTo, Exchange, Exited
    <3>2. QED
      BY <1>1, <2>1, <3>1, OneLess
  <2>3. Gone(c)' = TRUE
    BY <1>3 DEF Gone
  <2>4. QED
    BY <1>1, <1>3, <1>4, <1>5, <2>1, <2>2, <2>3 DEF AnswersTo, Exchange, Exited
<1>8. Places' /\ Queue'
  <2>1. \A d \in Conns : conn[d].state # "new" => conn'[d].state # "new"
    BY <1>3
  <2>2. \A i \in 1..Len(pending) : pending[i] \in Conns
    BY ElementOfSeq DEF IInv, TypeOK
  <2>3. at = "close" => client # c
    BY <1>2 DEF IInv, Places
  <2>4. at = "close" => conn'[client].state = "gone" /\ toServer'[client] = <<>>
    BY <1>3, <1>5, <2>3 DEF IInv, Places
  <2>5. QED
    BY <1>1, <1>2, <2>1, <2>2, <2>4 DEF IInv, Places, Queue
<1>9. Len(toServer'[c]) <= RecvCapacity /\ Len(toClient'[c]) <= SendCapacity
  BY <1>4, <1>5, ServerAssumption DEF IInv, TypeOK
<1>10. QED
  BY <1>2, <1>3, <1>5, <1>6, <1>7, <1>8, <1>9, OtherConns DEF IInv, TypeOK

-----------------------------------------------------------------------------
THEOREM StepIInv == IInv /\ [Next]_vars => IInv'
<1> SUFFICES ASSUME IInv, [Next]_vars PROVE IInv'
  OBVIOUS
<1>1. CASE UNCHANGED vars
  <2>1. /\ UNCHANGED bridgeVars
        /\ UNCHANGED <<at, client, buf, resp, pending, toServer, toClient, conn, log>>
    BY <1>1 DEF vars, serverVars, netVars
  <2>2. \A c : Done(c)' = Done(c)
    BY <2>1 DEF Done
  <2>3. TypeOK' /\ Places' /\ Queue' /\ Emulator'
    BY <2>1, EmulatorKept DEF IInv, TypeOK, Places, Queue, bridgeVars
  <2>4. Streams' /\ Answers'
    BY <2>1, <2>2 DEF IInv, Streams, Stream, Buffered, Sent, Gone, Answers, AnswersTo, Exchange, Exited, Sending
  <2>5. QED
    BY <2>3, <2>4 DEF IInv
<1>2. CASE ServerStep
  BY <1>2, BootInv, AcceptInv, RecvInv, StayInv, HandleInv, QuitInv, SendInv, CloseInv
     DEF ServerStep
<1>3. ASSUME NEW c \in Conns, Connect(c) \/ Talk(c) \/ Leave(c) PROVE IInv'
  BY <1>3, ConnectInv, SendTextInv, SendNewlineInv, ReadAnswerInv, LeaveInv DEF Talk
<1>4. QED
  BY <1>1, <1>2, <1>3 DEF Next

(* The server's place, its buffers and what it has sent keep their types,   *)
(* and no buffer exceeds its capacity, whatever the clients do.             *)
THEOREM TypeCorrect == Spec => []TypeOK
<1>1. Init => IInv
  BY InitIInv
<1>2. IInv /\ [Next]_vars => IInv'
  BY StepIInv
<1>3. IInv => TypeOK
  BY DEF IInv
<1>4. QED
  BY <1>1, <1>2, <1>3, PTL DEF Spec

(* However resets fail, commands reach the emulator only powered on.        *)
THEOREM PoweredCorrect == Spec => []LoadedIsPowered
<1>1. Init => IInv
  BY InitIInv
<1>2. IInv /\ [Next]_vars => IInv'
  BY StepIInv
<1>3. IInv => LoadedIsPowered
  BY DEF IInv, Emulator
<1>4. QED
  BY <1>1, <1>2, <1>3, PTL DEF Spec

(* It is loaded twice only after a reset that did not find the port.        *)
THEOREM LoadCorrect == Spec => []LoadedOnce
<1>1. Init => IInv
  BY InitIInv
<1>2. IInv /\ [Next]_vars => IInv'
  BY StepIInv
<1>3. IInv => LoadedOnce
  BY DEF IInv, Emulator, LoadedOnce
<1>4. QED
  BY <1>1, <1>2, <1>3, PTL DEF Spec

-----------------------------------------------------------------------------
(* The server implements the service.                                       *)
over    == {c \in Conns : conn[c].state # "new" /\ c # client /\ ~Contains(pending, c)}
requests == [i \in DOMAIN log |-> <<log[i].c, log[i].k>>]

LEMMA HandledIsDone ==
  ASSUME TypeOK, NEW c
  PROVE  Service!HandledOf(c) = Done(c)
<1>1. DOMAIN requests = DOMAIN log /\ \A i \in DOMAIN log : requests[i][1] = log[i].c
  BY DEF requests
<1>2. {i \in DOMAIN requests : requests[i][1] = c} = {i \in DOMAIN log : log[i].c = c}
  BY <1>1
<1>3. Service!HandledOf(c) = Cardinality({i \in DOMAIN requests : requests[i][1] = c})
  BY DEF Service!HandledOf, requests, Service!Cardinality, Cardinality
<1>4. Done(c) = Cardinality({i \in DOMAIN log : log[i].c = c})
  BY DEF Done, CountOf
<1>5. QED
  BY <1>2, <1>3, <1>4

THEOREM ServiceInit == Init => Service!SInit
<1> SUFFICES ASSUME Init PROVE Service!SInit
  OBVIOUS
<1>1. client = NoConn /\ log = <<>>
      /\ conn = [c \in Conns |-> [state |-> "new", mode |-> "send", next |-> 1,
                                  mid |-> FALSE, got |-> <<>>]]
  BY DEF Init
<1>2. over = {}
  BY <1>1 DEF over
<1>3. [c \in Conns |-> Asked(c)] = [c \in Conns |-> 0]
  BY <1>1 DEF Asked
<1>4. requests = <<>>
  BY <1>1 DEF requests
<1>5. [c \in Conns |-> conn[c].got] = [c \in Conns |-> <<>>]
  BY <1>1
<1>6. QED
  BY <1>1, <1>2, <1>3, <1>4, <1>5 DEF Service!SInit, over, requests

askedNow    == [c \in Conns |-> Asked(c)]
receivedNow == [c \in Conns |-> conn[c].got]

(* A step that shows nothing of itself.                                     *)
LEMMA Hidden ==
  ASSUME UNCHANGED <<client, pending, conn, log>>
  PROVE  UNCHANGED Service!svars
<1>1. over' = over /\ requests' = requests /\ askedNow' = askedNow /\ receivedNow' = receivedNow
  BY DEF over, requests, askedNow, receivedNow, Asked
<1>2. QED
  BY <1>1 DEF Service!svars, over, requests, askedNow, receivedNow

LEMMA AcceptTakes ==
  ASSUME IInv, Accept
  PROVE  \E c \in Conns : Service!STake(c)
<1>1. /\ client = NoConn /\ pending # <<>> /\ pending \in Seq(Conns)
      /\ client' = Head(pending) /\ pending' = Tail(pending)
      /\ UNCHANGED <<conn, log>>
  BY DEF Accept, IInv, Places, TypeOK
<1>2. /\ Head(pending) = pending[1] /\ Head(pending) \in Conns
      /\ Len(Tail(pending)) = Len(pending) - 1 /\ Len(pending) \in Nat \ {0}
      /\ \A i \in 1..Len(Tail(pending)) : Tail(pending)[i] = pending[i + 1]
  BY <1>1, HeadTailProperties, EmptySeq
<1>3. \A c : Contains(pending, c) <=> c = Head(pending) \/ Contains(Tail(pending), c)
  <2> SUFFICES ASSUME NEW c
               PROVE  Contains(pending, c) <=> c = Head(pending) \/ Contains(Tail(pending), c)
    OBVIOUS
  <2>1. ASSUME NEW i \in 1..Len(pending), pending[i] = c
        PROVE  c = Head(pending) \/ Contains(Tail(pending), c)
    <3>1. CASE i = 1
      BY <1>2, <2>1, <3>1
    <3>2. CASE i # 1
      <4>1. i - 1 \in 1..Len(Tail(pending)) /\ i - 1 + 1 = i
        BY <1>2, <3>2
      <4>2. Tail(pending)[i - 1] = c
        BY <1>2, <2>1, <4>1
      <4>3. QED
        BY <4>1, <4>2 DEF Contains
    <3>3. QED
      BY <3>1, <3>2
  <2>2. ASSUME NEW i \in 1..Len(Tail(pending)), Tail(pending)[i] = c
        PROVE  Contains(pending, c)
    <3>1. i + 1 \in 1..Len(pending) /\ pending[i + 1] = c
      BY <1>2, <2>2
    <3>2. QED
      BY <3>1 DEF Contains
  <2>3. c = Head(pending) => Contains(pending, c)
    <3>1. 1 \in 1..Len(pending)
      BY <1>2
    <3>2. QED
      BY <1>2, <3>1 DEF Contains
  <2>4. QED
    BY <2>1, <2>2, <2>3 DEF Contains
<1>4. over' = over
  <2>1. over' = {c \in Conns : /\ conn[c].state # "new" /\ c # Head(pending)
                               /\ ~Contains(Tail(pending), c)}
    BY <1>1 DEF over
  <2>2. over = {c \in Conns : conn[c].state # "new" /\ ~Contains(pending, c)}
    BY <1>1, ServerAssumption DEF over
  <2>3. QED
    BY <1>3, <2>1, <2>2
<1>5. Head(pending) \notin over
  BY <1>3 DEF over
<1>6. requests' = requests /\ askedNow' = askedNow /\ receivedNow' = receivedNow
  BY <1>1 DEF requests, askedNow, receivedNow, Asked
<1>7. Service!STake(Head(pending))
  BY <1>1, <1>4, <1>5, <1>6 DEF Service!STake, over, requests, askedNow, receivedNow
<1>8. QED
  BY <1>2, <1>7

LEMMA CloseLeaves ==
  ASSUME IInv, Close
  PROVE  Service!SLeave
<1>1. /\ client \in Conns /\ client # NoConn /\ client' = NoConn
      /\ conn[client].state # "new" /\ UNCHANGED <<pending, conn, log>>
  BY ServerAssumption DEF Close, IInv, Places, netVars
<1>2. ~Contains(pending, client)
  BY DEF IInv, Queue, Contains
<1>3. over' = over \cup {client}
  <2>1. over' = {c \in Conns : conn[c].state # "new" /\ c # NoConn /\ ~Contains(pending, c)}
    BY <1>1 DEF over
  <2>2. \A c \in Conns : c # NoConn
    BY ServerAssumption
  <2>3. QED
    BY <1>1, <1>2, <2>1, <2>2 DEF over
<1>4. requests' = requests /\ askedNow' = askedNow /\ receivedNow' = receivedNow
  BY <1>1 DEF requests, askedNow, receivedNow, Asked
<1>5. QED
  BY <1>1, <1>3, <1>4 DEF Service!SLeave, over, requests, askedNow, receivedNow

(* A line in the buffer is the next request of its connection, and it has   *)
(* been asked as a whole.                                                   *)
LEMMA LineIsServed ==
  ASSUME IInv, at = "lines", HasLine, NEW e,
         e.c = Head(Line).c, e.k = Head(Line).k, e \in LogRecords,
         log' = Append(log, e), UNCHANGED <<client, netVars>>
  PROVE  Service!SHandle
<1>1. /\ client \in Conns /\ Len(buf) >= 2 /\ e.c = client /\ e.k = Done(client) + 1
  BY NextLine DEF IInv
<1>2. client # NoConn /\ UNCHANGED <<client, pending, conn>>
  BY <1>1, ServerAssumption DEF netVars
<1>3. Done(client) + 1 <= Asked(client) /\ Asked(client) \in Int
  <2>1. Stretch(client, Done(client), buf, toServer[client], Sent(client), Gone(client))
    BY <1>1 DEF IInv, Streams, Stream, Buffered
  <2>2. Done(client) \in Nat /\ Len(buf) \in Nat /\ Len(toServer[client]) \in Nat
    BY <1>1, StreamTypes, LenProperties DEF IInv, TypeOK
  <2>3. conn[client].next \in Nat /\ conn[client].mid \in BOOLEAN
    BY <1>1, ServerAssumption DEF IInv, TypeOK
  <2>4. 2 * Done(client) + Len(buf) + Len(toServer[client]) <= Sent(client)
    BY <2>1 DEF Stretch
  <2> DEFINE n == conn[client].next - 1
             h == Done(client)
             l == Len(buf)
             q == Len(toServer[client])
  <2>5. CASE conn[client].mid
    <3>1. 2 * h + l + q <= 2 * n - 1 /\ Asked(client) = n - 1
      BY <2>3, <2>4, <2>5 DEF Sent, Asked
    <3>2. h \in Nat /\ l \in Nat /\ q \in Nat /\ n \in Int /\ l >= 2
      BY <1>1, <2>2, <2>3
    <3> HIDE DEF n, h, l, q
    <3>3. h + 1 <= n - 1 /\ n - 1 \in Int
      BY <3>1, <3>2
    <3>4. QED
      BY <3>1, <3>3 DEF h
  <2>6. CASE ~conn[client].mid
    <3>1. 2 * h + l + q <= 2 * n - 0 /\ Asked(client) = n - 0
      BY <2>3, <2>4, <2>6 DEF Sent, Asked
    <3>2. h \in Nat /\ l \in Nat /\ q \in Nat /\ n \in Int /\ l >= 2
      BY <1>1, <2>2, <2>3
    <3> HIDE DEF n, h, l, q
    <3>3. h + 1 <= n - 0 /\ n - 0 \in Int
      BY <3>1, <3>2
    <3>4. QED
      BY <3>1, <3>3 DEF h
  <2>7. QED
    BY <2>5, <2>6
<1>4. requests' = Append(requests, <<client, Done(client) + 1>>)
  <2>1. /\ log \in Seq(LogRecords) /\ Len(log) \in Nat /\ DOMAIN log = 1..Len(log)
        /\ log' \in Seq(LogRecords) /\ Len(log') = Len(log) + 1 /\ DOMAIN log' = 1..Len(log) + 1
        /\ log'[Len(log) + 1] = e /\ \A i \in 1..Len(log) : log'[i] = log[i]
    BY AppendProperties, LenProperties DEF IInv, TypeOK, LogRecords
  <2>2. requests \in Seq(Conns \X Nat) /\ Len(requests) = Len(log)
    <3>1. \A i \in 1..Len(log) : <<log[i].c, log[i].k>> \in Conns \X Nat
      <4>1. \A i \in 1..Len(log) : log[i] \in LogRecords
        BY <2>1, ElementOfSeq
      <4>2. \A r \in LogRecords : r.c \in Conns /\ r.k \in Nat
        BY ServerAssumption DEF LogRecords
      <4>3. QED
        BY <4>1, <4>2
    <3>2. requests = [i \in 1..Len(log) |-> <<log[i].c, log[i].k>>]
      BY <2>1 DEF requests
    <3>3. QED
      BY <2>1, <3>1, <3>2
  <2>3. <<client, Done(client) + 1>> \in Conns \X Nat
    BY <1>1, StreamTypes DEF IInv
  <2> DEFINE r == Append(requests, <<client, Done(client) + 1>>)
  <2>4. /\ r \in Seq(Conns \X Nat) /\ Len(r) = Len(log) + 1 /\ DOMAIN r = 1..Len(log) + 1
        /\ r[Len(log) + 1] = <<client, Done(client) + 1>>
        /\ \A i \in 1..Len(log) : r[i] = requests[i]
    BY <2>2, <2>3, AppendProperties, LenProperties
  <2> HIDE DEF r
  <2>5. requests' = [i \in 1..Len(log) + 1 |-> <<log'[i].c, log'[i].k>>]
    BY <2>1 DEF requests
  <2>6. \A i \in 1..Len(log) + 1 : r[i] = <<log'[i].c, log'[i].k>>
    <3> SUFFICES ASSUME NEW i \in 1..Len(log) + 1 PROVE r[i] = <<log'[i].c, log'[i].k>>
      OBVIOUS
    <3>1. CASE i \in 1..Len(log)
      BY <2>1, <2>4, <3>1 DEF requests
    <3>2. CASE i = Len(log) + 1
      BY <1>1, <2>1, <2>4, <3>2
    <3>3. QED
      BY <2>1, <3>1, <3>2
  <2>7. r = [i \in 1..Len(log) + 1 |-> r[i]]
    BY <2>4, LenProperties
  <2>8. r = requests'
    BY <2>5, <2>6, <2>7
  <2>9. QED
    BY <2>8 DEF r
<1>5. over' = over /\ askedNow' = askedNow /\ receivedNow' = receivedNow
  BY <1>2 DEF over, askedNow, receivedNow, Asked
<1>6. Service!HandledOf(client) = Done(client) /\ Done(client) < Asked(client)
  <2>1. Done(client) \in Nat
    BY <1>1, StreamTypes DEF IInv
  <2>2. QED
    BY <1>3, <2>1, HandledIsDone DEF IInv
<1>7. Service!HandledOf(client) < askedNow[client]
  BY <1>1, <1>6 DEF askedNow
<1>8. QED
  BY <1>2, <1>4, <1>5, <1>6, <1>7 DEF Service!SHandle, over, requests, askedNow, receivedNow

LEMMA HandleServes ==
  ASSUME IInv, Handle \/ Quit
  PROVE  Service!SHandle
<1>1. at = "lines" /\ HasLine /\ UNCHANGED <<client, netVars>>
  BY DEF Handle, Quit
<1>2. /\ Head(Line).c \in Conns /\ Head(Line).k \in 1..MaxRequests /\ Head(Line).cmd \in Commands
  BY <1>1, NextLine DEF IInv
<1>3. PICK done \in 0..FrameCap, name \in {"read", "step_frame", "reset", "quit"} :
        log' = Append(log, [c |-> Head(Line).c, k |-> Head(Line).k, name |-> name, done |-> done])
  <2>1. CASE Quit
    <3>1. 0 \in 0..FrameCap
      BY FrameCapAssumption
    <3>2. QED
      BY <2>1, <3>1 DEF Quit
  <2>2. CASE Handle
    <3>1. PICK status \in Statuses, d \in 0..Clamped(Head(Line).cmd.n) :
            log' = Append(log, [c |-> Head(Line).c, k |-> Head(Line).k,
                                name |-> Head(Line).cmd.name, done |-> d])
      BY <2>2 DEF Handle
    <3>2. /\ Head(Line).cmd.n \in Nat
          /\ Head(Line).cmd.name \in {"read", "step_frame", "reset", "quit"}
      BY <1>2, ServerAssumption
    <3>3. Clamped(Head(Line).cmd.n) \in 0..FrameCap
      BY <3>2, FrameCapAssumption DEF Clamped
    <3>4. d \in 0..FrameCap
      BY <3>1, <3>3, FrameCapAssumption
    <3>5. QED
      BY <3>1, <3>2, <3>4
  <2>3. QED
    BY <2>1, <2>2
<1> DEFINE e == [c |-> Head(Line).c, k |-> Head(Line).k, name |-> name, done |-> done]
<1>4. e \in LogRecords /\ e.c = Head(Line).c /\ e.k = Head(Line).k /\ log' = Append(log, e)
  BY <1>2, <1>3 DEF LogRecords
<1> HIDE DEF e
<1>5. QED
  BY <1>1, <1>4, LineIsServed

LEMMA ConnectHidden ==
  ASSUME IInv, NEW c \in Conns, Connect(c)
  PROVE  UNCHANGED Service!svars
<1>1. /\ conn \in [Conns -> ConnType] /\ conn[c] \in ConnType
      /\ UNCHANGED <<client, log>>
  BY ClientStep
<1>2. /\ conn[c].state = "new" /\ pending' = Append(pending, c)
      /\ conn' = [conn EXCEPT ![c] = [conn[c] EXCEPT !.state = "here"]]
  BY DEF Connect
<1>3. /\ conn' \in [Conns -> ConnType] /\ \A d \in Conns \ {c} : conn'[d] = conn[d]
      /\ conn'[c].state = "here" /\ conn'[c].next = conn[c].next /\ conn'[c].mid = conn[c].mid
      /\ conn'[c].got = conn[c].got
  BY <1>1, <1>2 DEF ConnType
<1>4. /\ pending \in Seq(Conns) /\ Len(pending) \in Nat
      /\ Len(pending') = Len(pending) + 1 /\ pending'[Len(pending) + 1] = c
      /\ \A i \in 1..Len(pending) : pending'[i] = pending[i]
  BY <1>2, AppendProperties, LenProperties DEF IInv, TypeOK
<1>5. Contains(pending', c) /\ \A d : d # c => (Contains(pending', d) <=> Contains(pending, d))
  <2>1. Len(pending) + 1 \in 1..Len(pending')
    BY <1>4
  <2>2. \A i \in 1..Len(pending') : i \in 1..Len(pending) \/ i = Len(pending) + 1
    BY <1>4
  <2>3. \A i \in 1..Len(pending) : i \in 1..Len(pending')
    BY <1>4
  <2>4. QED
    BY <1>4, <2>1, <2>2, <2>3 DEF Contains
<1>6. over' = over
  <2>1. over' = {d \in Conns : conn'[d].state # "new" /\ d # client /\ ~Contains(pending', d)}
    BY <1>1 DEF over
  <2>2. \A d \in Conns : conn'[d].state # "new" /\ d # client /\ ~Contains(pending', d)
                      <=> conn[d].state # "new" /\ d # client /\ ~Contains(pending, d)
    <3> SUFFICES ASSUME NEW d \in Conns
                 PROVE  conn'[d].state # "new" /\ d # client /\ ~Contains(pending', d)
                        <=> conn[d].state # "new" /\ d # client /\ ~Contains(pending, d)
      OBVIOUS
    <3>1. CASE d = c
      BY <1>2, <1>5, <3>1
    <3>2. CASE d # c
      BY <1>3, <1>5, <3>2
    <3>3. QED
      BY <3>1, <3>2
  <2>3. QED
    BY <2>1, <2>2 DEF over
<1>7. requests' = requests /\ askedNow' = askedNow /\ receivedNow' = receivedNow
  <2>1. \A d \in Conns : Asked(d)' = Asked(d) /\ conn'[d].got = conn[d].got
    BY <1>3 DEF Asked
  <2>2. QED
    BY <1>1, <2>1 DEF requests, askedNow, receivedNow
<1>8. QED
  BY <1>1, <1>6, <1>7 DEF Service!svars, over, requests, askedNow, receivedNow

(* The states of the connections, the log and the queue are what shows.     *)
LEMMA SameOver ==
  ASSUME UNCHANGED <<client, pending, log>>,
         \A d \in Conns : conn'[d].state = "new" <=> conn[d].state = "new"
  PROVE  over' = over /\ requests' = requests
BY DEF over, requests

LEMMA SendTextHidden ==
  ASSUME IInv, NEW c \in Conns, SendText(c)
  PROVE  UNCHANGED Service!svars
<1>1. /\ conn \in [Conns -> ConnType] /\ conn[c] \in ConnType
      /\ UNCHANGED <<client, log>>
  BY ClientStep DEF Talk
<1>2. /\ conn[c].mid = FALSE /\ pending' = pending
      /\ conn' = [conn EXCEPT ![c] = [conn[c] EXCEPT !.mid = TRUE, !.next = conn[c].next + 1]]
  BY <1>1 DEF SendText, ConnType
<1>3. /\ \A d \in Conns \ {c} : conn'[d] = conn[d]
      /\ conn'[c].state = conn[c].state /\ conn'[c].got = conn[c].got
      /\ conn'[c].mid = TRUE /\ conn'[c].next = conn[c].next + 1
  BY <1>1, <1>2 DEF ConnType
<1>4. over' = over /\ requests' = requests
  BY <1>1, <1>2, <1>3, SameOver
<1>5. \A d \in Conns : Asked(d)' = Asked(d) /\ conn'[d].got = conn[d].got
  <2>1. conn[c].next \in Nat
    BY <1>1, ServerAssumption DEF ConnType
  <2>2. Asked(c)' = Asked(c)
    BY <1>2, <1>3, <2>1 DEF Asked
  <2>3. QED
    BY <1>3, <2>2 DEF Asked
<1>6. askedNow' = askedNow /\ receivedNow' = receivedNow
  BY <1>5 DEF askedNow, receivedNow
<1>7. QED
  BY <1>1, <1>4, <1>6 DEF Service!svars, over, requests, askedNow, receivedNow

LEMMA SendNewlineAsks ==
  ASSUME IInv, NEW c \in Conns, SendNewline(c)
  PROVE  Service!SAsk(c)
<1>1. /\ conn \in [Conns -> ConnType] /\ conn[c] \in ConnType
      /\ UNCHANGED <<client, log>>
  BY ClientStep DEF Talk
<1>2. /\ conn[c].mid /\ pending' = pending
      /\ \A d \in Conns \ {c} : conn'[d] = conn[d]
      /\ conn'[c].state = conn[c].state /\ conn'[c].got = conn[c].got
      /\ conn'[c].mid = FALSE /\ conn'[c].next = conn[c].next
  BY <1>1 DEF SendNewline, ConnType
<1>3. over' = over /\ requests' = requests
  BY <1>1, <1>2, SameOver
<1>4. Asked(c)' = Asked(c) + 1 /\ \A d \in Conns \ {c} : Asked(d)' = Asked(d)
  <2>1. conn[c].next \in Nat
    BY <1>1, ServerAssumption DEF ConnType
  <2>2. QED
    BY <1>2, <2>1 DEF Asked
<1>5. askedNow' = [askedNow EXCEPT ![c] = @ + 1] /\ receivedNow' = receivedNow
  <2>1. askedNow' = [askedNow EXCEPT ![c] = @ + 1]
    BY <1>4 DEF askedNow
  <2>2. \A d \in Conns : conn'[d].got = conn[d].got
    BY <1>2
  <2>3. QED
    BY <2>1, <2>2 DEF receivedNow
<1>6. QED
  BY <1>1, <1>3, <1>5 DEF Service!SAsk, over, requests, askedNow, receivedNow

LEMMA ReadAnswerReceives ==
  ASSUME IInv, NEW c \in Conns, ReadAnswer(c)
  PROVE  Service!SReceive(c)
<1>1. /\ conn \in [Conns -> ConnType] /\ conn[c] \in ConnType
      /\ UNCHANGED <<client, log>>
  BY ClientStep DEF Talk
<1>2. /\ pending' = pending
      /\ \A d \in Conns \ {c} : conn'[d] = conn[d]
      /\ conn'[c].state = conn[c].state
      /\ conn'[c].got = Append(conn[c].got, Head(toClient[c]))
      /\ conn'[c].mid = conn[c].mid /\ conn'[c].next = conn[c].next
  BY <1>1 DEF ReadAnswer, ConnType
<1>3. over' = over /\ requests' = requests
  BY <1>1, <1>2, SameOver
<1>4. askedNow' = askedNow
  <2>1. \A d \in Conns : Asked(d)' = Asked(d)
    BY <1>2 DEF Asked
  <2>2. QED
    BY <2>1 DEF askedNow
<1>5. Len(receivedNow[c]) < Service!HandledOf(c) /\ Head(toClient[c]) = Len(receivedNow[c]) + 1
  BY ReadAnswerInv, HandledIsDone DEF receivedNow, IInv
<1>6. receivedNow' = [receivedNow EXCEPT ![c] = Append(@, Len(@) + 1)]
  BY <1>2, <1>5 DEF receivedNow
<1>7. QED
  BY <1>1, <1>3, <1>4, <1>5, <1>6 DEF Service!SReceive, over, requests, askedNow, receivedNow

LEMMA LeaveHidden ==
  ASSUME IInv, NEW c \in Conns, Leave(c)
  PROVE  UNCHANGED Service!svars
<1>1. /\ conn \in [Conns -> ConnType] /\ conn[c] \in ConnType
      /\ UNCHANGED <<client, log>>
  BY ClientStep
<1>2. /\ pending' = pending /\ conn[c].state = "here"
      /\ \A d \in Conns \ {c} : conn'[d] = conn[d]
      /\ conn'[c].state = "gone" /\ conn'[c].got = conn[c].got
      /\ conn'[c].mid = conn[c].mid /\ conn'[c].next = conn[c].next
  BY <1>1 DEF Leave, Here, ConnType
<1>3. over' = over /\ requests' = requests
  BY <1>1, <1>2, SameOver
<1>4. \A d \in Conns : Asked(d)' = Asked(d) /\ conn'[d].got = conn[d].got
  BY <1>2 DEF Asked
<1>5. askedNow' = askedNow /\ receivedNow' = receivedNow
  BY <1>4 DEF askedNow, receivedNow
<1>6. QED
  BY <1>1, <1>3, <1>5 DEF Service!svars, over, requests, askedNow, receivedNow

THEOREM ServiceStep == IInv /\ [Next]_vars => [Service!SNext]_(Service!svars)
<1> SUFFICES ASSUME IInv, [Next]_vars
             PROVE  Service!SNext \/ UNCHANGED Service!svars
  OBVIOUS
<1>1. CASE \/ UNCHANGED vars
           \/ BootInit \/ BootReset \/ Recv \/ RecvEnds \/ NoMoreLines \/ Send
  <2>1. UNCHANGED <<client, pending, conn, log>>
    BY <1>1 DEF vars, serverVars, netVars, BootInit, BootReset, Recv, RecvEnds, NoMoreLines, Send
  <2>2. QED
    BY <2>1, Hidden
<1>2. CASE Accept
  BY <1>2, AcceptTakes DEF Service!SNext
<1>3. CASE Close
  BY <1>3, CloseLeaves DEF Service!SNext
<1>4. CASE Handle \/ Quit
  BY <1>4, HandleServes DEF Service!SNext
<1>5. ASSUME NEW c \in Conns, Connect(c) \/ SendText(c) \/ Leave(c)
      PROVE  UNCHANGED Service!svars
  BY <1>5, ConnectHidden, SendTextHidden, LeaveHidden
<1>6. ASSUME NEW c \in Conns, SendNewline(c) \/ ReadAnswer(c)
      PROVE  Service!SNext
  BY <1>6, SendNewlineAsks, ReadAnswerReceives DEF Service!SNext
<1>7. QED
  BY <1>1, <1>2, <1>3, <1>4, <1>5, <1>6 DEF Next, ServerStep, Talk

(* Whoever goes in the middle of a line and however the stream is cut, the  *)
(* server serves whole requests, once each, in order, one connection at a   *)
(* time, and its clients read the answers in that order.                    *)
THEOREM ServiceImplemented == Spec => ServiceSpec
<1>1. Init => IInv /\ Service!SInit
  BY InitIInv, ServiceInit
<1>2. IInv /\ [Next]_vars => IInv'
  BY StepIInv
<1>3. IInv /\ [Next]_vars => [Service!SNext]_(Service!svars)
  BY ServiceStep
<1>4. QED
  BY <1>1, <1>2, <1>3, PTL DEF Spec, ServiceSpec, Service!SSpec

-----------------------------------------------------------------------------
(* Positions of the log: a set of them has a last one.                      *)
LEMMA LeastNat ==
  ASSUME NEW T \in SUBSET Nat, T # {}
  PROVE  \E m \in T : \A n \in T : m <= n
<1> DEFINE R == OpToRel(<, Nat)
<1>1. IsWellFoundedOn(R, Nat)
  BY NatLessThanWellFounded DEF OpToRel
<1> HIDE DEF R
<1>2. \E x \in T : \A y \in T : ~ (<<y, x>> \in R)
  BY <1>1, WFMin, Zenon
<1>3. PICK m \in T : \A y \in T : ~ (<<y, m>> \in R)
  BY <1>2
<1>4. ASSUME NEW n \in T PROVE m <= n
  <2>1. <<n, m>> \notin R
    BY <1>3
  <2>2. n \in Nat /\ m \in Nat
    OBVIOUS
  <2>3. <<n, m>> \in R <=> n < m
    BY <2>2 DEF R, OpToRel
  <2>4. QED
    BY <2>1, <2>2, <2>3
<1>5. QED
  BY <1>4

LEMMA MaxLast ==
  ASSUME NEW n \in Nat, NEW s \in SUBSET (1..n), s # {}
  PROVE  Max(s) \in s
<1> DEFINE T == {m \in Nat : \A x \in s : x <= m}
<1>1. n \in T
  OBVIOUS
<1>2. PICK m \in T : \A k \in T : m <= k
  <2>1. T \in SUBSET Nat /\ T # {}
    BY <1>1
  <2> HIDE DEF T
  <2>2. QED
    BY <2>1, LeastNat
<1>3. m \in Nat /\ \A x \in s : x \in Nat /\ x <= m /\ x >= 1
  BY <1>2
<1>4. m \in s
  <2>1. SUFFICES ASSUME m \notin s PROVE FALSE
    OBVIOUS
  <2>2. \A x \in s : x <= m - 1
    BY <1>3, <2>1
  <2>3. m - 1 \in Nat
    <3>1. PICK x \in s : TRUE
      OBVIOUS
    <3>2. x \in Nat /\ x >= 1 /\ x <= m - 1
      BY <1>3, <2>2
    <3>3. QED
      BY <1>3, <3>2
  <2>4. m - 1 \in T
    BY <2>2, <2>3
  <2>5. QED
    BY <1>2, <1>3, <2>4
<1>5. \E x \in s : \A y \in s : x >= y
  BY <1>3, <1>4
<1>6. QED
  BY <1>5 DEF Max

LEMMA MaxIs ==
  ASSUME NEW s, NEW m \in s, \A x \in s : x \in Int /\ x <= m
  PROVE  Max(s) = m
<1>1. m \in Int /\ \A y \in s : m >= y
  OBVIOUS
<1>2. Max(s) \in s /\ \A y \in s : Max(s) >= y
  BY <1>1 DEF Max
<1>3. Max(s) \in Int /\ Max(s) <= m /\ Max(s) >= m
  BY <1>2
<1>4. QED
  BY <1>1, <1>3

(* FoldLeft of the log, as the function on sets of positions it is.         *)
Adds(sum, r) == IF r.name = "reset" THEN 0 ELSE sum + r.done

SumsUp(it, l) ==
  it = [s \in SUBSET DOMAIN l |->
          IF s = {} THEN 0 ELSE Adds(it[s \ {Max(s)}], l[Max(s)])]

LEMMA AnsweredIsSum ==
  FramesAnswered <=> frames = (CHOOSE it : SumsUp(it, log))[DOMAIN log]
BY DEF FramesAnswered, FoldLeft, MapThenFoldSet, SumsUp, Adds

LEMMA SumOfAll ==
  ASSUME NEW it, NEW l \in Seq(LogRecords), NEW r, SumsUp(it, Append(l, r))
  PROVE  it[DOMAIN Append(l, r)] = Adds(it[DOMAIN l], r)
<1> DEFINE n == Len(l)
           D == 1..(n + 1)
<1>1. n \in Nat /\ DOMAIN l = 1..n /\ DOMAIN Append(l, r) = D /\ Append(l, r)[n + 1] = r
  OBVIOUS
<1>2. D # {} /\ Max(D) = n + 1 /\ D \ {n + 1} = 1..n
  <2>1. n + 1 \in D /\ \A x \in D : x \in Int /\ x <= n + 1
    BY <1>1
  <2>2. D \ {n + 1} = 1..n
    BY <1>1
  <2> HIDE DEF D
  <2>3. QED
    BY <2>1, <2>2, MaxIs
<1>3. D \in SUBSET DOMAIN Append(l, r)
  BY <1>1
<1> HIDE DEF D
<1>4. it[D] = Adds(it[D \ {Max(D)}], Append(l, r)[Max(D)])
  BY <1>2, <1>3 DEF SumsUp
<1>5. QED
  BY <1>1, <1>2, <1>4

(* Of a longer log's sums, those of the shorter one.                        *)
LEMMA SumsBefore ==
  ASSUME NEW it, NEW l \in Seq(LogRecords), NEW r, SumsUp(it, Append(l, r))
  PROVE  /\ SumsUp([s \in SUBSET DOMAIN l |-> it[s]], l)
         /\ DOMAIN l \in SUBSET DOMAIN l
<1> DEFINE n == Len(l)
           g == [s \in SUBSET DOMAIN l |-> it[s]]
<1>1. /\ n \in Nat /\ DOMAIN l = 1..n /\ DOMAIN Append(l, r) = 1..(n + 1)
      /\ \A i \in 1..n : Append(l, r)[i] = l[i]
  OBVIOUS
<1>2. ASSUME NEW s \in SUBSET DOMAIN l
      PROVE  g[s] = IF s = {} THEN 0 ELSE Adds(g[s \ {Max(s)}], l[Max(s)])
  <2>1. s \in SUBSET DOMAIN Append(l, r)
    BY <1>1
  <2>2. it[s] = IF s = {} THEN 0 ELSE Adds(it[s \ {Max(s)}], Append(l, r)[Max(s)])
    BY <2>1 DEF SumsUp
  <2>3. CASE s = {}
    BY <2>2, <2>3
  <2>4. CASE s # {}
    <3>1. Max(s) \in s
      BY <1>1, <2>4, MaxLast
    <3>2. Append(l, r)[Max(s)] = l[Max(s)]
      BY <1>1, <3>1
    <3>3. s \ {Max(s)} \in SUBSET DOMAIN l
      OBVIOUS
    <3>4. g[s \ {Max(s)}] = it[s \ {Max(s)}] /\ g[s] = it[s]
      BY <3>3
    <3>5. QED
      BY <2>2, <2>4, <3>2, <3>4
  <2>5. QED
    BY <2>3, <2>4
<1>3. DOMAIN g = SUBSET DOMAIN l
  OBVIOUS
<1>4. g = [s \in SUBSET DOMAIN l |-> g[s]]
  OBVIOUS
<1> HIDE DEF g
<1>5. SumsUp(g, l)
  BY <1>2, <1>4 DEF SumsUp
<1>6. QED
  BY <1>5 DEF g

(* And the other way round. *)
LEMMA SumsAfter ==
  ASSUME NEW it, NEW l \in Seq(LogRecords), NEW r, SumsUp(it, l)
  PROVE  \E more : SumsUp(more, Append(l, r))
<1> DEFINE n == Len(l)
           D == DOMAIN Append(l, r)
           g == [s \in SUBSET D |->
                   IF n + 1 \in s THEN Adds(it[s \ {n + 1}], r) ELSE it[s]]
<1>1. /\ n \in Nat /\ DOMAIN l = 1..n /\ D = 1..(n + 1)
      /\ \A i \in 1..n : Append(l, r)[i] = l[i]
      /\ Append(l, r)[n + 1] = r
  OBVIOUS
<1>2. ASSUME NEW s \in SUBSET D
      PROVE  g[s] = IF s = {} THEN 0 ELSE Adds(g[s \ {Max(s)}], Append(l, r)[Max(s)])
  <2>1. CASE n + 1 \in s
    <3>1. Max(s) = n + 1
      <4>1. \A x \in s : x \in Int /\ x <= n + 1
        BY <1>1
      <4>2. QED
        BY <2>1, <4>1, MaxIs
    <3>2. s \ {n + 1} \in SUBSET D /\ n + 1 \notin s \ {n + 1}
      OBVIOUS
    <3>3. g[s \ {n + 1}] = it[s \ {n + 1}]
      BY <3>2
    <3>4. g[s] = Adds(it[s \ {n + 1}], r)
      BY <2>1
    <3>5. s # {}
      BY <2>1
    <3>6. QED
      BY <1>1, <3>1, <3>3, <3>4, <3>5
  <2>2. CASE n + 1 \notin s
    <3>1. s \in SUBSET DOMAIN l
      BY <1>1, <2>2
    <3>2. g[s] = it[s]
      BY <2>2
    <3>3. it[s] = IF s = {} THEN 0 ELSE Adds(it[s \ {Max(s)}], l[Max(s)])
      BY <3>1 DEF SumsUp
    <3>4. ASSUME s # {} PROVE /\ Append(l, r)[Max(s)] = l[Max(s)]
                              /\ g[s \ {Max(s)}] = it[s \ {Max(s)}]
      <4>1. Max(s) \in s
        BY <1>1, <3>1, <3>4, MaxLast
      <4>2. s \ {Max(s)} \in SUBSET D /\ n + 1 \notin s \ {Max(s)}
        BY <2>2
      <4>3. Append(l, r)[Max(s)] = l[Max(s)]
        BY <1>1, <3>1, <4>1
      <4>4. QED
        BY <4>2, <4>3
    <3>5. QED
      BY <3>2, <3>3, <3>4
  <2>3. QED
    BY <2>1, <2>2
<1>3. g = [s \in SUBSET D |-> g[s]]
  OBVIOUS
<1> HIDE DEF g
<1>4. SumsUp(g, Append(l, r))
  BY <1>2, <1>3 DEF SumsUp
<1>5. QED
  BY <1>4

-----------------------------------------------------------------------------
(* The emulator's position is the sum of the answers; nothing has been run  *)
(* or carried out while the server boots.                                   *)
Account ==
  /\ at = "boot" => log = <<>> /\ frames = 0
  /\ at \notin {"boot", "exit"} => initialized
  /\ \E it : SumsUp(it, log)
  /\ \A it : SumsUp(it, log) => it[DOMAIN log] = frames

LEMMA AccountInit == Init => Account
<1> SUFFICES ASSUME Init PROVE Account
  OBVIOUS
<1>1. log = <<>> /\ frames = 0 /\ at = "boot" /\ DOMAIN log = {}
  BY DEF Init, BridgeInit
<1>2. SUBSET DOMAIN log = {{}}
  BY <1>1
<1>3. SumsUp([s \in SUBSET DOMAIN log |-> 0], log)
  BY <1>2 DEF SumsUp
<1>4. ASSUME NEW it, SumsUp(it, log) PROVE it[DOMAIN log] = frames
  BY <1>1, <1>2, <1>4 DEF SumsUp
<1>5. QED
  BY <1>1, <1>3, <1>4 DEF Account

(* A request that is carried out adds what it answers.                      *)
LEMMA AccountAppended ==
  ASSUME Account, log \in Seq(LogRecords), NEW r, log' = Append(log, r),
         frames' = Adds(frames, r), at' # "boot",
         at' # "exit" => initialized'
  PROVE  Account'
<1>1. \E it : SumsUp(it, log')
  BY SumsAfter DEF Account
<1>2. ASSUME NEW it, SumsUp(it, log') PROVE it[DOMAIN log'] = frames'
  <2> DEFINE g == [s \in SUBSET DOMAIN log |-> it[s]]
  <2>1. SumsUp(it, Append(log, r))
    BY <1>2
  <2>2. SumsUp(g, log) /\ DOMAIN log \in SUBSET DOMAIN log
    BY <2>1, SumsBefore
  <2>3. g[DOMAIN log] = it[DOMAIN log]
    BY <2>2
  <2> HIDE DEF g
  <2>4. it[DOMAIN log] = frames
    BY <2>2, <2>3 DEF Account
  <2>5. it[DOMAIN Append(log, r)] = Adds(it[DOMAIN log], r)
    BY <2>1, SumOfAll
  <2>6. QED
    BY <2>4, <2>5
<1>3. QED
  BY <1>1, <1>2 DEF Account

LEMMA AccountKept ==
  ASSUME Account, UNCHANGED <<log, frames>>,
         at' = "boot" => at = "boot",
         at' \notin {"boot", "exit"} => initialized'
  PROVE  Account'
BY DEF Account

LEMMA AccountHandle ==
  ASSUME IInv, Account, Handle
  PROVE  Account'
<1> DEFINE request == Head(Line)
<1>1. at = "lines" /\ at' = "send" /\ HasLine
  BY DEF Handle
<1>2. request.cmd \in Commands
  BY <1>1, NextLine DEF IInv
<1>3. PICK status \in Statuses, done \in 0..Clamped(request.cmd.n) :
        /\ Execute(request.cmd, done, status)
        /\ log' = Append(log, [c |-> request.c, k |-> request.k,
                               name |-> request.cmd.name, done |-> done])
  BY DEF Handle
<1>4. request.cmd.n \in Nat
  BY <1>2, ServerAssumption
<1> DEFINE r == [c |-> request.c, k |-> request.k, name |-> request.cmd.name, done |-> done]
<1>5. /\ r.name = request.cmd.name /\ r.done = done
      /\ log \in Seq(LogRecords) /\ log' = Append(log, r)
      /\ initialized /\ frames \in Nat
  BY <1>1, <1>3, TypeParts DEF IInv, LogTypes, Account, TypeOK
<1> HIDE DEF request, r
<1>6. Clamped(request.cmd.n) \in Nat
  BY <1>4, FrameCapAssumption DEF Clamped
<1>7. frames' = Adds(frames, r) /\ initialized'
  <2>1. CASE request.cmd.name = "read" /\ ares_read(status) /\ done = 0
    BY <1>5, <2>1 DEF ares_read, bridgeVars, Adds
  <2>2. CASE request.cmd.name = "reset" /\ ares_reset(status) /\ done = 0
    BY <1>5, <2>2 DEF ares_reset, Adds
  <2>3. CASE /\ request.cmd.name = "step_frame"
             /\ ares_step_frames(Clamped(request.cmd.n), done, status)
    <3>1. /\ initialized' = initialized
          /\ (frames' = frames /\ done = 0) \/ frames' = frames + done
      BY <2>3 DEF ares_step_frames, bridgeVars
    <3>2. frames' = frames + done
      BY <1>5, <3>1
    <3>3. Adds(frames, r) = frames + done
      BY <1>5, <2>3 DEF Adds
    <3>4. QED
      BY <1>5, <3>1, <3>2, <3>3
  <2>4. QED
    BY <1>3, <2>1, <2>2, <2>3 DEF Execute
<1>8. QED
  BY <1>1, <1>5, <1>7, AccountAppended

LEMMA AccountQuit ==
  ASSUME IInv, Account, Quit
  PROVE  Account'
<1> DEFINE r == [c |-> Head(Line).c, k |-> Head(Line).k, name |-> "quit", done |-> 0]
<1>1. /\ log' = Append(log, r) /\ at' = "exit" /\ frames' = frames
      /\ r.name = "quit" /\ r.done = 0
  BY DEF Quit, bridgeVars
<1>2. log \in Seq(LogRecords) /\ frames \in Nat
  BY TypeParts DEF IInv, LogTypes, TypeOK
<1> HIDE DEF r
<1>3. frames' = Adds(frames, r)
  BY <1>1, <1>2 DEF Adds
<1>4. QED
  BY <1>1, <1>2, <1>3, AccountAppended

LEMMA AccountStep == IInv /\ Account /\ [Next]_vars => Account'
<1> SUFFICES ASSUME IInv, Account, [Next]_vars PROVE Account'
  OBVIOUS
<1>1. CASE UNCHANGED vars
  BY <1>1, AccountKept DEF vars, bridgeVars, serverVars, Account
<1>2. CASE BootInit
  <2>1. UNCHANGED <<log, frames>> /\ at = "boot" /\ at' \in {"boot", "exit"}
    BY <1>2 DEF BootInit, ares_init, bridgeVars
  <2>2. QED
    BY <2>1, AccountKept
<1>3. CASE BootReset
  <2>1. /\ UNCHANGED log /\ at = "boot" /\ at' \in {"accept", "exit"}
        /\ initialized' /\ frames' = 0
    BY <1>3 DEF BootReset, ares_reset
  <2>2. frames' = frames
    BY <2>1 DEF Account
  <2>3. QED
    BY <2>1, <2>2, AccountKept
<1>4. CASE Accept \/ Recv \/ RecvEnds \/ NoMoreLines \/ Send \/ Close
  <2>1. /\ UNCHANGED <<log, bridgeVars>>
        /\ at \notin {"boot", "exit"} /\ at' # "boot"
    BY <1>4 DEF Accept, Recv, RecvEnds, NoMoreLines, Send, Close
  <2>2. QED
    BY <2>1, AccountKept DEF Account, bridgeVars
<1>5. ASSUME NEW c \in Conns, Connect(c) \/ Talk(c) \/ Leave(c) PROVE Account'
  <2>1. UNCHANGED <<log, bridgeVars, at>>
    BY <1>5 DEF Connect, Talk, Leave, SendText, SendNewline, ReadAnswer, serverVars
  <2>2. QED
    BY <2>1, AccountKept DEF Account, bridgeVars
<1>6. QED
  BY <1>1, <1>2, <1>3, <1>4, <1>5, AccountHandle, AccountQuit DEF Next, ServerStep

(* Whatever resets and steps the connections ask for, and however they      *)
(* fail, the emulator stands where the answers say.                         *)
THEOREM FramesAccounted == Spec => []FramesAnswered
<1>1. Init => IInv /\ Account
  BY InitIInv, AccountInit
<1>2. IInv /\ Account /\ [Next]_vars => IInv' /\ Account'
  BY StepIInv, AccountStep
<1>3. Account => FramesAnswered
  BY AnsweredIsSum DEF Account
<1>4. QED
  BY <1>1, <1>2, <1>3, PTL DEF Spec
=============================================================================
