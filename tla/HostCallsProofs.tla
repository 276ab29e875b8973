--------------------------- MODULE HostCallsProofs --------------------------
(***************************************************************************)
(* The calling convention of HostCalls for every program, depth and limit. *)
(***************************************************************************)
EXTENDS HostCalls, FiniteSetTheorems, SequenceTheorems, TLAPS

(* Only the oldest return address is Root, there is one to return to       *)
(* whenever guest code runs or is about to be dispatched, and guest code   *)
(* never runs with a tail call still pending.                              *)
GuestStack ==
  /\ \A i \in 1..Len(returns) : returns[i] = Root <=> i = 1
  /\ running => Len(returns) > 0 /\ ~pending
  /\ pending /\ target # Root => Len(returns) > 0

(* The thread's own trampoline is at the bottom; only a body executes;     *)
(* a body that waits has a frame of its own; a trampoline leaves           *)
(* host_return_target as it found it.                                      *)
HostShape ==
  /\ frames[1] = Trampoline(Root)
  /\ running => Top.kind = "body"
  /\ \A i \in 1..Len(frames) :
       IF frames[i].kind = "body" THEN Suspended(i) => frames[i].sp > 0
                                  ELSE frames[i].site = frames[i].prev

(* The host stack and host_return_target, and the guest's return stack.    *)
HostInv  == /\ frames \in Seq(FrameRecords)
            /\ Len(frames) > 0
            /\ hostReturn \in Sites \cup {Root}
            /\ HostShape
            /\ HostReturnChain
GuestInv == /\ returns \in Seq(Sites \cup {Root})
            /\ Len(returns) <= MaxDepth
            /\ running \in BOOLEAN
            /\ pending \in BOOLEAN
            /\ target \in Addrs
            /\ mismatch \in BOOLEAN
            /\ GuestStack

IInv == GuestInv /\ HostInv

-----------------------------------------------------------------------------
LEMMA PopSeq ==
  ASSUME NEW S, NEW q \in Seq(S), Len(q) > 0
  PROVE  /\ SubSeq(q, 1, Len(q) - 1) \in Seq(S)
         /\ Len(SubSeq(q, 1, Len(q) - 1)) = Len(q) - 1
         /\ \A i \in 1..(Len(q) - 1) : SubSeq(q, 1, Len(q) - 1)[i] = q[i]
<1>1. \A i \in 1..(Len(q) - 1) : q[i] \in S
  BY ElementOfSeq
<1>2. Len(q) - 1 \in Nat
  BY LenProperties
<1> DEFINE n == Len(q) - 1
           p == SubSeq(q, 1, n)
<1> HIDE DEF n
<1>3. /\ p \in Seq(S)
      /\ Len(p) = IF 1 <= n THEN n - 1 + 1 ELSE 0
      /\ \A i \in 1..(n - 1 + 1) : p[i] = q[1 + i - 1]
  <2>1. n \in Int /\ 1 \in Int /\ \A i \in 1..n : q[i] \in S
    BY <1>1, <1>2 DEF n
  <2>2. QED
    BY <2>1, SubSeqProperties
<1>4. n \in Nat
  BY <1>2 DEF n
<1>5. Len(p) = n /\ \A i \in 1..n : p[i] = q[i]
  BY <1>3, <1>4
<1>6. QED
  BY <1>3, <1>5 DEF n

LEMMA PushSeq ==
  ASSUME NEW S, NEW q \in Seq(S), NEW e \in S
  PROVE  /\ Append(q, e) \in Seq(S)
         /\ Len(Append(q, e)) = Len(q) + 1
         /\ \A i \in 1..Len(q) : Append(q, e)[i] = q[i]
         /\ Append(q, e)[Len(q) + 1] = e
BY AppendProperties

LEMMA UpdateTop ==
  ASSUME NEW S, NEW q \in Seq(S), Len(q) > 0, NEW e \in S
  PROVE  /\ [q EXCEPT ![Len(q)] = e] \in Seq(S)
         /\ Len([q EXCEPT ![Len(q)] = e]) = Len(q)
         /\ \A i \in 1..(Len(q) - 1) : [q EXCEPT ![Len(q)] = e][i] = q[i]
         /\ [q EXCEPT ![Len(q)] = e][Len(q)] = e
<1>1. Len(q) \in Nat /\ Len(q) \in 1..Len(q)
  BY LenProperties
<1>2. QED
  BY <1>1, ExceptSeq

-----------------------------------------------------------------------------
(* Records for new frames are frame records. *)
LEMMA FrameTypes ==
  /\ \A f \in Funcs \cup {Root} : Body(f) \in FrameRecords
  /\ \A h \in Sites \cup {Root} : Trampoline(h) \in FrameRecords
BY ProgramAssumption DEF Body, Trampoline, FrameRecords

LEMMA InitIInv == Init => IInv
<1> SUFFICES ASSUME Init PROVE IInv
  OBVIOUS
<1>1. frames \in Seq(FrameRecords)
  <2>1. Trampoline(Root) \in FrameRecords /\ Body(Entry) \in FrameRecords
    BY FrameTypes, ProgramAssumption
  <2>2. QED
    BY <2>1 DEF Init
<1>2. HostInv
  BY <1>1 DEF Init, HostInv, HostShape, HostReturnChain, Suspended, Top, Trampoline, Body
<1>3. GuestInv
  <2>1. returns \in Seq(Sites \cup {Root}) /\ Len(returns) = 1 /\ returns[1] = Root
    BY DEF Init
  <2>2. GuestStack
    BY <2>1 DEF Init, GuestStack
  <2>3. Len(returns) <= MaxDepth
    BY <2>1, ProgramAssumption
  <2>4. /\ running \in BOOLEAN /\ pending \in BOOLEAN /\ mismatch \in BOOLEAN
        /\ target \in Addrs
    BY DEF Init, Addrs
  <2>5. QED
    BY <2>1, <2>2, <2>3, <2>4 DEF GuestInv
<1>4. QED
  BY <1>2, <1>3 DEF IInv

(* A running body is never the bottom frame. *)
LEMMA RunningAboveBottom ==
  ASSUME HostInv, Top.kind = "body"
  PROVE  Len(frames) \in Nat /\ Len(frames) > 1
BY LenProperties DEF HostInv, HostShape, Top, Trampoline

(* The top frame returns while it is running: host_return_target is already *)
(* what the frame below waits for.                                          *)
LEMMA PopRunning ==
  ASSUME HostInv, running, Pop, running' = FALSE, hostReturn' = hostReturn
  PROVE  HostInv'
<1>1. Len(frames) \in Nat /\ Len(frames) > 1
  BY RunningAboveBottom DEF HostInv, HostShape
<1>2. /\ frames' \in Seq(FrameRecords)
      /\ Len(frames') = Len(frames) - 1
      /\ \A i \in 1..(Len(frames) - 1) : frames'[i] = frames[i]
  BY PopSeq DEF HostInv, Pop
<1>3. HostShape'
  BY <1>1, <1>2 DEF HostInv, HostShape, Suspended, Top, Trampoline
<1>4. HostReturnChain'
  BY <1>1, <1>2 DEF HostInv, HostReturnChain, Suspended
<1>5. QED
  BY <1>1, <1>2, <1>3, <1>4 DEF HostInv

(* The top frame gives up while its callee has returned to it. *)
LEMMA PopWaiting ==
  ASSUME HostInv, ~running, Len(frames) > 1, Pop, ~running',
         hostReturn' = Top.prev
  PROVE  HostInv'
<1>1. Len(frames) \in Nat
  BY LenProperties DEF HostInv
<1>2. /\ frames' \in Seq(FrameRecords)
      /\ Len(frames') = Len(frames) - 1
      /\ \A i \in 1..(Len(frames) - 1) : frames'[i] = frames[i]
  BY PopSeq DEF HostInv, Pop
<1>3. HostShape'
  BY <1>1, <1>2 DEF HostInv, HostShape, Suspended, Top, Trampoline
<1>4. hostReturn' = frames[Len(frames) - 1].site
  BY <1>1 DEF HostInv, HostReturnChain, Suspended, Top
<1>5. HostReturnChain'
  <2>1. \A i \in 2..Len(frames') : frames'[i].prev = frames'[i - 1].site
    BY <1>1, <1>2 DEF HostInv, HostReturnChain, Suspended
  <2>2. hostReturn' = frames'[Len(frames')].site
    BY <1>1, <1>2, <1>4
  <2>3. QED
    BY <2>1, <2>2 DEF HostReturnChain
<1>6. hostReturn' \in Sites \cup {Root}
  <2>1. frames[Len(frames) - 1] \in FrameRecords
    BY <1>1, ElementOfSeq DEF HostInv
  <2>2. QED
    BY <1>4, <2>1 DEF FrameRecords
<1>7. QED
  BY <1>1, <1>2, <1>3, <1>5, <1>6 DEF HostInv

(* A body is entered on top of a waiting frame (Dispatch). *)
LEMMA PushBody ==
  ASSUME HostInv, ~running, NEW f \in Funcs \cup {Root}, Push(Body(f)),
         running' = TRUE, hostReturn' = hostReturn
  PROVE  HostInv'
<1>1. Len(frames) \in Nat
  BY LenProperties DEF HostInv
<1>2. /\ frames' \in Seq(FrameRecords)
      /\ Len(frames') = Len(frames) + 1
      /\ \A i \in 1..Len(frames) : frames'[i] = frames[i]
      /\ frames'[Len(frames) + 1] = Body(f)
  BY PushSeq, FrameTypes DEF HostInv, Push
<1>3. HostShape'
  BY <1>1, <1>2 DEF HostInv, HostShape, Suspended, Top, Trampoline, Body
<1>4. HostReturnChain'
  <2>1. \A i \in 2..Len(frames) : frames'[i].prev = frames'[i - 1].site
    BY <1>1, <1>2 DEF HostInv, HostReturnChain, Suspended
  <2>2. hostReturn' = frames'[Len(frames') - 1].site
    BY <1>1, <1>2 DEF HostInv, HostReturnChain
  <2>3. QED
    BY <1>1, <1>2, <2>1, <2>2 DEF HostReturnChain, Suspended
<1>5. QED
  BY <1>1, <1>2, <1>3, <1>4 DEF HostInv

(* A waiting body enters a nested trampoline (Drain). *)
LEMMA PushTrampoline ==
  ASSUME HostInv, ~running, Push(Trampoline(hostReturn)),
         ~running', hostReturn' = hostReturn
  PROVE  HostInv'
<1>1. Len(frames) \in Nat
  BY LenProperties DEF HostInv
<1>2. /\ frames' \in Seq(FrameRecords)
      /\ Len(frames') = Len(frames) + 1
      /\ \A i \in 1..Len(frames) : frames'[i] = frames[i]
      /\ frames'[Len(frames) + 1] = Trampoline(hostReturn)
  BY PushSeq, FrameTypes DEF HostInv, Push
<1>3. HostShape'
  BY <1>1, <1>2 DEF HostInv, HostShape, Suspended, Top, Trampoline
<1>4. HostReturnChain'
  <2>1. \A i \in 2..Len(frames') : frames'[i].prev = frames'[i - 1].site
    BY <1>1, <1>2 DEF HostInv, HostReturnChain, Suspended, Trampoline
  <2>2. hostReturn' = frames'[Len(frames')].site
    BY <1>1, <1>2 DEF Trampoline
  <2>3. QED
    BY <2>1, <2>2 DEF HostReturnChain
<1>5. QED
  BY <1>1, <1>2, <1>3, <1>4 DEF HostInv

(* The call site of a waiting body puts host_return_target back and goes on. *)
LEMMA ResumeTop ==
  ASSUME HostInv, ~running, Top.kind = "body", running' = TRUE,
         SetTop(Body(Top.fn)),
         hostReturn' = Top.prev
  PROVE  HostInv'
<1>1. Len(frames) \in Nat /\ Len(frames) > 1
  BY RunningAboveBottom
<1>2. Top \in FrameRecords
  BY <1>1, ElementOfSeq DEF HostInv, Top
<1>3. Body(Top.fn) \in FrameRecords
  BY <1>2, FrameTypes DEF FrameRecords
<1>4. /\ frames' \in Seq(FrameRecords)
      /\ Len(frames') = Len(frames)
      /\ \A i \in 1..(Len(frames) - 1) : frames'[i] = frames[i]
      /\ frames'[Len(frames)] = Body(Top.fn)
  BY <1>3, UpdateTop DEF HostInv, SetTop
<1>5. HostShape'
  BY <1>1, <1>4 DEF HostInv, HostShape, Suspended, Top, Trampoline, Body
<1>6. hostReturn' = frames[Len(frames) - 1].site
  BY <1>1 DEF HostInv, HostReturnChain, Suspended, Top
<1>7. HostReturnChain'
  <2>1. \A i \in 2..(Len(frames) - 1) : frames'[i].prev = frames'[i - 1].site
    BY <1>1, <1>4 DEF HostInv, HostReturnChain, Suspended
  <2>2. hostReturn' = frames'[Len(frames') - 1].site
    BY <1>1, <1>4, <1>6
  <2>3. QED
    BY <1>1, <1>4, <2>1, <2>2 DEF HostReturnChain, Suspended
<1>8. hostReturn' \in Sites \cup {Root}
  BY <1>2 DEF FrameRecords
<1>9. QED
  BY <1>1, <1>4, <1>5, <1>7, <1>8 DEF HostInv

(* The running body calls another: it waits, and the callee runs.          *)
LEMMA CallBody ==
  ASSUME HostInv, running, Top.kind = "body", NEW s \in Sites, NEW f \in Funcs,
         sp \in 1..MaxDepth, PushCall(s, f), running' = TRUE, hostReturn' = s
  PROVE  HostInv'
<1>1. Len(frames) \in Nat /\ Len(frames) > 1
  BY RunningAboveBottom
<1>2. Top \in FrameRecords
  BY <1>1, ElementOfSeq DEF HostInv, Top
<1>3. sp \in 0..MaxDepth /\ sp > 0
  BY ProgramAssumption
<1> DEFINE w == Waiting(s)
           q == [frames EXCEPT ![Len(frames)] = w]
<1>4. /\ w \in FrameRecords
      /\ w.kind = "body" /\ w.site = s /\ w.prev = hostReturn /\ w.sp > 0
  BY <1>2, <1>3 DEF Waiting, FrameRecords, HostInv
<1> HIDE DEF w
<1>5. /\ q \in Seq(FrameRecords)
      /\ Len(q) = Len(frames)
      /\ \A i \in 1..(Len(frames) - 1) : q[i] = frames[i]
      /\ q[Len(frames)] = w
  BY <1>4, UpdateTop DEF HostInv
<1>6. frames' = Append(q, Body(f))
  BY DEF PushCall, w
<1> HIDE DEF q
<1>7. /\ frames' \in Seq(FrameRecords)
      /\ Len(frames') = Len(frames) + 1
      /\ \A i \in 1..Len(frames) : frames'[i] = q[i]
      /\ frames'[Len(frames) + 1] = Body(f)
  <2>1. Body(f) \in FrameRecords
    BY FrameTypes
  <2>2. QED
    BY <1>5, <1>6, <2>1, PushSeq
<1>8. /\ \A i \in 1..(Len(frames) - 1) : frames'[i] = frames[i]
      /\ frames'[Len(frames)] = w
  BY <1>1, <1>5, <1>7
<1>9. HostShape'
  BY <1>1, <1>4, <1>7, <1>8 DEF HostInv, HostShape, Suspended, Top, Trampoline, Body
<1>10. HostReturnChain'
  <2>1. \A i \in 2..Len(frames) : frames'[i].prev = frames'[i - 1].site
    <3>1. \A i \in 2..(Len(frames) - 1) : frames'[i].prev = frames'[i - 1].site
      BY <1>1, <1>8 DEF HostInv, HostReturnChain, Suspended
    <3>2. frames'[Len(frames)].prev = frames'[Len(frames) - 1].site
      BY <1>1, <1>4, <1>8 DEF HostInv, HostReturnChain
    <3>3. QED
      BY <1>1, <3>1, <3>2
  <2>2. hostReturn' = frames'[Len(frames') - 1].site
    BY <1>1, <1>4, <1>7, <1>8
  <2>3. QED
    BY <1>1, <1>7, <2>1, <2>2 DEF HostReturnChain, Suspended
<1>11. QED
  BY <1>1, <1>7, <1>9, <1>10 DEF HostInv

(* Nothing on the host moves (a local call, a return to a label).          *)
LEMMA HostUnchanged ==
  ASSUME HostInv, UNCHANGED <<frames, running, hostReturn>>
  PROVE  HostInv'
BY DEF HostInv, HostShape, HostReturnChain, Suspended, Top

-----------------------------------------------------------------------------
(* A guest return removes the newest return address.                       *)
LEMMA GuestPop ==
  ASSUME GuestInv, Len(returns) > 0, returns' = ButLast(returns)
  PROVE  /\ ra \in Sites \cup {Root}
         /\ ra = Root <=> Len(returns) = 1
         /\ Len(returns) \in Nat
         /\ returns' \in Seq(Sites \cup {Root})
         /\ Len(returns') = Len(returns) - 1
         /\ Len(returns') <= MaxDepth
         /\ \A i \in 1..Len(returns') : returns'[i] = Root <=> i = 1
<1>1. Len(returns) \in Nat
  BY LenProperties DEF GuestInv
<1>2. /\ returns' \in Seq(Sites \cup {Root})
      /\ Len(returns') = Len(returns) - 1
      /\ \A i \in 1..(Len(returns) - 1) : returns'[i] = returns[i]
  BY PopSeq DEF GuestInv, ButLast
<1>3. returns[Len(returns)] \in Sites \cup {Root}
  BY <1>1, ElementOfSeq DEF GuestInv
<1>4. returns[Len(returns)] = Root <=> Len(returns) = 1
  <2>1. \A i \in 1..Len(returns) : returns[i] = Root <=> i = 1
    BY DEF GuestInv, GuestStack
  <2>2. Len(returns) \in 1..Len(returns)
    BY <1>1
  <2>3. QED
    BY <2>1, <2>2
<1>5. Len(returns') <= MaxDepth
  BY <1>1, <1>2, ProgramAssumption DEF GuestInv
<1>6. \A i \in 1..Len(returns') : returns'[i] = Root <=> i = 1
  <2>1. \A i \in 1..Len(returns) : returns[i] = Root <=> i = 1
    BY DEF GuestInv, GuestStack
  <2>2. QED
    BY <1>1, <1>2, <2>1
<1>7. QED
  BY <1>1, <1>2, <1>3, <1>4, <1>5, <1>6 DEF ra, LastOf

(* A call adds the call site's return address.                             *)
LEMMA GuestPush ==
  ASSUME GuestInv, NEW s \in Sites, Len(returns) < MaxDepth, Len(returns) > 0,
         returns' = Append(returns, s)
  PROVE  /\ returns' \in Seq(Sites \cup {Root})
         /\ Len(returns') = Len(returns) + 1
         /\ Len(returns') <= MaxDepth
         /\ sp \in 1..MaxDepth
         /\ \A i \in 1..Len(returns') : returns'[i] = Root <=> i = 1
<1>1. Len(returns) \in Nat
  BY LenProperties DEF GuestInv
<1>2. /\ returns' \in Seq(Sites \cup {Root})
      /\ Len(returns') = Len(returns) + 1
      /\ \A i \in 1..Len(returns) : returns'[i] = returns[i]
      /\ returns'[Len(returns) + 1] = s
  BY PushSeq DEF GuestInv
<1>3. \A i \in 1..Len(returns') : returns'[i] = Root <=> i = 1
  BY <1>1, <1>2, ProgramAssumption DEF GuestInv, GuestStack
<1>4. QED
  BY <1>1, <1>2, <1>3, ProgramAssumption DEF sp

(* A request leaves with an address to go to.                              *)
LEMMA Requested ==
  ASSUME IInv, running, NEW a \in Addrs, RequestTailcall(a), UNCHANGED <<hostReturn, mismatch>>,
         returns' \in Seq(Sites \cup {Root}), Len(returns') <= MaxDepth,
         \A i \in 1..Len(returns') : returns'[i] = Root <=> i = 1,
         a # Root => Len(returns') > 0
  PROVE  IInv'
<1>1. HostInv'
  BY PopRunning DEF IInv, RequestTailcall
<1>2. GuestInv'
  BY DEF IInv, GuestInv, GuestStack, RequestTailcall, Addrs
<1>3. QED
  BY <1>1, <1>2 DEF IInv

-----------------------------------------------------------------------------
(* Which bodies and addresses the actions name. *)
LEMMA ProgramTypes ==
  /\ \A c \in Calls : c[1] \in Sites /\ c[2] \in Funcs
  /\ \A a \in Addrs : Home(a) \in Funcs \cup {Root}
  /\ \A s \in Sites : Owner[s] \in Funcs
BY ProgramAssumption DEF Addrs, Home

(* The actions of guest code in the top body.                              *)
LEMMA GuestStepIInv == IInv /\ GuestStep => IInv'
<1> SUFFICES ASSUME IInv, GuestStep PROVE IInv'
  OBVIOUS
<1> USE DEF IInv
<1>1. ASSUME NEW c \in Calls, LocalCall(c[1], c[2]) PROVE IInv'
  <2>1. HostInv'
    BY <1>1, HostUnchanged DEF LocalCall
  <2>2. c[1] \in Sites /\ Len(returns) > 0 /\ running
    BY <1>1, ProgramTypes DEF LocalCall, Executing, GuestInv, GuestStack
  <2>3. GuestInv'
    BY <1>1, <2>2, GuestPush DEF LocalCall, GuestInv, GuestStack, Addrs
  <2>4. QED
    BY <2>1, <2>3
<1>2. ASSUME NEW c \in Calls, HostCall(c[1], c[2]) PROVE IInv'
  <2>1. /\ c[1] \in Sites /\ c[2] \in Funcs /\ Len(returns) > 0 /\ running
        /\ Top.kind = "body"
    BY <1>2, ProgramTypes DEF HostCall, Executing, GuestInv, GuestStack
  <2>2. sp \in 1..MaxDepth
    BY <1>2, <2>1, GuestPush DEF HostCall
  <2>3. running' = TRUE
    BY <1>2, <2>1 DEF HostCall, GuestInv
  <2>4. HostInv'
    BY <1>2, <2>1, <2>2, <2>3, CallBody DEF HostCall
  <2>5. GuestInv'
    BY <1>2, <2>1, GuestPush DEF HostCall, GuestInv, GuestStack, Addrs
  <2>6. QED
    BY <2>4, <2>5
<1>3. ASSUME NEW f \in Funcs, TailJump(f) PROVE IInv'
  <2>1. f \in Addrs
    BY DEF Addrs
  <2>2. QED
    BY <1>3, <2>1, Requested DEF TailJump, GuestInv, GuestStack
<1>4. ASSUME running, returns' = ButLast(returns) PROVE
      /\ ra \in Addrs
      /\ returns' \in Seq(Sites \cup {Root})
      /\ Len(returns') <= MaxDepth
      /\ \A i \in 1..Len(returns') : returns'[i] = Root <=> i = 1
      /\ ra # Root => Len(returns') > 0
      /\ ra \in Sites => Len(returns') > 0
  <2>1. Len(returns) > 0
    BY <1>4 DEF GuestInv, GuestStack
  <2>2. QED
    BY <1>4, <2>1, GuestPop, ProgramAssumption DEF Addrs
<1>5. CASE ReturnToLabel
  <2>1. HostInv'
    BY <1>5, HostUnchanged DEF ReturnToLabel
  <2>2. ra \in Sites
    BY <1>5 DEF ReturnToLabel, IsLabelIn
  <2>3. GuestInv'
    BY <1>4, <1>5, <2>2 DEF ReturnToLabel, GuestInv, GuestStack
  <2>4. QED
    BY <2>1, <2>3
<1>6. CASE ReturnToHost
  <2>1. HostInv'
    BY <1>6, PopRunning DEF ReturnToHost
  <2>2. GuestInv'
    BY <1>4, <1>6 DEF ReturnToHost, GuestInv, GuestStack
  <2>3. QED
    BY <2>1, <2>2
<1>7. CASE ReturnElsewhere
  BY <1>4, <1>7, Requested DEF ReturnElsewhere
<1>8. CASE ReturnByRegister
  BY <1>4, <1>8, Requested DEF ReturnByRegister
<1>9. QED
  BY <1>1, <1>2, <1>3, <1>5, <1>6, <1>7, <1>8 DEF GuestStep

(* The actions of the code after a call, and of the trampolines.           *)
LEMMA HostStepIInv == IInv /\ HostStep => IInv'
<1> SUFFICES ASSUME IInv, HostStep PROVE IInv'
  OBVIOUS
<1> USE DEF IInv
<1>1. ASSUME CallReturned, RestoreAndResume, UNCHANGED returns, target' \in Addrs, pending' = FALSE
      PROVE IInv'
  <2>1. ~running /\ Top.kind = "body" /\ Len(frames) \in Nat /\ Len(frames) > 1
    BY <1>1, RunningAboveBottom DEF CallReturned
  <2>2. CASE sp = Top.sp
    <3>1. HostInv'
      BY <1>1, <2>1, <2>2, ResumeTop DEF RestoreAndResume
    <3>2. Top.sp > 0
      BY <2>1 DEF HostInv, HostShape, Suspended, Top
    <3>3. GuestInv'
      BY <1>1, <2>2, <3>2 DEF RestoreAndResume, GuestInv, GuestStack, sp
    <3>4. QED
      BY <3>1, <3>3
  <2>3. CASE sp # Top.sp
    <3>1. HostInv'
      BY <1>1, <2>1, <2>3, PopWaiting DEF RestoreAndResume, GuestInv
    <3>2. GuestInv'
      BY <1>1, <2>1, <2>3 DEF RestoreAndResume, GuestInv, GuestStack
    <3>3. QED
      BY <3>1, <3>2
  <2>4. QED
    BY <2>2, <2>3
<1>2. CASE CallDone
  BY <1>1, <1>2 DEF CallDone, GuestInv
<1>3. CASE ResolvePending
  BY <1>1, <1>3 DEF ResolvePending, Addrs
<1>4. CASE Bubble
  <2>1. ~running /\ Len(frames) > 1
    BY <1>4, RunningAboveBottom DEF Bubble, CallReturned
  <2>2. HostInv'
    BY <1>4, <2>1, PopWaiting DEF Bubble
  <2>3. GuestInv'
    BY <1>4 DEF Bubble, GuestInv, GuestStack
  <2>4. QED
    BY <2>2, <2>3
<1>5. CASE Drain
  <2>1. HostInv'
    BY <1>5, PushTrampoline DEF Drain, CallReturned
  <2>2. GuestInv'
    BY <1>5 DEF Drain, GuestInv, GuestStack
  <2>3. QED
    BY <2>1, <2>2
<1>6. CASE Dispatch
  <2>1. Home(target) \in Funcs \cup {Root}
    BY ProgramTypes DEF GuestInv
  <2>2. HostInv'
    BY <1>6, <2>1, PushBody DEF Dispatch, InTrampoline
  <2>3. GuestInv'
    BY <1>6 DEF Dispatch, GuestInv, GuestStack, Addrs
  <2>4. QED
    BY <2>2, <2>3
<1>7. CASE LeaveTrampoline
  <2>1. Len(frames) \in Nat /\ Len(frames) > 1 /\ ~running /\ Top.kind = "trampoline"
    BY <1>7, LenProperties DEF LeaveTrampoline, InTrampoline, HostInv
  <2>2. hostReturn = Top.prev
    BY <2>1 DEF HostInv, HostShape, HostReturnChain, Top
  <2>3. HostInv'
    BY <1>7, <2>1, <2>2, PopWaiting DEF LeaveTrampoline
  <2>4. GuestInv'
    BY <1>7 DEF LeaveTrampoline, InTrampoline, GuestInv, GuestStack, Addrs
  <2>5. QED
    BY <2>3, <2>4
<1>8. QED
  BY <1>2, <1>3, <1>4, <1>5, <1>6, <1>7 DEF HostStep

-----------------------------------------------------------------------------
(* The nested trampolines as the host stack grows and shrinks.             *)
LEMMA NestedFinite ==
  ASSUME HostInv
  PROVE  Len(frames) \in Nat /\ IsFiniteSet(Nested)
<1>1. Len(frames) \in Nat
  BY LenProperties DEF HostInv
<1>2. IsFiniteSet(2..Len(frames))
  BY <1>1, FS_Interval
<1>3. Nested \subseteq 2..Len(frames)
  BY DEF Nested
<1>4. QED
  BY <1>1, <1>2, <1>3, FS_Subset

LEMMA NestedPop ==
  ASSUME HostInv, Len(frames) > 1, Pop
  PROVE  Nested' = Nested \ {Len(frames)}
<1>1. Len(frames) \in Nat
  BY NestedFinite
<1>2. /\ Len(frames') = Len(frames) - 1
      /\ \A i \in 1..(Len(frames) - 1) : frames'[i] = frames[i]
  BY PopSeq DEF HostInv, Pop
<1>3. QED
  BY <1>1, <1>2 DEF Nested

LEMMA NestedPush ==
  ASSUME HostInv, NEW e \in FrameRecords, Push(e)
  PROVE  Nested' = Nested \cup (IF e.kind = "trampoline" THEN {Len(frames) + 1} ELSE {})
<1>1. Len(frames) \in Nat /\ Len(frames) > 0
  BY NestedFinite DEF HostInv
<1>2. /\ Len(frames') = Len(frames) + 1
      /\ \A i \in 1..Len(frames) : frames'[i] = frames[i]
      /\ frames'[Len(frames) + 1] = e
  BY PushSeq DEF HostInv, Push
<1>3. QED
  BY <1>1, <1>2 DEF Nested

LEMMA NestedResume ==
  ASSUME HostInv, Top.kind = "body", SetTop(Body(Top.fn))
  PROVE  Nested' = Nested
<1>1. Len(frames) \in Nat /\ Len(frames) > 1
  BY RunningAboveBottom
<1>2. Body(Top.fn) \in FrameRecords
  <2>1. Top \in FrameRecords
    BY <1>1, ElementOfSeq DEF HostInv, Top
  <2>2. Top.fn \in Funcs \cup {Root}
    BY <2>1 DEF FrameRecords
  <2>3. QED
    BY <2>2, FrameTypes
<1>3. /\ Len(frames') = Len(frames)
      /\ \A i \in 1..(Len(frames) - 1) : frames'[i] = frames[i]
      /\ frames'[Len(frames)] = Body(Top.fn)
  BY <1>2, UpdateTop DEF HostInv, SetTop
<1>4. QED
  BY <1>1, <1>3 DEF Nested, Top, Body

LEMMA NestedCall ==
  ASSUME HostInv, Top.kind = "body", NEW s \in Sites, NEW f \in Funcs,
         sp \in 0..MaxDepth, PushCall(s, f)
  PROVE  Nested' = Nested
<1>1. Len(frames) \in Nat /\ Len(frames) > 1
  BY RunningAboveBottom
<1>2. Top \in FrameRecords
  BY <1>1, ElementOfSeq DEF HostInv, Top
<1> DEFINE w == Waiting(s)
           q == [frames EXCEPT ![Len(frames)] = w]
<1>3. w \in FrameRecords /\ w.kind = "body"
  BY <1>2 DEF Waiting, FrameRecords, HostInv
<1> HIDE DEF w
<1>4. /\ q \in Seq(FrameRecords)
      /\ Len(q) = Len(frames)
      /\ \A i \in 1..(Len(frames) - 1) : q[i] = frames[i]
      /\ q[Len(frames)] = w
  BY <1>3, UpdateTop DEF HostInv
<1>5. frames' = Append(q, Body(f))
  BY DEF PushCall, w
<1> HIDE DEF q
<1>6. /\ Len(frames') = Len(frames) + 1
      /\ \A i \in 1..Len(frames) : frames'[i] = q[i]
      /\ frames'[Len(frames) + 1] = Body(f)
  <2>1. Body(f) \in FrameRecords
    BY FrameTypes
  <2>2. QED
    BY <1>4, <1>5, <2>1, PushSeq
<1>7. \A i \in 2..Len(frames') : frames'[i].kind = "trampoline" <=>
                                 i \in 2..Len(frames) /\ frames[i].kind = "trampoline"
  <2>1. \A i \in 2..(Len(frames) - 1) : frames'[i] = frames[i]
    BY <1>1, <1>4, <1>6
  <2>2. frames'[Len(frames)].kind = "body" /\ frames[Len(frames)].kind = "body"
    BY <1>1, <1>3, <1>4, <1>6 DEF Top
  <2>3. frames'[Len(frames) + 1].kind = "body"
    BY <1>6 DEF Body
  <2>4. QED
    BY <1>1, <1>6, <2>1, <2>2, <2>3
<1>8. QED
  BY <1>1, <1>6, <1>7 DEF Nested

(* Every action leaves ctx->tailcall_dispatching counting the nested        *)
(* trampolines: the invariant IInv alone does not say where they are.      *)
LEMMA DepthStep == IInv /\ DepthCounted /\ [Next]_vars => DepthCounted'
<1> SUFFICES ASSUME IInv, DepthCounted, [Next]_vars PROVE DepthCounted'
  OBVIOUS
<1> DEFINE n == Cardinality(Nested)
<1>1. /\ n \in Nat /\ dispatching = n /\ dispatching <= DepthLimit
      /\ IsFiniteSet(Nested) /\ Len(frames) \in Nat /\ Len(frames) > 0 /\ HostInv
  BY NestedFinite, FS_CardinalityType DEF IInv, HostInv, DepthCounted
<1>2. ASSUME Nested' = Nested, dispatching' = dispatching PROVE DepthCounted'
  BY <1>2 DEF DepthCounted
<1>3. ASSUME Pop, Len(frames) > 1, Top.kind = "body", dispatching' = dispatching
      PROVE DepthCounted'
  <2>1. Len(frames) \notin Nested
    BY <1>3 DEF Nested, Top
  <2>2. Nested' = Nested
    BY <1>1, <1>3, <2>1, NestedPop
  <2>3. QED
    BY <1>2, <1>3, <2>2
<1>4. ASSUME RequestTailcall(target'), running, dispatching' = dispatching
      PROVE DepthCounted'
  BY <1>1, <1>3, <1>4, RunningAboveBottom DEF RequestTailcall, HostInv, HostShape
<1>5. ASSUME CallReturned, RestoreAndResume, dispatching' = dispatching
      PROVE DepthCounted'
  <2>1. Top.kind = "body" /\ Len(frames) > 1
    BY <1>1, <1>5, RunningAboveBottom DEF CallReturned
  <2>2. CASE sp = Top.sp
    BY <1>1, <1>2, <1>5, <2>1, <2>2, NestedResume DEF RestoreAndResume
  <2>3. CASE sp # Top.sp
    BY <1>3, <1>5, <2>1, <2>3 DEF RestoreAndResume
  <2>4. QED
    BY <2>2, <2>3
<1>6. CASE GuestStep
  <2>1. ASSUME NEW c \in Calls, LocalCall(c[1], c[2]) PROVE DepthCounted'
    BY <1>2, <2>1 DEF LocalCall, Nested
  <2>2. ASSUME NEW c \in Calls, HostCall(c[1], c[2]) PROVE DepthCounted'
    <3>1. /\ c[1] \in Sites /\ c[2] \in Funcs /\ Top.kind = "body"
          /\ Len(returns) > 0 /\ Len(returns) < MaxDepth
      BY <2>2, ProgramTypes DEF HostCall, Executing, IInv, GuestInv, GuestStack
    <3>2. sp \in 0..MaxDepth
      BY <3>1, LenProperties, ProgramAssumption DEF sp, IInv, GuestInv
    <3>3. QED
      BY <1>1, <1>2, <2>2, <3>1, <3>2, NestedCall DEF HostCall
  <2>3. ASSUME NEW f \in Funcs, TailJump(f) PROVE DepthCounted'
    BY <1>4, <2>3 DEF TailJump, RequestTailcall
  <2>4. CASE ReturnToLabel
    BY <1>2, <2>4 DEF ReturnToLabel, Nested
  <2>5. CASE ReturnToHost
    BY <1>1, <1>3, <2>5, RunningAboveBottom DEF ReturnToHost, HostInv, HostShape
  <2>6. CASE ReturnElsewhere
    BY <1>4, <2>6 DEF ReturnElsewhere, RequestTailcall
  <2>7. CASE ReturnByRegister
    BY <1>4, <2>7 DEF ReturnByRegister, RequestTailcall
  <2>8. QED
    BY <1>6, <2>1, <2>2, <2>3, <2>4, <2>5, <2>6, <2>7 DEF GuestStep
<1>7. CASE HostStep
  <2>1. CASE CallDone
    BY <1>5, <2>1 DEF CallDone
  <2>2. CASE ResolvePending
    BY <1>5, <2>2 DEF ResolvePending
  <2>3. CASE Bubble
    BY <1>1, <1>3, <2>3, RunningAboveBottom DEF Bubble, CallReturned
  <2>4. CASE Drain
    <3>1. Trampoline(hostReturn) \in FrameRecords
      BY <1>1, FrameTypes DEF HostInv
    <3>2. Nested' = Nested \cup {Len(frames) + 1}
      BY <1>1, <2>4, <3>1, NestedPush DEF Drain, Trampoline
    <3>3. Len(frames) + 1 \notin Nested
      BY <1>1 DEF Nested
    <3>4. Cardinality(Nested') = n + 1
      BY <1>1, <3>2, <3>3, FS_AddElement
    <3>5. dispatching' = dispatching + 1 /\ dispatching < DepthLimit
      BY <2>4 DEF Drain
    <3>6. QED
      BY <1>1, <3>4, <3>5, HostAssumption DEF DepthCounted
  <2>5. CASE Dispatch
    <3>1. Body(Home(target)) \in FrameRecords
      BY ProgramTypes, FrameTypes DEF IInv, GuestInv
    <3>2. Nested' = Nested
      BY <1>1, <2>5, <3>1, NestedPush DEF Dispatch, Body
    <3>3. QED
      BY <1>2, <2>5, <3>2 DEF Dispatch
  <2>6. CASE LeaveTrampoline
    <3>1. Len(frames) \in Nested
      BY <1>1, <2>6 DEF LeaveTrampoline, InTrampoline, Nested, Top
    <3>2. Nested' = Nested \ {Len(frames)}
      BY <1>1, <2>6, NestedPop DEF LeaveTrampoline
    <3>3. Cardinality(Nested') = n - 1
      BY <1>1, <3>1, <3>2, FS_RemoveElement
    <3>4. dispatching' = dispatching - 1
      BY <2>6 DEF LeaveTrampoline
    <3>5. QED
      BY <1>1, <3>3, <3>4, HostAssumption DEF DepthCounted
  <2>7. QED
    BY <1>7, <2>1, <2>2, <2>3, <2>4, <2>5, <2>6 DEF HostStep
<1>8. CASE UNCHANGED vars
  BY <1>2, <1>8 DEF vars, Nested
<1>9. QED
  BY <1>6, <1>7, <1>8 DEF Next, Done

-----------------------------------------------------------------------------
(* The inductive invariant: the host stack, host_return_target and the      *)
(* guest's return addresses fit together in every reachable state, however *)
(* deep the calls, the tail calls and the trampolines go.                  *)
THEOREM Invariance == Spec => [](IInv /\ DepthCounted)
<1>1. Init => IInv /\ DepthCounted
  <2> SUFFICES ASSUME Init PROVE IInv /\ DepthCounted
    OBVIOUS
  <2>1. IInv
    BY InitIInv
  <2>2. Nested = {}
    BY DEF Init, Nested, Trampoline, Body
  <2>3. DepthCounted
    BY <2>2, FS_EmptySet, HostAssumption DEF Init, DepthCounted
  <2>4. QED
    BY <2>1, <2>3
<1>2. IInv /\ [Next]_vars => IInv'
  <2> SUFFICES ASSUME IInv, [Next]_vars PROVE IInv'
    OBVIOUS
  <2>1. CASE UNCHANGED vars
    <3>1. HostInv'
      BY <2>1, HostUnchanged DEF vars, IInv
    <3>2. GuestInv'
      BY <2>1 DEF vars, IInv, GuestInv, GuestStack
    <3>3. QED
      BY <3>1, <3>2 DEF IInv
  <2>2. QED
    BY <2>1, GuestStepIInv, HostStepIInv DEF Next, Done
<1>3. QED
  BY <1>1, <1>2, DepthStep, PTL DEF Spec

(* The context and the host stack keep their C types: in particular         *)
(* tailcall_dispatching, a uint32_t, is never decremented below zero.      *)
THEOREM TypeCorrect == Spec => []TypeOK
<1>1. IInv /\ DepthCounted => TypeOK
  <2> SUFFICES ASSUME IInv, DepthCounted PROVE TypeOK
    OBVIOUS
  <2>1. dispatching \in Nat
    BY NestedFinite, FS_CardinalityType DEF IInv, DepthCounted
  <2>2. QED
    BY <2>1 DEF IInv, GuestInv, HostInv, TypeOK
<1>2. QED
  BY <1>1, Invariance, PTL

(* host_return_target is always what the innermost waiting call site saved, *)
(* and each waiting call site holds what the next one out expects.         *)
THEOREM ReturnTargetsChain == Spec => []HostReturnChain
<1>1. IInv => HostReturnChain
  BY DEF IInv, HostInv
<1>2. QED
  BY <1>1, Invariance, PTL

(* The nesting limit is a bound on the trampolines on the host stack.      *)
THEOREM DepthBounded == Spec => []DepthCounted
BY Invariance, PTL

-----------------------------------------------------------------------------
(* The bodies that wait for a callee, and what a step that pops, pushes or *)
(* resumes leaves of them.                                                 *)
Waits == {i \in 1..Len(frames) : frames[i].kind = "body" /\ Suspended(i)}

Keeps(W) == Waits' = W /\ \A i \in W : frames'[i] = frames[i]

(* A trampoline is entered by a body, never by a trampoline.               *)
Alternate == \A i \in 2..Len(frames) :
               frames[i].kind = "trampoline" => frames[i - 1].kind = "body"

LEMMA WaitsTypes ==
  ASSUME HostInv
  PROVE  /\ Len(frames) \in Nat
         /\ \A i \in Waits : /\ i \in 2..Len(frames)
                             /\ frames[i] \in FrameRecords
                             /\ frames[i].kind = "body"
         /\ \A i \in 1..Len(frames) :
              frames[i] \in FrameRecords /\ frames[i].kind \in {"body", "trampoline"}
<1>1. Len(frames) \in Nat
  BY LenProperties DEF HostInv
<1>2. frames[1].kind = "trampoline"
  BY DEF HostInv, HostShape, Trampoline
<1>3. \A i \in 1..Len(frames) : frames[i] \in FrameRecords
  BY <1>1, ElementOfSeq DEF HostInv
<1>4. \A i \in 1..Len(frames) : frames[i].kind \in {"body", "trampoline"}
  BY <1>3 DEF FrameRecords
<1>5. \A i \in Waits : i \in 1..Len(frames) /\ i # 1 /\ frames[i].kind = "body"
  BY <1>2 DEF Waits
<1>6. QED
  BY <1>1, <1>3, <1>4, <1>5

LEMMA WaitsSame ==
  ASSUME UNCHANGED <<frames, running>>
  PROVE  Keeps(Waits) /\ (Alternate => Alternate')
BY DEF Keeps, Waits, Suspended, Alternate

LEMMA WaitsPopRunning ==
  ASSUME HostInv, running, Pop, running' = FALSE
  PROVE  Keeps(Waits) /\ (Alternate => Alternate')
<1>1. Len(frames) \in Nat /\ Len(frames) > 1
  BY RunningAboveBottom DEF HostInv, HostShape
<1>2. /\ Len(frames') = Len(frames) - 1
      /\ \A i \in 1..(Len(frames) - 1) : frames'[i] = frames[i]
  BY PopSeq DEF HostInv, Pop
<1>3. QED
  BY <1>1, <1>2 DEF Keeps, Waits, Suspended, Alternate

LEMMA WaitsPop ==
  ASSUME HostInv, ~running, Len(frames) > 1, Pop, ~running'
  PROVE  Keeps(Waits \ {Len(frames)}) /\ (Alternate => Alternate')
<1>1. Len(frames) \in Nat
  BY NestedFinite
<1>2. /\ Len(frames') = Len(frames) - 1
      /\ \A i \in 1..(Len(frames) - 1) : frames'[i] = frames[i]
  BY PopSeq DEF HostInv, Pop
<1>3. QED
  BY <1>1, <1>2 DEF Keeps, Waits, Suspended, Alternate

LEMMA WaitsResume ==
  ASSUME HostInv, ~running, Top.kind = "body", running' = TRUE, SetTop(Body(Top.fn))
  PROVE  /\ Keeps(Waits \ {Len(frames)})
         /\ Alternate => Alternate'
         /\ Top'.kind = "body" /\ Top'.fn = Top.fn
<1>1. Len(frames) \in Nat /\ Len(frames) > 1
  BY RunningAboveBottom
<1>2. Body(Top.fn) \in FrameRecords
  <2>1. Top \in FrameRecords
    BY <1>1, ElementOfSeq DEF HostInv, Top
  <2>2. Top.fn \in Funcs \cup {Root}
    BY <2>1 DEF FrameRecords
  <2>3. QED
    BY <2>2, FrameTypes
<1>3. /\ Len(frames') = Len(frames)
      /\ \A i \in 1..(Len(frames) - 1) : frames'[i] = frames[i]
      /\ frames'[Len(frames)] = Body(Top.fn)
  BY <1>2, UpdateTop DEF HostInv, SetTop
<1>4. frames'[Len(frames)].kind = "body" /\ frames'[Len(frames)].fn = Top.fn
  BY <1>3 DEF Body
<1>5. Alternate => Alternate'
  BY <1>1, <1>3, <1>4 DEF Alternate, Top
<1>6. Keeps(Waits \ {Len(frames)})
  BY <1>1, <1>3 DEF Keeps, Waits, Suspended
<1>7. QED
  BY <1>3, <1>4, <1>5, <1>6 DEF Top

LEMMA WaitsDrain ==
  ASSUME HostInv, ~running, Top.kind = "body", Push(Trampoline(hostReturn)), ~running'
  PROVE  Keeps(Waits) /\ (Alternate => Alternate')
<1>1. Len(frames) \in Nat /\ Len(frames) > 0
  BY NestedFinite DEF HostInv
<1>2. /\ Len(frames') = Len(frames) + 1
      /\ \A i \in 1..Len(frames) : frames'[i] = frames[i]
      /\ frames'[Len(frames) + 1] = Trampoline(hostReturn)
  BY PushSeq, FrameTypes DEF HostInv, Push
<1>3. frames'[Len(frames) + 1].kind = "trampoline"
  BY <1>2 DEF Trampoline
<1>4. QED
  BY <1>1, <1>2, <1>3 DEF Keeps, Waits, Suspended, Alternate, Top

LEMMA WaitsDispatch ==
  ASSUME HostInv, ~running, NEW f \in Funcs \cup {Root}, Push(Body(f)), running' = TRUE
  PROVE  /\ Keeps(Waits)
         /\ Alternate => Alternate'
         /\ Top'.kind = "body" /\ Top'.fn = f
<1>1. Len(frames) \in Nat /\ Len(frames) > 0
  BY NestedFinite DEF HostInv
<1>2. /\ Len(frames') = Len(frames) + 1
      /\ \A i \in 1..Len(frames) : frames'[i] = frames[i]
      /\ frames'[Len(frames) + 1] = Body(f)
  BY PushSeq, FrameTypes DEF HostInv, Push
<1>3. frames'[Len(frames) + 1].kind = "body" /\ frames'[Len(frames) + 1].fn = f
  BY <1>2 DEF Body
<1>4. Keeps(Waits)
  BY <1>1, <1>2, <1>3 DEF Keeps, Waits, Suspended
<1>5. Alternate => Alternate'
  BY <1>1, <1>2, <1>3 DEF Alternate
<1>6. QED
  BY <1>2, <1>3, <1>4, <1>5 DEF Top

(* The body that calls joins those that wait.                              *)
LEMMA WaitsCall ==
  ASSUME HostInv, running, Top.kind = "body", NEW s \in Sites, NEW f \in Funcs,
         sp \in 0..MaxDepth, PushCall(s, f), running' = TRUE
  PROVE  /\ Waits' = Waits \cup {Len(frames)}
         /\ Len(frames) \notin Waits
         /\ \A i \in Waits : i < Len(frames) /\ frames'[i] = frames[i]
         /\ LET w == frames'[Len(frames)]
            IN  w.fn = Top.fn /\ w.site = s /\ w.sp = sp
         /\ Alternate => Alternate'
         /\ Top'.kind = "body" /\ Top'.fn = f
<1>1. Len(frames) \in Nat /\ Len(frames) > 1
  BY RunningAboveBottom
<1>2. Top \in FrameRecords
  BY <1>1, ElementOfSeq DEF HostInv, Top
<1> DEFINE w == Waiting(s)
           q == [frames EXCEPT ![Len(frames)] = w]
<1>3. /\ w \in FrameRecords
      /\ w.kind = "body" /\ w.fn = Top.fn /\ w.site = s /\ w.sp = sp
  BY <1>2 DEF Waiting, FrameRecords, HostInv
<1> HIDE DEF w
<1>4. /\ q \in Seq(FrameRecords)
      /\ Len(q) = Len(frames)
      /\ \A i \in 1..(Len(frames) - 1) : q[i] = frames[i]
      /\ q[Len(frames)] = w
  BY <1>3, UpdateTop DEF HostInv
<1>5. frames' = Append(q, Body(f))
  BY DEF PushCall, w
<1> HIDE DEF q
<1>6. /\ Len(frames') = Len(frames) + 1
      /\ \A i \in 1..Len(frames) : frames'[i] = q[i]
      /\ frames'[Len(frames) + 1] = Body(f)
  <2>1. Body(f) \in FrameRecords
    BY FrameTypes
  <2>2. QED
    BY <1>4, <1>5, <2>1, PushSeq
<1>7. frames'[Len(frames) + 1].kind = "body" /\ frames'[Len(frames) + 1].fn = f
  BY <1>6 DEF Body
<1>8. /\ \A i \in 1..(Len(frames) - 1) : frames'[i] = frames[i]
      /\ frames'[Len(frames)] = w
  BY <1>1, <1>4, <1>6
<1>9. Len(frames) \notin Waits /\ \A i \in Waits : i \in 1..(Len(frames) - 1)
  BY <1>1 DEF Waits, Suspended
<1>10. Waits' = Waits \cup {Len(frames)}
  <2>1. \A i \in 1..(Len(frames) - 1) : i \in Waits' <=> i \in Waits
    BY <1>1, <1>6, <1>8 DEF Waits, Suspended
  <2>2. Len(frames) \in Waits' /\ Len(frames) + 1 \notin Waits'
    BY <1>1, <1>3, <1>6, <1>8 DEF Waits, Suspended
  <2>3. \A i \in Waits' : i \in 1..(Len(frames) + 1)
    BY <1>6 DEF Waits
  <2>4. QED
    BY <1>1, <1>9, <2>1, <2>2, <2>3
<1>11. Alternate => Alternate'
  <2>1. frames[Len(frames)].kind = "body"
    BY DEF Top
  <2>2. QED
    BY <1>1, <1>3, <1>6, <1>7, <1>8, <2>1 DEF Alternate
<1>12. QED
  BY <1>1, <1>3, <1>6, <1>7, <1>8, <1>9, <1>10, <1>11 DEF Top

(* A body waits at a call site of its own function.                        *)
Owned == /\ \A i \in Waits : /\ frames[i].site \in Sites
                             /\ frames[i].fn = Owner[frames[i].site]
         /\ running => Top.fn \in Funcs

LEMMA OwnedKept ==
  ASSUME Owned, NEW W \in SUBSET Waits, Keeps(W), running' => Top'.fn \in Funcs
  PROVE  Owned'
BY DEF Owned, Keeps

LEMMA OwnedStep == IInv /\ Owned /\ Alternate /\ [Next]_vars => Owned' /\ Alternate'
<1> SUFFICES ASSUME IInv, Owned, Alternate, [Next]_vars PROVE Owned' /\ Alternate'
  OBVIOUS
<1>1. HostInv /\ GuestInv
  BY DEF IInv
<1>2. ASSUME UNCHANGED <<frames, running>> PROVE Owned' /\ Alternate'
  <2>1. Top' = Top
    BY <1>2 DEF Top
  <2>2. Keeps(Waits) /\ Alternate'
    BY <1>2, WaitsSame
  <2>3. QED
    BY <1>2, <2>1, <2>2, OwnedKept DEF Owned
<1>3. ASSUME running, Pop, running' = FALSE PROVE Owned' /\ Alternate'
  <2>1. Keeps(Waits) /\ Alternate'
    BY <1>1, <1>3, WaitsPopRunning
  <2>2. QED
    BY <1>3, <2>1, OwnedKept
<1>4. ASSUME ~running, Len(frames) > 1, Pop, ~running' PROVE Owned' /\ Alternate'
  <2>1. Keeps(Waits \ {Len(frames)}) /\ Alternate'
    BY <1>1, <1>4, WaitsPop
  <2>2. QED
    BY <1>4, <2>1, OwnedKept
<1>5. ASSUME CallReturned, RestoreAndResume PROVE Owned' /\ Alternate'
  <2>1. ~running /\ Top.kind = "body" /\ Len(frames) \in Nat /\ Len(frames) > 1
    BY <1>1, <1>5, RunningAboveBottom DEF CallReturned
  <2>2. CASE sp = Top.sp
    <3>1. running' = TRUE /\ SetTop(Body(Top.fn))
      BY <1>5, <2>2 DEF RestoreAndResume
    <3>2. Keeps(Waits \ {Len(frames)}) /\ Alternate' /\ Top'.fn = Top.fn
      BY <1>1, <2>1, <3>1, WaitsResume
    <3>3. Len(frames) \in Waits
      BY <2>1 DEF Waits, Suspended, Top
    <3>4. Top.fn \in Funcs
      BY <3>3, ProgramTypes DEF Owned, Top
    <3>5. QED
      BY <3>2, <3>4, OwnedKept
  <2>3. CASE sp # Top.sp
    BY <1>1, <1>4, <1>5, <2>1, <2>3 DEF RestoreAndResume, GuestInv
  <2>4. QED
    BY <2>2, <2>3
<1>6. ASSUME NEW c \in Calls, LocalCall(c[1], c[2]) PROVE Owned' /\ Alternate'
  BY <1>2, <1>6 DEF LocalCall
<1>7. ASSUME NEW c \in Calls, HostCall(c[1], c[2]) PROVE Owned' /\ Alternate'
  <2>1. /\ c[1] \in Sites /\ c[2] \in Funcs /\ Top.kind = "body" /\ running /\ running'
        /\ Top.fn = Owner[c[1]] /\ Len(returns) > 0 /\ Len(returns) < MaxDepth
        /\ PushCall(c[1], c[2])
    BY <1>1, <1>7, ProgramTypes DEF HostCall, Executing, GuestInv, GuestStack
  <2>2. sp \in 0..MaxDepth
    BY <1>1, <2>1, LenProperties, ProgramAssumption DEF sp, GuestInv
  <2>3. running' = TRUE
    BY <1>1, <1>7, <2>1 DEF HostCall, GuestInv
  <2>4. /\ Waits' = Waits \cup {Len(frames)}
        /\ \A i \in Waits : frames'[i] = frames[i]
        /\ frames'[Len(frames)].fn = Top.fn /\ frames'[Len(frames)].site = c[1]
        /\ Alternate'
        /\ Top'.fn = c[2]
    BY <1>1, <2>1, <2>2, <2>3, WaitsCall
  <2>5. QED
    BY <2>1, <2>4 DEF Owned
<1>7a. ASSUME NEW a, RequestTailcall(a), running PROVE Owned' /\ Alternate'
  BY <1>3, <1>7a DEF RequestTailcall
<1>8. CASE GuestStep
  <2>1. ASSUME NEW f \in Funcs, TailJump(f) PROVE Owned' /\ Alternate'
    BY <1>7a, <2>1 DEF TailJump
  <2>2. CASE ReturnToLabel
    BY <1>2, <2>2 DEF ReturnToLabel
  <2>3. CASE ReturnToHost
    BY <1>3, <2>3 DEF ReturnToHost
  <2>4. CASE ReturnElsewhere
    BY <1>7a, <2>4 DEF ReturnElsewhere
  <2>5. CASE ReturnByRegister
    BY <1>7a, <2>5 DEF ReturnByRegister
  <2>6. QED
    BY <1>6, <1>7, <1>8, <2>1, <2>2, <2>3, <2>4, <2>5 DEF GuestStep
<1>9. CASE HostStep
  <2>1. CASE CallDone
    BY <1>5, <2>1 DEF CallDone
  <2>2. CASE ResolvePending
    BY <1>5, <2>2 DEF ResolvePending
  <2>3. CASE Bubble
    BY <1>1, <1>4, <2>3, RunningAboveBottom DEF Bubble, CallReturned
  <2>4. CASE Drain
    <3>1. Keeps(Waits) /\ Alternate'
      BY <1>1, <2>4, WaitsDrain DEF Drain, CallReturned
    <3>2. QED
      BY <2>4, <3>1, OwnedKept DEF Drain, CallReturned
  <2>5. CASE Dispatch
    <3>1. Home(target) \in Funcs
      BY <1>1, <2>5, ProgramAssumption DEF Dispatch, GuestInv, Addrs, Home
    <3>2. Keeps(Waits) /\ Alternate' /\ Top'.fn = Home(target)
      BY <1>1, <2>5, <3>1, WaitsDispatch DEF Dispatch, InTrampoline
    <3>3. QED
      BY <3>1, <3>2, OwnedKept
  <2>6. CASE LeaveTrampoline
    BY <1>1, <1>4, <2>6 DEF LeaveTrampoline, InTrampoline
  <2>7. QED
    BY <1>9, <2>1, <2>2, <2>3, <2>4, <2>5, <2>6 DEF HostStep
<1>10. CASE UNCHANGED vars
  BY <1>2, <1>10 DEF vars
<1>11. QED
  BY <1>8, <1>9, <1>10, <1>2 DEF Next, Done, vars

LEMMA OwnedInit == Init => Owned /\ Alternate
<1> SUFFICES ASSUME Init PROVE Owned /\ Alternate
  OBVIOUS
<1>1. /\ Len(frames) = 2 /\ frames[1].kind = "trampoline"
      /\ frames[2].kind = "body" /\ frames[2].fn = Entry /\ running
  BY DEF Init, Trampoline, Body
<1>2. Waits = {}
  BY <1>1 DEF Waits, Suspended
<1>3. QED
  BY <1>1, <1>2, ProgramAssumption DEF Owned, Alternate, Top

-----------------------------------------------------------------------------
(* What the host does is invisible to the guest, and each guest action is  *)
(* one of the MIPS program's, unless a call site gives up.                 *)
LEMMA GuestFollowed ==
  IInv /\ Owned /\ ~mismatch' /\ [Next]_vars => [Guest!GNext]_(Guest!gvars)
<1> SUFFICES ASSUME IInv, Owned, ~mismatch', [Next]_vars
             PROVE  [Guest!GNext]_(Guest!gvars)
  OBVIOUS
<1>1. HostInv /\ GuestInv
  BY DEF IInv
<1>2. running => GuestAt = Top.fn /\ Top.fn \in Funcs /\ Top.fn # Root
  BY ProgramAssumption DEF GuestAt, Owned
<1>3. ~running /\ pending => GuestAt = Home(target)
  BY DEF GuestAt
<1>4. ~running /\ ~pending => GuestAt = Home(hostReturn)
  BY DEF GuestAt
<1>5. /\ running' => GuestAt' = Top'.fn
      /\ ~running' /\ pending' => GuestAt' = Home(target')
      /\ ~running' /\ ~pending' => GuestAt' = Home(hostReturn')
  BY DEF GuestAt, Home
<1>6. ASSUME UNCHANGED <<returns, GuestAt>> PROVE [Guest!GNext]_(Guest!gvars)
  BY <1>6 DEF Guest!gvars
<1>7. ASSUME NEW c \in Calls, LocalCall(c[1], c[2]) PROVE [Guest!GNext]_(Guest!gvars)
  <2>1. running /\ running' /\ Top' = Top /\ Top.fn = Owner[c[1]] /\ c[2] = Owner[c[1]]
    BY <1>7 DEF LocalCall, Executing, Top
  <2>2. Guest!GCall(c[1], c[2])
    BY <1>2, <1>5, <1>7, <2>1 DEF LocalCall, Guest!GCall
  <2>3. QED
    BY <2>2 DEF Guest!GNext
<1>8. ASSUME NEW c \in Calls, HostCall(c[1], c[2]) PROVE [Guest!GNext]_(Guest!gvars)
  <2>1. /\ c[1] \in Sites /\ c[2] \in Funcs /\ Top.kind = "body" /\ running
        /\ Top.fn = Owner[c[1]] /\ Len(returns) > 0 /\ Len(returns) < MaxDepth
        /\ PushCall(c[1], c[2])
    BY <1>1, <1>8, ProgramTypes DEF HostCall, Executing, GuestInv, GuestStack
  <2>2. sp \in 0..MaxDepth
    BY <1>1, <2>1, LenProperties, ProgramAssumption DEF sp, GuestInv
  <2>3. running' = TRUE
    BY <1>1, <1>8, <2>1 DEF HostCall, GuestInv
  <2>4. Top'.fn = c[2]
    BY <1>1, <2>1, <2>2, <2>3, WaitsCall
  <2>5. Guest!GCall(c[1], c[2])
    BY <1>2, <1>5, <1>8, <2>1, <2>3, <2>4 DEF HostCall, Guest!GCall
  <2>6. QED
    BY <2>5 DEF Guest!GNext
<1>9. ASSUME NEW f \in Funcs, TailJump(f) PROVE [Guest!GNext]_(Guest!gvars)
  <2>1. running /\ ~running' /\ pending' /\ target' = f /\ <<Top.fn, f>> \in Tails
    BY <1>9 DEF TailJump, RequestTailcall
  <2>2. Home(target') = f
    BY <2>1, ProgramAssumption DEF Home
  <2>3. Guest!GTailJump(f)
    BY <1>2, <1>5, <1>9, <2>1, <2>2 DEF TailJump, Guest!GTailJump
  <2>4. QED
    BY <2>3 DEF Guest!GNext
<1>10. ASSUME running, returns' = ButLast(returns), GuestAt' = Home(ra)
       PROVE  [Guest!GNext]_(Guest!gvars)
  <2>1. Guest!GReturn
    BY <1>2, <1>10 DEF Guest!GReturn, ra, Guest!Home, Home,
      Guest!LastOf, LastOf, Guest!ButLast, ButLast
  <2>2. QED
    BY <2>1 DEF Guest!GNext
<1>11. ASSUME running, returns' = ButLast(returns), RequestTailcall(ra)
       PROVE  [Guest!GNext]_(Guest!gvars)
  BY <1>5, <1>10, <1>11 DEF RequestTailcall
<1>12. CASE ReturnToLabel
  <2>1. running' /\ Top' = Top /\ Home(ra) = Top.fn
    BY <1>12 DEF ReturnToLabel, Top, IsLabelIn, Home
  <2>2. QED
    BY <1>5, <1>10, <1>12, <2>1 DEF ReturnToLabel
<1>13. CASE ReturnToHost
  BY <1>1, <1>5, <1>10, <1>13 DEF ReturnToHost, GuestInv, GuestStack
<1>14. CASE ReturnElsewhere
  BY <1>11, <1>14 DEF ReturnElsewhere
<1>15. CASE ReturnByRegister
  BY <1>11, <1>15 DEF ReturnByRegister
<1>16. ASSUME CallReturned, RestoreAndResume, UNCHANGED returns,
              pending => ResolvedHere
       PROVE  [Guest!GNext]_(Guest!gvars)
  <2>1. /\ ~running /\ Top.kind = "body" /\ Len(frames) \in Nat /\ Len(frames) > 1
    BY <1>1, <1>16, RunningAboveBottom DEF CallReturned
  <2>2. running' = TRUE /\ SetTop(Body(Top.fn))
    BY <1>16 DEF RestoreAndResume
  <2>3. Top'.fn = Top.fn
    BY <1>1, <2>1, <2>2, WaitsResume
  <2>4. Top.site \in Sites /\ Top.fn = Owner[Top.site]
    <3>1. Len(frames) \in Waits
      BY <2>1 DEF Waits, Suspended, Top
    <3>2. QED
      BY <3>1 DEF Owned, Top
  <2>5. CASE pending
    <3>1. Home(target) = Top.fn
      BY <1>16, <2>4, <2>5, HostAssumption DEF ResolvedHere, Home
    <3>2. QED
      BY <1>3, <1>5, <1>6, <1>16, <2>1, <2>2, <2>3, <2>5, <3>1
  <2>6. CASE ~pending
    <3>1. hostReturn = Top.site
      BY <1>1, <2>1 DEF HostInv, HostReturnChain, Top
    <3>2. Home(hostReturn) = Top.fn
      BY <2>4, <3>1 DEF Home
    <3>3. QED
      BY <1>4, <1>5, <1>6, <1>16, <2>1, <2>2, <2>3, <2>6, <3>2
  <2>7. QED
    BY <2>5, <2>6
<1>17. CASE CallDone
  BY <1>16, <1>17 DEF CallDone
<1>18. CASE ResolvePending
  BY <1>16, <1>18 DEF ResolvePending
<1>19. CASE Bubble
  BY <1>3, <1>5, <1>6, <1>19 DEF Bubble, CallReturned
<1>20. CASE Drain
  BY <1>3, <1>5, <1>6, <1>20 DEF Drain, CallReturned
<1>21. CASE Dispatch
  <2>1. Home(target) \in Funcs \cup {Root}
    BY <1>1, ProgramTypes DEF GuestInv
  <2>2. running' = TRUE /\ Top'.fn = Home(target)
    BY <1>1, <1>21, <2>1, WaitsDispatch DEF Dispatch, InTrampoline
  <2>3. QED
    BY <1>3, <1>5, <1>6, <1>21, <2>2 DEF Dispatch, InTrampoline
<1>22. CASE LeaveTrampoline
  BY <1>1, <1>3, <1>4, <1>5, <1>6, <1>22 DEF LeaveTrampoline, InTrampoline, GuestInv
<1>23. CASE UNCHANGED vars
  <2>1. GuestAt' = GuestAt
    BY <1>23 DEF vars, GuestAt, Top, Home
  <2>2. QED
    BY <1>6, <1>23, <2>1 DEF vars
<1>24. QED
  BY <1>7, <1>8, <1>9, <1>12, <1>13, <1>14, <1>15, <1>17, <1>18, <1>19, <1>20, <1>21,
     <1>22, <1>23 DEF Next, GuestStep, HostStep, Done

(* As long as no call site has found $sp changed, the generated code takes *)
(* the guest where the MIPS program goes, for every program: recursion,    *)
(* bubbled tail calls and jumps back into a caller's function included.    *)
THEOREM FollowsUntilMismatch == Spec /\ []NoMismatch => FollowsGuest
<1>1. Init => Guest!GInit
  <2> SUFFICES ASSUME Init PROVE Guest!GInit
    OBVIOUS
  <2>1. running /\ Top.fn = Entry
    BY DEF Init, Top, Body
  <2>2. QED
    BY <2>1 DEF Init, Guest!GInit, GuestAt
<1>2. IInv /\ Owned /\ NoMismatch' /\ [Next]_vars => [Guest!GNext]_(Guest!gvars)
  BY GuestFollowed DEF NoMismatch
<1>3. Spec => [](IInv /\ Owned)
  BY Invariance, OwnedInit, OwnedStep, PTL DEF Spec
<1>4. QED
  BY <1>1, <1>2, <1>3, PTL DEF Spec, FollowsGuest, Guest!GSpec

-----------------------------------------------------------------------------
(* Tail calls cost no host stack in programs whose callees never jump back *)
(* into the function that called them: there a return to a label of one's  *)
(* own C function would leave the outer frame of that function waiting.    *)

(* The functions a call at site s enters: its callees, and what they reach *)
(* by jumping out of their bodies.                                         *)
Entered(s) ==
  {x \in Funcs : \A S \in SUBSET Funcs :
     (/\ \A c \in Calls : c[1] = s => c[2] \in S
      /\ \A t \in Tails : t[1] \in S => t[2] \in S) => x \in S}

IsHostCall(c) == c[2] # Owner[c[1]] \/ c[1] \in RegSites

NeverReenters == \A c \in Calls : IsHostCall(c) => Owner[c[1]] \notin Entered(c[1])

LEMMA EnteredCloses ==
  /\ \A c \in Calls : c[2] \in Entered(c[1])
  /\ \A s : \A t \in Tails : t[1] \in Entered(s) => t[2] \in Entered(s)
<1>1. \A c \in Calls : c[2] \in Funcs
  BY ProgramTypes
<1>2. \A t \in Tails : t[2] \in Funcs
  BY ProgramAssumption
<1>3. QED
  BY <1>1, <1>2 DEF Entered

(* What an activation entered with the return address a may execute; the   *)
(* thread's first activation may execute anything.                         *)
Within(a) == IF a = Root THEN Funcs ELSE Entered(a)

LEMMA WithinCloses ==
  /\ \A c \in Calls : c[2] \in Within(c[1])
  /\ \A a : \A t \in Tails : t[1] \in Within(a) => t[2] \in Within(a)
  /\ \A s \in Sites : Within(s) = Entered(s)
<1>1. \A t \in Tails : t[2] \in Funcs
  BY ProgramAssumption
<1>2. \A s \in Sites : s # Root
  BY ProgramAssumption
<1>3. \A c \in Calls : c[1] \in Sites
  BY ProgramTypes
<1>4. QED
  BY <1>1, <1>2, <1>3, EnteredCloses DEF Within

(* The function control is in, or on its way to.                           *)
Going == IF running THEN Top.fn ELSE Home(target)

(* Each activation executes what it may.                                   *)
Inside ==
  /\ \A i \in 1..(Len(returns) - 1) : Owner[returns[i + 1]] \in Within(returns[i])
  /\ running \/ (pending /\ target # Root) => Going \in Within(ra)

(* A waiting body w belongs to the activation that had w.sp return         *)
(* addresses below it; the next one is the call it waits for.              *)
WaitsIn(w, rs) ==
  /\ w.sp \in 1..Len(rs)
  /\ w.fn \in Within(rs[w.sp])
  /\ w.fn \notin Entered(w.site)
  /\ w.sp < Len(rs) => rs[w.sp + 1] = w.site

(* Each waiting body belongs to an activation of its own; while the guest  *)
(* executes, the call it waits for has not returned, and if it has, what   *)
(* is pending is that return.                                              *)
Activations ==
  /\ Inside
  /\ \A i \in Waits :
       /\ WaitsIn(frames[i], returns)
       /\ running => frames[i].sp < Len(returns)
       /\ pending /\ frames[i].sp = Len(returns) => target = frames[i].site
  /\ \A i, j \in Waits : i < j => frames[i].sp < frames[j].sp

(* The return addresses stay; some bodies have stopped waiting.            *)
LEMMA ActKept ==
  ASSUME Activations, NEW W \in SUBSET Waits, Keeps(W), UNCHANGED returns,
         \A i \in W : /\ running' => frames[i].sp < Len(returns)
                      /\ pending' /\ frames[i].sp = Len(returns) => target' = frames[i].site,
         running' \/ (pending' /\ target' # Root) => Going' \in Within(ra)
  PROVE  Activations'
<1>1. Inside'
  BY DEF Activations, Inside, ra, LastOf
<1>2. \A i \in Waits' : /\ i \in W /\ i \in Waits /\ frames'[i] = frames[i]
  BY DEF Keeps
<1>3. \A i \in Waits' : WaitsIn(frames'[i], returns')
  BY <1>2 DEF Activations
<1>4. QED
  BY <1>1, <1>2, <1>3 DEF Activations

(* The newest activation has returned. *)
LEMMA ActPopped ==
  ASSUME Activations, HostInv, GuestInv, running, Keeps(Waits), returns' = ButLast(returns),
         \A i \in Waits : frames[i].site = ra /\ frames[i].sp = Len(returns) - 1
                          => ~running' /\ (pending' => target' = ra),
         running' \/ (pending' /\ target' # Root) =>
            Len(returns) > 1 /\ Going' \in Within(returns[Len(returns) - 1])
  PROVE  Activations'
<1>1. Len(returns) \in Nat /\ Len(returns) > 0 /\ ra = returns[Len(returns)]
  BY LenProperties DEF GuestInv, GuestStack, ra, LastOf
<1>2. /\ Len(returns') = Len(returns) - 1
      /\ \A i \in 1..(Len(returns) - 1) : returns'[i] = returns[i]
  BY <1>1, PopSeq DEF GuestInv, ButLast
<1>3. Inside'
  <2>1. \A i \in 1..(Len(returns') - 1) : Owner[returns'[i + 1]] \in Within(returns'[i])
    BY <1>1, <1>2 DEF Activations, Inside
  <2>2. ASSUME Len(returns) > 1 PROVE ra' = returns[Len(returns) - 1]
    BY <1>1, <1>2, <2>2 DEF ra, LastOf
  <2>3. QED
    BY <2>1, <2>2 DEF Inside
<1>4. ASSUME NEW i \in Waits
      PROVE  /\ frames'[i] = frames[i]
             /\ WaitsIn(frames[i], returns')
             /\ frames[i].sp = Len(returns') => frames[i].site = ra
  <2> DEFINE w == frames[i]
  <2>1. frames'[i] = w
    BY DEF Keeps
  <2>2. /\ w.sp \in 1..Len(returns) /\ w.sp < Len(returns)
        /\ w.fn \in Within(returns[w.sp])
        /\ w.fn \notin Entered(w.site)
        /\ returns[w.sp + 1] = w.site
    BY DEF Activations, WaitsIn
  <2> HIDE DEF w
  <2>3. w.sp \in 1..Len(returns') /\ returns'[w.sp] = returns[w.sp]
    BY <1>1, <1>2, <2>2
  <2>4. w.sp < Len(returns') => returns'[w.sp + 1] = w.site
    BY <1>1, <1>2, <2>2
  <2>5. WaitsIn(w, returns')
    BY <2>2, <2>3, <2>4 DEF WaitsIn
  <2>6. w.sp = Len(returns') => w.site = ra
    BY <1>1, <1>2, <2>2
  <2>7. QED
    BY <2>1, <2>5, <2>6 DEF w
<1>5. Waits' = Waits
  BY DEF Keeps
<1>6. \A i \in Waits : frames[i].sp \in Nat /\ frames[i].sp < Len(returns)
  BY <1>1 DEF Activations, WaitsIn
<1>7. \A i \in Waits' :
         /\ WaitsIn(frames'[i], returns')
         /\ running' => frames'[i].sp < Len(returns')
         /\ pending' /\ frames'[i].sp = Len(returns') => target' = frames'[i].site
  <2>1. ASSUME NEW i \in Waits
        PROVE  /\ running' => frames[i].sp < Len(returns) - 1
               /\ pending' /\ frames[i].sp = Len(returns) - 1 => target' = frames[i].site
    BY <1>1, <1>2, <1>4, <1>6, <2>1
  <2>2. QED
    BY <1>2, <1>4, <1>5, <2>1
<1>8. \A i, j \in Waits' : i < j => frames'[i].sp < frames'[j].sp
  BY <1>4, <1>5 DEF Activations
<1>9. QED
  BY <1>3, <1>7, <1>8 DEF Activations

(* A new activation: the bodies that wait already still do.                *)
LEMMA ActPushed ==
  ASSUME Activations, GuestInv, running, NEW s \in Sites, returns' = Append(returns, s),
         Owner[s] = Top.fn, Going' \in Within(s)
  PROVE  /\ Inside'
         /\ Len(returns) \in Nat /\ Len(returns) > 0 /\ Len(returns') = Len(returns) + 1
         /\ returns'[Len(returns)] = ra /\ returns'[Len(returns) + 1] = s
         /\ Top.fn \in Within(ra)
         /\ \A i \in Waits : /\ WaitsIn(frames[i], returns')
                             /\ frames[i].sp < Len(returns)
<1>1. Len(returns) \in Nat /\ Len(returns) > 0 /\ ra = returns[Len(returns)]
  BY LenProperties DEF GuestInv, GuestStack, ra, LastOf
<1>2. /\ Len(returns') = Len(returns) + 1
      /\ \A i \in 1..Len(returns) : returns'[i] = returns[i]
      /\ returns'[Len(returns) + 1] = s
  BY PushSeq DEF GuestInv
<1>3. Top.fn \in Within(ra)
  BY DEF Activations, Inside, Going
<1>4. Inside'
  <2>1. \A i \in 1..Len(returns) : Owner[returns'[i + 1]] \in Within(returns'[i])
    <3>1. \A i \in 1..(Len(returns) - 1) : Owner[returns'[i + 1]] \in Within(returns'[i])
      BY <1>1, <1>2 DEF Activations, Inside
    <3>2. Owner[returns'[Len(returns) + 1]] \in Within(returns'[Len(returns)])
      BY <1>1, <1>2, <1>3
    <3>3. QED
      BY <1>1, <3>1, <3>2
  <2>2. ra' = s
    BY <1>2 DEF ra, LastOf
  <2>3. Len(returns') - 1 = Len(returns)
    BY <1>1, <1>2
  <2>4. QED
    BY <2>1, <2>2, <2>3 DEF Inside
<1>5. ASSUME NEW i \in Waits
      PROVE  WaitsIn(frames[i], returns') /\ frames[i].sp < Len(returns)
  <2>1. /\ frames[i].sp \in 1..Len(returns) /\ frames[i].sp < Len(returns)
        /\ frames[i].fn \in Within(returns[frames[i].sp])
        /\ frames[i].fn \notin Entered(frames[i].site)
        /\ returns[frames[i].sp + 1] = frames[i].site
    BY DEF Activations, WaitsIn
  <2>2. /\ frames[i].sp \in 1..Len(returns')
        /\ returns'[frames[i].sp] = returns[frames[i].sp]
        /\ returns'[frames[i].sp + 1] = returns[frames[i].sp + 1]
    BY <1>1, <1>2, <2>1
  <2>3. QED
    BY <2>1, <2>2 DEF WaitsIn
<1>6. QED
  BY <1>1, <1>2, <1>3, <1>4, <1>5

LEMMA ActivationsInit == Init => Activations
<1> SUFFICES ASSUME Init PROVE Activations
  OBVIOUS
<1>1. /\ Len(frames) = 2 /\ frames[1].kind = "trampoline"
      /\ frames[2].kind = "body" /\ frames[2].fn = Entry /\ running
      /\ Len(returns) = 1 /\ returns[1] = Root
  BY DEF Init, Trampoline, Body
<1>2. Waits = {}
  BY <1>1 DEF Waits, Suspended
<1>3. Inside
  BY <1>1, ProgramAssumption DEF Inside, Going, Top, ra, LastOf, Within
<1>4. QED
  BY <1>2, <1>3 DEF Activations

LEMMA ActivationsGuest ==
  ASSUME NeverReenters, IInv, Owned, Activations, GuestStep
  PROVE  Activations'
<1>1. HostInv /\ GuestInv
  BY DEF IInv
<1>2. ASSUME running PROVE
      /\ Top.fn \in Within(ra)
      /\ Len(returns) \in Nat /\ Len(returns) > 0 /\ ra = returns[Len(returns)]
      /\ ra \in Sites => /\ Len(returns) > 1
                         /\ Owner[ra] \in Within(returns[Len(returns) - 1])
                         /\ Within(ra) = Entered(ra)
  <2>1. Len(returns) \in Nat /\ Len(returns) > 0 /\ ra = returns[Len(returns)]
    BY <1>1, <1>2, LenProperties DEF GuestInv, GuestStack, ra, LastOf
  <2>2. ra \in Sites => Len(returns) # 1
    BY <1>1, <2>1, ProgramAssumption DEF GuestInv, GuestStack
  <2>3. ASSUME Len(returns) > 1 PROVE Owner[ra] \in Within(returns[Len(returns) - 1])
    <3> DEFINE k == Len(returns) - 1
    <3>1. k \in 1..k /\ k + 1 = Len(returns)
      BY <2>1, <2>3
    <3>2. Owner[returns[k + 1]] \in Within(returns[k])
      BY <3>1 DEF Activations, Inside
    <3>3. QED
      BY <2>1, <3>1, <3>2
  <2>4. Top.fn \in Within(ra)
    BY <1>2 DEF Activations, Inside, Going
  <2>5. ra \in Sites => Within(ra) = Entered(ra)
    BY WithinCloses
  <2>6. ra \in Sites => Len(returns) > 1
    BY <2>1, <2>2
  <2>7. QED
    BY <2>1, <2>3, <2>4, <2>5, <2>6
<1>3. ASSUME NEW c \in Calls, LocalCall(c[1], c[2]) PROVE Activations'
  <2>1. /\ c[1] \in Sites /\ running /\ running' /\ Top' = Top
        /\ Top.fn = Owner[c[1]] /\ c[2] = Owner[c[1]]
        /\ returns' = Append(returns, c[1])
    BY <1>3, ProgramTypes DEF LocalCall, Executing, Top
  <2>2. Going' \in Within(c[1])
    BY <2>1, WithinCloses DEF Going
  <2>3. Keeps(Waits)
    BY <1>3, WaitsSame DEF LocalCall
  <2>4. /\ Inside'
        /\ Len(returns) \in Nat /\ Len(returns') = Len(returns) + 1
        /\ \A i \in Waits : /\ WaitsIn(frames[i], returns')
                            /\ frames[i].sp < Len(returns)
    BY <1>1, <2>1, <2>2, ActPushed
  <2>5. \A i \in Waits : frames[i].sp \in Nat
    BY DEF Activations, WaitsIn
  <2>6. \A i \in Waits : frames[i].sp < Len(returns') /\ frames[i].sp # Len(returns')
    BY <2>4, <2>5
  <2>7. QED
    BY <2>3, <2>4, <2>6 DEF Activations, Keeps
<1>4. ASSUME NEW c \in Calls, HostCall(c[1], c[2]) PROVE Activations'
  <2>1. /\ c[1] \in Sites /\ c[2] \in Funcs /\ Top.kind = "body" /\ running /\ running'
        /\ Top.fn = Owner[c[1]] /\ Len(returns) > 0 /\ Len(returns) < MaxDepth
        /\ PushCall(c[1], c[2]) /\ returns' = Append(returns, c[1])
        /\ IsHostCall(c)
    BY <1>1, <1>4, ProgramTypes DEF HostCall, Executing, GuestInv, GuestStack, IsHostCall
  <2>2. sp \in 0..MaxDepth
    BY <1>1, <2>1, LenProperties, ProgramAssumption DEF sp, GuestInv
  <2>3. running' = TRUE
    BY <1>1, <1>4, <2>1 DEF HostCall, GuestInv
  <2> DEFINE n == Len(frames)
  <2>4. /\ Waits' = Waits \cup {n}
        /\ n \notin Waits
        /\ \A i \in Waits : i < n /\ frames'[i] = frames[i]
        /\ frames'[n].fn = Top.fn /\ frames'[n].site = c[1] /\ frames'[n].sp = sp
        /\ Top'.fn = c[2]
    BY <1>1, <2>1, <2>2, <2>3, WaitsCall
  <2>5. Going' \in Within(c[1])
    BY <2>1, <2>4, WithinCloses DEF Going
  <2>6. /\ Inside'
        /\ Len(returns) \in Nat /\ Len(returns) > 0 /\ Len(returns') = Len(returns) + 1
        /\ returns'[Len(returns)] = ra /\ returns'[Len(returns) + 1] = c[1]
        /\ Top.fn \in Within(ra)
        /\ \A i \in Waits : /\ WaitsIn(frames[i], returns')
                            /\ frames[i].sp < Len(returns)
    BY <1>1, <2>1, <2>5, ActPushed
  <2>7. \A i \in Waits : frames[i].sp \in Nat
    BY DEF Activations, WaitsIn
  <2>8. \A i \in Waits : frames[i].sp < Len(returns') /\ frames[i].sp # Len(returns')
    BY <2>6, <2>7
  <2>9. WaitsIn(frames'[n], returns')
    <3>1. Top.fn \notin Entered(c[1])
      BY <2>1 DEF NeverReenters
    <3>2. sp = Len(returns) /\ sp \in 1..Len(returns')
      BY <2>6 DEF sp
    <3>3. QED
      BY <2>4, <2>6, <3>1, <3>2 DEF WaitsIn
  <2>10. frames'[n].sp < Len(returns') /\ frames'[n].sp # Len(returns')
    BY <2>4, <2>6 DEF sp
  <2>11. \A i \in Waits' :
            /\ WaitsIn(frames'[i], returns')
            /\ frames'[i].sp < Len(returns') /\ frames'[i].sp # Len(returns')
    BY <2>4, <2>6, <2>8, <2>9, <2>10
  <2>12. \A i, j \in Waits' : i < j => frames'[i].sp < frames'[j].sp
    <3>1. n \in Nat /\ \A i \in Waits : i \in Nat
      BY <1>1, WaitsTypes DEF Waits
    <3>2. \A i \in Waits : frames'[i].sp < frames'[n].sp
      BY <2>4, <2>6 DEF sp
    <3>3. \A i, j \in Waits : i < j => frames'[i].sp < frames'[j].sp
      BY <2>4 DEF Activations
    <3>4. \A j \in Waits : ~ (n < j)
      BY <2>4, <3>1
    <3>5. ~ (n < n)
      BY <3>1
    <3>6. QED
      BY <2>4, <3>2, <3>3, <3>4, <3>5
  <2>13. QED
    BY <2>6, <2>11, <2>12 DEF Activations
<1>5. ASSUME NEW f \in Funcs, TailJump(f) PROVE Activations'
  <2>1. /\ running /\ Pop /\ running' = FALSE /\ target' = f /\ UNCHANGED returns
        /\ <<Top.fn, f>> \in Tails
    BY <1>5 DEF TailJump, RequestTailcall
  <2>2. Keeps(Waits)
    BY <1>1, <2>1, WaitsPopRunning
  <2>3. Going' \in Within(ra)
    <3>1. Going' = f
      BY <2>1, ProgramAssumption DEF Going, Home
    <3>2. QED
      BY <1>2, <2>1, <3>1, WithinCloses
  <2>4. \A i \in Waits : frames[i].sp # Len(returns)
    BY <2>1 DEF Activations, WaitsIn
  <2>5. QED
    BY <2>1, <2>2, <2>3, <2>4, ActKept
<1>6. CASE ReturnToLabel
  <2>1. /\ running /\ UNCHANGED <<frames, running>> /\ returns' = ButLast(returns)
        /\ ra \in Sites /\ Owner[ra] = Top.fn /\ Top' = Top
    BY <1>6 DEF ReturnToLabel, IsLabelIn, Top
  <2>2. Keeps(Waits)
    BY <2>1, WaitsSame
  <2>3. \A i \in Waits : frames[i].site # ra
    BY <1>2, <2>1 DEF Activations, WaitsIn, Owned
  <2>4. Len(returns) > 1 /\ Going' \in Within(returns[Len(returns) - 1])
    BY <1>2, <2>1 DEF Going
  <2>5. QED
    BY <1>1, <2>1, <2>2, <2>3, <2>4, ActPopped
<1>7. CASE ReturnToHost
  <2>1. /\ running /\ Pop /\ running' = FALSE /\ returns' = ButLast(returns) /\ ~pending'
    BY <1>1, <1>7 DEF ReturnToHost, GuestInv, GuestStack
  <2>2. Keeps(Waits)
    BY <1>1, <2>1, WaitsPopRunning
  <2>3. QED
    BY <1>1, <2>1, <2>2, ActPopped
<1>8. ASSUME running, returns' = ButLast(returns), RequestTailcall(ra) PROVE Activations'
  <2>1. running /\ Pop /\ running' = FALSE /\ target' = ra
    BY <1>8 DEF RequestTailcall
  <2>2. Keeps(Waits)
    BY <1>1, <2>1, WaitsPopRunning
  <2>3. ASSUME target' # Root
        PROVE  Len(returns) > 1 /\ Going' \in Within(returns[Len(returns) - 1])
    <3>1. ra \in Sites
      BY <1>1, <1>2, <2>1, <2>3, <1>8, GuestPop
    <3>2. Going' = Owner[ra]
      BY <2>1, <3>1 DEF Going, Home
    <3>3. QED
      BY <1>2, <1>8, <3>1, <3>2
  <2>4. QED
    BY <1>1, <1>8, <2>1, <2>2, <2>3, ActPopped
<1>9. CASE ReturnElsewhere
  BY <1>8, <1>9 DEF ReturnElsewhere
<1>10. CASE ReturnByRegister
  BY <1>8, <1>10 DEF ReturnByRegister
<1>11. QED
  BY <1>3, <1>4, <1>5, <1>6, <1>7, <1>9, <1>10 DEF GuestStep

LEMMA ActivationsHost ==
  ASSUME IInv, Owned, Alternate, Activations, HostStep
  PROVE  Activations'
<1>1. HostInv /\ GuestInv
  BY DEF IInv
<1>2. /\ Len(frames) \in Nat /\ Len(returns) \in Nat
      /\ \A i \in Waits : /\ i \in 2..Len(frames)
                          /\ frames[i].sp \in 1..Len(returns)
                          /\ frames[i].fn \in Within(returns[frames[i].sp])
  <2>1. Len(returns) \in Nat
    BY <1>1, LenProperties DEF GuestInv
  <2>2. QED
    BY <1>1, <2>1, WaitsTypes DEF Activations, WaitsIn
<1>3. ASSUME ~running, Top.kind = "body"
      PROVE  /\ Len(frames) \in Waits /\ Top = frames[Len(frames)] /\ Len(frames) > 1
             /\ \A i \in Waits \ {Len(frames)} : frames[i].sp < Top.sp
  <2>1. Top = frames[Len(frames)] /\ Len(frames) > 1
    BY <1>1, <1>3, RunningAboveBottom DEF Top
  <2>2. Len(frames) \in Waits
    BY <1>2, <1>3, <2>1 DEF Waits, Suspended
  <2>3. \A i \in Waits \ {Len(frames)} : i < Len(frames)
    BY <1>2
  <2>4. QED
    BY <2>1, <2>2, <2>3 DEF Activations
<1>4. ASSUME CallReturned, RestoreAndResume, UNCHANGED returns, pending' = FALSE
      PROVE  Activations'
  <2>1. ~running /\ Top.kind = "body"
    BY <1>4 DEF CallReturned
  <2> DEFINE W == Waits \ {Len(frames)}
  <2>2. \A i \in W : frames[i].sp < Len(returns)
    BY <1>2, <1>3, <2>1
  <2>3. CASE sp = Top.sp
    <3>1. running' = TRUE /\ SetTop(Body(Top.fn))
      BY <1>4, <2>3 DEF RestoreAndResume
    <3>2. Keeps(W) /\ Top'.fn = Top.fn
      BY <1>1, <2>1, <3>1, WaitsResume
    <3>3. Top.fn \in Within(ra)
      BY <1>2, <1>3, <2>1, <2>3 DEF sp, ra, LastOf
    <3>4. Going' \in Within(ra)
      BY <3>1, <3>2, <3>3 DEF Going
    <3>5. QED
      BY <1>4, <2>2, <3>2, <3>4, ActKept
  <2>4. CASE sp # Top.sp
    <3>1. Pop /\ running' = running
      BY <1>4, <2>4 DEF RestoreAndResume
    <3>2. Keeps(W)
      BY <1>1, <1>3, <2>1, <3>1, WaitsPop
    <3>3. QED
      BY <1>4, <2>1, <2>2, <3>1, <3>2, ActKept
  <2>5. QED
    BY <2>3, <2>4
<1>5. CASE CallDone
  BY <1>1, <1>4, <1>5 DEF CallDone, GuestInv
<1>6. CASE ResolvePending
  BY <1>4, <1>6 DEF ResolvePending
<1>7. ASSUME ~running, ~running', UNCHANGED <<target, pending>>
      PROVE  running' \/ (pending' /\ target' # Root) => Going' \in Within(ra)
  BY <1>7 DEF Activations, Inside, Going
<1>8. CASE Bubble
  <2>1. /\ ~running /\ ~running' /\ Top.kind = "body" /\ Pop
        /\ UNCHANGED <<returns, target, pending>>
    BY <1>8 DEF Bubble, CallReturned
  <2> DEFINE W == Waits \ {Len(frames)}
  <2>2. Keeps(W)
    BY <1>1, <1>3, <2>1, WaitsPop
  <2>3. \A i \in W : frames[i].sp # Len(returns)
    BY <1>2, <1>3, <2>1
  <2>4. QED
    BY <1>7, <2>1, <2>2, <2>3, ActKept
<1>9. CASE Drain
  <2>1. /\ ~running /\ ~running' /\ Top.kind = "body" /\ Push(Trampoline(hostReturn))
        /\ UNCHANGED <<returns, target, pending>>
    BY <1>9 DEF Drain, CallReturned
  <2>2. Keeps(Waits)
    BY <1>1, <2>1, WaitsDrain
  <2>3. \A i \in Waits : pending' /\ frames[i].sp = Len(returns) => target' = frames[i].site
    BY <2>1 DEF Activations
  <2>4. QED
    BY <1>7, <2>1, <2>2, <2>3, ActKept
<1>10. CASE Dispatch
  <2>1. /\ ~running /\ running' = TRUE /\ Top.kind = "trampoline"
        /\ Push(Body(Home(target))) /\ ~pending' /\ UNCHANGED returns
        /\ pending /\ target # hostReturn /\ target # Root
    BY <1>10 DEF Dispatch, InTrampoline
  <2>2. Keeps(Waits) /\ Top'.fn = Home(target)
    <3>1. Home(target) \in Funcs \cup {Root}
      BY <1>1, ProgramTypes DEF GuestInv
    <3>2. QED
      BY <1>1, <2>1, <3>1, WaitsDispatch
  <2>3. Going' \in Within(ra)
    BY <2>1, <2>2 DEF Activations, Inside, Going
  <2>4. ASSUME NEW i \in Waits PROVE frames[i].sp < Len(returns)
    <3> DEFINE n == Len(frames)
    <3>1. SUFFICES ASSUME frames[i].sp = Len(returns) PROVE FALSE
      BY <1>2
    <3>2. target = frames[i].site
      BY <2>1, <3>1 DEF Activations
    <3>3. i # n /\ i \in 2..n
      BY <1>2, <2>1 DEF Waits, Top
    <3>4. frames[n].kind = "trampoline" /\ n \in 2..n
      BY <1>2, <2>1, <3>3 DEF Top
    <3>5. n - 1 \in Waits
      <4>1. frames[n - 1].kind = "body"
        BY <3>4 DEF Alternate
      <4>2. n - 1 \in 1..n
        BY <1>2, <3>4
      <4>3. QED
        BY <2>1, <4>1, <4>2 DEF Waits, Suspended
    <3>6. ~ (i < n - 1)
      <4>1. i < n - 1 => frames[i].sp < frames[n - 1].sp
        BY <3>5 DEF Activations
      <4>2. frames[n - 1].sp \in 1..Len(returns)
        BY <1>2, <3>5
      <4>3. QED
        BY <1>2, <3>1, <4>1, <4>2
    <3>7. i = n - 1
      BY <1>2, <3>3, <3>6
    <3>8. frames[n].prev = frames[i].site /\ hostReturn = frames[n].site
      BY <1>1, <2>1, <3>4, <3>7 DEF HostInv, HostReturnChain, Suspended
    <3>9. frames[n].site = frames[n].prev
      <4>1. n \in 1..n /\ frames[n].kind # "body"
        BY <1>2, <3>4
      <4>2. QED
        BY <1>1, <4>1 DEF HostInv, HostShape
    <3>10. QED
      BY <2>1, <3>2, <3>8, <3>9
  <2>5. QED
    BY <2>1, <2>2, <2>3, <2>4, ActKept
<1>11. CASE LeaveTrampoline
  <2>1. /\ ~running /\ ~running' /\ Top.kind = "trampoline" /\ Len(frames) > 1 /\ Pop
        /\ ~pending' /\ UNCHANGED returns
    BY <1>11 DEF LeaveTrampoline, InTrampoline
  <2>2. Keeps(Waits \ {Len(frames)})
    BY <1>1, <2>1, WaitsPop
  <2>3. QED
    BY <2>1, <2>2, ActKept
<1>12. QED
  BY <1>5, <1>6, <1>8, <1>9, <1>10, <1>11 DEF HostStep

LEMMA ActivationsStep ==
  NeverReenters /\ IInv /\ Owned /\ Alternate /\ Activations /\ [Next]_vars => Activations'
<1> SUFFICES ASSUME NeverReenters, IInv, Owned, Alternate, Activations, [Next]_vars
             PROVE  Activations'
  OBVIOUS
<1>1. CASE UNCHANGED vars
  <2>1. Top' = Top /\ ra' = ra /\ Waits' = Waits
    BY <1>1 DEF vars, Top, ra, LastOf, Waits, Suspended
  <2>2. Going' = Going /\ Inside'
    BY <1>1, <2>1 DEF vars, Going, Inside, Activations
  <2>3. QED
    BY <1>1, <2>1, <2>2 DEF vars, Activations
<1>2. QED
  BY <1>1, ActivationsGuest, ActivationsHost DEF Next, Done

(* Each body has an activation of its own: the running one the newest.     *)
LEMMA ActivationsBound == IInv /\ Activations => HostStackBounded
<1> SUFFICES ASSUME IInv, Activations PROVE HostStackBounded
  OBVIOUS
<1> DEFINE n == Len(frames)
           d == Len(returns)
           B == (2..n) \ Nested
           f == [i \in B |-> IF i \in Waits THEN frames[i].sp ELSE d]
<1>1. n \in Nat /\ n > 0 /\ d \in Nat
  BY LenProperties DEF IInv, HostInv, GuestInv
<1>2. \A i \in 1..n : frames[i].kind \in {"body", "trampoline"}
  BY WaitsTypes DEF IInv
<1>3. \A i \in B : i \in 2..n /\ frames[i].kind = "body"
  BY <1>2 DEF Nested
<1>4. \A i \in B : i \notin Waits => running /\ i = n /\ d > 0
  <2>1. running => d > 0
    BY DEF IInv, GuestInv, GuestStack
  <2>2. \A i \in B : i \in 1..n
    BY <1>3
  <2>3. QED
    BY <1>3, <2>1, <2>2 DEF Waits, Suspended
<1>5. \A i \in Waits : frames[i].sp \in 1..d /\ (running => frames[i].sp < d)
  BY DEF Activations, WaitsIn
<1>6. \A i, j \in Waits : i < j => frames[i].sp < frames[j].sp
  BY DEF Activations
<1>7. \A i \in B : f[i] \in 1..d
  BY <1>1, <1>4, <1>5
<1>8. ASSUME NEW i \in B, NEW j \in B, f[i] = f[j] PROVE i = j
  <2>1. i \in Nat /\ j \in Nat
    BY <1>1, <1>3
  <2>2. CASE i \in Waits /\ j \in Waits
    <3>1. frames[i].sp = frames[j].sp /\ frames[i].sp \in Int /\ frames[j].sp \in Int
      BY <1>5, <1>8, <2>2
    <3>2. ~ (i < j) /\ ~ (j < i)
      BY <1>6, <2>2, <3>1
    <3>3. QED
      BY <2>1, <3>2
  <2>3. CASE i \notin Waits /\ j \notin Waits
    BY <1>4, <2>3
  <2>4. CASE i \in Waits /\ j \notin Waits
    BY <1>1, <1>4, <1>5, <1>8, <2>4
  <2>5. CASE i \notin Waits /\ j \in Waits
    BY <1>1, <1>4, <1>5, <1>8, <2>5
  <2>6. QED
    BY <2>2, <2>3, <2>4, <2>5
<1>9. f \in Injection(B, 1..d)
  <2>1. f \in [B -> 1..d]
    BY <1>7
  <2>2. QED
    BY <1>8, <2>1 DEF Injection, IsInjective
<1> HIDE DEF f
<1>10. Cardinality(B) <= d
  <2>1. IsFiniteSet(1..d) /\ Cardinality(1..d) = d
    <3>1. IsFiniteSet(1..d) /\ Cardinality(1..d) = IF 1 > d THEN 0 ELSE d - 1 + 1
      <4>1. 1 \in Int /\ d \in Int
        BY <1>1
      <4> HIDE DEF d
      <4>2. QED
        BY <4>1, FS_Interval, Zenon
    <3>2. QED
      BY <1>1, <3>1
  <2>2. Cardinality(B) <= Cardinality(1..d)
    BY <1>9, <2>1, FS_Injection
  <2>3. QED
    BY <2>1, <2>2
<1>11. Cardinality(B) = (n - 1) - Cardinality(Nested)
  <2>1. IsFiniteSet(2..n) /\ Cardinality(2..n) = n - 1
    <3>1. IsFiniteSet(2..n) /\ Cardinality(2..n) = IF 2 > n THEN 0 ELSE n - 2 + 1
      <4>1. 2 \in Int /\ n \in Int
        BY <1>1
      <4> HIDE DEF n
      <4>2. QED
        BY <4>1, FS_Interval, Zenon
    <3>2. QED
      BY <1>1, <3>1
  <2>2. (2..n) \cap Nested = Nested
    BY DEF Nested
  <2>3. Cardinality((2..n) \ Nested) = Cardinality(2..n) - Cardinality((2..n) \cap Nested)
    BY <2>1, FS_Difference
  <2>4. QED
    BY <2>1, <2>2, <2>3
<1>12. Cardinality(Nested) \in Nat
  BY NestedFinite, FS_CardinalityType DEF IInv
<1>13. QED
  BY <1>1, <1>10, <1>11, <1>12 DEF HostStackBounded

(* Tail calls cost no host stack, however they are drained or bubbled, and *)
(* with recursion of any depth: one C frame for each live activation,      *)
(* besides the trampolines.                                                *)
THEOREM StackBounded == NeverReenters => (Spec => []HostStackBounded)
<1> SUFFICES ASSUME NeverReenters PROVE Spec => []HostStackBounded
  OBVIOUS
<1>1. Init => Owned /\ Alternate /\ Activations
  BY OwnedInit, ActivationsInit
<1>2. IInv /\ Owned /\ Alternate /\ Activations /\ [Next]_vars
        => Owned' /\ Alternate' /\ Activations'
  BY OwnedStep, ActivationsStep
<1>3. QED
  BY <1>1, <1>2, Invariance, ActivationsBound, PTL DEF Spec

-----------------------------------------------------------------------------
(* Where no function can be entered again while it waits, each return goes *)
(* to the call site it is for, even when tail calls are bubbled up past    *)
(* call sites that are not theirs.                                         *)

(* The functions that may execute before a call at site s has returned.    *)
Below(s) ==
  {x \in Funcs : \A S \in SUBSET Funcs :
     (/\ \A c \in Calls : c[1] = s \/ Owner[c[1]] \in S => c[2] \in S
      /\ \A t \in Tails : t[1] \in S => t[2] \in S) => x \in S}

NotRecursive == \A c \in Calls : IsHostCall(c) => Owner[c[1]] \notin Below(c[1])

BelowOf(a) == IF a = Root THEN Funcs ELSE Below(a)

LEMMA BelowCloses ==
  /\ \A c \in Calls : c[2] \in BelowOf(c[1])
  /\ \A a : \A c \in Calls : Owner[c[1]] \in BelowOf(a) => c[2] \in BelowOf(a)
  /\ \A a : \A t \in Tails : t[1] \in BelowOf(a) => t[2] \in BelowOf(a)
  /\ \A s \in Sites : BelowOf(s) = Below(s)
<1>1. \A c \in Calls : c[1] \in Sites /\ c[2] \in Funcs
  BY ProgramTypes
<1>2. \A t \in Tails : t[2] \in Funcs
  BY ProgramAssumption
<1>3. \A s \in Sites : s # Root
  BY ProgramAssumption
<1>4. \A c \in Calls : c[2] \in Below(c[1])
  BY <1>1 DEF Below
<1>5. \A a : \A c \in Calls : Owner[c[1]] \in Below(a) => c[2] \in Below(a)
  BY <1>1 DEF Below
<1>6. \A a : \A t \in Tails : t[1] \in Below(a) => t[2] \in Below(a)
  BY <1>2 DEF Below
<1>7. QED
  BY <1>1, <1>2, <1>3, <1>4, <1>5, <1>6 DEF BelowOf

LEMMA NotRecursiveNeverReenters == NotRecursive => NeverReenters
<1>1. ASSUME NEW s, NEW x \in Entered(s) PROVE x \in Below(s)
  <2>1. ASSUME NEW S \in SUBSET Funcs,
               \A c \in Calls : c[1] = s \/ Owner[c[1]] \in S => c[2] \in S,
               \A t \in Tails : t[1] \in S => t[2] \in S
        PROVE  x \in S
    BY <1>1, <2>1 DEF Entered
  <2>2. x \in Funcs
    BY <1>1 DEF Entered
  <2>3. QED
    BY <2>1, <2>2 DEF Below
<1>2. QED
  BY <1>1 DEF NotRecursive, NeverReenters

Deep(w, rs) == /\ w.fn \notin Below(w.site)
               /\ \A k \in 1..w.sp : w.fn \in BelowOf(rs[k])

(* What the guest executes, and each live call site's function, are below  *)
(* every older live call.                                                  *)
Ancestry ==
  /\ \A k, m \in 1..Len(returns) : k < m => Owner[returns[m]] \in BelowOf(returns[k])
  /\ running \/ (pending /\ target # Root) =>
       \A k \in 1..Len(returns) : Going \in BelowOf(returns[k])
  /\ \A i \in Waits : Deep(frames[i], returns)

Innermost(i) == i \in Waits /\ \A j \in Waits : j <= i

(* With nothing executing and nothing pending, the innermost waiting body  *)
(* is the one whose call has returned.                                     *)
Due == ~running /\ ~pending => \A i \in Waits : Innermost(i) => frames[i].sp = Len(returns)

(* host_return_target is the return address the innermost body waits for.  *)
LEMMA InnermostTarget ==
  ASSUME HostInv, Alternate, NEW i \in Waits, Innermost(i)
  PROVE  hostReturn = frames[i].site
<1> DEFINE n == Len(frames)
           m == IF running THEN n - 1 ELSE n
<1>1. /\ n \in Nat /\ i \in 2..n
      /\ \A k \in 1..n : frames[k].kind \in {"body", "trampoline"}
  BY WaitsTypes
<1>2. i # n \/ ~running
  BY DEF Waits, Suspended
<1>3. m \in 2..n /\ i <= m /\ \A k \in 1..m : frames[k].kind = "body" => k \in Waits
  BY <1>1, <1>2 DEF Waits, Suspended
<1>4. hostReturn = frames[m].site
  BY DEF HostInv, HostReturnChain
<1>5. CASE frames[m].kind = "body"
  <2>1. m \in Waits /\ m \in Nat
    BY <1>1, <1>3, <1>5
  <2>2. m <= i
    BY <2>1 DEF Innermost
  <2>3. m = i
    BY <1>1, <1>3, <2>1, <2>2
  <2>4. QED
    BY <1>4, <2>3
<1>6. CASE frames[m].kind = "trampoline"
  <2>1. m - 1 \in 1..m /\ frames[m - 1].kind = "body"
    BY <1>1, <1>3, <1>6 DEF Alternate
  <2>2. m - 1 \in Waits
    BY <1>3, <2>1
  <2>3. m - 1 <= i /\ i # m
    BY <1>6, <2>2 DEF Innermost, Waits
  <2>4. i = m - 1
    BY <1>1, <1>3, <2>1, <2>3
  <2>5. Suspended(m)
    BY <1>1 DEF Suspended
  <2>6. frames[m].prev = frames[m - 1].site
    BY <1>3, <2>5 DEF HostInv, HostReturnChain
  <2>7. frames[m].site = frames[m].prev
    BY <1>1, <1>3, <1>6 DEF HostInv, HostShape
  <2>8. QED
    BY <1>4, <2>4, <2>6, <2>7
<1>7. frames[m].kind \in {"body", "trampoline"}
  BY <1>1, <1>3
<1>8. QED
  BY <1>5, <1>6, <1>7

(* While the call a body waits for is live, no newer live call is in its   *)
(* function, and the guest does not execute it.                            *)
LEMMA Apart ==
  ASSUME Owned, Activations, Ancestry, NEW i \in Waits, frames[i].sp < Len(returns),
         Len(returns) \in Nat
  PROVE  /\ \A m \in 1..Len(returns) : frames[i].sp + 1 < m => Owner[returns[m]] # frames[i].fn
         /\ running \/ (pending /\ target # Root) => Going # frames[i].fn
<1> DEFINE w == frames[i]
           k == w.sp + 1
<1>1. w.sp \in 1..Len(returns) /\ k \in 1..Len(returns) /\ returns[k] = w.site
  BY DEF Activations, WaitsIn
<1>2. w.site \in Sites /\ w.fn \notin Below(w.site)
  BY DEF Owned, Ancestry, Deep
<1>3. w.fn \notin BelowOf(returns[k])
  BY <1>1, <1>2, BelowCloses
<1> HIDE DEF w
<1>4. \A m \in 1..Len(returns) : k < m => Owner[returns[m]] \in BelowOf(returns[k])
  BY <1>1 DEF Ancestry
<1>5. running \/ (pending /\ target # Root) => Going \in BelowOf(returns[k])
  BY <1>1 DEF Ancestry
<1>6. QED
  BY <1>3, <1>4, <1>5 DEF w

(* Neither where control is going nor the next return is mistaken for the  *)
(* return the innermost body waits for, while that is still to come.       *)
Told ==
  \A i \in Waits : Innermost(i) /\ frames[i].sp < Len(returns) =>
    /\ frames[i].sp + 1 < Len(returns) => Owner[ra] # frames[i].fn
    /\ running \/ (pending /\ target # Root) => Going # frames[i].fn

LEMMA AncestryTold ==
  ASSUME IInv, Owned, Activations, Ancestry
  PROVE  Told
<1> SUFFICES ASSUME NEW i \in Waits, frames[i].sp < Len(returns)
             PROVE  /\ frames[i].sp + 1 < Len(returns) => Owner[ra] # frames[i].fn
                    /\ running \/ (pending /\ target # Root) => Going # frames[i].fn
  BY DEF Told
<1>1. Len(returns) \in Nat
  BY LenProperties DEF IInv, GuestInv
<1>2. frames[i].sp \in 1..Len(returns)
  BY DEF Activations, WaitsIn
<1>3. Len(returns) \in 1..Len(returns)
  BY <1>1, <1>2
<1>4. QED
  BY <1>1, <1>3, Apart DEF ra, LastOf

LEMMA AncestryKept ==
  ASSUME Ancestry, NEW W \in SUBSET Waits, Keeps(W), UNCHANGED returns,
         running' \/ (pending' /\ target' # Root) =>
           \A k \in 1..Len(returns) : Going' \in BelowOf(returns[k])
  PROVE  Ancestry'
<1>1. \A i \in Waits' : i \in Waits /\ frames'[i] = frames[i]
  BY DEF Keeps
<1>2. \A i \in Waits' : Deep(frames'[i], returns')
  BY <1>1 DEF Ancestry
<1>3. QED
  BY <1>2 DEF Ancestry

LEMMA AncestryPopped ==
  ASSUME Activations, Ancestry, GuestInv, running, Keeps(Waits), returns' = ButLast(returns),
         running' \/ (pending' /\ target' # Root) =>
           \A k \in 1..(Len(returns) - 1) : Going' \in BelowOf(returns[k])
  PROVE  Ancestry'
<1>1. Len(returns) \in Nat /\ Len(returns) > 0
  BY LenProperties DEF GuestInv, GuestStack
<1>2. /\ Len(returns') = Len(returns) - 1
      /\ \A i \in 1..(Len(returns) - 1) : returns'[i] = returns[i]
  BY <1>1, PopSeq DEF GuestInv, ButLast
<1>3. \A k, m \in 1..Len(returns') : k < m => Owner[returns'[m]] \in BelowOf(returns'[k])
  <2>1. \A k \in 1..Len(returns') : k \in 1..Len(returns) /\ returns'[k] = returns[k]
    BY <1>1, <1>2
  <2>2. QED
    BY <2>1 DEF Ancestry
<1>4. ASSUME NEW i \in Waits PROVE Deep(frames[i], returns')
  <2>1. frames[i].sp \in 1..Len(returns) /\ frames[i].sp < Len(returns)
    BY DEF Activations, WaitsIn
  <2>2. \A k \in 1..frames[i].sp : returns'[k] = returns[k]
    BY <1>1, <1>2, <2>1
  <2>3. QED
    BY <2>2 DEF Ancestry, Deep
<1>5. Waits' = Waits /\ \A i \in Waits : frames'[i] = frames[i]
  BY DEF Keeps
<1>6. running' \/ (pending' /\ target' # Root) =>
        \A k \in 1..Len(returns') : Going' \in BelowOf(returns'[k])
  BY <1>1, <1>2
<1>7. QED
  BY <1>3, <1>4, <1>5, <1>6 DEF Ancestry

LEMMA AncestryPushed ==
  ASSUME Activations, Ancestry, GuestInv, running, NEW c \in Calls, Owner[c[1]] = Top.fn,
         returns' = Append(returns, c[1]), Going' = c[2]
  PROVE  /\ \A k, m \in 1..Len(returns') : k < m => Owner[returns'[m]] \in BelowOf(returns'[k])
         /\ \A k \in 1..Len(returns') : Going' \in BelowOf(returns'[k])
         /\ \A i \in Waits : Deep(frames[i], returns')
         /\ Len(returns) \in Nat
         /\ \A k \in 1..Len(returns) : Top.fn \in BelowOf(returns'[k])
<1>1. Len(returns) \in Nat
  BY LenProperties DEF GuestInv
<1>2. /\ Len(returns') = Len(returns) + 1
      /\ \A i \in 1..Len(returns) : returns'[i] = returns[i]
      /\ returns'[Len(returns) + 1] = c[1]
  BY ProgramTypes, PushSeq DEF GuestInv
<1>3. \A k \in 1..Len(returns) : Top.fn \in BelowOf(returns'[k])
  BY <1>2 DEF Ancestry, Going
<1>4. \A k \in 1..Len(returns) : c[2] \in BelowOf(returns'[k])
  BY <1>3, BelowCloses
<1>5. c[2] \in BelowOf(c[1])
  BY BelowCloses
<1>6. \A k \in 1..Len(returns') : Going' \in BelowOf(returns'[k])
  <2>1. \A k \in 1..Len(returns') : k \in 1..Len(returns) \/ k = Len(returns) + 1
    BY <1>1, <1>2
  <2>2. QED
    BY <1>2, <1>4, <1>5, <2>1
<1>7. ASSUME NEW k \in 1..Len(returns'), NEW m \in 1..Len(returns'), k < m
      PROVE  Owner[returns'[m]] \in BelowOf(returns'[k])
  <2>1. k \in 1..Len(returns)
    BY <1>1, <1>2, <1>7
  <2>2. CASE m = Len(returns) + 1
    BY <1>2, <1>3, <2>1, <2>2
  <2>3. CASE m \in 1..Len(returns)
    BY <1>2, <1>7, <2>1, <2>3 DEF Ancestry
  <2>4. QED
    BY <1>1, <1>2, <2>2, <2>3
<1>8. ASSUME NEW i \in Waits PROVE Deep(frames[i], returns')
  <2>1. frames[i].sp \in 1..Len(returns)
    BY DEF Activations, WaitsIn
  <2>2. \A k \in 1..frames[i].sp : returns'[k] = returns[k]
    BY <1>1, <1>2, <2>1
  <2>3. QED
    BY <2>2 DEF Ancestry, Deep
<1>9. QED
  BY <1>1, <1>3, <1>6, <1>7, <1>8

LEMMA AncestryGuest ==
  ASSUME NotRecursive, IInv, Owned, Activations, Ancestry, GuestStep
  PROVE  Ancestry'
<1>1. HostInv /\ GuestInv
  BY DEF IInv
<1>2. ASSUME running PROVE
      /\ Len(returns) \in Nat /\ Len(returns) > 0 /\ ra = returns[Len(returns)]
      /\ \A k \in 1..Len(returns) : Top.fn \in BelowOf(returns[k])
      /\ \A k \in 1..(Len(returns) - 1) : Owner[ra] \in BelowOf(returns[k])
  <2>1. Len(returns) \in Nat /\ Len(returns) > 0 /\ ra = returns[Len(returns)]
    BY <1>1, <1>2, LenProperties DEF GuestInv, GuestStack, ra, LastOf
  <2>2. \A k \in 1..(Len(returns) - 1) : k \in 1..Len(returns) /\ k < Len(returns)
    BY <2>1
  <2>3. Len(returns) \in 1..Len(returns)
    BY <2>1
  <2>4. \A k \in 1..(Len(returns) - 1) : Owner[ra] \in BelowOf(returns[k])
    BY <2>1, <2>2, <2>3 DEF Ancestry
  <2>5. QED
    BY <1>2, <2>1, <2>4 DEF Ancestry, Going
<1>3. ASSUME NEW c \in Calls, LocalCall(c[1], c[2]) PROVE Ancestry'
  <2>1. /\ running /\ running' /\ Top' = Top
        /\ Top.fn = Owner[c[1]] /\ c[2] = Owner[c[1]]
        /\ returns' = Append(returns, c[1])
    BY <1>3 DEF LocalCall, Executing, Top
  <2>2. Going' = c[2]
    BY <2>1 DEF Going
  <2>3. Keeps(Waits)
    BY <1>3, WaitsSame DEF LocalCall
  <2>4. /\ \A k, m \in 1..Len(returns') : k < m => Owner[returns'[m]] \in BelowOf(returns'[k])
        /\ \A k \in 1..Len(returns') : Going' \in BelowOf(returns'[k])
        /\ \A i \in Waits : Deep(frames[i], returns')
    BY <1>1, <2>1, <2>2, AncestryPushed
  <2>5. QED
    BY <2>3, <2>4 DEF Ancestry, Keeps
<1>4. ASSUME NEW c \in Calls, HostCall(c[1], c[2]) PROVE Ancestry'
  <2>1. /\ c[1] \in Sites /\ c[2] \in Funcs /\ Top.kind = "body" /\ running /\ running'
        /\ Top.fn = Owner[c[1]] /\ Len(returns) > 0 /\ Len(returns) < MaxDepth
        /\ PushCall(c[1], c[2]) /\ returns' = Append(returns, c[1])
        /\ IsHostCall(c)
    BY <1>1, <1>4, ProgramTypes DEF HostCall, Executing, GuestInv, GuestStack, IsHostCall
  <2>2. sp \in 0..MaxDepth
    BY <1>1, <2>1, LenProperties, ProgramAssumption DEF sp, GuestInv
  <2>3. running' = TRUE
    BY <1>1, <1>4, <2>1 DEF HostCall, GuestInv
  <2> DEFINE n == Len(frames)
  <2>4. /\ Waits' = Waits \cup {n}
        /\ \A i \in Waits : frames'[i] = frames[i]
        /\ frames'[n].fn = Top.fn /\ frames'[n].site = c[1] /\ frames'[n].sp = sp
        /\ Top'.fn = c[2]
    BY <1>1, <2>1, <2>2, <2>3, WaitsCall
  <2>5. Going' = c[2]
    BY <2>1, <2>4 DEF Going
  <2>6. /\ \A k, m \in 1..Len(returns') : k < m => Owner[returns'[m]] \in BelowOf(returns'[k])
        /\ \A k \in 1..Len(returns') : Going' \in BelowOf(returns'[k])
        /\ \A i \in Waits : Deep(frames[i], returns')
        /\ \A k \in 1..Len(returns) : Top.fn \in BelowOf(returns'[k])
    BY <1>1, <2>1, <2>5, AncestryPushed
  <2>7. Deep(frames'[n], returns')
    <3>1. Top.fn \notin Below(c[1])
      BY <2>1 DEF NotRecursive
    <3>2. QED
      BY <2>4, <2>6, <3>1 DEF Deep, sp
  <2>8. \A i \in Waits' : Deep(frames'[i], returns')
    BY <2>4, <2>6, <2>7
  <2>9. QED
    BY <2>6, <2>8 DEF Ancestry
<1>5. ASSUME NEW f \in Funcs, TailJump(f) PROVE Ancestry'
  <2>1. /\ running /\ Pop /\ running' = FALSE /\ target' = f /\ UNCHANGED returns
        /\ <<Top.fn, f>> \in Tails
    BY <1>5 DEF TailJump, RequestTailcall
  <2>2. Keeps(Waits)
    BY <1>1, <2>1, WaitsPopRunning
  <2>3. Going' = f
    BY <2>1, ProgramAssumption DEF Going, Home
  <2>4. \A k \in 1..Len(returns) : Going' \in BelowOf(returns[k])
    BY <1>2, <2>1, <2>3, BelowCloses
  <2>5. QED
    BY <2>1, <2>2, <2>4, AncestryKept
<1>6. CASE ReturnToLabel
  <2>1. /\ running /\ UNCHANGED <<frames, running>> /\ returns' = ButLast(returns)
        /\ Owner[ra] = Top.fn /\ Top' = Top
    BY <1>6 DEF ReturnToLabel, IsLabelIn, Top
  <2>2. Keeps(Waits)
    BY <2>1, WaitsSame
  <2>3. Going' = Owner[ra]
    BY <2>1 DEF Going
  <2>4. QED
    BY <1>1, <1>2, <2>1, <2>2, <2>3, AncestryPopped
<1>7. CASE ReturnToHost
  <2>1. /\ running /\ Pop /\ running' = FALSE /\ returns' = ButLast(returns) /\ ~pending'
    BY <1>1, <1>7 DEF ReturnToHost, GuestInv, GuestStack
  <2>2. Keeps(Waits)
    BY <1>1, <2>1, WaitsPopRunning
  <2>3. QED
    BY <1>1, <2>1, <2>2, AncestryPopped
<1>8. ASSUME running, returns' = ButLast(returns), RequestTailcall(ra) PROVE Ancestry'
  <2>1. running /\ Pop /\ running' = FALSE /\ target' = ra
    BY <1>8 DEF RequestTailcall
  <2>2. Keeps(Waits)
    BY <1>1, <2>1, WaitsPopRunning
  <2>3. ASSUME target' # Root
        PROVE  \A k \in 1..(Len(returns) - 1) : Going' \in BelowOf(returns[k])
    <3>1. ra \in Sites
      BY <1>1, <1>2, <2>1, <2>3, <1>8, GuestPop
    <3>2. Going' = Owner[ra]
      BY <2>1, <3>1 DEF Going, Home
    <3>3. QED
      BY <1>2, <1>8, <3>2
  <2>4. QED
    BY <1>1, <1>8, <2>1, <2>2, <2>3, AncestryPopped
<1>9. CASE ReturnElsewhere
  BY <1>8, <1>9 DEF ReturnElsewhere
<1>10. CASE ReturnByRegister
  BY <1>8, <1>10 DEF ReturnByRegister
<1>11. QED
  BY <1>3, <1>4, <1>5, <1>6, <1>7, <1>9, <1>10 DEF GuestStep

(* A call site that takes a callee's return for its own finds $sp as it    *)
(* left it.                                                                *)
LEMMA SpAsLeft ==
  ASSUME IInv, Owned, Activations, Told, Due, CallReturned, pending => ResolvedHere
  PROVE  /\ Innermost(Len(frames)) /\ Top = frames[Len(frames)]
         /\ sp = Top.sp /\ Top.sp = Len(returns)
<1> DEFINE n == Len(frames)
<1>1. /\ HostInv /\ ~running /\ Top.kind = "body" /\ n \in Nat /\ n > 1 /\ Top = frames[n]
      /\ Len(returns) \in Nat
  BY RunningAboveBottom, LenProperties DEF IInv, GuestInv, CallReturned, Top
<1>2. Innermost(n)
  <2>1. n \in Waits
    BY <1>1 DEF Waits, Suspended
  <2>2. \A j \in Waits : j <= n
    BY <1>1, WaitsTypes
  <2>3. QED
    BY <2>1, <2>2 DEF Innermost
<1>3. n \in Waits
  BY <1>2 DEF Innermost
<1>4. Top.site \in Sites /\ Top.fn = Owner[Top.site] /\ Top.sp \in 1..Len(returns)
  BY <1>1, <1>3 DEF Owned, Activations, WaitsIn
<1>5. ASSUME pending PROVE Going = Top.fn /\ target # Root
  BY <1>1, <1>4, <1>5, HostAssumption, ProgramAssumption DEF ResolvedHere, Home, Going
<1>6. Top.sp = Len(returns)
  <2>1. CASE pending
    <3>1. ~ (Top.sp < Len(returns))
      BY <1>1, <1>2, <1>3, <1>5, <2>1 DEF Told
    <3>2. QED
      BY <1>1, <1>4, <3>1
  <2>2. CASE ~pending
    BY <1>1, <1>2, <1>3, <2>2 DEF Due
  <2>3. QED
    BY <2>1, <2>2
<1>7. QED
  BY <1>1, <1>2, <1>6 DEF sp

LEMMA AncestryHost ==
  ASSUME IInv, Owned, Activations, Ancestry, Told, Due, HostStep
  PROVE  Ancestry'
<1>1. HostInv /\ GuestInv
  BY DEF IInv
<1>2. ASSUME CallReturned, RestoreAndResume, UNCHANGED returns, pending => ResolvedHere
      PROVE  Ancestry'
  <2>1. ~running /\ Top.kind = "body"
    BY <1>2 DEF CallReturned
  <2>2. /\ sp = Top.sp
        /\ \A k \in 1..Len(returns) : Top.fn \in BelowOf(returns[k])
    <3>1. Innermost(Len(frames)) /\ Top = frames[Len(frames)] /\ sp = Top.sp /\ Top.sp = Len(returns)
      BY <1>2, SpAsLeft
    <3>2. Deep(Top, returns)
      BY <3>1 DEF Innermost, Ancestry
    <3>3. QED
      BY <3>1, <3>2 DEF Deep
  <2>3. running' = TRUE /\ SetTop(Body(Top.fn))
    BY <1>2, <2>2 DEF RestoreAndResume
  <2>4. Keeps(Waits \ {Len(frames)}) /\ Top'.fn = Top.fn
    BY <1>1, <2>1, <2>3, WaitsResume
  <2>5. Going' = Top.fn
    BY <2>3, <2>4 DEF Going
  <2>6. QED
    BY <1>2, <2>2, <2>4, <2>5, AncestryKept
<1>3. CASE CallDone
  BY <1>2, <1>3 DEF CallDone
<1>4. CASE ResolvePending
  BY <1>2, <1>4 DEF ResolvePending
<1>5. ASSUME ~running, ~running', UNCHANGED <<target, pending>>
      PROVE  running' \/ (pending' /\ target' # Root) =>
               \A k \in 1..Len(returns) : Going' \in BelowOf(returns[k])
  BY <1>5 DEF Ancestry, Going
<1>6. CASE Bubble
  <2>1. /\ ~running /\ ~running' /\ Top.kind = "body" /\ Pop
        /\ UNCHANGED <<returns, target, pending>>
    BY <1>6 DEF Bubble, CallReturned
  <2>2. Keeps(Waits \ {Len(frames)})
    BY <1>1, <2>1, RunningAboveBottom, WaitsPop
  <2>3. QED
    BY <1>5, <2>1, <2>2, AncestryKept
<1>7. CASE Drain
  <2>1. /\ ~running /\ ~running' /\ Top.kind = "body" /\ Push(Trampoline(hostReturn))
        /\ UNCHANGED <<returns, target, pending>>
    BY <1>7 DEF Drain, CallReturned
  <2>2. Keeps(Waits)
    BY <1>1, <2>1, WaitsDrain
  <2>3. QED
    BY <1>5, <2>1, <2>2, AncestryKept
<1>8. CASE Dispatch
  <2>1. /\ ~running /\ running' = TRUE /\ Push(Body(Home(target))) /\ UNCHANGED returns
        /\ pending /\ target # Root
    BY <1>8 DEF Dispatch, InTrampoline
  <2>2. Keeps(Waits) /\ Top'.fn = Home(target)
    <3>1. Home(target) \in Funcs \cup {Root}
      BY <1>1, ProgramTypes DEF GuestInv
    <3>2. QED
      BY <1>1, <2>1, <3>1, WaitsDispatch
  <2>3. Going' = Going
    BY <2>1, <2>2 DEF Going
  <2>4. \A k \in 1..Len(returns) : Going' \in BelowOf(returns[k])
    BY <2>1, <2>3 DEF Ancestry
  <2>5. QED
    BY <2>1, <2>2, <2>4, AncestryKept
<1>9. CASE LeaveTrampoline
  <2>1. /\ ~running /\ ~running' /\ Len(frames) > 1 /\ Pop /\ ~pending' /\ UNCHANGED returns
    BY <1>9 DEF LeaveTrampoline, InTrampoline
  <2>2. Keeps(Waits \ {Len(frames)})
    BY <1>1, <2>1, WaitsPop
  <2>3. QED
    BY <2>1, <2>2, AncestryKept
<1>10. QED
  BY <1>3, <1>4, <1>6, <1>7, <1>8, <1>9 DEF HostStep

(* Whatever leaves nothing executing and nothing pending is the return the *)
(* innermost body waits for; so no call site gives up.                     *)
LEMMA DueStep ==
  ASSUME IInv, Owned, Alternate, Activations, Told, Due, NoMismatch, [Next]_vars
  PROVE  Due' /\ NoMismatch'
<1>1. HostInv /\ GuestInv /\ Len(returns) \in Nat
  BY LenProperties DEF IInv, GuestInv
<1>2. ASSUME running' \/ pending', UNCHANGED mismatch PROVE Due' /\ NoMismatch'
  BY <1>2 DEF Due, NoMismatch
<1>3. ASSUME NEW c \in Calls, LocalCall(c[1], c[2]) PROVE Due' /\ NoMismatch'
  BY <1>2, <1>3 DEF LocalCall, Executing
<1>4. ASSUME NEW c \in Calls, HostCall(c[1], c[2]) PROVE Due' /\ NoMismatch'
  BY <1>2, <1>4 DEF HostCall, Executing
<1>5. ASSUME NEW f \in Funcs, TailJump(f) PROVE Due' /\ NoMismatch'
  BY <1>2, <1>5 DEF TailJump, RequestTailcall
<1>6. CASE ReturnToLabel
  BY <1>2, <1>6 DEF ReturnToLabel
<1>7. CASE ReturnToHost
  <2>1. /\ running /\ Pop /\ running' = FALSE /\ returns' = ButLast(returns)
        /\ ra = hostReturn /\ UNCHANGED mismatch
    BY <1>7 DEF ReturnToHost
  <2>2. Keeps(Waits)
    BY <1>1, <2>1, WaitsPopRunning
  <2>3. Len(returns) > 0 /\ ra = returns[Len(returns)] /\ Len(returns') = Len(returns) - 1
    BY <1>1, <2>1, GuestPop DEF GuestInv, GuestStack, ra, LastOf
  <2>4. ASSUME NEW i \in Waits, Innermost(i) PROVE frames[i].sp = Len(returns) - 1
    <3>1. ra = frames[i].site
      BY <1>1, <2>1, <2>4, InnermostTarget
    <3>2. Owner[returns[Len(returns)]] = frames[i].fn
      BY <2>3, <3>1 DEF Owned
    <3>3. frames[i].sp \in 1..Len(returns) /\ frames[i].sp < Len(returns)
      BY <2>1 DEF Activations, WaitsIn
    <3>4. ~ (frames[i].sp + 1 < Len(returns))
      BY <2>3, <2>4, <3>2, <3>3 DEF Told
    <3>5. QED
      BY <1>1, <3>3, <3>4
  <2>5. Due'
    BY <2>2, <2>3, <2>4 DEF Due, Innermost, Keeps
  <2>6. QED
    BY <2>1, <2>5 DEF NoMismatch
<1>8. CASE ReturnElsewhere
  BY <1>2, <1>8 DEF ReturnElsewhere, RequestTailcall
<1>9. CASE ReturnByRegister
  BY <1>2, <1>9 DEF ReturnByRegister, RequestTailcall
<1>10. ASSUME CallReturned, RestoreAndResume, pending => ResolvedHere
       PROVE  Due' /\ NoMismatch'
  <2>1. sp = Top.sp
    BY <1>10, SpAsLeft
  <2>2. QED
    BY <1>2, <1>10, <2>1 DEF RestoreAndResume
<1>11. CASE CallDone
  BY <1>10, <1>11 DEF CallDone
<1>12. CASE ResolvePending
  BY <1>10, <1>12 DEF ResolvePending
<1>13. CASE Bubble
  BY <1>2, <1>13 DEF Bubble
<1>14. CASE Drain
  BY <1>2, <1>14 DEF Drain
<1>15. CASE Dispatch
  BY <1>2, <1>15 DEF Dispatch
<1>16. CASE LeaveTrampoline
  <2>1. /\ ~running /\ ~running' /\ Top.kind = "trampoline" /\ Len(frames) > 1 /\ Pop
        /\ UNCHANGED <<returns, mismatch>>
        /\ pending => target = hostReturn
    BY <1>16 DEF LeaveTrampoline, InTrampoline
  <2>2. Keeps(Waits)
    <3>1. Keeps(Waits \ {Len(frames)})
      BY <1>1, <2>1, WaitsPop
    <3>2. Waits \ {Len(frames)} = Waits
      BY <2>1 DEF Waits, Top
    <3>3. QED
      BY <3>1, <3>2
  <2>3. ASSUME NEW i \in Waits, Innermost(i) PROVE frames[i].sp = Len(returns)
    <3>1. CASE pending
      <4>1. target = frames[i].site
        BY <1>1, <2>1, <2>3, <3>1, InnermostTarget
      <4>2. target \in Sites /\ Going = frames[i].fn
        BY <2>1, <4>1 DEF Owned, Going, Home
      <4>3. target # Root
        BY <4>2, ProgramAssumption
      <4>4. ~ (frames[i].sp < Len(returns))
        BY <2>3, <3>1, <4>2, <4>3 DEF Told
      <4>5. frames[i].sp \in 1..Len(returns)
        BY DEF Activations, WaitsIn
      <4>6. QED
        BY <1>1, <4>4, <4>5
    <3>2. CASE ~pending
      BY <2>1, <2>3, <3>2 DEF Due
    <3>3. QED
      BY <3>1, <3>2
  <2>4. Due'
    BY <2>1, <2>2, <2>3 DEF Due, Innermost, Keeps
  <2>5. QED
    BY <2>1, <2>4 DEF NoMismatch
<1>17. CASE UNCHANGED vars
  BY <1>17 DEF vars, Due, NoMismatch, Innermost, Waits, Suspended
<1>18. QED
  BY <1>3, <1>4, <1>5, <1>6, <1>7, <1>8, <1>9, <1>11, <1>12, <1>13, <1>14, <1>15,
     <1>16, <1>17 DEF Next, GuestStep, HostStep, Done

LEMMA AncestryInit == Init => Ancestry /\ Due /\ NoMismatch
<1> SUFFICES ASSUME Init PROVE Ancestry /\ Due /\ NoMismatch
  OBVIOUS
<1>1. /\ Len(frames) = 2 /\ frames[1].kind = "trampoline"
      /\ frames[2].kind = "body" /\ frames[2].fn = Entry /\ running
      /\ Len(returns) = 1 /\ returns[1] = Root /\ ~mismatch
  BY DEF Init, Trampoline, Body
<1>2. Waits = {}
  BY <1>1 DEF Waits, Suspended
<1>3. Going = Entry
  BY <1>1 DEF Going, Top
<1>4. Ancestry
  BY <1>1, <1>2, <1>3, ProgramAssumption DEF Ancestry, BelowOf
<1>5. QED
  BY <1>1, <1>4 DEF Due, NoMismatch

LEMMA AncestryStep ==
  /\ NotRecursive /\ IInv /\ Owned /\ Alternate /\ Activations
  /\ Ancestry /\ Due /\ NoMismatch /\ [Next]_vars
  => Ancestry' /\ Due' /\ NoMismatch'
<1> SUFFICES ASSUME NotRecursive, IInv, Owned, Alternate, Activations,
                    Ancestry, Due, NoMismatch, [Next]_vars
             PROVE  Ancestry' /\ Due' /\ NoMismatch'
  OBVIOUS
<1> Told
  BY AncestryTold
<1>1. CASE UNCHANGED vars
  <2>1. Top' = Top /\ Waits' = Waits
    BY <1>1 DEF vars, Top, Waits, Suspended
  <2>2. Going' = Going
    BY <1>1, <2>1 DEF vars, Going
  <2>3. Ancestry'
    BY <1>1, <2>1, <2>2 DEF vars, Ancestry
  <2>4. QED
    BY <2>3, DueStep
<1>2. QED
  BY <1>1, AncestryGuest, AncestryHost, DueStep DEF Next, Done

(* In a program without recursion no call site ever finds $sp changed,     *)
(* whatever the nesting limit: a bubbled return skips only call sites that *)
(* are not its own.  bubbled_recursion shows that recursion is the limit.  *)
THEOREM NeverMismatches == NotRecursive => (Spec => []NoMismatch)
<1> SUFFICES ASSUME NotRecursive PROVE Spec => []NoMismatch
  OBVIOUS
<1>1. Init => Owned /\ Alternate /\ Activations /\ Ancestry /\ Due /\ NoMismatch
  BY OwnedInit, ActivationsInit, AncestryInit
<1>2. IInv /\ Owned /\ Alternate /\ Activations /\ [Next]_vars
        => Owned' /\ Alternate' /\ Activations'
  BY OwnedStep, ActivationsStep, NotRecursiveNeverReenters
<1>3. /\ IInv /\ Owned /\ Alternate /\ Activations /\ Ancestry /\ Due /\ NoMismatch
      /\ [Next]_vars
      => Ancestry' /\ Due' /\ NoMismatch'
  BY AncestryStep
<1>4. QED
  BY <1>1, <1>2, <1>3, Invariance, PTL DEF Spec

(* A program without recursion is followed to its end.                     *)
THEOREM Follows == NotRecursive => (Spec => FollowsGuest)
<1> SUFFICES ASSUME NotRecursive PROVE Spec => FollowsGuest
  OBVIOUS
<1>1. Spec => []NoMismatch
  BY NeverMismatches
<1>2. QED
  BY <1>1, FollowsUntilMismatch, PTL

-----------------------------------------------------------------------------
(* Recursive programs, as long as no tail call is bubbled up: the innermost*)
(* waiting body is then always the one whose callee's code is executing.   *)
Guesting == running \/ (pending /\ target # Root)

Close ==
  /\ \A i \in Waits, k \in 1..Len(returns) : frames[i].sp + 1 < k =>
        \/ Owner[returns[k]] \in Entered(frames[i].site)
        \/ \E j \in Waits : i < j /\ frames[j].sp + 1 < k
  /\ \A i, j \in Waits : i < j =>
        \/ frames[j].fn \in Entered(frames[i].site)
        \/ \E m \in Waits : i < m /\ m < j
  /\ \A i \in Waits : Innermost(i) /\ frames[i].sp < Len(returns) /\ Guesting
        => Going \in Entered(frames[i].site)

LEMMA CloseTold ==
  ASSUME IInv, Activations, Close
  PROVE  Told
<1>1. Len(returns) \in Nat
  BY LenProperties DEF IInv, GuestInv
<1>2. SUFFICES ASSUME NEW i \in Waits, Innermost(i), frames[i].sp < Len(returns)
               PROVE  /\ frames[i].sp + 1 < Len(returns) => Owner[ra] # frames[i].fn
                      /\ Guesting => Going # frames[i].fn
  BY DEF Told, Guesting
<1>3. frames[i].sp \in 1..Len(returns) /\ frames[i].fn \notin Entered(frames[i].site)
  BY DEF Activations, WaitsIn
<1>4. Guesting => Going \in Entered(frames[i].site)
  BY <1>2 DEF Close
<1>5. ASSUME frames[i].sp + 1 < Len(returns) PROVE Owner[ra] \in Entered(frames[i].site)
  <2>1. Len(returns) \in 1..Len(returns)
    BY <1>1, <1>3
  <2>2. ~ \E j \in Waits : i < j
    <3>1. \A j \in Waits : j <= i /\ i \in Nat /\ j \in Nat
      BY <1>2, WaitsTypes DEF Innermost, IInv
    <3>2. QED
      BY <3>1
  <2>3. QED
    BY <1>5, <2>1, <2>2 DEF Close, ra, LastOf
<1>6. QED
  BY <1>3, <1>4, <1>5

LEMMA CloseKept ==
  ASSUME Close, Keeps(Waits), Len(returns) \in Nat, Len(returns') \in Nat,
         Len(returns') <= Len(returns),
         \A k \in 1..Len(returns') : returns'[k] = returns[k],
         \A i \in Waits : Innermost(i) /\ frames[i].sp < Len(returns') /\ Guesting'
                          => Going' \in Entered(frames[i].site)
  PROVE  Close'
<1>1. Waits' = Waits /\ \A i \in Waits : frames'[i] = frames[i]
  BY DEF Keeps
<1>2. \A i \in Waits : Innermost(i)' => Innermost(i)
  BY <1>1 DEF Innermost
<1>3. \A i \in Waits, k \in 1..Len(returns') : frames[i].sp + 1 < k =>
        \/ Owner[returns'[k]] \in Entered(frames[i].site)
        \/ \E j \in Waits : i < j /\ frames[j].sp + 1 < k
  <2>1. \A k \in 1..Len(returns') : k \in 1..Len(returns) /\ returns'[k] = returns[k]
    OBVIOUS
  <2>2. QED
    BY <2>1 DEF Close
<1>4. \A i, j \in Waits : i < j =>
        \/ frames[j].fn \in Entered(frames[i].site)
        \/ \E m \in Waits : i < m /\ m < j
  BY DEF Close
<1>5. QED
  BY <1>1, <1>2, <1>3, <1>4 DEF Close

(* A guest call: what executes becomes an activation, owed to the          *)
(* innermost waiting body.                                                 *)
LEMMA CloseCalled ==
  ASSUME IInv, Activations, Close, running, NEW s \in Sites, Owner[s] = Top.fn,
         returns' = Append(returns, s)
  PROVE  /\ \A i \in Waits : \/ Top.fn \in Entered(frames[i].site)
                             \/ \E j \in Waits : i < j
         /\ \A i \in Waits, k \in 1..Len(returns') : frames[i].sp + 1 < k =>
              \/ Owner[returns'[k]] \in Entered(frames[i].site)
              \/ \E j \in Waits : i < j /\ frames[j].sp + 1 < k
<1>1. Len(returns) \in Nat
  BY LenProperties DEF IInv, GuestInv
<1>2. /\ Len(returns') = Len(returns) + 1
      /\ \A i \in 1..Len(returns) : returns'[i] = returns[i]
      /\ returns'[Len(returns) + 1] = s
  BY PushSeq DEF IInv, GuestInv
<1>3. \A i \in Waits : frames[i].sp < Len(returns) /\ frames[i].sp \in Nat /\ i \in Nat
  <2>1. \A i \in Waits : frames[i].sp < Len(returns) /\ frames[i].sp \in 1..Len(returns)
    BY DEF Activations, WaitsIn
  <2>2. \A i \in Waits : i \in Nat
    BY WaitsTypes DEF IInv
  <2>3. QED
    BY <1>1, <2>1, <2>2
<1>4. ASSUME NEW i \in Waits, ~ \E j \in Waits : i < j
      PROVE  Top.fn \in Entered(frames[i].site)
  <2>1. Innermost(i)
    BY <1>3, <1>4 DEF Innermost
  <2>2. QED
    BY <1>3, <2>1 DEF Close, Guesting, Going
<1>5. ASSUME NEW i \in Waits, NEW k \in 1..Len(returns'), frames[i].sp + 1 < k
      PROVE  \/ Owner[returns'[k]] \in Entered(frames[i].site)
             \/ \E j \in Waits : i < j /\ frames[j].sp + 1 < k
  <2>1. CASE k \in 1..Len(returns)
    BY <1>2, <1>5, <2>1 DEF Close
  <2>2. CASE k = Len(returns) + 1
    <3>1. ASSUME NEW j \in Waits PROVE frames[j].sp + 1 < k
      BY <1>1, <1>3, <2>2
    <3>2. QED
      BY <1>2, <1>4, <2>2, <3>1
  <2>3. QED
    BY <1>1, <1>2, <2>1, <2>2
<1>6. QED
  BY <1>4, <1>5

LEMMA CloseGuest ==
  ASSUME IInv, Activations, Close, GuestStep
  PROVE  Close'
<1>1. HostInv /\ GuestInv /\ Len(returns) \in Nat
  BY LenProperties DEF IInv, GuestInv
<1>2. \A i \in Waits : i \in Nat /\ frames[i].sp \in Nat
  <2>1. \A i \in Waits : frames[i].sp \in 1..Len(returns)
    BY DEF Activations, WaitsIn
  <2>2. QED
    BY <1>1, <2>1, WaitsTypes
<1>3. ASSUME running, returns' = ButLast(returns), Keeps(Waits),
             Guesting' => Going' = Owner[ra]
      PROVE  Close'
  <2>1. Len(returns) > 0 /\ ra = returns[Len(returns)]
    BY <1>1, <1>3 DEF GuestInv, GuestStack, ra, LastOf
  <2>2. /\ Len(returns') = Len(returns) - 1
        /\ \A k \in 1..(Len(returns) - 1) : returns'[k] = returns[k]
    BY <1>1, <2>1, <1>3, PopSeq DEF GuestInv, ButLast
  <2>3. ASSUME NEW i \in Waits, Innermost(i), frames[i].sp < Len(returns'), Guesting'
        PROVE  Going' \in Entered(frames[i].site)
    <3>1. Len(returns) \in 1..Len(returns) /\ frames[i].sp + 1 < Len(returns)
      BY <1>1, <1>2, <2>1, <2>2, <2>3
    <3>2. ~ \E j \in Waits : i < j
      BY <1>2, <2>3 DEF Innermost
    <3>3. QED
      BY <1>3, <2>1, <2>3, <3>1, <3>2 DEF Close
  <2>4. QED
    BY <1>1, <1>3, <2>1, <2>2, <2>3, CloseKept
<1>4. ASSUME NEW c \in Calls, LocalCall(c[1], c[2]) PROVE Close'
  <2>1. /\ c[1] \in Sites /\ running /\ Top.fn = Owner[c[1]] /\ returns' = Append(returns, c[1])
        /\ UNCHANGED <<frames, running>>
    BY <1>4, ProgramTypes DEF LocalCall, Executing
  <2>2. /\ \A i \in Waits : \/ Top.fn \in Entered(frames[i].site)
                            \/ \E j \in Waits : i < j
        /\ \A i \in Waits, k \in 1..Len(returns') : frames[i].sp + 1 < k =>
             \/ Owner[returns'[k]] \in Entered(frames[i].site)
             \/ \E j \in Waits : i < j /\ frames[j].sp + 1 < k
    BY <2>1, CloseCalled
  <2>3. Waits' = Waits /\ Going' = Top.fn
    BY <2>1 DEF Waits, Suspended, Going, Top
  <2>4. \A i \in Waits : Innermost(i) => Top.fn \in Entered(frames[i].site)
    BY <1>2, <2>2 DEF Innermost
  <2>5. \A i \in Waits : Innermost(i)' => Innermost(i)
    BY <2>3 DEF Innermost
  <2>6. \A i, j \in Waits : i < j =>
           \/ frames[j].fn \in Entered(frames[i].site)
           \/ \E m \in Waits : i < m /\ m < j
    BY DEF Close
  <2>7. QED
    BY <2>1, <2>2, <2>3, <2>4, <2>5, <2>6 DEF Close
<1>5. ASSUME NEW c \in Calls, HostCall(c[1], c[2]) PROVE Close'
  <2>1. /\ c[1] \in Sites /\ c[2] \in Funcs /\ Top.kind = "body" /\ running /\ running'
        /\ Top.fn = Owner[c[1]] /\ Len(returns) > 0 /\ Len(returns) < MaxDepth
        /\ PushCall(c[1], c[2]) /\ returns' = Append(returns, c[1])
    BY <1>1, <1>5, ProgramTypes DEF HostCall, Executing, GuestInv, GuestStack
  <2>2. sp \in 0..MaxDepth
    BY <1>1, <2>1, ProgramAssumption DEF sp
  <2>3. running' = TRUE
    BY <1>1, <1>5, <2>1 DEF HostCall, GuestInv
  <2> DEFINE n == Len(frames)
  <2>4. /\ Waits' = Waits \cup {n}
        /\ n \notin Waits
        /\ \A i \in Waits : i < n /\ frames'[i] = frames[i]
        /\ frames'[n].fn = Top.fn /\ frames'[n].site = c[1] /\ frames'[n].sp = sp
        /\ Top'.fn = c[2]
    BY <1>1, <2>1, <2>2, <2>3, WaitsCall
  <2>5. n \in Nat
    BY <1>1, WaitsTypes
  <2> HIDE DEF n
  <2>6. /\ \A i \in Waits : \/ Top.fn \in Entered(frames[i].site)
                            \/ \E j \in Waits : i < j
        /\ \A i \in Waits, k \in 1..Len(returns') : frames[i].sp + 1 < k =>
             \/ Owner[returns'[k]] \in Entered(frames[i].site)
             \/ \E j \in Waits : i < j /\ frames[j].sp + 1 < k
    BY <2>1, CloseCalled
  <2>7. \A i \in Waits', k \in 1..Len(returns') : frames'[i].sp + 1 < k =>
           \/ Owner[returns'[k]] \in Entered(frames'[i].site)
           \/ \E j \in Waits' : i < j /\ frames'[j].sp + 1 < k
    <3>1. \A k \in 1..Len(returns') : ~ (frames'[n].sp + 1 < k)
      <4>1. Len(returns') = Len(returns) + 1
        BY <1>1, <2>1, PushSeq DEF GuestInv
      <4>2. QED
        BY <1>1, <2>4, <4>1 DEF sp
    <3>2. ASSUME NEW i \in Waits, NEW k \in 1..Len(returns'), frames'[i].sp + 1 < k
          PROVE  \/ Owner[returns'[k]] \in Entered(frames'[i].site)
                 \/ \E j \in Waits' : i < j /\ frames'[j].sp + 1 < k
      BY <2>4, <2>6, <3>2
    <3>3. QED
      BY <2>4, <3>1, <3>2
  <2>8. \A i, j \in Waits' : i < j =>
           \/ frames'[j].fn \in Entered(frames'[i].site)
           \/ \E m \in Waits' : i < m /\ m < j
    <3>1. ASSUME NEW i \in Waits, NEW j \in Waits, i < j
          PROVE  \/ frames'[j].fn \in Entered(frames'[i].site)
                 \/ \E m \in Waits' : i < m /\ m < j
      BY <2>4, <3>1 DEF Close
    <3>2. ASSUME NEW i \in Waits
          PROVE  \/ frames'[n].fn \in Entered(frames'[i].site)
                 \/ \E m \in Waits' : i < m /\ m < n
      BY <2>4, <2>6
    <3>3. \A j \in Waits' : ~ (n < j)
      BY <1>2, <2>4, <2>5
    <3>4. QED
      BY <2>4, <3>1, <3>2, <3>3
  <2>9. \A i \in Waits' : Innermost(i)' => i = n
    <3>1. n \in Waits'
      BY <2>4
    <3>2. \A i \in Waits : ~ (n <= i)
      BY <1>2, <2>4, <2>5
    <3>3. QED
      BY <2>4, <3>1, <3>2 DEF Innermost
  <2>10. Going' = c[2] /\ c[2] \in Entered(c[1])
    BY <2>3, <2>4, EnteredCloses DEF Going
  <2>11. QED
    BY <2>4, <2>7, <2>8, <2>9, <2>10 DEF Close
<1>6. ASSUME NEW f \in Funcs, TailJump(f) PROVE Close'
  <2>1. /\ running /\ Pop /\ running' = FALSE /\ target' = f /\ UNCHANGED returns
        /\ <<Top.fn, f>> \in Tails
    BY <1>6 DEF TailJump, RequestTailcall
  <2>2. Keeps(Waits)
    BY <1>1, <2>1, WaitsPopRunning
  <2>3. Going' = f
    BY <2>1, ProgramAssumption DEF Going, Home
  <2>4. ASSUME NEW i \in Waits, Innermost(i) PROVE f \in Entered(frames[i].site)
    <3>1. frames[i].sp < Len(returns)
      BY <2>1 DEF Activations
    <3>2. Top.fn \in Entered(frames[i].site)
      BY <2>1, <2>4, <3>1 DEF Close, Guesting, Going
    <3>3. QED
      BY <2>1, <3>2, EnteredCloses
  <2>5. QED
    BY <1>1, <2>1, <2>2, <2>3, <2>4, CloseKept
<1>7. CASE ReturnToLabel
  <2>1. /\ running /\ UNCHANGED <<frames, running>> /\ returns' = ButLast(returns)
        /\ Owner[ra] = Top.fn /\ Top' = Top
    BY <1>7 DEF ReturnToLabel, IsLabelIn, Top
  <2>2. Going' = Owner[ra] /\ Keeps(Waits)
    BY <2>1, WaitsSame DEF Going
  <2>3. QED
    BY <1>3, <2>1, <2>2
<1>8. CASE ReturnToHost
  <2>1. running /\ Pop /\ running' = FALSE /\ returns' = ButLast(returns) /\ ~pending'
    BY <1>1, <1>8 DEF ReturnToHost, GuestInv, GuestStack
  <2>2. Keeps(Waits) /\ ~Guesting'
    BY <1>1, <2>1, WaitsPopRunning DEF Guesting
  <2>3. QED
    BY <1>3, <2>1, <2>2
<1>9. ASSUME running, returns' = ButLast(returns), RequestTailcall(ra) PROVE Close'
  <2>1. running /\ Pop /\ running' = FALSE /\ target' = ra
    BY <1>9 DEF RequestTailcall
  <2>2. Keeps(Waits)
    BY <1>1, <2>1, WaitsPopRunning
  <2>3. ASSUME target' # Root PROVE Going' = Owner[ra]
    <3>1. Len(returns) > 0
      BY <1>1, <1>9 DEF GuestInv, GuestStack
    <3>2. ra \in Sites
      BY <1>1, <1>9, <2>1, <2>3, <3>1, GuestPop
    <3>3. QED
      BY <2>1, <3>2 DEF Going, Home
  <2>4. QED
    BY <1>3, <1>9, <2>1, <2>2, <2>3 DEF Guesting
<1>10. QED
  BY <1>4, <1>5, <1>6, <1>7, <1>8, <1>9 DEF GuestStep, ReturnElsewhere, ReturnByRegister

LEMMA CloseHost ==
  ASSUME IInv, Owned, Activations, Close, Due, ~Bubble, HostStep
  PROVE  Close'
<1>1. HostInv /\ GuestInv /\ Len(returns) \in Nat
  BY LenProperties DEF IInv, GuestInv
<1>2. ASSUME Keeps(Waits), UNCHANGED returns, Guesting' => Guesting /\ Going' = Going
      PROVE  Close'
  <2>1. \A i \in Waits : Innermost(i) /\ frames[i].sp < Len(returns) /\ Guesting'
                         => Going' \in Entered(frames[i].site)
    BY <1>2 DEF Close
  <2>2. QED
    BY <1>1, <1>2, <2>1, CloseKept
<1>3. ASSUME CallReturned, RestoreAndResume, UNCHANGED returns, pending => ResolvedHere
      PROVE  Close'
  <2> DEFINE n == Len(frames)
  <2>1. ~running /\ Top.kind = "body"
    BY <1>3 DEF CallReturned
  <2>2. Innermost(n) /\ Top = frames[n] /\ sp = Top.sp /\ Top.sp = Len(returns)
    BY <1>3, CloseTold, SpAsLeft
  <2>3. running' = TRUE /\ SetTop(Body(Top.fn))
    BY <1>3, <2>2 DEF RestoreAndResume
  <2>4. Keeps(Waits \ {n}) /\ Top'.fn = Top.fn
    BY <1>1, <2>1, <2>3, WaitsResume
  <2>5. n \in Waits /\ n \in Nat /\ frames[n].sp = Len(returns) /\ Going' = frames[n].fn
        /\ \A i \in Waits : i \in Nat /\ i <= n
    BY <1>1, <2>2, <2>3, <2>4, WaitsTypes DEF Innermost, Going
  <2> HIDE DEF n
  <2> DEFINE W == Waits \ {n}
  <2>6. Waits' = W /\ \A i \in W : frames'[i] = frames[i]
    BY <2>4 DEF Keeps
  <2>7. \A i \in W, k \in 1..Len(returns) : frames[i].sp + 1 < k =>
           \/ Owner[returns[k]] \in Entered(frames[i].site)
           \/ \E j \in W : i < j /\ frames[j].sp + 1 < k
    <3>1. \A k \in 1..Len(returns) : ~ (frames[n].sp + 1 < k)
      BY <1>1, <2>5
    <3>2. QED
      BY <3>1 DEF Close
  <2>8. \A i, j \in W : i < j =>
           \/ frames[j].fn \in Entered(frames[i].site)
           \/ \E m \in W : i < m /\ m < j
    <3>1. \A j \in Waits : ~ (n < j)
      BY <2>5
    <3>2. QED
      BY <3>1 DEF Close
  <2>9. ASSUME NEW i \in W, \A j \in W : j <= i
        PROVE  frames[n].fn \in Entered(frames[i].site)
    <3>1. i < n
      BY <2>5
    <3>2. ~ \E m \in Waits : i < m /\ m < n
      BY <2>5, <2>9
    <3>3. QED
      BY <2>5, <3>1, <3>2 DEF Close
  <2>10. \A i \in Waits' : Innermost(i)' => Going' \in Entered(frames'[i].site)
    BY <2>5, <2>6, <2>9 DEF Innermost
  <2> HIDE DEF W
  <2>11. QED
    BY <1>3, <2>6, <2>7, <2>8, <2>10 DEF Close
<1>4. CASE CallDone
  BY <1>3, <1>4 DEF CallDone
<1>5. CASE ResolvePending
  BY <1>3, <1>5 DEF ResolvePending
<1>6. CASE Drain
  <2>1. /\ ~running /\ ~running' /\ Top.kind = "body" /\ Push(Trampoline(hostReturn))
        /\ UNCHANGED <<returns, target, pending>>
    BY <1>6 DEF Drain, CallReturned
  <2>2. Keeps(Waits)
    BY <1>1, <2>1, WaitsDrain
  <2>3. QED
    BY <1>2, <2>1, <2>2 DEF Guesting, Going
<1>7. CASE Dispatch
  <2>1. /\ ~running /\ running' = TRUE /\ Push(Body(Home(target))) /\ UNCHANGED returns
        /\ pending /\ target # Root
    BY <1>7 DEF Dispatch, InTrampoline
  <2>2. Keeps(Waits) /\ Top'.fn = Home(target)
    <3>1. Home(target) \in Funcs \cup {Root}
      BY <1>1, ProgramTypes DEF GuestInv
    <3>2. QED
      BY <1>1, <2>1, <3>1, WaitsDispatch
  <2>3. QED
    BY <1>2, <2>1, <2>2 DEF Guesting, Going
<1>8. CASE LeaveTrampoline
  <2>1. /\ ~running /\ ~running' /\ Top.kind = "trampoline" /\ Len(frames) > 1 /\ Pop
        /\ ~pending' /\ UNCHANGED returns
    BY <1>8 DEF LeaveTrampoline, InTrampoline
  <2>2. Keeps(Waits \ {Len(frames)})
    BY <1>1, <2>1, WaitsPop
  <2>3. Waits \ {Len(frames)} = Waits
    BY <2>1 DEF Waits, Top
  <2>4. QED
    BY <1>2, <2>1, <2>2, <2>3 DEF Guesting
<1>9. QED
  BY <1>4, <1>5, <1>6, <1>7, <1>8 DEF HostStep

LEMMA CloseInit == Init => Close
<1> SUFFICES ASSUME Init PROVE Close
  OBVIOUS
<1>1. /\ Len(frames) = 2 /\ frames[1].kind = "trampoline" /\ running
  BY DEF Init, Trampoline
<1>2. Waits = {}
  BY <1>1 DEF Waits, Suspended
<1>3. QED
  BY <1>2 DEF Close

LEMMA CloseStep ==
  /\ NeverReenters /\ IInv /\ Owned /\ Alternate /\ Activations
  /\ Close /\ Due /\ NoMismatch /\ [Next]_vars /\ [~Bubble]_vars
  => Close' /\ Due' /\ NoMismatch'
<1> SUFFICES ASSUME NeverReenters, IInv, Owned, Alternate, Activations,
                    Close, Due, NoMismatch, [Next]_vars, [~Bubble]_vars
             PROVE  Close' /\ Due' /\ NoMismatch'
  OBVIOUS
<1>1. Due' /\ NoMismatch'
  BY CloseTold, DueStep
<1>2. CASE UNCHANGED vars
  <2>1. Top' = Top /\ Waits' = Waits
    BY <1>2 DEF vars, Top, Waits, Suspended
  <2>2. Going' = Going /\ Guesting' = Guesting /\ \A i : Innermost(i)' <=> Innermost(i)
    BY <1>2, <2>1 DEF vars, Going, Guesting, Innermost
  <2>3. Close'
    BY <1>2, <2>1, <2>2 DEF vars, Close
  <2>4. QED
    BY <1>1, <2>3
<1>3. QED
  BY <1>1, <1>2, CloseGuest, CloseHost DEF Next, Done

(* Recursion does no harm as long as the nesting limit bubbles no tail     *)
(* call up: no call site finds $sp changed, at whatever depth.             *)
THEOREM NeverMismatchesUnbubbled ==
  NeverReenters => (Spec /\ [][~Bubble]_vars => []NoMismatch)
<1> SUFFICES ASSUME NeverReenters PROVE Spec /\ [][~Bubble]_vars => []NoMismatch
  OBVIOUS
<1>1. Init => Owned /\ Alternate /\ Activations /\ Close /\ Due /\ NoMismatch
  BY OwnedInit, ActivationsInit, CloseInit, AncestryInit
<1>2. IInv /\ Owned /\ Alternate /\ Activations /\ [Next]_vars
        => Owned' /\ Alternate' /\ Activations'
  BY OwnedStep, ActivationsStep
<1>3. /\ IInv /\ Owned /\ Alternate /\ Activations /\ Close /\ Due /\ NoMismatch
      /\ [Next]_vars /\ [~Bubble]_vars
      => Close' /\ Due' /\ NoMismatch'
  BY CloseStep
<1>4. QED
  BY <1>1, <1>2, <1>3, Invariance, PTL DEF Spec

(* Such executions of a recursive program are followed to their end.       *)
THEOREM FollowsUnbubbled ==
  NeverReenters => (Spec /\ [][~Bubble]_vars => FollowsGuest)
<1> SUFFICES ASSUME NeverReenters PROVE Spec /\ [][~Bubble]_vars => FollowsGuest
  OBVIOUS
<1>1. Spec /\ [][~Bubble]_vars => []NoMismatch
  BY NeverMismatchesUnbubbled
<1>2. QED
  BY <1>1, FollowsUntilMismatch, PTL

(* Each trampoline is above a waiting body of an older activation than the *)
(* innermost one's, whose call is live as well; so calls nested no deeper  *)
(* than one more than the limit leave a trampoline to spare.               *)
Shallow == Len(returns) <= DepthLimit + 1

LEMMA ShallowNeverBubbles ==
  IInv /\ DepthCounted /\ Alternate /\ Activations /\ Shallow => ~Bubble
<1> SUFFICES ASSUME IInv, DepthCounted, Alternate, Activations, Shallow, Bubble PROVE FALSE
  OBVIOUS
<1> DEFINE n == Len(frames)
           d == frames[n].sp - 1
           f == [t \in Nested |-> frames[t - 1].sp]
<1>1. /\ HostInv /\ Len(returns) \in Nat /\ n \in Nat /\ DepthLimit \in Nat
      /\ \A i \in Waits : i \in 2..n /\ frames[i].sp \in 1..Len(returns)
  <2>1. HostInv /\ Len(returns) \in Nat
    BY LenProperties DEF IInv, GuestInv
  <2>2. QED
    BY <2>1, WaitsTypes, HostAssumption DEF Activations, WaitsIn
<1>2. /\ ~running /\ pending /\ target # frames[n].site /\ dispatching >= DepthLimit
      /\ frames[n].kind = "body"
  BY DEF Bubble, CallReturned, ResolvedHere, Top
<1>3. n \in Waits
  <2>1. n \in 1..n
    BY <1>1 DEF HostInv
  <2>2. QED
    BY <1>2, <2>1 DEF Waits, Suspended
<1>4. d \in Nat /\ d + 1 < Len(returns)
  <2>1. frames[n].sp # Len(returns)
    BY <1>2, <1>3 DEF Activations
  <2>2. QED
    BY <1>1, <1>3, <2>1
<1>5. ASSUME NEW t \in Nested PROVE t \in Nat /\ t - 1 \in Waits /\ f[t] \in 1..d
  <2>1. t \in 2..n /\ frames[t - 1].kind = "body"
    BY DEF Nested, Alternate
  <2>2. t \in Nat /\ t - 1 \in 1..n /\ t - 1 < n
    BY <1>1, <2>1
  <2>3. t - 1 \in Waits
    BY <1>2, <2>1, <2>2 DEF Waits, Suspended
  <2>4. frames[t - 1].sp < frames[n].sp
    BY <1>3, <2>2, <2>3 DEF Activations
  <2>5. frames[t - 1].sp \in 1..Len(returns) /\ frames[n].sp \in 1..Len(returns)
    BY <1>1, <1>3, <2>3
  <2>6. QED
    BY <2>2, <2>3, <2>4, <2>5
<1>6. ASSUME NEW t \in Nested, NEW u \in Nested, f[t] = f[u] PROVE t = u
  <2>1. /\ t \in Nat /\ u \in Nat /\ t - 1 \in Waits /\ u - 1 \in Waits
        /\ frames[t - 1].sp = frames[u - 1].sp /\ frames[t - 1].sp \in Nat
    BY <1>1, <1>5, <1>6
  <2>2. ~ (t - 1 < u - 1) /\ ~ (u - 1 < t - 1)
    BY <2>1 DEF Activations
  <2>3. QED
    BY <2>1, <2>2
<1>7. f \in Injection(Nested, 1..d)
  <2>1. f \in [Nested -> 1..d]
    BY <1>5
  <2>2. QED
    BY <1>6, <2>1 DEF Injection, IsInjective
<1> HIDE DEF d, f
<1>8. IsFiniteSet(1..d) /\ Cardinality(1..d) = d
  <2>1. IsFiniteSet(1..d) /\ Cardinality(1..d) = IF 1 > d THEN 0 ELSE d - 1 + 1
    <3>1. 1 \in Int /\ d \in Int
      BY <1>4
    <3>2. QED
      BY <3>1, FS_Interval, Zenon
  <2>2. QED
    BY <1>4, <2>1
<1>9. Cardinality(Nested) <= d
  BY <1>7, <1>8, FS_Injection
<1>10. dispatching = Cardinality(Nested) /\ dispatching \in Nat
  BY NestedFinite, FS_CardinalityType DEF IInv, DepthCounted
<1>11. QED
  BY <1>1, <1>2, <1>4, <1>9, <1>10 DEF Shallow

(* A recursive program is followed wherever its calls nest no deeper than  *)
(* one more than the nesting limit, however many tail calls it makes.      *)
THEOREM FollowsShallow == NeverReenters => (Spec /\ []Shallow => FollowsGuest)
<1> SUFFICES ASSUME NeverReenters PROVE Spec /\ []Shallow => FollowsGuest
  OBVIOUS
<1>1. Init => Owned /\ Alternate /\ Activations
  BY OwnedInit, ActivationsInit
<1>2. IInv /\ Owned /\ Alternate /\ Activations /\ [Next]_vars
        => Owned' /\ Alternate' /\ Activations'
  BY OwnedStep, ActivationsStep
<1>3. IInv /\ DepthCounted /\ Alternate /\ Activations /\ Shallow => [~Bubble]_vars
  BY ShallowNeverBubbles
<1>4. Spec /\ []Shallow => [][~Bubble]_vars
  BY <1>1, <1>2, <1>3, Invariance, PTL DEF Spec
<1>5. Spec /\ [][~Bubble]_vars => FollowsGuest
  BY FollowsUnbubbled
<1>6. QED
  BY <1>4, <1>5, PTL
=============================================================================
