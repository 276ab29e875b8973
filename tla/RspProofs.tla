----------------------------- MODULE RspProofs ------------------------------
(***************************************************************************)
(* The RSP's two sides.  The instruction trace, for every capacity: what a *)
(* reader on the emulator's thread gets is the log that TraceLog           *)
(* describes.  The recompiled microcode, for every text and every overlay: *)
(* the function that runs is the one for what is in IMEM, so the emitted   *)
(* code does what the RSP does and finds its way after every swap.         *)
(***************************************************************************)
EXTENDS TraceRing, RspUcode, Integers, SequenceTheorems, WellFoundedInduction, TLAPS

-----------------------------------------------------------------------------
(* The instruction trace. *)
(* Events copied into the rings completely. *)
Written == IF hook.busy THEN writeIdx - 1 ELSE writeIdx

Types ==
  /\ executed \in 0..MaxInstr
  /\ writeIdx \in 0..executed
  /\ sliding \in [0..Capacity - 1 -> EventRecords]
  /\ boot \in Seq(EventRecords)
  /\ enabled \in BOOLEAN
  /\ hook \in [busy : BOOLEAN, ev : EventRecords, left : SUBSET Fields]
  /\ reader \in [busy : BOOLEAN, idx : 0..MaxInstr, out : EventRecords, left : SUBSET Fields]
  /\ log \in Seq(1..MaxInstr) /\ Len(log) = writeIdx

SlotsWritten ==
  \A i \in 0..Written - 1 :
    ~Evicted(i) => sliding[SlotOf(i)] = Event(i, log[i + 1])

HookWrites ==
  hook.busy =>
    /\ writeIdx > 0
    /\ hook.ev = Event(writeIdx - 1, log[writeIdx])
    /\ \A f \in Fields \ hook.left : sliding[SlotOf(writeIdx - 1)][f] = hook.ev[f]

BootKept ==
  /\ Len(boot) = IF Written < BootCapacity THEN Written ELSE BootCapacity
  /\ \A i \in 1..Len(boot) : boot[i]["data"] = log[i]

ReaderCopies ==
  SharedThread /\ reader.busy =>
    /\ ~hook.busy
    /\ reader.idx < writeIdx /\ ~Evicted(reader.idx)
    /\ \A f \in Fields \ reader.left :
         reader.out[f] = sliding[SlotOf(reader.idx)][f]

IInv == Types /\ SlotsWritten /\ HookWrites /\ BootKept /\ ReaderCopies

-----------------------------------------------------------------------------
LEMMA DivMod ==
  ASSUME NEW c \in Nat \ {0}, NEW i \in Nat
  PROVE  i = c * (i \div c) + (i % c) /\ i \div c \in Int /\ i % c \in 0..c - 1
BY SMTT(20)

LEMMA NoMultipleBetween ==
  ASSUME NEW c \in Nat \ {0}, NEW q \in Int, 0 < c * q, c * q < c
  PROVE  FALSE
<1>1. CASE q >= 1
  <2>1. c * q >= c
    BY <1>1, SMTT(20)
  <2>2. QED
    BY <2>1
<1>2. CASE q <= 0
  <2>1. c * q <= 0
    BY <1>2, SMTT(20)
  <2>2. QED
    BY <2>1
<1>3. QED
  BY <1>1, <1>2

(* Two events less than a ring's length apart have different slots.        *)
LEMMA SlotsDiffer ==
  ASSUME NEW i \in Nat, NEW j \in Nat, i < j, j - i < Capacity
  PROVE  SlotOf(i) # SlotOf(j)
<1> SUFFICES ASSUME i % Capacity = j % Capacity PROVE FALSE
  BY DEF SlotOf
<1> DEFINE p == i \div Capacity
           q == j \div Capacity
<1>1. Capacity \in Nat \ {0}
  BY RingAssumption
<1>2. /\ i = Capacity * p + (i % Capacity) /\ p \in Int
      /\ j = Capacity * q + (j % Capacity) /\ q \in Int
      /\ i % Capacity \in Int
  BY <1>1, DivMod
<1> HIDE DEF p, q
<1>3. j - i = Capacity * q - Capacity * p
  BY <1>1, <1>2
<1>4. Capacity * q - Capacity * p = Capacity * (q - p)
  BY <1>1, <1>2
<1>5. q - p \in Int
  BY <1>2
<1>6. QED
  BY <1>1, <1>3, <1>4, <1>5, NoMultipleBetween

LEMMA SlotRange ==
  ASSUME NEW i \in Nat
  PROVE  SlotOf(i) \in 0..Capacity - 1
BY DivMod, RingAssumption DEF SlotOf

LEMMA EventTypes ==
  ASSUME NEW a \in 0..MaxInstr, NEW b \in 0..MaxInstr
  PROVE  Event(a, b) \in EventRecords
BY DEF Event, EventRecords

LEMMA InitIInv == Init => IInv
<1> SUFFICES ASSUME Init PROVE IInv
  OBVIOUS
<1>1. ZeroEvent \in EventRecords
  BY EventTypes, RingAssumption DEF ZeroEvent, Missing
<1>2. Types
  BY <1>1, RingAssumption DEF Init, Types
<1>3. Written = 0
  BY DEF Init, Written
<1>4. SlotsWritten
  BY <1>3 DEF SlotsWritten
<1>5. HookWrites /\ ReaderCopies
  BY DEF Init, HookWrites, ReaderCopies
<1>6. BootKept
  BY <1>3, RingAssumption DEF BootKept, Init
<1>7. QED
  BY <1>2, <1>4, <1>5, <1>6 DEF IInv

(* A new event is reserved: no slot changes, and its slot's old event      *)
(* leaves the window.                                                      *)
LEMMA ReserveIInv == IInv /\ Reserve => IInv'
<1> SUFFICES ASSUME IInv, Reserve PROVE IInv'
  OBVIOUS
<1>1. /\ writeIdx \in Nat /\ writeIdx' = writeIdx + 1 /\ executed < MaxInstr
      /\ ~hook.busy /\ executed \in 0..MaxInstr /\ executed' = executed + 1
      /\ writeIdx \in 0..executed /\ Capacity \in Nat \ {0} /\ MaxInstr \in Nat
      /\ sliding' = sliding /\ boot' = boot /\ reader' = reader
  BY RingAssumption DEF IInv, Types, Reserve, MayRecord, HookIdle
<1>2. /\ log' \in Seq(1..MaxInstr) /\ Len(log') = writeIdx'
      /\ \A i \in 1..writeIdx : log'[i] = log[i]
      /\ log'[writeIdx + 1] = executed + 1
  <2>1. executed + 1 \in 1..MaxInstr
    BY <1>1
  <2>2. QED
    BY <1>1, <2>1, AppendProperties DEF IInv, Types, Reserve
<1>3. /\ hook'.busy /\ hook'.left = Fields
      /\ hook'.ev = Event(writeIdx, executed + 1)
  BY DEF Reserve
<1>4. Types'
  <2>1. hook' \in [busy : BOOLEAN, ev : EventRecords, left : SUBSET Fields]
    <3>1. Event(writeIdx, executed + 1) \in EventRecords
      BY <1>1, EventTypes
    <3>2. QED
      BY <3>1 DEF Reserve
  <2>2. QED
    BY <1>1, <1>2, <2>1 DEF IInv, Types, Reserve
<1>5. Written = writeIdx /\ Written' = writeIdx
  BY <1>1, <1>3 DEF Written
<1>6. SlotsWritten'
  <2>1. SUFFICES ASSUME NEW i \in 0..writeIdx - 1, ~Evicted(i)'
                 PROVE  sliding[SlotOf(i)] = Event(i, log'[i + 1])
    BY <1>1, <1>5 DEF SlotsWritten, SlotOf, Event
  <2>2. ~Evicted(i)
    BY <1>1, <2>1 DEF Evicted
  <2>3. QED
    BY <1>1, <1>2, <1>5, <2>2 DEF IInv, SlotsWritten
<1>7. HookWrites'
  BY <1>1, <1>2, <1>3 DEF HookWrites
<1>8. BootKept'
  BY <1>1, <1>2, <1>5, RingAssumption DEF IInv, BootKept, Types
<1>9. ReaderCopies'
  BY <1>1 DEF ReaderCopies, IInv, Reserve, MayRecord, ReaderIdle
<1>10. QED
  BY <1>4, <1>6, <1>7, <1>8, <1>9 DEF IInv

(* One field of the event is stored: the other slots of the window are     *)
(* less than a ring's length away.                                         *)
LEMMA StoreFieldIInv ==
  ASSUME IInv, NEW g \in Fields, StoreField(g)
  PROVE  IInv'
<1> DEFINE k == SlotOf(writeIdx - 1)
<1>1. /\ hook.busy /\ writeIdx \in Nat /\ writeIdx > 0
      /\ hook.ev = Event(writeIdx - 1, log[writeIdx]) /\ hook.ev["seq"] = writeIdx - 1
      /\ hook.ev \in EventRecords /\ hook.left \subseteq Fields
      /\ hook' = [hook EXCEPT !.left = @ \ {g}]
      /\ UNCHANGED <<executed, writeIdx, boot, enabled, reader, log>>
  BY DEF IInv, Types, HookWrites, StoreField, Event, Fields
<1>2. hook'.busy /\ hook'.ev = hook.ev /\ hook'.left = hook.left \ {g}
      /\ hook' \in [busy : BOOLEAN, ev : EventRecords, left : SUBSET Fields]
  BY <1>1 DEF IInv, Types
<1>3. k \in 0..Capacity - 1 /\ Capacity \in Nat \ {0}
  BY <1>1, SlotRange, RingAssumption
<1>4. sliding' = [sliding EXCEPT ![k][g] = hook.ev[g]]
  BY <1>1 DEF StoreField
<1> HIDE DEF k
<1>5. /\ sliding' \in [0..Capacity - 1 -> EventRecords]
      /\ \A j \in 0..Capacity - 1 : j # k => sliding'[j] = sliding[j]
      /\ sliding'[k] = [sliding[k] EXCEPT ![g] = hook.ev[g]]
      /\ sliding[k] \in EventRecords
  BY <1>1, <1>3, <1>4 DEF IInv, Types, EventRecords
<1>6. Written = writeIdx - 1 /\ Written' = writeIdx - 1
  BY <1>1, <1>2 DEF Written
<1>7. Types'
  BY <1>1, <1>2, <1>5 DEF IInv, Types
<1>8. SlotsWritten'
  <2>1. SUFFICES ASSUME NEW i \in 0..writeIdx - 1 - 1, ~Evicted(i)
                 PROVE  sliding'[SlotOf(i)] = Event(i, log[i + 1])
    BY <1>1, <1>6 DEF SlotsWritten, SlotOf, Event, Evicted
  <2>2. i \in Nat /\ writeIdx - 1 \in Nat /\ i < writeIdx - 1 /\ writeIdx - 1 - i < Capacity
    BY <1>1, <1>3, <2>1 DEF Evicted
  <2>3. SlotOf(i) # k /\ SlotOf(i) \in 0..Capacity - 1
    BY <2>2, SlotsDiffer, SlotRange DEF k
  <2>4. sliding[SlotOf(i)] = Event(i, log[i + 1])
    BY <1>6, <2>1 DEF IInv, SlotsWritten
  <2>5. QED
    BY <1>5, <2>3, <2>4
<1>9. HookWrites'
  <2>1. \A f \in Fields \ hook'.left : sliding'[k][f] = hook.ev[f]
    <3>1. \A f \in Fields \ hook.left : sliding[k][f] = hook.ev[f]
      BY <1>1 DEF IInv, HookWrites, k
    <3>2. QED
      BY <1>2, <1>5, <3>1 DEF EventRecords
  <2>2. QED
    BY <1>1, <1>2, <2>1 DEF HookWrites, k, SlotOf
<1>10. BootKept'
  BY <1>1, <1>6 DEF IInv, BootKept
<1>11. ReaderCopies'
  BY <1>1 DEF IInv, ReaderCopies
<1>12. QED
  BY <1>7, <1>8, <1>9, <1>10, <1>11 DEF IInv

(* The event is complete: its slot holds it, and the snapshot takes it or  *)
(* is full.                                                                *)
LEMMA BootAppendIInv == IInv /\ BootAppend => IInv'
<1> SUFFICES ASSUME IInv, BootAppend PROVE IInv'
  OBVIOUS
<1>1. /\ hook.busy /\ hook.left = {} /\ writeIdx \in Nat /\ writeIdx > 0
      /\ hook.ev = Event(writeIdx - 1, log[writeIdx]) /\ hook.ev \in EventRecords
      /\ UNCHANGED <<executed, writeIdx, sliding, enabled, reader, log>>
  BY DEF IInv, Types, HookWrites, BootAppend
<1>2. ~hook'.busy /\ hook' \in [busy : BOOLEAN, ev : EventRecords, left : SUBSET Fields]
  BY DEF IInv, Types, BootAppend
<1>3. Written = writeIdx - 1 /\ Written' = writeIdx
  BY <1>1, <1>2 DEF Written
<1>4. sliding[SlotOf(writeIdx - 1)] = Event(writeIdx - 1, log[writeIdx])
  <2>1. SlotOf(writeIdx - 1) \in 0..Capacity - 1
    BY <1>1, SlotRange
  <2>2. sliding[SlotOf(writeIdx - 1)] \in EventRecords
    BY <2>1 DEF IInv, Types
  <2>3. \A f \in Fields : sliding[SlotOf(writeIdx - 1)][f] = hook.ev[f]
    BY <1>1 DEF IInv, HookWrites
  <2>4. QED
    BY <1>1, <2>2, <2>3 DEF EventRecords
<1>5. SlotsWritten'
  <2>1. SUFFICES ASSUME NEW i \in 0..writeIdx - 1, ~Evicted(i)
                 PROVE  sliding[SlotOf(i)] = Event(i, log[i + 1])
    BY <1>1, <1>3 DEF SlotsWritten, SlotOf, Event, Evicted
  <2>2. CASE i = writeIdx - 1
    BY <1>1, <1>4, <2>2
  <2>3. CASE i # writeIdx - 1
    BY <1>1, <1>3, <2>1, <2>3 DEF IInv, SlotsWritten
  <2>4. QED
    BY <2>2, <2>3
<1>6. /\ boot \in Seq(EventRecords) /\ BootCapacity \in Nat /\ Len(boot) \in Nat
      /\ Len(boot) = IF writeIdx - 1 < BootCapacity THEN writeIdx - 1 ELSE BootCapacity
      /\ \A i \in 1..Len(boot) : boot[i]["data"] = log[i]
  BY <1>3, RingAssumption, LenProperties DEF IInv, Types, BootKept
<1>7. boot' \in Seq(EventRecords) /\ BootKept'
  <2>1. CASE Len(boot) < BootCapacity
    <3>1. boot' = Append(boot, hook.ev)
      BY <2>1 DEF BootAppend
    <3>2. /\ boot' \in Seq(EventRecords) /\ Len(boot') = Len(boot) + 1
          /\ \A i \in 1..Len(boot) : boot'[i] = boot[i]
          /\ boot'[Len(boot) + 1] = hook.ev
      BY <1>1, <1>6, <3>1, AppendProperties
    <3>3. Len(boot) = writeIdx - 1
      BY <1>1, <1>6, <2>1
    <3>4. hook.ev["data"] = log[writeIdx]
      BY <1>1 DEF Event, Fields
    <3>5. \A i \in 1..Len(boot') : boot'[i]["data"] = log[i]
      BY <1>1, <1>6, <3>2, <3>3, <3>4
    <3>6. QED
      BY <1>1, <1>3, <1>6, <2>1, <3>2, <3>3, <3>5 DEF BootKept
  <2>2. CASE ~(Len(boot) < BootCapacity)
    <3>1. boot' = boot
      BY <2>2 DEF BootAppend
    <3>2. QED
      BY <1>1, <1>3, <1>6, <2>2, <3>1 DEF BootKept
  <2>3. QED
    BY <2>1, <2>2
<1>8. Types'
  BY <1>1, <1>2, <1>7 DEF IInv, Types
<1>9. HookWrites' /\ ReaderCopies'
  BY <1>1, <1>2 DEF IInv, HookWrites, ReaderCopies, SlotOf, Evicted
<1>10. QED
  BY <1>5, <1>7, <1>8, <1>9 DEF IInv

(* The hook with recording off, the switch, and the reader's steps.        *)
LEMMA OthersIInv ==
  ASSUME IInv, UNCHANGED <<writeIdx, sliding, boot, hook, log>>,
         executed' \in executed..MaxInstr, enabled' \in BOOLEAN,
         reader' \in [busy : BOOLEAN, idx : 0..MaxInstr, out : EventRecords, left : SUBSET Fields],
         ReaderCopies'
  PROVE  IInv'
<1>1. Types'
  BY DEF IInv, Types
<1>2. Written' = Written
  BY DEF Written
<1>3. SlotsWritten' /\ HookWrites' /\ BootKept'
  BY <1>2 DEF IInv, SlotsWritten, HookWrites, BootKept, Evicted, SlotOf, Event
<1>4. QED
  BY <1>1, <1>3 DEF IInv

LEMMA ReaderUnchanged ==
  ASSUME IInv, UNCHANGED <<writeIdx, sliding, hook, reader>>
  PROVE  ReaderCopies'
BY DEF IInv, ReaderCopies, Evicted, SlotOf

LEMMA LoadFieldIInv ==
  ASSUME IInv, NEW g \in Fields, LoadField(g)
  PROVE  IInv'
<1>1. /\ UNCHANGED <<executed, writeIdx, sliding, boot, enabled, hook, log>>
      /\ reader.busy /\ reader.out \in EventRecords /\ reader.left \subseteq Fields
      /\ reader.idx \in 0..MaxInstr
      /\ reader' = [reader EXCEPT !.out[g] = sliding[SlotOf(reader.idx)][g],
                                  !.left = @ \ {g}]
  BY DEF IInv, Types, LoadField
<1>2. SlotOf(reader.idx) \in 0..Capacity - 1 /\ sliding[SlotOf(reader.idx)] \in EventRecords
  BY <1>1, SlotRange DEF IInv, Types
<1>3. /\ reader'.busy /\ reader'.idx = reader.idx /\ reader'.left = reader.left \ {g}
      /\ reader'.out = [reader.out EXCEPT ![g] = sliding[SlotOf(reader.idx)][g]]
  BY <1>1 DEF IInv, Types
<1>4. reader'.out \in EventRecords
  BY <1>1, <1>2, <1>3 DEF EventRecords
<1>5. reader' \in [busy : BOOLEAN, idx : 0..MaxInstr, out : EventRecords, left : SUBSET Fields]
  BY <1>1, <1>3, <1>4 DEF IInv, Types
<1>6. ReaderCopies'
  BY <1>1, <1>2, <1>3 DEF IInv, ReaderCopies, Evicted, SlotOf, EventRecords
<1>7. QED
  BY <1>1, <1>5, <1>6, OthersIInv DEF IInv, Types

LEMMA StepIInv == IInv /\ [Next]_vars => IInv'
<1> SUFFICES ASSUME IInv, [Next]_vars PROVE IInv'
  OBVIOUS
<1>1. /\ executed \in executed..MaxInstr /\ enabled \in BOOLEAN /\ MaxInstr \in Nat
      /\ executed \in Nat
      /\ reader \in [busy : BOOLEAN, idx : 0..MaxInstr, out : EventRecords, left : SUBSET Fields]
  BY RingAssumption DEF IInv, Types
<1>2. CASE Unrecorded
  <2>1. executed' \in executed..MaxInstr
    BY <1>1, <1>2 DEF Unrecorded
  <2>2. QED
    BY <1>1, <1>2, <2>1, ReaderUnchanged, OthersIInv DEF Unrecorded
<1>3. ASSUME NEW on \in BOOLEAN, SetEnabled(on) PROVE IInv'
  BY <1>1, <1>3, ReaderUnchanged, OthersIInv DEF SetEnabled
<1>4. ASSUME NEW pos \in 0..MaxInstr, GetMissing(pos) PROVE IInv'
  BY <1>1, <1>4, ReaderUnchanged, OthersIInv DEF GetMissing
<1>5. ASSUME NEW pos \in 0..MaxInstr, BootGet(pos) PROVE IInv'
  BY <1>1, <1>5, ReaderUnchanged, OthersIInv DEF BootGet
<1>6. ASSUME NEW pos \in 0..MaxInstr, GetStart(pos) PROVE IInv'
  <2>1. ZeroEvent \in EventRecords
    BY <1>1, EventTypes DEF ZeroEvent, Missing
  <2>2. reader' \in [busy : BOOLEAN, idx : 0..MaxInstr, out : EventRecords, left : SUBSET Fields]
    BY <1>6, <2>1 DEF GetStart
  <2>3. ReaderCopies'
    BY <1>6 DEF GetStart, ReaderCopies, MayRead, HookIdle, Evicted
  <2>4. QED
    BY <1>1, <1>6, <2>2, <2>3, OthersIInv DEF GetStart
<1>7. CASE GetEnd
  <2>1. ~reader'.busy /\ reader' \in [busy : BOOLEAN, idx : 0..MaxInstr, out : EventRecords, left : SUBSET Fields]
    BY <1>1, <1>7 DEF GetEnd
  <2>2. ReaderCopies'
    BY <2>1 DEF ReaderCopies
  <2>3. QED
    BY <1>1, <1>7, <2>1, <2>2, OthersIInv DEF GetEnd
<1>8. CASE UNCHANGED vars
  BY <1>1, <1>8, ReaderUnchanged, OthersIInv DEF vars
<1>9. QED
  BY <1>2, <1>3, <1>4, <1>5, <1>6, <1>7, <1>8, ReserveIInv, StoreFieldIInv,
     BootAppendIInv, LoadFieldIInv DEF Next

-----------------------------------------------------------------------------
(* The inductive invariant: what is in the slots, in the snapshot and in   *)
(* the copies in progress, for every capacity and with or without threads. *)
THEOREM Invariance == Spec => []IInv
<1>1. QED
  BY InitIInv, StepIInv, PTL DEF Spec

(* Counters, slots and copies keep their types; the snapshot never         *)
(* outgrows kBootCapacity.                                                 *)
THEOREM TypeCorrect == Spec => []TypeOK
<1>1. IInv => TypeOK
  BY RingAssumption DEF IInv, Types, BootKept, TypeOK
<1>2. QED
  BY <1>1, Invariance, PTL

(* Between two instructions the sliding ring holds exactly the newest      *)
(* Capacity events, each where ares_rsp_trace_get looks for it.            *)
THEOREM WindowHeld == Spec => []RingHoldsWindow
<1>1. IInv => RingHoldsWindow
  <2> SUFFICES ASSUME IInv, HookIdle, NEW i \in Window
               PROVE  sliding[SlotOf(i)] = Event(i, log[i + 1])
    BY DEF RingHoldsWindow
  <2>1. QED
    BY DEF IInv, SlotsWritten, Written, HookIdle, Window
<1>2. QED
  BY <1>1, Invariance, PTL

(* Read on the thread that runs Ares, the trace implements the log: a      *)
(* query answers the event recorded under that number while it is among    *)
(* the newest Capacity, the snapshot answers the first BootCapacity, and   *)
(* nothing else is ever answered.                                          *)
THEOREM ImplementsLog == SharedThread => (Spec => LogSpec)
<1> SUFFICES ASSUME SharedThread PROVE Spec => LogSpec
  OBVIOUS
<1>1. Init => Log!LInit
  BY DEF Init, Log!LInit
<1>2. IInv /\ [Next]_vars => [Log!LNext]_<<log, reply>>
  <2> SUFFICES ASSUME IInv, [Next]_vars PROVE [Log!LNext]_<<log, reply>>
    OBVIOUS
  <2>1. /\ writeIdx \in Nat /\ Len(log) = writeIdx /\ executed \in 0..MaxInstr
        /\ MaxInstr \in Nat
    BY RingAssumption DEF IInv, Types
  <2>2. CASE Reserve
    <3>1. executed + 1 \in 1..MaxInstr
      BY <2>1, <2>2 DEF Reserve
    <3>2. QED
      BY <2>2, <3>1 DEF Reserve, Log!LNext, Log!LRecord
  <2>3. ASSUME NEW pos \in 0..MaxInstr, GetMissing(pos) PROVE Log!LNext
    <3>1. ~Log!InWindow(pos)
      BY <2>1, <2>3, RingAssumption DEF GetMissing, Log!InWindow, Evicted
    <3>2. Log!LAnswer("get", pos, Log!InWindow(pos))
      BY <2>3, <3>1 DEF GetMissing, Answer, Log!LAnswer
    <3>3. QED
      BY <3>2 DEF Log!LNext
  <2>4. CASE GetEnd
    <3>1. /\ reader.busy /\ reader.left = {} /\ reader.idx \in 0..MaxInstr
          /\ reader.out \in EventRecords /\ ~hook.busy
          /\ reader.idx < writeIdx /\ ~Evicted(reader.idx)
          /\ \A f \in Fields : reader.out[f] = sliding[SlotOf(reader.idx)][f]
      BY <2>4 DEF GetEnd, IInv, Types, ReaderCopies
    <3>2. sliding[SlotOf(reader.idx)] = Event(reader.idx, log[reader.idx + 1])
      BY <2>1, <3>1 DEF IInv, SlotsWritten, Written
    <3>3. reader.out["seq"] = reader.idx /\ reader.out["data"] = log[reader.idx + 1]
      BY <3>1, <3>2 DEF Event, Fields
    <3>4. Log!InWindow(reader.idx)
      BY <2>1, <3>1, RingAssumption DEF Log!InWindow, Evicted
    <3>5. Log!LAnswer("get", reader.idx, Log!InWindow(reader.idx))
      BY <2>4, <3>3, <3>4 DEF GetEnd, Answer, Log!LAnswer
    <3>6. QED
      BY <3>1, <3>5 DEF Log!LNext
  <2>5. ASSUME NEW pos \in 0..MaxInstr, BootGet(pos) PROVE Log!LNext
    <3>1. Written = writeIdx
      BY <2>5 DEF BootGet, MayRead, HookIdle, Written
    <3>2. pos < Len(boot) <=> Log!InBoot(pos)
      BY <2>1, <3>1, RingAssumption DEF IInv, BootKept, Log!InBoot
    <3>3. pos < Len(boot) => boot[pos + 1]["data"] = log[pos + 1]
      BY <2>1, <3>1, RingAssumption DEF IInv, BootKept
    <3>4. Log!LAnswer("boot", pos, Log!InBoot(pos))
      BY <2>5, <3>2, <3>3 DEF BootGet, Answer, Log!LAnswer
    <3>5. QED
      BY <3>4 DEF Log!LNext
  <2>6. CASE \/ Unrecorded \/ BootAppend \/ UNCHANGED vars
             \/ \E f \in Fields : StoreField(f) \/ LoadField(f)
             \/ \E on \in BOOLEAN : SetEnabled(on)
             \/ \E pos \in 0..MaxInstr : GetStart(pos)
    BY <2>6 DEF Unrecorded, BootAppend, vars, StoreField, LoadField, SetEnabled, GetStart
  <2>7. QED
    BY <2>2, <2>3, <2>4, <2>5, <2>6 DEF Next
<1>3. QED
  BY <1>1, <1>2, Invariance, PTL DEF Spec, LogSpec, Log!LSpec

-----------------------------------------------------------------------------
(* Numbers: the least of some, and going up and down an interval.          *)
LEMMA LeastNat ==
  ASSUME NEW T \in SUBSET Nat, T # {}
  PROVE  \E m \in T : \A n \in T : m <= n
<1> DEFINE R == OpToRel(<, Nat)
<1>1. IsWellFoundedOn(R, Nat)
  BY NatLessThanWellFounded DEF OpToRel
<1> HIDE DEF R
<1>2. PICK m \in T : \A y \in T : ~ (<<y, m>> \in R)
  BY <1>1, WFMin, Zenon
<1>3. ASSUME NEW n \in T PROVE m <= n
  <2>1. <<n, m>> \notin R /\ n \in Nat /\ m \in Nat
    BY <1>2
  <2>2. <<n, m>> \in R <=> n < m
    BY <2>1 DEF R, OpToRel
  <2>3. QED
    BY <2>1, <2>2
<1>4. QED
  BY <1>3

LEMMA Upwards ==
  ASSUME NEW n \in Nat, NEW S, 0 \in S, \A i \in 0..n - 1 : i \in S => i + 1 \in S
  PROVE  \A i \in 0..n : i \in S
<1> DEFINE T == {i \in 0..n : i \notin S}
<1> SUFFICES ASSUME T # {} PROVE FALSE
  OBVIOUS
<1>1. T \in SUBSET Nat
  OBVIOUS
<1> HIDE DEF T
<1>2. PICK m \in T : \A k \in T : m <= k
  BY <1>1, LeastNat
<1>3. m \in 0..n /\ m \notin S /\ m # 0
  BY <1>2 DEF T
<1>4. m - 1 \in 0..n - 1 /\ m - 1 \in 0..n /\ ~(m <= m - 1) /\ m - 1 + 1 = m
  BY <1>3
<1>5. m - 1 \in S
  BY <1>2, <1>4 DEF T
<1>6. m - 1 + 1 \in S
  BY <1>4, <1>5
<1> QED BY <1>3, <1>4, <1>6

LEMMA Downwards ==
  ASSUME NEW n \in Nat, NEW S, n \in S, \A i \in 0..n - 1 : i + 1 \in S => i \in S
  PROVE  \A i \in 0..n : i \in S
<1> DEFINE T == {i \in 0..n : n - i \in S}
<1>1. 0 \in T
  OBVIOUS
<1>2. ASSUME NEW i \in 0..n - 1, i \in T PROVE i + 1 \in T
  <2>1. n - i \in S /\ n - (i + 1) \in 0..n - 1 /\ n - (i + 1) + 1 = n - i /\ i + 1 \in 0..n
    BY <1>2
  <2>2. n - (i + 1) \in S
    BY <2>1
  <2> QED BY <2>1, <2>2
<1>3. \A i \in 0..n : i \in T
  <2> HIDE DEF T
  <2> QED BY <1>1, <1>2, Upwards
<1>4. ASSUME NEW i \in 0..n PROVE i \in S
  <2>1. n - i \in 0..n /\ n - (n - i) = i
    OBVIOUS
  <2>2. n - i \in T
    BY <1>3, <2>1
  <2> QED BY <2>1, <2>2
<1> QED BY <1>4

(* A function defined step by step exists.                                 *)
Iterate(f, m, V, b, G) ==
  f \in [0..m -> V] /\ f[0] = b /\ \A i \in 1..m : f[i] = G[i][f[i - 1]]

LEMMA Iterates ==
  ASSUME NEW n \in Nat, NEW V, NEW b \in V, NEW G \in [1..n -> [V -> V]]
  PROVE  \E f : Iterate(f, n, V, b, G)
<1> DEFINE Is(f, m) == Iterate(f, m, V, b, G)
           S == {m \in 0..n : \E f : Is(f, m)}
<1>1. 0 \in S
  <2>1. Is([i \in 0..0 |-> b], 0)
    BY DEF Iterate
  <2> QED BY <2>1
<1>2. ASSUME NEW m \in 0..n - 1, m \in S PROVE m + 1 \in S
  <2>1. PICK f : Is(f, m)
    BY <1>2
  <2>2. m \in Nat /\ m + 1 \in 1..n /\ m \in 0..m
    OBVIOUS
  <2>3. f[m] \in V /\ G[m + 1] \in [V -> V]
    BY <2>1, <2>2 DEF Iterate
  <2> DEFINE v == G[m + 1][f[m]]
  <2>4. v \in V
    BY <2>3
  <2> HIDE DEF v
  <2> DEFINE g == [i \in 0..m + 1 |-> IF i = m + 1 THEN v ELSE f[i]]
  <2>5. g \in [0..m + 1 -> V]
    <3>1. \A i \in 0..m + 1 : i # m + 1 => i \in 0..m
      BY <2>2
    <3> QED BY <2>1, <2>4, <3>1 DEF Iterate
  <2>6. g[0] = b
    BY <2>1, <2>2 DEF Iterate
  <2>7. ASSUME NEW i \in 1..m + 1 PROVE g[i] = G[i][g[i - 1]]
    <3>1. i - 1 \in 0..m /\ i - 1 # m + 1 /\ i - 1 \in 0..m + 1 /\ i \in 0..m + 1
      BY <2>2
    <3>2. g[i - 1] = f[i - 1]
      BY <3>1
    <3>3. CASE i = m + 1
      <4>1. i - 1 = m /\ g[i] = v
        BY <2>2, <3>1, <3>3
      <4> QED BY <3>2, <3>3, <4>1 DEF v
    <3>4. CASE i # m + 1
      <4>1. i \in 1..m /\ g[i] = f[i]
        BY <2>2, <3>1, <3>4
      <4> QED BY <2>1, <3>2, <4>1 DEF Iterate
    <3> QED BY <3>3, <3>4
  <2>8. Is(g, m + 1)
    BY <2>5, <2>6, <2>7 DEF Iterate
  <2> QED BY <2>2, <2>8
<1>3. n \in 0..n
  OBVIOUS
<1> HIDE DEF S
<1>4. \A m \in 0..n : m \in S
  BY <1>1, <1>2, Upwards
<1>5. \E f : Is(f, n)
  BY <1>3, <1>4 DEF S
<1> QED BY <1>5

-----------------------------------------------------------------------------
(* The permutations: how the wrapper's index counts them.                  *)
LEMMA UcodeFacts ==
  ASSUME NEW u \in Ucodes
  PROVE  /\ u \in Microcodes
         /\ u.text \in [Text -> Words]
         /\ u.start \in [1..Slots -> Text]
         /\ u.overlays \in [1..Slots -> Seq(Seq(Words))]
         /\ u.extra \in SUBSET Text
         /\ Slots \in Nat
         /\ \A s \in 1..Slots : Len(u.overlays[s]) \in 1..MaxOverlays /\ Len(u.overlays[s]) \in Nat \ {0}
<1>1. /\ u \in Microcodes /\ Slots \in Nat /\ MaxOverlays \in Nat
      /\ \A s \in 1..Slots : Len(u.overlays[s]) \in 1..MaxOverlays
  BY CodeAssumption
<1>2. \A m \in 1..MaxOverlays : m \in Nat \ {0}
  BY <1>1
<1> QED BY <1>1, <1>2 DEF Microcodes

IsWeight(u, w) ==
  w = [i \in 0..Slots |-> IF i = Slots THEN 1 ELSE Len(u.overlays[i + 1]) * w[i + 1]]
Weighs(u, w) ==
  /\ w \in [0..Slots -> Nat \ {0}]
  /\ w[Slots] = 1
  /\ \A i \in 0..Slots - 1 : w[i] = Len(u.overlays[i + 1]) * w[i + 1]

LEMMA Products == \A x, y \in Nat \ {0} : x * y \in Nat \ {0}
OBVIOUS

LEMMA WeightExists == ASSUME NEW u \in Ucodes PROVE \E w : IsWeight(u, w)
<1> DEFINE V == Nat \ {0}
           L(i) == Len(u.overlays[Slots - i + 1])
           G == [i \in 1..Slots |-> [x \in V |-> L(i) * x]]
<1>1. Slots \in Nat /\ \A i \in 1..Slots : Slots - i + 1 \in 1..Slots
  BY UcodeFacts
<1>2. \A i \in 1..Slots : L(i) \in V
  BY <1>1, UcodeFacts
<1>3. G \in [1..Slots -> [V -> V]]
  <2> HIDE DEF V, L
  <2>1. \A i \in 1..Slots : \A x \in V : L(i) * x \in V
    BY <1>2, Products DEF V
  <2> QED BY <2>1
<1>4. 1 \in V
  OBVIOUS
<1>5. PICK f : Iterate(f, Slots, V, 1, G)
  <2> HIDE DEF G, V
  <2> QED BY <1>1, <1>3, <1>4, Iterates
<1> DEFINE w == [i \in 0..Slots |-> f[Slots - i]]
<1>6. ASSUME NEW i \in 0..Slots, i # Slots
      PROVE  w[i] = Len(u.overlays[i + 1]) * w[i + 1]
  <2>1. /\ Slots - i \in 1..Slots /\ Slots - (Slots - i) + 1 = i + 1
        /\ Slots - i - 1 \in 0..Slots /\ Slots - (i + 1) = Slots - i - 1 /\ i + 1 \in 0..Slots
    BY <1>1, <1>6
  <2>2. f[Slots - i] = G[Slots - i][f[Slots - i - 1]] /\ f[Slots - i - 1] \in V
    BY <1>5, <2>1 DEF Iterate
  <2>3. f[Slots - i] = Len(u.overlays[i + 1]) * f[Slots - i - 1]
    BY <2>1, <2>2
  <2> QED BY <2>1, <2>3
<1>7. w[Slots] = 1
  BY <1>1, <1>5 DEF Iterate
<1>8. IsWeight(u, w)
  <2>1. w = [i \in 0..Slots |-> w[i]]
    OBVIOUS
  <2> HIDE DEF w
  <2> QED BY <1>1, <1>6, <1>7, <2>1 DEF IsWeight
<1> QED BY <1>8

LEMMA WeightIs == ASSUME NEW u \in Ucodes PROVE Weighs(u, Weight(u))
<1>1. Weight(u) = CHOOSE w : IsWeight(u, w)
  BY Zenon DEF Weight, IsWeight
<1> DEFINE w == Weight(u)
<1>2. IsWeight(u, w)
  BY <1>1, WeightExists, Zenon
<1> HIDE DEF w
<1>3. Slots \in Nat /\ \A s \in 1..Slots : Len(u.overlays[s]) \in Nat \ {0}
  BY UcodeFacts
<1>4. w[Slots] = 1
  BY <1>2, <1>3 DEF IsWeight
<1>5. ASSUME NEW i \in 0..Slots - 1 PROVE w[i] = Len(u.overlays[i + 1]) * w[i + 1]
  BY <1>2, <1>3 DEF IsWeight
<1> DEFINE S == {i \in 0..Slots : w[i] \in Nat \ {0}}
<1>6. \A i \in 0..Slots : i \in S
  <2>1. Slots \in S
    BY <1>3, <1>4
  <2>2. ASSUME NEW i \in 0..Slots - 1, i + 1 \in S PROVE i \in S
    <3>1. Len(u.overlays[i + 1]) \in Nat \ {0} /\ w[i + 1] \in Nat \ {0} /\ i \in 0..Slots
      BY <1>3, <2>2
    <3>2. w[i] \in Nat \ {0}
      BY <1>5, <3>1, Products
    <3> QED BY <3>1, <3>2
  <2> HIDE DEF S
  <2> QED BY <1>3, <2>1, <2>2, Downwards
<1>7. w \in [0..Slots -> Nat \ {0}]
  BY <1>2, <1>6 DEF IsWeight
<1>8. Weighs(u, w)
  BY <1>4, <1>5, <1>7 DEF Weighs
<1> QED BY <1>8 DEF w

IsSum(u, c, f) ==
  f = [i \in 0..Slots |-> IF i = 0 THEN 0 ELSE f[i - 1] + c[i] * Weight(u)[i]]
Sums(u, c, f) ==
  /\ f \in [0..Slots -> Nat]
  /\ f[0] = 0
  /\ \A i \in 1..Slots : f[i] = f[i - 1] + c[i] * Weight(u)[i]

LEMMA ChoiceFacts ==
  ASSUME NEW u \in Ucodes, NEW c \in Choices(u)
  PROVE  /\ c \in [1..Slots -> 0..MaxOverlays - 1]
         /\ \A s \in 1..Slots : /\ c[s] \in Nat /\ c[s] < Len(u.overlays[s])
                                /\ c[s] + 1 \in DOMAIN u.overlays[s]
<1>1. c \in [1..Slots -> 0..MaxOverlays - 1] /\ \A s \in 1..Slots : c[s] < Len(u.overlays[s])
  BY DEF Choices
<1>2. \A s \in 1..Slots : u.overlays[s] \in Seq(Seq(Words)) /\ Len(u.overlays[s]) \in Nat
  BY UcodeFacts
<1>3. MaxOverlays \in Nat
  BY CodeAssumption
<1>4. \A s \in 1..Slots : c[s] \in Nat
  BY <1>1, <1>3
<1>5. \A s \in 1..Slots : c[s] + 1 \in 1..Len(u.overlays[s])
  BY <1>1, <1>2, <1>4
<1> QED BY <1>1, <1>2, <1>4, <1>5

LEMMA SumIs ==
  ASSUME NEW u \in Ucodes, NEW c \in Choices(u)
  PROVE  \E f : Sums(u, c, f) /\ Index(u, c) = f[Slots]
<1>1. Slots \in Nat
  BY UcodeFacts
<1>2. ASSUME NEW i \in 1..Slots PROVE c[i] * Weight(u)[i] \in Nat
  <2>1. c[i] \in Nat
    BY ChoiceFacts
  <2>2. Weight(u)[i] \in Nat
    BY <1>1, WeightIs DEF Weighs
  <2> HIDE DEF Weight
  <2> QED BY <2>1, <2>2
<1> DEFINE A(i) == c[i] * Weight(u)[i]
           G == [i \in 1..Slots |-> [x \in Nat |-> x + A(i)]]
<1>3. G \in [1..Slots -> [Nat -> Nat]]
  <2>1. \A i \in 1..Slots : A(i) \in Nat
    BY <1>2
  <2> HIDE DEF A
  <2>2. \A i \in 1..Slots : \A x \in Nat : x + A(i) \in Nat
    BY <2>1
  <2> QED BY <2>2
<1>4. PICK g : Iterate(g, Slots, Nat, 0, G)
  <2> HIDE DEF G
  <2> QED BY <1>1, <1>3, Iterates
<1>5. IsSum(u, c, g)
  <2>1. \A i \in 0..Slots : i # 0 => i \in 1..Slots /\ i - 1 \in 0..Slots
    BY <1>1
  <2>2. \A i \in 0..Slots : g[i] = IF i = 0 THEN 0 ELSE g[i - 1] + A(i)
    BY <1>4, <2>1 DEF Iterate
  <2>3. g = [i \in 0..Slots |-> g[i]]
    BY <1>4 DEF Iterate
  <2> QED BY <2>2, <2>3 DEF IsSum
<1> DEFINE f == CHOOSE h : IsSum(u, c, h)
<1>6. IsSum(u, c, f)
  BY <1>5, Zenon
<1>7. Index(u, c) = f[Slots]
  BY Zenon DEF Index, IsSum
<1> HIDE DEF f
<1>8. f[0] = 0 /\ \A i \in 1..Slots : f[i] = f[i - 1] + A(i)
  BY <1>1, <1>6 DEF IsSum
<1> DEFINE S == {i \in 0..Slots : f[i] \in Nat}
<1>9. \A i \in 0..Slots : i \in S
  <2>1. 0 \in S
    BY <1>1, <1>8
  <2>2. ASSUME NEW i \in 0..Slots - 1, i \in S PROVE i + 1 \in S
    <3>1. i + 1 \in 1..Slots /\ i + 1 - 1 = i /\ i + 1 \in 0..Slots
      BY <1>1
    <3>2. f[i + 1] = f[i] + A(i + 1) /\ A(i + 1) \in Nat /\ f[i] \in Nat
      BY <1>2, <1>8, <2>2, <3>1
    <3>3. f[i + 1] \in Nat
      <4> HIDE DEF A
      <4> QED BY <3>2
    <3> QED BY <3>1, <3>3
  <2> HIDE DEF S
  <2> QED BY <1>1, <2>1, <2>2, Upwards
<1>10. Sums(u, c, f)
  <2>1. f \in [0..Slots -> Nat]
    BY <1>6, <1>9 DEF IsSum
  <2> QED BY <1>8, <2>1 DEF Sums
<1> QED BY <1>7, <1>10

(* What the slots after i add is less than the weight of i, and one less   *)
(* when each of them has its last overlay.                                 *)
LEMMA Digit ==
  ASSUME NEW c \in Nat, NEW l \in Nat \ {0}, c < l, NEW w \in Nat \ {0}
  PROVE  c * w \in Nat /\ c * w + w <= l * w /\ (c + 1 = l => c * w + w = l * w)
<1>1. c * w \in Nat /\ c * w + w = (c + 1) * w /\ (l - (c + 1)) \in Nat
  OBVIOUS
<1>2. l * w = (c + 1) * w + (l - (c + 1)) * w /\ (l - (c + 1)) * w \in Nat
  BY <1>1
<1> QED BY <1>1, <1>2

LEMMA Beyond ==
  ASSUME NEW u \in Ucodes, NEW c \in Choices(u), NEW f, Sums(u, c, f), NEW i \in 0..Slots
  PROVE  /\ f[i] \in Nat /\ Weight(u)[i] \in Nat \ {0} /\ f[Slots] \in Nat
         /\ f[i] <= f[Slots]
         /\ f[Slots] < f[i] + Weight(u)[i]
         /\ (\A j \in i + 1..Slots : c[j] + 1 = Len(u.overlays[j]))
              => f[Slots] = f[i] + Weight(u)[i] - 1
<1> DEFINE w == Weight(u)
           L(j) == Len(u.overlays[j])
           Full(k) == \A j \in k + 1..Slots : c[j] + 1 = L(j)
           S == {k \in 0..Slots : /\ f[k] <= f[Slots]
                                  /\ f[Slots] < f[k] + w[k]
                                  /\ Full(k) => f[Slots] = f[k] + w[k] - 1}
<1>1. Slots \in Nat /\ Slots \in 0..Slots
  BY UcodeFacts
<1>2. /\ w \in [0..Slots -> Nat \ {0}] /\ w[Slots] = 1
      /\ \A k \in 0..Slots - 1 : w[k] = L(k + 1) * w[k + 1]
  BY WeightIs DEF Weighs
<1>3. f \in [0..Slots -> Nat] /\ \A k \in 1..Slots : f[k] = f[k - 1] + c[k] * w[k]
  BY DEF Sums
<1> HIDE DEF w
<1>4. Slots \in S
  BY <1>1, <1>2, <1>3
<1>5. ASSUME NEW k \in 0..Slots - 1, k + 1 \in S PROVE k \in S
  <2>1. k \in 0..Slots /\ k + 1 \in 1..Slots /\ k + 1 - 1 = k /\ k + 1 \in 0..Slots
    BY <1>1
  <2>2. c[k + 1] \in Nat /\ c[k + 1] < L(k + 1) /\ L(k + 1) \in Nat \ {0}
    BY <2>1, ChoiceFacts, UcodeFacts
  <2>3. w[k + 1] \in Nat \ {0} /\ w[k] = L(k + 1) * w[k + 1] /\ w[k] \in Nat \ {0}
    BY <1>2, <2>1
  <2>4. f[k + 1] = f[k] + c[k + 1] * w[k + 1] /\ f[k] \in Nat /\ f[k + 1] \in Nat /\ f[Slots] \in Nat
    BY <1>1, <1>3, <2>1
  <2>5. /\ c[k + 1] * w[k + 1] \in Nat /\ c[k + 1] * w[k + 1] + w[k + 1] <= w[k]
        /\ (c[k + 1] + 1 = L(k + 1) => c[k + 1] * w[k + 1] + w[k + 1] = w[k])
    <3> HIDE DEF L
    <3> QED BY <2>2, <2>3, Digit
  <2>6. /\ f[k + 1] <= f[Slots]
        /\ f[Slots] < f[k + 1] + w[k + 1]
        /\ Full(k + 1) => f[Slots] = f[k + 1] + w[k + 1] - 1
    BY <1>5
  <2>7. Full(k) => Full(k + 1) /\ c[k + 1] + 1 = L(k + 1)
    BY <2>1
  <2> DEFINE p == c[k + 1] * w[k + 1]
  <2> HIDE DEF p, Full, L
  <2>8. /\ f[k] <= f[Slots]
        /\ f[Slots] < f[k] + w[k]
        /\ Full(k) => f[Slots] = f[k] + w[k] - 1
    <3>1. p \in Nat /\ p + w[k + 1] <= w[k] /\ f[k + 1] = f[k] + p
      BY <2>4, <2>5 DEF p
    <3>2. Full(k) => p + w[k + 1] = w[k]
      BY <2>5, <2>7 DEF p
    <3> QED BY <2>3, <2>4, <2>6, <2>7, <3>1, <3>2
  <2> QED BY <2>1, <2>8
<1>6. \A k \in 0..Slots : k \in S
  <2> HIDE DEF S
  <2> QED BY <1>1, <1>4, <1>5, Downwards
<1> QED BY <1>1, <1>2, <1>3, <1>6 DEF w

(* Different choices have different indices: from the first slot in which  *)
(* they differ on, the rest cannot make up for it.                         *)
LEMMA LessThere ==
  ASSUME NEW u \in Ucodes, NEW c \in Choices(u), NEW d \in Choices(u),
         NEW m \in 1..Slots, c[m] < d[m], \A i \in 1..m - 1 : c[i] = d[i]
  PROVE  Index(u, c) < Index(u, d)
<1> DEFINE w == Weight(u)
<1>1. PICK f : Sums(u, c, f) /\ Index(u, c) = f[Slots]
  BY SumIs
<1>2. PICK g : Sums(u, d, g) /\ Index(u, d) = g[Slots]
  BY SumIs
<1>3. /\ Slots \in Nat /\ m - 1 \in 0..Slots /\ m \in 0..Slots /\ m - 1 \in Nat
      /\ 0 \in 0..m - 1 /\ m - 1 \in 0..m - 1
  BY UcodeFacts
<1> DEFINE S == {i \in 0..m - 1 : f[i] = g[i]}
<1>4. \A i \in 0..m - 1 : i \in S
  <2>1. 0 \in S
    BY <1>1, <1>2, <1>3 DEF Sums
  <2>2. ASSUME NEW i \in 0..(m - 1) - 1, i \in S PROVE i + 1 \in S
    <3>1. i + 1 \in 1..Slots /\ i + 1 \in 1..m - 1 /\ i + 1 - 1 = i /\ i + 1 \in 0..m - 1
      BY <1>3
    <3>2. f[i] = g[i] /\ c[i + 1] = d[i + 1]
      BY <2>2, <3>1
    <3>3. f[i + 1] = f[i] + c[i + 1] * w[i + 1] /\ g[i + 1] = g[i] + d[i + 1] * w[i + 1]
      BY <1>1, <1>2, <3>1 DEF Sums
    <3> QED BY <3>1, <3>2, <3>3
  <2> HIDE DEF S
  <2> QED BY <1>3, <2>1, <2>2, Upwards
<1>5. f[m - 1] = g[m - 1]
  BY <1>3, <1>4
<1>6. f[m] = f[m - 1] + c[m] * w[m] /\ g[m] = g[m - 1] + d[m] * w[m]
  BY <1>1, <1>2, <1>3 DEF Sums
<1>7. /\ f[m] \in Nat /\ f[Slots] \in Nat /\ f[Slots] < f[m] + w[m]
      /\ g[m] \in Nat /\ g[Slots] \in Nat /\ g[m] <= g[Slots] /\ w[m] \in Nat \ {0}
  BY <1>1, <1>2, <1>3, Beyond
<1>8. f[m - 1] \in Nat
  BY <1>1, <1>3 DEF Sums
<1>9. c[m] \in Nat /\ d[m] \in Nat
  BY ChoiceFacts
<1>10. c[m] * w[m] \in Nat /\ c[m] * w[m] + w[m] <= d[m] * w[m] /\ d[m] * w[m] \in Nat
  <2> HIDE DEF w
  <2>1. d[m] \in Nat \ {0} /\ c[m] < d[m]
    BY <1>9
  <2>2. d[m] * w[m] \in Nat
    BY <1>7, <2>1
  <2> QED BY <1>7, <1>9, <2>1, <2>2, Digit
<1> DEFINE p == c[m] * w[m]
           q == d[m] * w[m]
<1>11. f[m] = f[m - 1] + p /\ g[m] = f[m - 1] + q /\ p \in Nat /\ q \in Nat /\ p + w[m] <= q
  BY <1>5, <1>6, <1>10
<1> HIDE DEF p, q, w
<1> QED BY <1>1, <1>2, <1>7, <1>8, <1>11

LEMMA IndexInjective ==
  ASSUME NEW u \in Ucodes, NEW c \in Choices(u), NEW d \in Choices(u), Index(u, c) = Index(u, d)
  PROVE  c = d
<1> DEFINE T == {i \in 1..Slots : c[i] # d[i]}
<1>1. /\ c \in [1..Slots -> 0..MaxOverlays - 1] /\ d \in [1..Slots -> 0..MaxOverlays - 1]
      /\ Slots \in Nat /\ \A s \in 1..Slots : c[s] \in Nat /\ d[s] \in Nat
  BY ChoiceFacts, UcodeFacts
<1>2. T = {} => c = d
  BY <1>1
<1>3. ASSUME T # {} PROVE FALSE
  <2>1. T \in SUBSET Nat
    BY <1>1
  <2> HIDE DEF T
  <2>2. PICK m \in T : \A k \in T : m <= k
    BY <1>3, <2>1, LeastNat
  <2>3. m \in 1..Slots /\ c[m] # d[m]
    BY <2>2 DEF T
  <2>4. ASSUME NEW i \in 1..m - 1 PROVE c[i] = d[i]
    <3>1. i \in 1..Slots /\ ~(m <= i)
      BY <1>1, <2>3
    <3> QED BY <2>2, <3>1 DEF T
  <2>5. c[m] < d[m] \/ d[m] < c[m]
    BY <1>1, <2>3
  <2>6. Index(u, c) \in Nat /\ Index(u, d) \in Nat
    <3>1. Slots \in 0..Slots
      BY <1>1
    <3> QED BY <3>1, SumIs DEF Sums
  <2>7. Index(u, c) < Index(u, d) \/ Index(u, d) < Index(u, c)
    BY <2>3, <2>4, <2>5, LessThere
  <2> QED BY <2>6, <2>7
<1> QED BY <1>2, <1>3

(* The index of the next choice is the next index.                         *)
Total(u) == Weight(u)[0]

LEMMA IndexRange ==
  ASSUME NEW u \in Ucodes, NEW c \in Choices(u)
  PROVE  /\ Total(u) \in Nat \ {0} /\ Index(u, c) \in 0..Total(u) - 1
         /\ (\A j \in 1..Slots : c[j] + 1 = Len(u.overlays[j])) => Index(u, c) = Total(u) - 1
<1>1. PICK f : Sums(u, c, f) /\ Index(u, c) = f[Slots]
  BY SumIs
<1>2. 0 \in 0..Slots
  BY UcodeFacts
<1>3. f[0] = 0
  BY <1>1 DEF Sums
<1>4. /\ Weight(u)[0] \in Nat \ {0} /\ f[Slots] \in Nat /\ f[Slots] < f[0] + Weight(u)[0]
      /\ (\A j \in 1..Slots : c[j] + 1 = Len(u.overlays[j])) => f[Slots] = f[0] + Weight(u)[0] - 1
  <2>1. 0 + 1 = 1
    OBVIOUS
  <2> QED BY <1>1, <1>2, <2>1, Beyond
<1> HIDE DEF Index, Weight
<1> QED BY <1>1, <1>3, <1>4 DEF Total

LEMMA AdvancedIs ==
  ASSUME NEW u \in Ucodes, NEW c \in Choices(u), Index(u, c) # Total(u) - 1
  PROVE  Advanced(u, c) \in Choices(u) /\ Index(u, Advanced(u, c)) = Index(u, c) + 1
<1> DEFINE L(j) == Len(u.overlays[j])
           free == {i \in 1..Slots : c[i] + 1 < L(i)}
           last == CHOOSE i \in free : \A j \in free : j <= i
           d == Advanced(u, c)
<1>1. /\ Slots \in Nat /\ \A j \in 1..Slots : c[j] \in Nat /\ c[j] < L(j) /\ L(j) \in 1..MaxOverlays
      /\ MaxOverlays \in Nat
  BY ChoiceFacts, UcodeFacts, CodeAssumption
<1>2. \A j \in 1..Slots : j \notin free => c[j] + 1 = L(j)
  BY <1>1
<1>3. free # {}
  BY <1>2, IndexRange
<1>4. \E i \in free : \A j \in free : j <= i
  <2> DEFINE T == {Slots - i : i \in free}
  <2>1. T \in SUBSET Nat /\ T # {}
    BY <1>1, <1>3
  <2> HIDE DEF T
  <2>2. PICK m \in T : \A k \in T : m <= k
    BY <2>1, LeastNat
  <2>3. PICK i \in free : m = Slots - i
    BY <2>2 DEF T
  <2>4. ASSUME NEW j \in free PROVE j <= i
    <3>1. Slots - j \in T
      BY DEF T
    <3>2. Slots - i <= Slots - j /\ i \in 1..Slots /\ j \in 1..Slots
      BY <2>2, <2>3, <3>1
    <3> QED BY <1>1, <3>2
  <2> QED BY <2>3, <2>4
<1>5. last \in free /\ \A j \in free : j <= last
  <2> HIDE DEF free
  <2> QED BY <1>4, Zenon
<1>6. d = [i \in 1..Slots |-> CASE i < last -> c[i] [] i = last -> c[i] + 1 [] i > last -> 0]
  BY Zenon DEF Advanced
<1> HIDE DEF last, d
<1>7. last \in 1..Slots /\ c[last] + 1 < L(last) /\ \A j \in 1..Slots : j > last => c[j] + 1 = L(j)
  <2>1. \A j \in 1..Slots : j > last => j \notin free
    BY <1>1, <1>5
  <2> QED BY <1>2, <1>5, <2>1
<1> HIDE DEF free
<1>8. \A i \in 1..Slots : /\ i < last => d[i] = c[i]
                          /\ i = last => d[i] = c[i] + 1
                          /\ i > last => d[i] = 0
  BY <1>1, <1>6, <1>7
<1>9. d \in Choices(u)
  <2>1. ASSUME NEW i \in 1..Slots PROVE d[i] \in 0..MaxOverlays - 1 /\ d[i] < L(i)
    <3>1. c[i] \in Nat /\ c[i] < L(i) /\ L(i) \in 1..MaxOverlays /\ i \in Nat /\ last \in Nat
      BY <1>1, <1>7
    <3>2. CASE i < last
      <4>1. d[i] = c[i]
        BY <1>8, <3>2
      <4> QED BY <1>1, <3>1, <4>1
    <3>3. CASE i = last
      <4>1. d[i] = c[i] + 1 /\ c[i] + 1 < L(i)
        BY <1>7, <1>8, <3>3
      <4> QED BY <1>1, <3>1, <4>1
    <3>4. CASE i > last
      <4>1. d[i] = 0
        BY <1>8, <3>4
      <4> QED BY <1>1, <3>1, <4>1
    <3> QED BY <3>1, <3>2, <3>3, <3>4
  <2>2. d \in [1..Slots -> 0..MaxOverlays - 1]
    <3>1. \A i \in 1..Slots : d[i] \in 0..MaxOverlays - 1
      BY <2>1
    <3> QED BY <1>6, <3>1
  <2> QED BY <2>1, <2>2 DEF Choices
<1>10. Index(u, d) = Index(u, c) + 1
  <2>1. PICK f : Sums(u, c, f) /\ Index(u, c) = f[Slots]
    BY SumIs
  <2>2. PICK g : Sums(u, d, g) /\ Index(u, d) = g[Slots]
    BY <1>9, SumIs
  <2> DEFINE w == Weight(u)
             S == {i \in 0..Slots : /\ i < last => g[i] = f[i]
                                    /\ i >= last => g[i] = g[last]}
  <2>3. \A i \in 1..Slots : f[i] = f[i - 1] + c[i] * w[i] /\ g[i] = g[i - 1] + d[i] * w[i]
    BY <2>1, <2>2 DEF Sums
  <2>4. \A i \in 0..Slots : f[i] \in Nat /\ g[i] \in Nat /\ w[i] \in Nat \ {0}
    BY <2>1, <2>2, WeightIs DEF Sums, Weighs
  <2>5. 0 \in S
    BY <1>1, <1>7, <2>1, <2>2 DEF Sums
  <2>6. ASSUME NEW i \in 0..Slots - 1, i \in S PROVE i + 1 \in S
    <3>1. i + 1 \in 1..Slots /\ i + 1 - 1 = i /\ i + 1 \in 0..Slots /\ i \in 0..Slots /\ last \in Nat /\ i \in Nat
      BY <1>1, <1>7
    <3>2. (i < last => g[i] = f[i]) /\ (i >= last => g[i] = g[last])
      BY <2>6
    <3>3. CASE i + 1 < last
      <4>1. g[i] = f[i] /\ d[i + 1] = c[i + 1]
        BY <1>8, <3>1, <3>2, <3>3
      <4>2. g[i + 1] = f[i + 1]
        BY <2>3, <3>1, <4>1
      <4> QED BY <3>1, <3>3, <4>2
    <3>4. CASE i + 1 = last
      BY <3>1, <3>4
    <3>5. CASE i + 1 > last
      <4>1. g[i] = g[last] /\ d[i + 1] = 0
        BY <1>8, <3>1, <3>2, <3>5
      <4>2. g[i + 1] = g[i] + 0 * w[i + 1] /\ w[i + 1] \in Nat /\ g[i] \in Nat
        BY <2>3, <2>4, <3>1, <4>1
      <4>3. g[i + 1] = g[last]
        BY <4>1, <4>2
      <4> QED BY <3>1, <3>5, <4>3
    <3> QED BY <3>1, <3>3, <3>4, <3>5
  <2>7. \A i \in 0..Slots : i \in S
    <3> HIDE DEF S
    <3> QED BY <1>1, <2>5, <2>6, Upwards
  <2>8. /\ last - 1 \in 0..Slots /\ last - 1 < last /\ last \in 0..Slots
        /\ Slots \in 0..Slots /\ Slots >= last /\ last \in Nat
    BY <1>1, <1>7
  <2>9. g[last - 1] = f[last - 1] /\ g[Slots] = g[last]
    BY <2>7, <2>8
  <2>10. g[last] = f[last] + w[last]
    <3>1. /\ f[last] = f[last - 1] + c[last] * w[last]
          /\ g[last] = f[last - 1] + (c[last] + 1) * w[last]
      BY <1>7, <1>8, <2>3, <2>9
    <3>2. (c[last] + 1) * w[last] = c[last] * w[last] + w[last] /\ c[last] * w[last] \in Nat
      <4>1. c[last] \in Nat /\ w[last] \in Nat
        BY <1>1, <1>7, <2>4, <2>8
      <4> HIDE DEF w
      <4> QED BY <4>1
    <3>3. f[last - 1] \in Nat /\ w[last] \in Nat
      BY <2>4, <2>8
    <3> DEFINE p == c[last] * w[last]
    <3>4. f[last] = f[last - 1] + p /\ g[last] = f[last - 1] + (p + w[last]) /\ p \in Nat
      BY <3>1, <3>2
    <3> HIDE DEF p, w
    <3> QED BY <3>3, <3>4
  <2>11. f[Slots] = f[last] + w[last] - 1
    <3>1. \A j \in last + 1..Slots : j \in 1..Slots /\ j > last
      BY <2>8
    <3>2. \A j \in last + 1..Slots : c[j] + 1 = L(j)
      BY <1>7, <3>1
    <3> QED BY <2>1, <2>8, <3>2, Beyond
  <2> HIDE DEF w, S
  <2> QED BY <2>1, <2>2, <2>4, <2>8, <2>9, <2>10, <2>11
<1> QED BY <1>9, <1>10 DEF d

LEMMA ZerosIs ==
  ASSUME NEW u \in Ucodes PROVE Zeros \in Choices(u) /\ Index(u, Zeros) = 0
<1>1. /\ Slots \in Nat /\ MaxOverlays \in Nat
      /\ \A s \in 1..Slots : Len(u.overlays[s]) \in 1..MaxOverlays
  BY UcodeFacts, CodeAssumption
<1>2. \A s \in 1..Slots : Zeros[s] = 0 /\ 0 < Len(u.overlays[s]) /\ 0 \in 0..MaxOverlays - 1
  BY <1>1 DEF Zeros
<1>3. Zeros \in Choices(u)
  BY <1>2 DEF Choices, Zeros
<1>4. PICK f : Sums(u, Zeros, f) /\ Index(u, Zeros) = f[Slots]
  BY <1>3, SumIs
<1> DEFINE S == {i \in 0..Slots : f[i] = 0}
<1>5. 0 \in S
  BY <1>1, <1>4 DEF Sums
<1>6. ASSUME NEW i \in 0..Slots - 1, i \in S PROVE i + 1 \in S
  <2>1. i + 1 \in 1..Slots /\ i + 1 - 1 = i /\ i + 1 \in 0..Slots
    BY <1>1
  <2>2. f[i + 1] = f[i] + Zeros[i + 1] * Weight(u)[i + 1] /\ f[i] = 0 /\ Zeros[i + 1] = 0
    BY <1>2, <1>4, <1>6, <2>1 DEF Sums
  <2>3. Weight(u)[i + 1] \in Nat
    BY <2>1, WeightIs DEF Weighs
  <2>4. f[i + 1] = 0
    <3> HIDE DEF Weight
    <3> QED BY <2>2, <2>3
  <2> QED BY <2>1, <2>4
<1>7. \A i \in 0..Slots : i \in S
  <2> HIDE DEF S
  <2> QED BY <1>1, <1>5, <1>6, Upwards
<1>8. Slots \in 0..Slots
  BY <1>1
<1> QED BY <1>3, <1>4, <1>7, <1>8

IsNth(u, n, f) == f = [i \in 0..n |-> IF i = 0 THEN Zeros ELSE Advanced(u, f[i - 1])]

LEMMA NthCounts ==
  ASSUME NEW u \in Ucodes, NEW n \in 0..Total(u) - 1, NEW f,
         f[0] = Zeros,
         \A i \in 1..n : f[i - 1] \in Choices(u) /\ Index(u, f[i - 1]) # Total(u) - 1
                           => f[i] = Advanced(u, f[i - 1])
  PROVE  \A i \in 0..n : f[i] \in Choices(u) /\ Index(u, f[i]) = i
<1> DEFINE S == {i \in 0..n : f[i] \in Choices(u) /\ Index(u, f[i]) = i}
<1>1. n \in Nat /\ Total(u) \in Nat \ {0}
  BY IndexRange, ZerosIs
<1>2. 0 \in S
  BY <1>1, ZerosIs
<1>3. ASSUME NEW i \in 0..n - 1, i \in S PROVE i + 1 \in S
  <2>1. i + 1 \in 1..n /\ i + 1 - 1 = i /\ i + 1 \in 0..n /\ i # Total(u) - 1
    BY <1>1
  <2>2. f[i] \in Choices(u) /\ Index(u, f[i]) = i
    BY <1>3
  <2>3. f[i + 1] = Advanced(u, f[i])
    BY <2>1, <2>2
  <2>4. f[i + 1] \in Choices(u) /\ Index(u, f[i + 1]) = i + 1
    BY <2>1, <2>2, <2>3, AdvancedIs
  <2> QED BY <2>1, <2>4
<1>4. \A i \in 0..n : i \in S
  <2> HIDE DEF S
  <2> QED BY <1>1, <1>2, <1>3, Upwards
<1> QED BY <1>4

LEMMA NthIs ==
  ASSUME NEW u \in Ucodes, NEW n \in 0..Total(u) - 1
  PROVE  Nth(u, n) \in Choices(u) /\ Index(u, Nth(u, n)) = n
<1> DEFINE V == Choices(u)
           N(c) == IF Index(u, c) # Total(u) - 1 THEN Advanced(u, c) ELSE c
           G == [i \in 1..n |-> [c \in V |-> N(c)]]
<1>1. n \in Nat /\ Total(u) \in Nat \ {0}
  BY IndexRange, ZerosIs
<1>2. G \in [1..n -> [V -> V]]
  <2>1. \A c \in V : N(c) \in V
    BY AdvancedIs
  <2> HIDE DEF V, N
  <2> QED BY <2>1
<1>3. PICK g : Iterate(g, n, V, Zeros, G)
  <2>1. Zeros \in V
    BY ZerosIs
  <2> HIDE DEF V, G
  <2> QED BY <1>1, <1>2, <2>1, Iterates
<1>4. ASSUME NEW i \in 1..n
      PROVE  i \in 0..n /\ i - 1 \in 0..n /\ g[i - 1] \in V /\ g[i] = N(g[i - 1])
  <2>1. i \in 0..n /\ i - 1 \in 0..n
    BY <1>1
  <2>2. g[i - 1] \in V /\ g[i] = G[i][g[i - 1]]
    BY <1>3, <2>1 DEF Iterate
  <2> HIDE DEF V, N
  <2> QED BY <2>1, <2>2
<1>5. g[0] = Zeros
  BY <1>3 DEF Iterate
<1>6. \A i \in 0..n : g[i] \in Choices(u) /\ Index(u, g[i]) = i
  <2>1. \A i \in 1..n : Index(u, g[i - 1]) # Total(u) - 1 => g[i] = Advanced(u, g[i - 1])
    BY <1>4
  <2> QED BY <1>5, <2>1, NthCounts
<1>7. IsNth(u, n, g)
  <2>1. ASSUME NEW i \in 0..n, i # 0 PROVE g[i] = Advanced(u, g[i - 1])
    <3>1. i \in 1..n /\ i - 1 # Total(u) - 1
      BY <1>1, <2>1
    <3>2. Index(u, g[i - 1]) = i - 1
      BY <1>4, <1>6, <3>1
    <3> QED BY <1>4, <3>1, <3>2
  <2>2. g = [i \in 0..n |-> g[i]]
    BY <1>3 DEF Iterate
  <2> QED BY <1>5, <2>1, <2>2 DEF IsNth
<1> DEFINE f == CHOOSE h : IsNth(u, n, h)
<1>8. IsNth(u, n, f)
  BY <1>7, Zenon
<1>9. Nth(u, n) = f[n]
  BY Zenon DEF Nth, IsNth
<1> HIDE DEF f
<1>10. f[0] = Zeros /\ \A i \in 1..n : f[i] = Advanced(u, f[i - 1])
  <2>1. 0 \in 0..n /\ \A i \in 1..n : i \in 0..n /\ i # 0
    BY <1>1
  <2> QED BY <1>8, <2>1 DEF IsNth
<1>11. \A i \in 0..n : f[i] \in Choices(u) /\ Index(u, f[i]) = i
  BY <1>10, NthCounts
<1>12. n \in 0..n
  BY <1>1
<1> QED BY <1>9, <1>11, <1>12

(* The wrapper finds the function of the overlays it has noted.            *)
LEMMA PermutationIs ==
  ASSUME NEW u \in Ucodes, NEW c \in Choices(u)
  PROVE  Permutation(u, Index(u, c)) = Patched(u, c)
<1>1. Index(u, c) \in 0..Total(u) - 1
  BY IndexRange
<1>2. Nth(u, Index(u, c)) = c
  BY <1>1, NthIs, IndexInjective
<1> QED BY <1>2 DEF Permutation

-----------------------------------------------------------------------------
(* The images: the text with the chosen overlays copied in.                *)
LEMMA AllWordsTyped ==
  ASSUME NEW u \in Ucodes
  PROVE  /\ AllWords(u) \subseteq Words
         /\ \A a \in Text : u.text[a] \in AllWords(u)
         /\ \A s \in 1..Slots : \A k \in DOMAIN u.overlays[s] :
              /\ u.overlays[s][k] \in Seq(Words)
              /\ \A i \in DOMAIN u.overlays[s][k] : u.overlays[s][k][i] \in AllWords(u)
<1>1. u.text \in [Text -> Words] /\ u.overlays \in [1..Slots -> Seq(Seq(Words))]
  BY UcodeFacts
<1>2. ASSUME NEW s \in 1..Slots, NEW k \in DOMAIN u.overlays[s]
      PROVE  /\ u.overlays[s][k] \in Seq(Words)
             /\ \A i \in DOMAIN u.overlays[s][k] : u.overlays[s][k][i] \in Words
  <2>1. u.overlays[s] \in Seq(Seq(Words))
    BY <1>1
  <2>2. u.overlays[s][k] \in Seq(Words)
    BY <2>1
  <2> QED BY <2>2
<1>3. AllWords(u) \subseteq Words
  BY <1>1, <1>2 DEF AllWords
<1>4. \A a \in Text : u.text[a] \in AllWords(u)
  BY DEF AllWords
<1>5. \A s \in 1..Slots : \A k \in DOMAIN u.overlays[s] :
        \A i \in DOMAIN u.overlays[s][k] : u.overlays[s][k][i] \in AllWords(u)
  BY DEF AllWords
<1> QED BY <1>2, <1>3, <1>4, <1>5

LEMMA LoadedIs ==
  ASSUME NEW u \in Ucodes, NEW m \in [Text -> AllWords(u)],
         NEW s \in 1..Slots, NEW k \in DOMAIN u.overlays[s]
  PROVE  /\ Extent(u, s, k) \subseteq Int
         /\ \A a \in Text : a \in Extent(u, s, k)
              => Loaded(u, m, s, k)[a] = u.overlays[s][k][a - u.start[s] + 1]
         /\ \A a \in Text : a \in Extent(u, s, k)
              => a - u.start[s] + 1 \in DOMAIN u.overlays[s][k]
         /\ \A a \in Text : a \notin Extent(u, s, k) => Loaded(u, m, s, k)[a] = m[a]
         /\ Loaded(u, m, s, k) = [a \in Text |-> Loaded(u, m, s, k)[a]]
<1>1. u.overlays[s][k] \in Seq(Words) /\ u.start[s] \in Int /\ Text \subseteq Int
  BY AllWordsTyped, UcodeFacts, CodeAssumption DEF Text
<1> DEFINE b == u.start[s]
           o == u.overlays[s][k]
<1>2. Len(o) \in Nat /\ DOMAIN o = 1..Len(o) /\ b \in Int
  BY <1>1
<1>3. Extent(u, s, k) = b..b + Len(o) - 1
  BY DEF Extent
<1>4. Loaded(u, m, s, k) = [a \in Text |-> IF a >= b /\ a < b + Len(o) THEN o[a - b + 1] ELSE m[a]]
  BY Zenon DEF Loaded
<1> HIDE DEF b, o
<1>5. \A a \in Text : (a \in Extent(u, s, k) <=> a >= b /\ a < b + Len(o))
  BY <1>1, <1>2, <1>3
<1>6. \A a \in Text : a \in Extent(u, s, k) => a - b + 1 \in DOMAIN o
  BY <1>1, <1>2, <1>3
<1>7. \A a \in Text : Loaded(u, m, s, k)[a] = IF a \in Extent(u, s, k) THEN o[a - b + 1] ELSE m[a]
  BY <1>4, <1>5
<1>8. Loaded(u, m, s, k) = [a \in Text |-> Loaded(u, m, s, k)[a]]
  BY <1>4
<1>9. Extent(u, s, k) \subseteq Int
  BY <1>2, <1>3
<1> QED BY <1>6, <1>7, <1>8, <1>9 DEF b, o

LEMMA LoadedTyped ==
  ASSUME NEW u \in Ucodes, NEW m \in [Text -> AllWords(u)],
         NEW s \in 1..Slots, NEW k \in DOMAIN u.overlays[s]
  PROVE  Loaded(u, m, s, k) \in [Text -> AllWords(u)]
<1> DEFINE l == Loaded(u, m, s, k)
<1>1. ASSUME NEW a \in Text PROVE l[a] \in AllWords(u)
  <2>1. CASE a \in Extent(u, s, k)
    <3>1. l[a] = u.overlays[s][k][a - u.start[s] + 1]
      BY <2>1, LoadedIs
    <3>2. a - u.start[s] + 1 \in DOMAIN u.overlays[s][k]
      BY <2>1, LoadedIs
    <3> HIDE DEF l
    <3> QED BY <3>1, <3>2, AllWordsTyped
  <2>2. CASE a \notin Extent(u, s, k)
    BY <2>2, LoadedIs
  <2> QED BY <2>1, <2>2
<1>2. l = [a \in Text |-> l[a]]
  BY LoadedIs
<1> HIDE DEF l
<1>3. l \in [Text -> AllWords(u)]
  BY <1>1, <1>2
<1> QED BY <1>3 DEF l

IsImage(u, c, f) ==
  f = [i \in 0..Slots |-> IF i = 0 THEN u.text ELSE Loaded(u, f[i - 1], i, c[i] + 1)]

LEMMA ImageIs ==
  ASSUME NEW u \in Ucodes, NEW c \in Choices(u)
  PROVE  \E f : /\ f \in [0..Slots -> [Text -> AllWords(u)]] /\ f[0] = u.text
                /\ \A i \in 1..Slots : f[i] = Loaded(u, f[i - 1], i, c[i] + 1)
                /\ Patched(u, c) = f[Slots]
<1> DEFINE V == [Text -> AllWords(u)]
           N(i, m) == Loaded(u, m, i, c[i] + 1)
           G == [i \in 1..Slots |-> [m \in V |-> N(i, m)]]
<1>1. Slots \in Nat /\ u.text \in V
  BY UcodeFacts, AllWordsTyped
<1>2. \A i \in 1..Slots : \A m \in V : N(i, m) \in V
  BY ChoiceFacts, LoadedTyped
<1> HIDE DEF V, N
<1>3. G \in [1..Slots -> [V -> V]]
  BY <1>2
<1>4. PICK g : Iterate(g, Slots, V, u.text, G)
  <2> HIDE DEF G
  <2> QED BY <1>1, <1>3, Iterates
<1>5. IsImage(u, c, g)
  <2>1. \A i \in 0..Slots : i # 0 => i \in 1..Slots /\ i - 1 \in 0..Slots
    BY <1>1
  <2>2. \A i \in 0..Slots : g[i] = IF i = 0 THEN u.text ELSE N(i, g[i - 1])
    BY <1>4, <2>1 DEF Iterate
  <2>3. g = [i \in 0..Slots |-> g[i]]
    BY <1>4 DEF Iterate
  <2> QED BY <2>2, <2>3 DEF IsImage, N
<1> DEFINE f == CHOOSE h : IsImage(u, c, h)
<1>6. IsImage(u, c, f)
  BY <1>5, Zenon
<1>7. Patched(u, c) = f[Slots]
  BY Zenon DEF Patched, IsImage
<1> HIDE DEF f
<1>8. f[0] = u.text /\ \A i \in 1..Slots : f[i] = N(i, f[i - 1])
  <2>1. 0 \in 0..Slots /\ \A i \in 1..Slots : i \in 0..Slots /\ i # 0
    BY <1>1
  <2> QED BY <1>6, <2>1 DEF IsImage, N
<1> DEFINE S == {i \in 0..Slots : f[i] \in V}
<1>9. \A i \in 0..Slots : i \in S
  <2>1. 0 \in S
    BY <1>1, <1>8
  <2>2. ASSUME NEW i \in 0..Slots - 1, i \in S PROVE i + 1 \in S
    <3>1. i + 1 \in 1..Slots /\ i + 1 - 1 = i /\ i + 1 \in 0..Slots
      BY <1>1
    <3>2. f[i + 1] = N(i + 1, f[i]) /\ f[i] \in V
      BY <1>8, <2>2, <3>1
    <3> QED BY <1>2, <3>1, <3>2
  <2> HIDE DEF S
  <2> QED BY <1>1, <2>1, <2>2, Upwards
<1>10. f \in [0..Slots -> V]
  BY <1>6, <1>9 DEF IsImage
<1> QED BY <1>7, <1>8, <1>10 DEF N, V

LEMMA PatchedTyped ==
  ASSUME NEW u \in Ucodes, NEW c \in Choices(u)
  PROVE  Patched(u, c) \in [Text -> AllWords(u)]
<1>1. Slots \in 0..Slots
  BY UcodeFacts
<1> QED BY <1>1, ImageIs

(* Where no two slots overlap, an image has each overlay in its slot and   *)
(* the text elsewhere.                                                     *)
LEMMA PatchedAt ==
  ASSUME NEW u \in Ucodes, FillsSlots(u), NEW c \in Choices(u), NEW a \in Text
  PROVE  /\ \A s \in 1..Slots : a \in Extent(u, s, c[s] + 1)
              => Patched(u, c)[a] = u.overlays[s][c[s] + 1][a - u.start[s] + 1]
         /\ (\A s \in 1..Slots : a \notin Extent(u, s, c[s] + 1)) => Patched(u, c)[a] = u.text[a]
<1>1. PICK f : /\ f \in [0..Slots -> [Text -> AllWords(u)]] /\ f[0] = u.text
               /\ \A i \in 1..Slots : f[i] = Loaded(u, f[i - 1], i, c[i] + 1)
               /\ Patched(u, c) = f[Slots]
  BY ImageIs
<1>2. Slots \in Nat /\ Slots \in 0..Slots
  BY UcodeFacts
<1> DEFINE E(i) == Extent(u, i, c[i] + 1)
           o(i) == u.overlays[i][c[i] + 1][a - u.start[i] + 1]
<1>3. ASSUME NEW i \in 1..Slots
      PROVE  (a \in E(i) => f[i][a] = o(i)) /\ (a \notin E(i) => f[i][a] = f[i - 1][a])
  <2>1. /\ c[i] + 1 \in DOMAIN u.overlays[i] /\ f[i] = Loaded(u, f[i - 1], i, c[i] + 1)
        /\ f[i - 1] \in [Text -> AllWords(u)]
    <3>1. i - 1 \in 0..Slots
      BY <1>2
    <3> QED BY <1>1, <3>1, ChoiceFacts
  <2> QED BY <2>1, LoadedIs
<1>4. ASSUME NEW s \in 1..Slots, NEW r \in 1..Slots, s # r, a \in E(s) PROVE a \notin E(r)
  <2>1. c[s] + 1 \in DOMAIN u.overlays[s] /\ c[r] + 1 \in DOMAIN u.overlays[r]
    BY ChoiceFacts
  <2>2. Extent(u, s, c[s] + 1) \cap Extent(u, r, c[r] + 1) = {}
    BY <1>4, <2>1 DEF FillsSlots
  <2> QED BY <1>4, <2>2
<1> HIDE DEF E, o
<1>5. ASSUME NEW s \in 1..Slots, a \in E(s) PROVE f[Slots][a] = o(s)
  <2> DEFINE S == {i \in 0..Slots : i >= s => f[i][a] = o(s)}
  <2>1. 0 \in S
    BY <1>2
  <2>2. ASSUME NEW i \in 0..Slots - 1, i \in S PROVE i + 1 \in S
    <3>1. i + 1 \in 1..Slots /\ i + 1 - 1 = i /\ i + 1 \in 0..Slots /\ i \in Nat /\ s \in Nat
      BY <1>2
    <3>2. CASE i + 1 = s
      BY <1>3, <1>5, <3>1, <3>2
    <3>3. CASE i + 1 > s
      <4>1. f[i][a] = o(s) /\ a \notin E(i + 1)
        BY <1>4, <1>5, <2>2, <3>1, <3>3
      <4> QED BY <1>3, <3>1, <4>1
    <3>4. CASE i + 1 < s
      BY <3>1, <3>4
    <3> QED BY <3>1, <3>2, <3>3, <3>4
  <2>3. \A i \in 0..Slots : i \in S
    <3> HIDE DEF S
    <3> QED BY <1>2, <2>1, <2>2, Upwards
  <2> QED BY <1>2, <2>3
<1>6. ASSUME \A s \in 1..Slots : a \notin E(s) PROVE f[Slots][a] = u.text[a]
  <2> DEFINE S == {i \in 0..Slots : f[i][a] = u.text[a]}
  <2>1. 0 \in S
    BY <1>1, <1>2
  <2>2. ASSUME NEW i \in 0..Slots - 1, i \in S PROVE i + 1 \in S
    <3>1. i + 1 \in 1..Slots /\ i + 1 - 1 = i /\ i + 1 \in 0..Slots
      BY <1>2
    <3> QED BY <1>3, <1>6, <2>2, <3>1
  <2>3. \A i \in 0..Slots : i \in S
    <3> HIDE DEF S
    <3> QED BY <1>2, <2>1, <2>2, Upwards
  <2> QED BY <1>2, <2>3
<1> QED BY <1>1, <1>5, <1>6 DEF E, o

(* To load an overlay into the image is to choose it.                      *)
LEMMA LoadChooses ==
  ASSUME NEW u \in Ucodes, FillsSlots(u), NEW c \in Choices(u),
         NEW s \in 1..Slots, NEW k \in DOMAIN u.overlays[s]
  PROVE  /\ [c EXCEPT ![s] = k - 1] \in Choices(u)
         /\ Patched(u, [c EXCEPT ![s] = k - 1]) = Loaded(u, Patched(u, c), s, k)
<1> DEFINE d == [c EXCEPT ![s] = k - 1]
           p == Patched(u, c)
           q == Patched(u, d)
           l == Loaded(u, p, s, k)
<1>1. /\ c \in [1..Slots -> 0..MaxOverlays - 1]
      /\ \A r \in 1..Slots : c[r] < Len(u.overlays[r]) /\ c[r] + 1 \in DOMAIN u.overlays[r]
  BY ChoiceFacts
<1>2. k \in 1..Len(u.overlays[s]) /\ Len(u.overlays[s]) \in 1..MaxOverlays /\ MaxOverlays \in Nat
  <2>1. u.overlays[s] \in Seq(Seq(Words)) /\ Len(u.overlays[s]) \in 1..MaxOverlays
    BY UcodeFacts
  <2>2. k \in 1..Len(u.overlays[s])
    BY <2>1
  <2> QED BY <2>1, <2>2, CodeAssumption
<1>3. k - 1 \in 0..MaxOverlays - 1 /\ k - 1 < Len(u.overlays[s]) /\ k - 1 + 1 = k
  BY <1>2
<1>4. d[s] = k - 1 /\ \A r \in 1..Slots : r # s => d[r] = c[r]
  BY <1>1
<1>5. d \in [1..Slots -> 0..MaxOverlays - 1]
  BY <1>1, <1>3
<1> HIDE DEF d
<1>6. d \in Choices(u)
  BY <1>1, <1>3, <1>4, <1>5 DEF Choices
<1>7. ASSUME NEW a \in Text PROVE q[a] = l[a]
  <2>1. Extent(u, s, k) = Extent(u, s, c[s] + 1)
    BY <1>1 DEF FillsSlots
  <2>2. CASE a \in Extent(u, s, k)
    <3>1. q[a] = u.overlays[s][k][a - u.start[s] + 1]
      BY <1>3, <1>4, <1>6, <2>2, PatchedAt
    <3>2. l[a] = u.overlays[s][k][a - u.start[s] + 1]
      <4>1. p \in [Text -> AllWords(u)]
        BY PatchedTyped
      <4> HIDE DEF p
      <4> QED BY <2>2, <4>1, LoadedIs
    <3> QED BY <3>1, <3>2
  <2>3. CASE a \notin Extent(u, s, k)
    <3>1. l[a] = p[a]
      <4>1. p \in [Text -> AllWords(u)]
        BY PatchedTyped
      <4> HIDE DEF p
      <4> QED BY <2>3, <4>1, LoadedIs
    <3>2. CASE \E r \in 1..Slots : a \in Extent(u, r, c[r] + 1)
      <4>1. PICK r \in 1..Slots : a \in Extent(u, r, c[r] + 1)
        BY <3>2
      <4>2. r # s /\ d[r] = c[r]
        BY <1>4, <2>1, <2>3, <4>1
      <4>3. p[a] = u.overlays[r][c[r] + 1][a - u.start[r] + 1]
        BY <4>1, PatchedAt
      <4>4. q[a] = u.overlays[r][c[r] + 1][a - u.start[r] + 1]
        <5>1. a \in Extent(u, r, d[r] + 1)
          BY <4>1, <4>2
        <5>2. q[a] = u.overlays[r][d[r] + 1][a - u.start[r] + 1]
          BY <1>6, <5>1, PatchedAt
        <5> QED BY <4>2, <5>2
      <4> QED BY <3>1, <4>3, <4>4
    <3>3. CASE \A r \in 1..Slots : a \notin Extent(u, r, c[r] + 1)
      <4>1. p[a] = u.text[a]
        BY <3>3, PatchedAt
      <4>2. \A r \in 1..Slots : a \notin Extent(u, r, d[r] + 1)
        BY <1>3, <1>4, <2>3, <3>3
      <4>3. q[a] = u.text[a]
        BY <1>6, <4>2, PatchedAt
      <4> QED BY <3>1, <4>1, <4>3
    <3> QED BY <3>2, <3>3
  <2> QED BY <2>2, <2>3
<1>8. q = [a \in Text |-> q[a]] /\ l = [a \in Text |-> l[a]]
  <2>1. q \in [Text -> AllWords(u)]
    BY <1>6, PatchedTyped
  <2>2. l = [a \in Text |-> l[a]]
    <3>1. p \in [Text -> AllWords(u)]
      BY PatchedTyped
    <3> HIDE DEF p
    <3> QED BY <3>1, LoadedIs
  <2> HIDE DEF q, l
  <2> QED BY <2>1, <2>2
<1>9. q = l
  <2> HIDE DEF q, l
  <2> QED BY <1>7, <1>8
<1> QED BY <1>6, <1>9 DEF d

-----------------------------------------------------------------------------
(* The words of an image.                                                  *)
LEMMA WordFacts ==
  ASSUME NEW w \in Words
  PROVE  /\ w.op \in {"plain", "li", "name", "dma", "branch", "jr", "jalr", "break"}
         /\ w.op = "li" => w.value \in Addresses
         /\ w.op = "name" => w.what \in Names
         /\ w.op = "branch" => w.target \in Text /\ w.cond \in BOOLEAN /\ w.link \in BOOLEAN
         /\ w.op \in {"jr", "jalr"} => w.reg \in {"ra", "t"}
<1>1. CASE w \in {Plain, Dma, Jalr, Break}
  BY <1>1 DEF Plain, Dma, Jalr, Break
<1>2. CASE w \in {Li(a) : a \in Addresses}
  BY <1>2 DEF Li
<1>3. CASE w \in [op : {"name"}, what : Names]
  BY <1>3
<1>4. CASE w \in {Branch(cond, link, a) : cond \in BOOLEAN, link \in BOOLEAN, a \in Text}
  BY <1>4 DEF Branch
<1>5. CASE w \in {Jr(reg) : reg \in {"ra", "t"}}
  BY <1>5 DEF Jr
<1> QED BY <1>1, <1>2, <1>3, <1>4, <1>5 DEF Words

(* A name that a microcode's code gives the DMA is data or an overlay.     *)
Found(u, d) == d = Data \/ (d[1] \in 1..Slots /\ d[2] \in DOMAIN u.overlays[d[1]])

LEMMA NamesFound ==
  ASSUME NEW u \in Ucodes, NEW w \in AllWords(u), w.op = "name"
  PROVE  w.what \in Names /\ Found(u, w.what)
<1>1. w.what \in Names
  BY AllWordsTyped, WordFacts
<1>2. w.what = Data \/ w.what[2] \in DOMAIN u.overlays[w.what[1]]
  BY CodeAssumption
<1>3. w.what # Data => w.what[1] \in 1..Slots
  BY <1>1 DEF Names
<1> QED BY <1>1, <1>2, <1>3 DEF Found

LEMMA ImageFacts ==
  ASSUME NEW u \in Ucodes, Followed(u), NEW d \in Choices(u), NEW c, c = Patched(u, d)
  PROVE  /\ c \in Images(u)
         /\ \A a \in Text : c[a] \in Words /\ c[a] \in AllWords(u)
         /\ \A a \in Text : Transfers(c[a]) => a + 1 \in Text /\ ~Transfers(c[a + 1])
         /\ \A a \in Text : Links(c[a]) => Transfers(c[a]) /\ Always(c[a]) /\ a + 2 \in Text
<1>1. c \in Images(u)
  BY DEF Images
<1>2. \A a \in Text : c[a] \in Words /\ c[a] \in AllWords(u)
  <2>1. c \in [Text -> AllWords(u)]
    BY PatchedTyped
  <2> QED BY <2>1, AllWordsTyped
<1>3. \A a \in Text : Transfers(c[a]) =>
        /\ a + 1 \in Text /\ ~Transfers(c[a + 1])
        /\ Links(c[a]) => Always(c[a]) /\ a + 2 \in Text
  BY <1>1 DEF Followed, Translatable
<1>4. \A a \in Text : Links(c[a]) => Transfers(c[a])
  BY DEF Links, Transfers
<1> QED BY <1>1, <1>2, <1>3, <1>4

LEMMA Places ==
  /\ Text \subseteq Addresses /\ Text \subseteq Nat /\ Addresses \subseteq Nat
  /\ NoAddress \notin Addresses
  /\ \A a \in Text : a + 1 \in Addresses
  /\ 0 \in Text /\ Size \in Addresses /\ Size \notin Text
BY CodeAssumption DEF Text, Addresses, NoAddress

-----------------------------------------------------------------------------
(* Wherever the emitted code has stopped for a DMA or between a transfer   *)
(* and its target, the words that brought it there are still in IMEM.      *)
InTransfer == step \in {"slot", "go"} \/ (step = "swap" /\ resume.delay)

Swapping ==
  step = "swap" =>
    /\ resume.at = (IF resume.delay THEN at + 1 ELSE at)
    /\ Swaps(code[resume.at], regs)

Good ==
  /\ UcodeTypeOK
  /\ slots \in Choices(ucode) /\ code = Patched(ucode, slots)
  /\ Found(ucode, regs.dma)
  /\ InTransfer => Transfers(code[at])
  /\ Swapping
  /\ exit # "UnhandledResumeTarget"

LEMMA EffectTyped ==
  ASSUME NEW u \in Ucodes, NEW w \in AllWords(u), NEW r \in Registers, Found(u, r.dma)
  PROVE  /\ Effect(w, r) \in Registers /\ Found(u, Effect(w, r).dma)
         /\ w.op # "li" => Effect(w, r).t = r.t
         /\ w.op = "li" => Effect(w, r).t = w.value
         /\ Effect(w, r).ra = r.ra
<1>1. w \in Words
  BY AllWordsTyped
<1>2. CASE w.op = "li"
  <2>1. Effect(w, r) = [r EXCEPT !.t = w.value] /\ w.value \in Addresses
    BY <1>1, <1>2, WordFacts DEF Effect
  <2> QED BY <1>2, <2>1 DEF Registers
<1>3. CASE w.op = "name"
  <2>1. Effect(w, r) = [r EXCEPT !.dma = w.what] /\ w.what \in Names /\ Found(u, w.what)
    BY <1>3, NamesFound DEF Effect
  <2> QED BY <1>3, <2>1 DEF Registers
<1>4. CASE w.op \notin {"li", "name"}
  <2>1. Effect(w, r) = r
    BY <1>4 DEF Effect
  <2> QED BY <1>4, <2>1
<1> QED BY <1>2, <1>3, <1>4

LEMMA LinkedTyped ==
  ASSUME NEW w, NEW a \in Nat, NEW r \in Registers, Links(w) => a + 2 \in Addresses
  PROVE  /\ Linked(w, a, r) \in Registers
         /\ Linked(w, a, r).dma = r.dma /\ Linked(w, a, r).t = r.t
         /\ Linked(w, a, r).ra = IF Links(w) THEN a + 2 ELSE r.ra
<1>1. CASE Links(w)
  BY <1>1 DEF Linked, Registers
<1>2. CASE ~Links(w)
  BY <1>2 DEF Linked, Registers
<1> QED BY <1>1, <1>2

LEMMA GoodInit ==
  ASSUME UcodeInit, Followed(ucode)
  PROVE  Good
<1>1. ucode \in Ucodes /\ ucode \in Microcodes /\ ucode.text = Patched(ucode, Zeros)
  BY UcodeFacts DEF UcodeInit, Followed, StartsWithFirst
<1>2. Zeros \in Choices(ucode)
  BY <1>1, ZerosIs
<1>3. slots \in [1..Slots -> Nat] /\ \A s \in 1..Slots : slots[s] + 1 \in DOMAIN ucode.overlays[s]
  BY <1>1, <1>2, ChoiceFacts DEF UcodeInit, Zeros
<1>4. regs \in Registers /\ regs.dma = Data
  BY Places DEF UcodeInit, Registers, Names
<1>5. UcodeTypeOK
  BY <1>1, <1>3, <1>4, Places, UcodeAssumption DEF UcodeInit, UcodeTypeOK, Reasons
<1> QED BY <1>1, <1>2, <1>4, <1>5 DEF UcodeInit, Good, Found, InTransfer, Swapping

LEMMA GoodCode ==
  ASSUME ucode \in Ucodes, Followed(ucode), Good
  PROVE  /\ code \in Images(ucode)
         /\ \A a \in Text : code[a] \in Words /\ code[a] \in AllWords(ucode)
         /\ \A a \in Text : Transfers(code[a]) => a + 1 \in Text /\ ~Transfers(code[a + 1])
         /\ \A a \in Text : Links(code[a]) => Transfers(code[a]) /\ Always(code[a]) /\ a + 2 \in Text
<1>1. slots \in Choices(ucode) /\ code = Patched(ucode, slots)
  BY DEF Good
<1> QED BY <1>1, ImageFacts

(* What the wrapper notes and runs is what the DMA has read.               *)
LEMMA SwapLoads ==
  ASSUME ucode \in Ucodes, Followed(ucode), Good, SwapOverlay
  PROVE  /\ slots' \in Choices(ucode) /\ code' = Patched(ucode, slots')
         /\ code' = Loaded(ucode, code, regs.dma[1], regs.dma[2])
         /\ code[resume.at].op = "dma" /\ regs.dma # Data
         /\ resume.at \in Text /\ exit' = "none"
         /\ resume.delay => step' = "go" /\ at' = at /\ resume.at = at + 1 /\ code'[at] = code[at]
                            /\ Transfers(code[at]) /\ at \in Text
         /\ ~resume.delay => step' = "label" /\ at' = resume.at + 1 /\ resume.at = at
<1>1. step = "swap" /\ exit = "none" /\ at \in Text /\ resume \in [at : Text, delay : BOOLEAN]
  BY DEF SwapOverlay, Running, Good, UcodeTypeOK
<1>2. /\ resume.at = (IF resume.delay THEN at + 1 ELSE at)
      /\ code[resume.at].op = "dma" /\ regs.dma # Data /\ resume.at \in Text
  BY <1>1 DEF Good, Swapping, Swaps
<1> DEFINE s == regs.dma[1]
           k == regs.dma[2]
<1>3. s \in 1..Slots /\ k \in DOMAIN ucode.overlays[s]
  BY <1>2 DEF Good, Found
<1>4. slots' = [slots EXCEPT ![s] = k - 1] /\ slots \in Choices(ucode) /\ code = Patched(ucode, slots)
  BY DEF SwapOverlay, Good
<1>5. slots' \in Choices(ucode) /\ Patched(ucode, slots') = Loaded(ucode, code, s, k)
  <2> HIDE DEF s, k
  <2>1. FillsSlots(ucode)
    BY DEF Followed
  <2>2. /\ [slots EXCEPT ![s] = k - 1] \in Choices(ucode)
        /\ Patched(ucode, [slots EXCEPT ![s] = k - 1]) = Loaded(ucode, Patched(ucode, slots), s, k)
    BY <1>3, <1>4, <2>1, LoadChooses
  <2> QED BY <1>4, <2>2
<1>6. code' = Patched(ucode, slots')
  <2>1. code' = Permutation(ucode, Index(ucode, slots'))
    BY DEF SwapOverlay
  <2>2. Permutation(ucode, Index(ucode, slots')) = Patched(ucode, slots')
    BY <1>5, PermutationIs
  <2> QED BY <2>1, <2>2
<1>7. code \in Images(ucode) /\ code' \in Images(ucode)
  BY <1>5, <1>6, GoodCode DEF Images
<1>8. resume.delay => InTransfer /\ Transfers(code[at])
  BY <1>1 DEF Good, InTransfer
<1>9. resume.delay => resume.at \in DelayTargets(ucode) /\ code'[at] = code[at]
  <2> SUFFICES ASSUME resume.delay PROVE resume.at \in DelayTargets(ucode) /\ code'[at] = code[at]
    OBVIOUS
  <2>1. resume.at = at + 1 /\ resume.at > 0 /\ resume.at - 1 = at
    BY <1>1, <1>2, Places
  <2>2. InSlot(code, resume.at)
    BY <1>8, <2>1 DEF InSlot
  <2>3. resume.at \in DelayTargets(ucode)
    BY <1>2, <1>7, <2>2 DEF DelayTargets
  <2>4. code'[resume.at - 1] = code[resume.at - 1]
    BY <1>2, <1>7, <2>2 DEF Followed, KeepsSlots
  <2> QED BY <2>1, <2>3, <2>4
<1>10. resume.at \in ResumeTargets(ucode)
  BY <1>2, <1>7 DEF ResumeTargets
<1>11. /\ exit' = "none"
       /\ resume.delay => step' = "go" /\ at' = at
       /\ ~resume.delay => step' = "label" /\ at' = resume.at + 1
  BY <1>1, <1>9, <1>10 DEF SwapOverlay
<1> QED BY <1>1, <1>2, <1>5, <1>6, <1>8, <1>9, <1>11

(* Actions that leave the code alone: what is left to show.                *)
LEMMA GoodHere ==
  ASSUME ucode \in Ucodes, Followed(ucode), Good, UNCHANGED <<ucode, slots, code>>,
         at' \in Addresses, step' \in {"label", "instr", "slot", "go", "swap"},
         step' # "label" => at' \in Text,
         InTransfer' => Transfers(code[at']) /\ at' \in Text,
         jump' \in Addresses, resume' \in [at : Text, delay : BOOLEAN],
         regs' \in Registers, Found(ucode, regs'.dma),
         ticks' \in 0..WatchdogLimit + 1, exit' \in Reasons \ {"UnhandledResumeTarget"},
         exit' = "none" => ticks' <= WatchdogLimit, tasks' \in 1..MaxTasks,
         Swapping'
  PROVE  Good'
<1>1. step' \in {"slot", "go"} => at' + 1 \in Text
  BY GoodCode DEF InTransfer
<1>2. /\ ucode' \in Microcodes /\ slots' \in [1..Slots -> Nat]
      /\ \A s \in 1..Slots : slots'[s] + 1 \in DOMAIN ucode'.overlays[s]
      /\ code' \in Images(ucode') \cup {ucode'.text}
      /\ slots' \in Choices(ucode') /\ code' = Patched(ucode', slots')
  BY DEF Good, UcodeTypeOK
<1>3. UcodeTypeOK'
  BY <1>1, <1>2 DEF UcodeTypeOK
<1>4. (InTransfer => Transfers(code[at]))'
  BY DEF InTransfer
<1>5. Found(ucode', regs'.dma) /\ exit' # "UnhandledResumeTarget"
  OBVIOUS
<1> QED BY <1>2, <1>3, <1>4, <1>5 DEF Good

LEMMA GoodStep ==
  ASSUME ucode \in Ucodes, Followed(ucode), Good, [UcodeNext]_ucodeVars
  PROVE  Good' /\ ucode' = ucode
<1>t. /\ at \in Addresses /\ step \in {"label", "instr", "slot", "go", "swap"}
      /\ (step # "label" => at \in Text) /\ (step \in {"slot", "go"} => at + 1 \in Text)
      /\ jump \in Addresses /\ resume \in [at : Text, delay : BOOLEAN] /\ regs \in Registers
      /\ ticks \in 0..WatchdogLimit + 1 /\ exit \in Reasons \ {"UnhandledResumeTarget"}
      /\ (exit = "none" => ticks <= WatchdogLimit) /\ tasks \in 1..MaxTasks
      /\ Found(ucode, regs.dma) /\ (InTransfer => Transfers(code[at])) /\ Swapping
      /\ (InTransfer => at \in Text) /\ WatchdogLimit \in Nat /\ MaxTasks \in Nat \ {0}
  BY UcodeAssumption DEF Good, UcodeTypeOK, InTransfer
<1>c. /\ \A a \in Text : code[a] \in Words /\ code[a] \in AllWords(ucode)
      /\ \A a \in Text : Transfers(code[a]) => a + 1 \in Text
      /\ \A a \in Text : Links(code[a]) => a + 2 \in Text
  BY GoodCode
<1>1. CASE Begin
  <2>1. /\ UNCHANGED <<ucode, slots, code, at, jump, resume, regs, tasks>> /\ exit = "none" /\ step = "label"
        /\ step' = IF exit' = "none" THEN "instr" ELSE step
    BY <1>1 DEF Begin, Running
  <2>2. ticks' \in 0..WatchdogLimit + 1 /\ (exit' = "none" => ticks' <= WatchdogLimit /\ at \in Text)
    BY <1>1, <1>t, <2>1 DEF Begin
  <2>3. exit' \in Reasons \ {"UnhandledResumeTarget"}
    BY <1>1 DEF Begin, Reasons
  <2>4. ~InTransfer' /\ Swapping'
    BY <2>1 DEF InTransfer, Swapping
  <2> QED BY <1>t, <2>1, <2>2, <2>3, <2>4, GoodHere
<1>2. CASE Unsupported
  <2>1. /\ UNCHANGED <<ucode, slots, code, at, step, jump, resume, regs, ticks, tasks>>
        /\ exit' \in Reasons \ {"UnhandledResumeTarget"} /\ exit' # "none"
    BY <1>2 DEF Unsupported, Reasons
  <2>2. (InTransfer' => InTransfer) /\ Swapping'
    BY <1>t, <2>1 DEF InTransfer, Swapping
  <2> QED BY <1>t, <2>1, <2>2, GoodHere
<1>3. CASE PlainInstr
  <2>1. /\ UNCHANGED <<ucode, slots, code, jump, resume, ticks, exit, tasks>>
        /\ step = "instr" /\ step' = "label" /\ at' = at + 1 /\ regs' = Effect(code[at], regs)
    BY <1>3 DEF PlainInstr, Executing, Running, Ins
  <2>2. regs' \in Registers /\ Found(ucode, regs'.dma) /\ at' \in Addresses
    BY <1>c, <1>t, <2>1, EffectTyped, Places
  <2>3. ~InTransfer' /\ Swapping'
    BY <2>1 DEF InTransfer, Swapping
  <2> QED BY <1>t, <2>1, <2>2, <2>3, GoodHere
<1>4. CASE Transfer
  <2>1. /\ UNCHANGED <<ucode, slots, code, at, resume, ticks, exit, tasks>>
        /\ step = "instr" /\ step' = "slot" /\ Transfers(code[at])
        /\ regs' = Linked(code[at], at, regs)
        /\ jump' = IF code[at].op = "branch" THEN jump ELSE regs[code[at].reg]
    BY <1>4 DEF Transfer, Executing, Running, Ins
  <2>2. regs' \in Registers /\ regs'.dma = regs.dma
    BY <1>c, <1>t, <2>1, LinkedTyped, Places
  <2>3. jump' \in Addresses
    <3>1. code[at].op # "branch" => code[at].reg \in {"ra", "t"}
      BY <1>c, <1>t, <2>1, WordFacts DEF Transfers
    <3>2. regs["ra"] \in Addresses /\ regs["t"] \in Addresses
      BY <1>t DEF Registers
    <3> QED BY <1>t, <2>1, <3>1, <3>2
  <2>4. Swapping'
    BY <2>1 DEF Swapping
  <2> QED BY <1>t, <2>1, <2>2, <2>3, <2>4, GoodHere
<1>5. CASE NotTaken
  <2>1. /\ UNCHANGED <<ucode, slots, code, jump, resume, regs, ticks, exit, tasks>>
        /\ step = "instr" /\ step' = "label" /\ at' = at + 1
    BY <1>5 DEF NotTaken, Executing, Running
  <2>2. at' \in Addresses /\ ~InTransfer' /\ Swapping'
    BY <1>t, <2>1, Places DEF InTransfer, Swapping
  <2> QED BY <1>t, <2>1, <2>2, GoodHere
<1>6. CASE DelaySlot
  <2>1. /\ UNCHANGED <<ucode, slots, code, at, jump, resume, ticks, exit, tasks>>
        /\ step = "slot" /\ step' = "go" /\ regs' = Effect(code[at + 1], regs) /\ at + 1 \in Text
    BY <1>6, <1>t DEF DelaySlot, Executing, Running, Here
  <2>2. regs' \in Registers /\ Found(ucode, regs'.dma)
    BY <1>c, <1>t, <2>1, EffectTyped
  <2>3. InTransfer /\ Swapping'
    BY <2>1 DEF InTransfer, Swapping
  <2> QED BY <1>t, <2>1, <2>2, <2>3, GoodHere
<1>7. CASE Go
  <2>1. /\ UNCHANGED <<ucode, slots, code, jump, resume, regs, ticks, tasks>> /\ exit = "none"
        /\ step = "go" /\ InTransfer /\ at \in Text
    BY <1>7, <1>t DEF Go, Running, InTransfer
  <2>2. Target \in Addresses
    BY <1>c, <1>t, <2>1, WordFacts, Places DEF Target, Ins
  <2>3. \/ at' = Target /\ step' = "label" /\ exit' = exit
        \/ exit' = "UnhandledJumpTarget" /\ at' = at /\ step' = step
    BY <1>7 DEF Go
  <2>4. exit' \in Reasons \ {"UnhandledResumeTarget"} /\ (exit' = "none" => exit = "none")
    BY <1>t, <2>1, <2>3 DEF Reasons
  <2>5. (InTransfer' => at' = at) /\ Swapping'
    BY <2>1, <2>3 DEF InTransfer, Swapping
  <2>6. at' \in Addresses /\ (step' # "label" => at' \in Text) /\ step' \in {"label", "go"}
    BY <1>t, <2>1, <2>2, <2>3
  <2> QED BY <1>t, <2>1, <2>4, <2>5, <2>6, GoodHere
<1>8. CASE Broke
  <2>1. /\ UNCHANGED <<ucode, slots, code, at, step, jump, resume, regs, ticks, tasks>>
        /\ exit' \in Reasons \ {"UnhandledResumeTarget"} /\ exit' # "none"
    BY <1>8 DEF Broke, Reasons
  <2>2. (InTransfer' => InTransfer) /\ Swapping'
    BY <1>t, <2>1 DEF InTransfer, Swapping
  <2> QED BY <1>t, <2>1, <2>2, GoodHere
<1>9. CASE DmaRead
  <2>1. /\ UNCHANGED <<ucode, slots, code, at, jump, regs, ticks, exit, tasks>>
        /\ step \in {"instr", "slot"} /\ step' = "swap" /\ Swaps(code[Here], regs)
        /\ resume' = [at |-> Here, delay |-> step = "slot"]
    BY <1>9 DEF DmaRead, Executing, Running
  <2>2. at \in Text /\ Here \in Text /\ Here = IF step = "slot" THEN at + 1 ELSE at
    BY <1>t, <2>1 DEF Here
  <2>3. resume' \in [at : Text, delay : BOOLEAN] /\ resume'.at = Here /\ (resume'.delay <=> step = "slot")
    BY <2>1, <2>2
  <2>4. InTransfer' => InTransfer
    BY <2>1, <2>3 DEF InTransfer
  <2>5. Swapping'
    BY <2>1, <2>2, <2>3 DEF Swapping
  <2> QED BY <1>t, <2>1, <2>2, <2>3, <2>4, <2>5, GoodHere
<1>10. CASE SwapOverlay
  <2>1. /\ UNCHANGED <<ucode, jump, resume, regs, ticks, tasks>> /\ exit = "none"
    BY <1>10 DEF SwapOverlay, Running
  <2>2. /\ slots' \in Choices(ucode') /\ code' = Patched(ucode', slots') /\ exit' = "none"
        /\ resume.at \in Text
        /\ resume.delay => step' = "go" /\ at' = at /\ resume.at = at + 1 /\ code'[at] = code[at]
                           /\ Transfers(code[at]) /\ at \in Text
        /\ ~resume.delay => step' = "label" /\ at' = resume.at + 1
    BY <1>10, <2>1, SwapLoads
  <2>3. /\ slots' \in [1..Slots -> Nat]
        /\ \A s \in 1..Slots : slots'[s] + 1 \in DOMAIN ucode'.overlays[s]
    <3>1. /\ slots' \in [1..Slots -> 0..MaxOverlays - 1]
          /\ \A s \in 1..Slots : slots'[s] \in Nat /\ slots'[s] + 1 \in DOMAIN ucode'.overlays[s]
      BY <2>1, <2>2, ChoiceFacts
    <3> QED BY <3>1
  <2>4. code' \in Images(ucode')
    BY <2>2 DEF Images
  <2>5. /\ at' \in Addresses /\ step' \in {"go", "label"} /\ (step' # "label" => at' \in Text)
        /\ (step' = "go" => at' + 1 \in Text)
    BY <1>t, <2>2, Places
  <2>6. (InTransfer' => Transfers(code'[at'])) /\ Swapping'
    BY <2>2, <2>5 DEF InTransfer, Swapping
  <2>7. UcodeTypeOK'
    BY <1>t, <2>1, <2>2, <2>3, <2>4, <2>5, UcodeFacts DEF UcodeTypeOK
  <2> QED BY <1>t, <2>1, <2>2, <2>6, <2>7 DEF Good
<1>11. CASE NextTask
  <2>1. /\ UNCHANGED <<ucode, jump, resume, regs>> /\ slots' = Zeros /\ code' = ucode.text
        /\ at' = 0 /\ step' = "label" /\ ticks' = 0 /\ exit' = "none" /\ tasks' = tasks + 1 /\ tasks < MaxTasks
    BY <1>11 DEF NextTask
  <2>2. slots' \in Choices(ucode') /\ code' = Patched(ucode', slots')
    BY <2>1, ZerosIs DEF Followed, StartsWithFirst
  <2>3. /\ slots' \in [1..Slots -> Nat]
        /\ \A s \in 1..Slots : slots'[s] + 1 \in DOMAIN ucode'.overlays[s]
    <3>1. /\ slots' \in [1..Slots -> 0..MaxOverlays - 1]
          /\ \A s \in 1..Slots : slots'[s] \in Nat /\ slots'[s] + 1 \in DOMAIN ucode'.overlays[s]
      BY <2>1, <2>2, ChoiceFacts
    <3> QED BY <3>1
  <2>4. ~InTransfer' /\ Swapping' /\ at' \in Addresses /\ tasks' \in 1..MaxTasks
    BY <1>t, <2>1, Places DEF InTransfer, Swapping
  <2>5. UcodeTypeOK'
    BY <1>t, <2>1, <2>3, <2>4, UcodeFacts DEF UcodeTypeOK, Reasons
  <2> QED BY <1>t, <2>1, <2>2, <2>4, <2>5 DEF Good
<1>12. CASE UNCHANGED ucodeVars
  <2>1. UNCHANGED <<ucode, slots, code, at, step, jump, resume, regs, ticks, exit, tasks>>
    BY <1>12 DEF ucodeVars
  <2>2. (InTransfer' <=> InTransfer) /\ Swapping'
    BY <1>t, <2>1 DEF InTransfer, Swapping
  <2> QED BY <1>t, <2>1, <2>2, GoodHere
<1> QED
  BY <1>1, <1>2, <1>3, <1>4, <1>5, <1>6, <1>7, <1>8, <1>9, <1>10, <1>11, <1>12 DEF UcodeNext

-----------------------------------------------------------------------------
(* The RSP reads the words as the recompiler does.                         *)
LEMMA SameRsp ==
  /\ Rsp!Text = Text /\ Rsp!NoAddress = NoAddress /\ Rsp!Microcodes = Microcodes
  /\ Rsp!Registers = Registers
  /\ \A w, r : Rsp!Effect(w, r) = Effect(w, r)
  /\ \A w, a, r : Rsp!Linked(w, a, r) = Linked(w, a, r)
  /\ \A w, r : Rsp!Swaps(w, r) <=> Swaps(w, r)
  /\ \A u, m, s, k : Rsp!Loaded(u, m, s, k) = Loaded(u, m, s, k)
<1>1. Rsp!Text = Text /\ Rsp!NoAddress = NoAddress /\ Rsp!Addresses = Addresses /\ Rsp!Data = Data
  BY Zenon DEF Rsp!Text, Text, Rsp!NoAddress, NoAddress, Rsp!Addresses, Addresses, Rsp!Data, Data
<1>2. Rsp!Names = Names
  BY <1>1, Zenon DEF Rsp!Names, Names
<1>3. Rsp!Registers = Registers
  BY <1>1, <1>2, Zenon DEF Rsp!Registers, Registers
<1>4. Rsp!Words = Words
  BY <1>1, <1>2 DEF Rsp!Words, Words, Rsp!Plain, Plain, Rsp!Dma, Dma, Rsp!Jalr, Jalr,
     Rsp!Break, Break, Rsp!Li, Li, Rsp!Branch, Branch, Rsp!Jr, Jr
<1>5. Rsp!Microcodes = Microcodes
  BY <1>1, <1>4, Zenon DEF Rsp!Microcodes, Microcodes
<1>6. \A w, r : Rsp!Effect(w, r) = Effect(w, r)
  BY Zenon DEF Rsp!Effect, Effect
<1>7. \A w, a, r : Rsp!Linked(w, a, r) = Linked(w, a, r)
  BY Zenon DEF Rsp!Linked, Linked, Rsp!Links, Links
<1>8. \A w, r : Rsp!Swaps(w, r) <=> Swaps(w, r)
  BY <1>1, Zenon DEF Rsp!Swaps, Swaps
<1>9. \A u, m, s, k : Rsp!Loaded(u, m, s, k) = Loaded(u, m, s, k)
  BY <1>1, Zenon DEF Rsp!Loaded, Loaded
<1> QED BY <1>1, <1>3, <1>5, <1>6, <1>7, <1>8, <1>9

LEMMA RspInit == UcodeInit => Rsp!MInit
<1> SUFFICES ASSUME UcodeInit PROVE Rsp!MInit
  OBVIOUS
<1>1. PC = 0 /\ Pending = NoAddress
  BY DEF UcodeInit, PC, Pending
<1>2. ucode \in Microcodes /\ regs \in Registers
  BY UcodeFacts, Places DEF UcodeInit, Registers, Names
<1> QED BY <1>1, <1>2, SameRsp DEF UcodeInit, Rsp!MInit

(* A transfer's target is an address.                                      *)
LEMMA TargetTyped ==
  ASSUME ucode \in Ucodes, Followed(ucode), Good, at \in Text
  PROVE  Target \in Addresses /\ Target # NoAddress
<1>1. Target \in Addresses
  BY GoodCode, WordFacts, Places DEF Target, Ins, Good, UcodeTypeOK
<1> QED BY <1>1, Places

LEMMA RspStep ==
  ASSUME ucode \in Ucodes, Followed(ucode), Good, [UcodeNext]_ucodeVars
  PROVE  [Rsp!MNext]_(Rsp!mvars)
<1>t. /\ (step # "label" => at \in Text) /\ (step = "slot" => at + 1 \in Text)
      /\ (InTransfer => Transfers(code[at])) /\ Swapping
  BY DEF Good, UcodeTypeOK
<1>s. ASSUME UNCHANGED <<ucode, code, PC, Pending, regs, exit>> PROVE [Rsp!MNext]_(Rsp!mvars)
  BY <1>s DEF Rsp!mvars
<1>h. ASSUME UNCHANGED <<ucode, code, PC, Pending, regs>>, exit = "none", exit' # "none"
      PROVE  [Rsp!MNext]_(Rsp!mvars)
  BY <1>h DEF Rsp!MNext, Rsp!MHalt
<1>k. ASSUME UNCHANGED <<code, at, step, jump, resume>> PROVE UNCHANGED <<PC, Pending, Target>>
  BY <1>k DEF PC, Pending, Target, Ins
<1>1. CASE Begin
  <2>1. /\ UNCHANGED <<ucode, code, at, jump, resume, regs>> /\ exit = "none" /\ step = "label"
        /\ step' = IF exit' = "none" THEN "instr" ELSE step
    BY <1>1 DEF Begin, Running
  <2>2. UNCHANGED <<PC, Pending>>
    BY <2>1 DEF PC, Pending
  <2> QED BY <1>s, <1>h, <2>1, <2>2
<1>2. CASE Unsupported
  BY <1>2, <1>h, <1>k DEF Unsupported
<1>3. CASE PlainInstr
  <2>1. /\ UNCHANGED <<ucode, code, exit>> /\ exit = "none" /\ at \in Text /\ Moves(code[at])
        /\ step = "instr" /\ step' = "label" /\ at' = at + 1 /\ regs' = Effect(code[at], regs)
    BY <1>3, <1>t DEF PlainInstr, Executing, Running, Ins
  <2>2. PC = at /\ Pending = NoAddress /\ PC' = at + 1 /\ Pending' = NoAddress
    BY <2>1 DEF PC, Pending
  <2>3. Rsp!MPlain
    BY <2>1, <2>2, SameRsp DEF Moves, Rsp!MPlain, Rsp!At, Rsp!Advance
  <2> QED BY <2>3 DEF Rsp!MNext
<1>4. CASE Transfer
  <2>1. /\ UNCHANGED <<ucode, code, at, exit>> /\ exit = "none" /\ at \in Text
        /\ step = "instr" /\ step' = "slot" /\ Transfers(code[at])
        /\ regs' = Linked(code[at], at, regs)
        /\ jump' = IF code[at].op = "branch" THEN jump ELSE regs[code[at].reg]
    BY <1>4, <1>t DEF Transfer, Executing, Running, Ins
  <2>2. PC = at /\ Pending = NoAddress /\ PC' = at + 1 /\ Pending' = Target'
    BY <2>1 DEF PC, Pending
  <2>3. Target' = IF code[at].op = "branch" THEN code[at].target ELSE regs[code[at].reg]
    BY <2>1 DEF Target, Ins
  <2>4. Rsp!MTransfer
    BY <2>1, <2>2, <2>3, SameRsp DEF Transfers, Rsp!MTransfer, Rsp!At
  <2> QED BY <2>4 DEF Rsp!MNext
<1>5. CASE NotTaken
  <2>1. /\ UNCHANGED <<ucode, code, regs, exit>> /\ exit = "none" /\ at \in Text
        /\ step = "instr" /\ step' = "label" /\ at' = at + 1 /\ code[at].op = "branch" /\ code[at].cond
    BY <1>5, <1>t DEF NotTaken, Executing, Running, Ins
  <2>2. PC = at /\ Pending = NoAddress /\ PC' = at + 1 /\ Pending' = NoAddress
    BY <2>1 DEF PC, Pending
  <2>3. ~Links(code[at])
    BY <2>1, GoodCode DEF Always
  <2>4. Rsp!MNotTaken
    BY <2>1, <2>2, <2>3, SameRsp DEF Linked, Rsp!MNotTaken, Rsp!At
  <2> QED BY <2>4 DEF Rsp!MNext
<1>6. CASE DelaySlot
  <2>1. /\ UNCHANGED <<ucode, code, at, jump, exit>> /\ exit = "none" /\ at + 1 \in Text /\ at \in Text
        /\ step = "slot" /\ step' = "go" /\ regs' = Effect(code[at + 1], regs) /\ Moves(code[at + 1])
    BY <1>6, <1>t DEF DelaySlot, Executing, Running, Here
  <2>2. PC = at + 1 /\ Pending = Target /\ PC' = Target' /\ Pending' = NoAddress /\ Target' = Target
    BY <2>1 DEF PC, Pending, Target, Ins
  <2>3. Target # NoAddress
    BY <2>1, TargetTyped
  <2>4. Rsp!MPlain
    BY <2>1, <2>2, <2>3, SameRsp DEF Moves, Rsp!MPlain, Rsp!At, Rsp!Advance
  <2> QED BY <2>4 DEF Rsp!MNext
<1>7. CASE Go
  <2>1. UNCHANGED <<ucode, code, jump, resume, regs>> /\ exit = "none" /\ step = "go"
    BY <1>7 DEF Go, Running
  <2>2. PC = Target /\ Pending = NoAddress
    BY <2>1 DEF PC, Pending
  <2>3. CASE at' = Target /\ step' = "label" /\ exit' = exit
    <3>1. PC' = at' /\ Pending' = NoAddress
      BY <2>3 DEF PC, Pending
    <3> QED BY <1>s, <2>1, <2>2, <2>3, <3>1
  <2>4. CASE exit' = "UnhandledJumpTarget" /\ at' = at /\ step' = step
    BY <1>h, <1>k, <2>1, <2>4
  <2> QED BY <1>7, <2>3, <2>4 DEF Go
<1>8. CASE Broke
  BY <1>8, <1>h, <1>k DEF Broke, Executing, Running
<1>9. CASE DmaRead
  <2>1. /\ UNCHANGED <<ucode, code, at, jump, regs, exit>>
        /\ step \in {"instr", "slot"} /\ step' = "swap"
        /\ resume'.delay = (step = "slot")
    BY <1>9 DEF DmaRead, Executing, Running
  <2>2. Target' = Target
    BY <2>1 DEF Target, Ins
  <2>3. UNCHANGED <<PC, Pending>>
    BY <2>1, <2>2 DEF PC, Pending
  <2> QED BY <1>s, <2>1, <2>3
<1>10. CASE SwapOverlay
  <2>1. /\ UNCHANGED <<ucode, jump, resume, regs>> /\ exit = "none" /\ step = "swap" /\ at \in Text
    BY <1>10, <1>t DEF SwapOverlay, Running
  <2>2. /\ code' = Loaded(ucode, code, regs.dma[1], regs.dma[2])
        /\ code[resume.at].op = "dma" /\ regs.dma # Data
        /\ resume.at \in Text /\ exit' = "none"
        /\ resume.delay => step' = "go" /\ at' = at /\ resume.at = at + 1 /\ code'[at] = code[at]
        /\ ~resume.delay => step' = "label" /\ at' = resume.at + 1 /\ resume.at = at
    BY <1>10, SwapLoads
  <2>3. PC = resume.at /\ (Pending = IF resume.delay THEN Target ELSE NoAddress)
    BY <2>1, <2>2 DEF PC, Pending
  <2>4. PC' = (IF Pending = NoAddress THEN resume.at + 1 ELSE Pending) /\ Pending' = NoAddress
    <3>1. CASE resume.delay
      <4>1. PC' = Target' /\ Pending' = NoAddress
        BY <2>2, <3>1 DEF PC, Pending
      <4>2. Target' = Target
        BY <2>1, <2>2, <3>1 DEF Target, Ins
      <4>3. Pending = Target /\ Target # NoAddress
        BY <2>1, <2>3, <3>1, TargetTyped
      <4> QED BY <4>1, <4>2, <4>3
    <3>2. CASE ~resume.delay
      <4>1. PC' = at' /\ Pending' = NoAddress
        BY <2>2, <3>2 DEF PC, Pending
      <4> QED BY <2>2, <2>3, <3>2, <4>1
    <3> QED BY <3>1, <3>2
  <2>5. Swaps(code[PC], regs)
    BY <2>2, <2>3 DEF Swaps
  <2>6. Rsp!MSwap
    BY <2>1, <2>2, <2>3, <2>4, <2>5, SameRsp DEF Rsp!MSwap, Rsp!At, Rsp!Advance
  <2> QED BY <2>6 DEF Rsp!MNext
<1>11. CASE NextTask
  <2>1. /\ UNCHANGED <<ucode, regs>> /\ code' = ucode.text
        /\ at' = 0 /\ step' = "label" /\ exit # "none" /\ exit' = "none"
    BY <1>11 DEF NextTask
  <2>2. PC' = 0 /\ Pending' = NoAddress
    BY <2>1 DEF PC, Pending
  <2>3. Rsp!MBoot
    BY <2>1, <2>2, SameRsp DEF Rsp!MBoot
  <2> QED BY <2>3 DEF Rsp!MNext
<1>12. CASE UNCHANGED ucodeVars
  BY <1>12, <1>s, <1>k DEF ucodeVars
<1> QED
  BY <1>1, <1>2, <1>3, <1>4, <1>5, <1>6, <1>7, <1>8, <1>9, <1>10, <1>11, <1>12 DEF UcodeNext

-----------------------------------------------------------------------------
GoodInv == ucode \in Ucodes /\ (Followed(ucode) => Good)

LEMMA GoodInvInit == UcodeInit => GoodInv
BY GoodInit DEF GoodInv, UcodeInit

LEMMA SameUcode == [UcodeNext]_ucodeVars => ucode' = ucode
BY DEF UcodeNext, ucodeVars, Begin, Unsupported, PlainInstr, Transfer, NotTaken, DelaySlot,
   Go, Broke, DmaRead, SwapOverlay, NextTask

LEMMA GoodInvStep == GoodInv /\ [UcodeNext]_ucodeVars => GoodInv'
BY GoodStep, SameUcode DEF GoodInv

(* The slots the wrapper has noted are what is in IMEM, the function that  *)
(* runs is the one for them, and the wrapper is entered from a DMA it can  *)
(* go on after: for every microcode that is Followed, the types hold.      *)
THEOREM UcodeTypesHold == AllFollowed => (UcodeSpec => []UcodeTypeOK)
<1> SUFFICES ASSUME AllFollowed PROVE UcodeSpec => []UcodeTypeOK
  OBVIOUS
<1>1. GoodInv => UcodeTypeOK
  BY DEF AllFollowed, GoodInv, Good
<1> QED BY <1>1, GoodInvInit, GoodInvStep, PTL DEF UcodeSpec

(* The emitted functions and their wrapper do what the RSP does, which     *)
(* runs the words its DMAs have put into IMEM.                             *)
THEOREM FollowsTheRsp == AllFollowed => (UcodeSpec => FollowsRsp)
<1> SUFFICES ASSUME AllFollowed PROVE UcodeSpec => FollowsRsp
  OBVIOUS
<1>1. GoodInv /\ [UcodeNext]_ucodeVars => [Rsp!MNext]_(Rsp!mvars)
  BY RspStep DEF AllFollowed, GoodInv
<1> QED BY <1>1, GoodInvInit, GoodInvStep, RspInit, PTL DEF UcodeSpec, FollowsRsp, Rsp!MSpec

-----------------------------------------------------------------------------
(* Where an address that is jumped to comes from: a link or an li that is  *)
(* in the text and in every image.                                         *)
From(u, reg, x) ==
  x \in Text => \E a \in Text : IF reg = "ra" THEN Links(u.text[a]) /\ x = a + 2
                                ELSE u.text[a].op = "li" /\ u.text[a].value = x

Known ==
  /\ From(ucode, "ra", regs.ra) /\ From(ucode, "t", regs.t)
  /\ InTransfer /\ code[at].op # "branch" => From(ucode, code[at].reg, jump)
  /\ exit = "UnhandledJumpTarget" => jump \notin Text

LEMMA KeptThere ==
  ASSUME ucode \in Ucodes, Followed(ucode), KeepsAddresses(ucode), Good, NEW a \in Text
  PROVE  /\ Links(code[a]) \/ code[a].op = "li" => ucode.text[a] = code[a]
         /\ Links(ucode.text[a]) \/ ucode.text[a].op = "li" => code[a] = ucode.text[a]
<1>1. code \in Images(ucode)
  BY GoodCode
<1>2. ucode.text \in Images(ucode)
  BY ZerosIs DEF Followed, StartsWithFirst, Images
<1> QED BY <1>1, <1>2 DEF KeepsAddresses

(* So the switch lists it. *)
LEMMA KnownTarget ==
  ASSUME ucode \in Ucodes, Followed(ucode), KeepsAddresses(ucode), Good, Known,
         InTransfer, at \in Text, code[at].op # "branch", jump \in Text
  PROVE  jump \in Targets(ucode, code)
<1>1. code[at].op \in {"jr", "jalr"} /\ code[at].reg \in {"ra", "t"}
  BY GoodCode, WordFacts DEF Good, Transfers
<1>2. CASE code[at].reg = "ra"
  <2>1. PICK a \in Text : Links(ucode.text[a]) /\ jump = a + 2
    BY <1>2 DEF Known, From
  <2>2. Links(code[a])
    BY <2>1, KeptThere
  <2> QED BY <2>1, <2>2 DEF Targets, IndirectTargets
<1>3. CASE code[at].reg = "t"
  <2>1. PICK a \in Text : ucode.text[a].op = "li" /\ ucode.text[a].value = jump
    BY <1>3 DEF Known, From
  <2>2. code[a].op = "li" /\ code[a].value = jump
    BY <2>1, KeptThere
  <2>3. "t" \in JumpsThrough(code)
    BY <1>1, <1>3 DEF JumpsThrough
  <2> QED BY <2>2, <2>3 DEF Targets, IndirectTargets
<1> QED BY <1>1, <1>2, <1>3

(* Actions that change neither the code nor, when they jump, the target.   *)
LEMMA KnownHere ==
  ASSUME Known, ucode' = ucode, regs' = regs,
         exit' = "UnhandledJumpTarget" => jump' \notin Text,
         InTransfer' => InTransfer /\ jump' = jump /\ code'[at'] = code[at]
  PROVE  Known'
BY DEF Known, From

LEMMA KnownEffect ==
  ASSUME ucode \in Ucodes, Followed(ucode), KeepsAddresses(ucode), Good, Known,
         NEW a \in Text, regs' = Effect(code[a], regs), ucode' = ucode
  PROVE  From(ucode', "ra", regs'.ra) /\ From(ucode', "t", regs'.t)
<1>1. regs \in Registers /\ Found(ucode, regs.dma) /\ code[a] \in AllWords(ucode)
  BY GoodCode DEF Good, UcodeTypeOK
<1>2. /\ regs'.ra = regs.ra
      /\ code[a].op # "li" => regs'.t = regs.t
      /\ code[a].op = "li" => regs'.t = code[a].value
  BY <1>1, EffectTyped
<1>3. CASE code[a].op = "li"
  <2>1. ucode.text[a].op = "li" /\ ucode.text[a].value = regs'.t
    BY <1>2, <1>3, KeptThere
  <2> QED BY <1>2, <2>1 DEF Known, From
<1>4. CASE code[a].op # "li"
  BY <1>2, <1>4 DEF Known
<1> QED BY <1>3, <1>4

LEMMA KnownInit ==
  ASSUME UcodeInit PROVE Known
BY Places DEF UcodeInit, Known, From, InTransfer

LEMMA KnownStep ==
  ASSUME ucode \in Ucodes, Followed(ucode), KeepsAddresses(ucode), Good, Known,
         [UcodeNext]_ucodeVars
  PROVE  Known'
<1>t. /\ (step # "label" => at \in Text) /\ (step = "slot" => at + 1 \in Text)
      /\ regs \in Registers /\ Swapping
  BY DEF Good, UcodeTypeOK
<1>j. exit = "UnhandledJumpTarget" => jump \notin Text
  BY DEF Known
<1>1. CASE Begin
  <2>1. UNCHANGED <<ucode, code, at, jump, regs>> /\ ~InTransfer' /\ exit' # "UnhandledJumpTarget"
    BY <1>1 DEF Begin, Running, InTransfer
  <2> QED BY <2>1, KnownHere
<1>2. CASE Unsupported
  <2>1. UNCHANGED <<ucode, code, at, step, jump, resume, regs>> /\ exit' # "UnhandledJumpTarget"
    BY <1>2 DEF Unsupported
  <2>2. InTransfer' => InTransfer
    BY <2>1 DEF InTransfer
  <2> QED BY <2>1, <2>2, KnownHere
<1>3. CASE PlainInstr
  <2>1. /\ UNCHANGED <<ucode, code, jump, exit>> /\ regs' = Effect(code[at], regs) /\ at \in Text
        /\ ~InTransfer'
    BY <1>3, <1>t DEF PlainInstr, Executing, Running, Ins, InTransfer
  <2>2. From(ucode', "ra", regs'.ra) /\ From(ucode', "t", regs'.t)
    BY <2>1, KnownEffect
  <2> QED BY <1>j, <2>1, <2>2 DEF Known
<1>4. CASE Transfer
  <2>1. /\ UNCHANGED <<ucode, code, at, exit>> /\ exit = "none" /\ at \in Text
        /\ Transfers(code[at])
        /\ regs' = Linked(code[at], at, regs)
        /\ jump' = IF code[at].op = "branch" THEN jump ELSE regs[code[at].reg]
    BY <1>4, <1>t DEF Transfer, Executing, Running, Ins
  <2>2. /\ regs'.t = regs.t
        /\ regs'.ra = IF Links(code[at]) THEN at + 2 ELSE regs.ra
    <3>1. at \in Nat /\ (Links(code[at]) => at + 2 \in Addresses)
      BY <2>1, GoodCode, Places
    <3> QED BY <1>t, <2>1, <3>1, LinkedTyped
  <2>3. From(ucode', "ra", regs'.ra)
    <3>1. CASE Links(code[at])
      <4>1. Links(ucode.text[at]) /\ regs'.ra = at + 2
        BY <2>1, <2>2, <3>1, KeptThere
      <4> QED BY <2>1, <4>1 DEF From
    <3>2. CASE ~Links(code[at])
      BY <2>1, <2>2, <3>2 DEF Known
    <3> QED BY <3>1, <3>2
  <2>4. From(ucode', "t", regs'.t)
    BY <2>1, <2>2 DEF Known
  <2>5. code'[at'].op # "branch" => From(ucode', code'[at'].reg, jump')
    <3> SUFFICES ASSUME code[at].op # "branch" PROVE From(ucode, code[at].reg, jump')
      BY <2>1
    <3>1. code[at].reg \in {"ra", "t"}
      BY <2>1, GoodCode, WordFacts DEF Transfers
    <3>2. code[at].reg = "ra" => jump' = regs.ra
      BY <2>1
    <3>3. code[at].reg = "t" => jump' = regs.t
      BY <2>1
    <3> QED BY <3>1, <3>2, <3>3 DEF Known
  <2> QED BY <2>1, <2>3, <2>4, <2>5 DEF Known
<1>5. CASE NotTaken
  <2>1. UNCHANGED <<ucode, jump, regs, exit>> /\ ~InTransfer'
    BY <1>5 DEF NotTaken, InTransfer
  <2> QED BY <1>j, <2>1, KnownHere
<1>6. CASE DelaySlot
  <2>1. /\ UNCHANGED <<ucode, code, at, jump, exit>> /\ InTransfer
        /\ regs' = Effect(code[at + 1], regs) /\ at + 1 \in Text
    BY <1>6, <1>t DEF DelaySlot, Executing, Running, Here, InTransfer
  <2>2. From(ucode', "ra", regs'.ra) /\ From(ucode', "t", regs'.t)
    BY <2>1, KnownEffect
  <2> QED BY <1>j, <2>1, <2>2 DEF Known
<1>7. CASE Go
  <2>1. UNCHANGED <<ucode, code, jump, regs>> /\ exit = "none" /\ step = "go" /\ at \in Text
    BY <1>7, <1>t DEF Go, Running
  <2>2. InTransfer /\ (InTransfer' => at' = at)
    BY <1>7, <2>1 DEF Go, InTransfer
  <2>3. exit' = "UnhandledJumpTarget" => jump' \notin Text
    BY <1>7, <2>1, <2>2, KnownTarget DEF Go, Ins
  <2> QED BY <2>1, <2>2, <2>3, KnownHere
<1>8. CASE Broke
  <2>1. UNCHANGED <<ucode, code, at, step, jump, resume, regs>> /\ exit' # "UnhandledJumpTarget"
    BY <1>8 DEF Broke
  <2>2. InTransfer' => InTransfer
    BY <2>1 DEF InTransfer
  <2> QED BY <2>1, <2>2, KnownHere
<1>9. CASE DmaRead
  <2>1. UNCHANGED <<ucode, code, at, jump, regs, exit>> /\ (InTransfer' => InTransfer)
    BY <1>9 DEF DmaRead, InTransfer
  <2> QED BY <1>j, <2>1, KnownHere
<1>10. CASE SwapOverlay
  <2>1. UNCHANGED <<ucode, jump, resume, regs>> /\ step = "swap"
    BY <1>10 DEF SwapOverlay, Running
  <2>2. /\ exit' = "none"
        /\ resume.delay => at' = at /\ code'[at] = code[at]
        /\ ~resume.delay => step' = "label"
    BY <1>10, SwapLoads
  <2>3. InTransfer' => InTransfer /\ code'[at'] = code[at]
    BY <2>1, <2>2 DEF InTransfer
  <2> QED BY <2>1, <2>2, <2>3, KnownHere
<1>11. CASE NextTask
  <2>1. UNCHANGED <<ucode, jump, regs>> /\ ~InTransfer' /\ exit' = "none"
    BY <1>11 DEF NextTask, InTransfer
  <2> QED BY <2>1, KnownHere
<1>12. CASE UNCHANGED ucodeVars
  <2>1. UNCHANGED <<ucode, code, at, step, jump, resume, regs, exit>>
    BY <1>12 DEF ucodeVars
  <2>2. InTransfer' => InTransfer
    BY <2>1 DEF InTransfer
  <2> QED BY <1>j, <2>1, <2>2, KnownHere
<1> QED
  BY <1>1, <1>2, <1>3, <1>4, <1>5, <1>6, <1>7, <1>8, <1>9, <1>10, <1>11, <1>12 DEF UcodeNext

KnownInv == Followed(ucode) /\ KeepsAddresses(ucode) => Known

LEMMA KnownInvStep == GoodInv /\ KnownInv /\ [UcodeNext]_ucodeVars => KnownInv'
BY KnownStep, SameUcode DEF GoodInv, KnownInv

LEMMA KnownInvInit == UcodeInit => KnownInv
BY KnownInit DEF KnownInv

(* No task ends for want of a label or a resume case within the text.      *)
THEOREM FindsItsWay == UcodeSpec => []NeverLost
<1>1. GoodInv /\ KnownInv => NeverLost
  BY DEF GoodInv, KnownInv, NeverLost, Good, Known
<1> QED BY <1>1, GoodInvInit, GoodInvStep, KnownInvInit, KnownInvStep, PTL DEF UcodeSpec
=============================================================================
