------------------------- MODULE AudioTaskRingProofs -------------------------
(***************************************************************************)
(* The audio-task ring and the output ring for every capacity, every set   *)
(* of buffers and any number of tasks: what is in the slots and what a     *)
(* reader on its own thread takes from them.                               *)
(***************************************************************************)
EXTENDS AudioTaskRing, Integers, FiniteSetTheorems, SequenceTheorems, TLAPS

(* The hook's steps: those at which a slot bears no index, those at which  *)
(* it is not what the ring's count says.                                   *)
PcmSteps  == {"fillPcm", "indexPcm", "publishPcm"}
TaskSteps == {"stampTask", "fillTask", "indexTask", "publishTask"}
OpenAt == [r \in Rings |-> IF r = "pcm" THEN {"fillPcm", "indexPcm"} ELSE {"fillTask", "indexTask"}]

Payloads    == SUBSET (0..MaxTasks)
SlotNumbers == 0..Capacity - 1
SlotRecords == [idx : 0..Sentinel, data : Payloads]
SlotTypes   == slots \in [Rings -> [SlotNumbers -> SlotRecords]]

Types ==
  /\ task \in [id : 0..MaxTasks, audio : BOOLEAN, saves : SUBSET Buffers,
               recorded : BOOLEAN, begun : BOOLEAN]
  /\ output \in [Buffers -> 0..MaxTasks]
  /\ enabled \in BOOLEAN /\ lastPc \in {"boot", "body"}
  /\ SlotTypes
  /\ published \in [Rings -> Nat]
  /\ pending \in [idx : 0..MaxTasks, saves : SUBSET Buffers]
  /\ hook \in {"idle", "flush"} \cup PcmSteps \cup TaskSteps
  /\ captured \in Seq(1..MaxTasks) /\ Len(captured) = published["task"]
  /\ seen \in [paused : BOOLEAN, silent : BOOLEAN]

(* The counts run behind the tasks, the output's behind the task ring's;   *)
(* the hook works for an audio task at its first instruction.              *)
Counts ==
  /\ published["task"] <= task.id
  /\ hook # "idle" =>
       published["task"] < task.id /\ ~task.begun /\ task.audio /\ task.recorded
  /\ published["pcm"] <= published["task"]
  /\ pending.saves # {} =>
       pending.idx + 1 = published["task"] /\ published["pcm"] <= pending.idx
  /\ hook \in PcmSteps => pending.saves # {}
  /\ hook \in TaskSteps => pending.saves = {}

(* What is captured are audio tasks in the order they ran; the last one is *)
(* the current one once the hook is done, unless recording has been off.   *)
Edges ==
  /\ \A i \in 1..Len(captured) :
       /\ captured[i] <= task.id
       /\ hook # "idle" => captured[i] < task.id
       /\ captured[i] = task.id => task.audio /\ task.recorded
  /\ \A i, j \in 1..Len(captured) : i < j => captured[i] < captured[j]
  /\ ~seen.paused =>
       /\ enabled /\ (task.id > 0 => task.recorded)
       /\ lastPc = "boot" => ~task.begun
       /\ hook = "idle" /\ task.audio =>
            Len(captured) > 0 /\ captured[Len(captured)] = task.id

(* Only the slot that is being overwritten has no index.                   *)
Stamped ==
  /\ \A r \in Rings : \A k \in SlotNumbers :
       slots[r][k].idx = Sentinel <=> hook \in OpenAt[r] /\ k = SlotToWrite(r)
  /\ hook = "publishPcm" => slots["pcm"][SlotToWrite("pcm")].idx = pending.idx

TaskSlots ==
  /\ \A i \in 0..published["task"] - 1 :
       slots["task"][SlotOf(i)].idx = i => slots["task"][SlotOf(i)].data = {captured[i + 1]}
  /\ hook \in {"indexTask", "publishTask"} =>
       slots["task"][SlotToWrite("task")].data = {task.id}

(* The slices, and the output that is still to become one.                 *)
PcmSlots ==
  ~seen.paused =>
    /\ \A i \in 0..published["pcm"] - 1 :
         LET e == slots["pcm"][SlotOf(i)] IN
           e.idx # Sentinel => e.idx < published["task"] /\ e.data = {captured[e.idx + 1]}
    /\ hook \in {"indexPcm", "publishPcm"} =>
         slots["pcm"][SlotToWrite("pcm")].data = {captured[pending.idx + 1]}
    /\ hook \in {"flush", "fillPcm"} =>
         \A b \in pending.saves : output[b] = captured[pending.idx + 1]
    /\ hook = "idle" => \A b \in pending.saves : Completed[b] = captured[pending.idx + 1]

(* While every audio task saves, the output ring is one task behind or     *)
(* level, and the slots of its window are where their indices say.         *)
Level ==
  ~seen.silent =>
    /\ task.audio => task.saves # {}
    /\ published["task"] = published["pcm"] + IF pending.saves = {} THEN 0 ELSE 1
    /\ \A i \in 0..published["pcm"] - 1 :
         published["pcm"] - i < Capacity + (IF hook \in PcmSteps THEN 0 ELSE 1) =>
           slots["pcm"][SlotOf(i)].idx = i

Writer == Types /\ Counts /\ Edges /\ Stamped /\ TaskSlots /\ PcmSlots /\ Level

(* The thread that reads: the payload it has copied is the one it was      *)
(* asked for if the index still is, or was when it was copied first.       *)
Lefts == {<<>>, <<"idx">>, <<"data">>, <<"idx", "data">>, <<"data", "idx">>}
Unspoilt(r) == r = "pcm" => ~seen.paused
Asked == slots[reader.ring][SlotOf(reader.idx)]

ReaderTypes ==
  reader \in [busy : BOOLEAN, ring : Rings, idx : 0..MaxTasks, left : Lefts, out : SlotRecords]

Copies ==
  /\ ReaderTypes
  /\ reader.busy =>
       /\ reader.idx < published[reader.ring]
       /\ SharedThread => hook = "idle"
       /\ ~SharedThread => reader.left \notin {<<"idx", "data">>, <<"data">>}
       /\ reader.left = <<"data">> => reader.out.idx = Asked.idx
       /\ Unspoilt(reader.ring) =>
            /\ reader.left = <<"idx">> /\ Asked.idx = reader.idx =>
                 reader.out.data = {captured[reader.idx + 1]}
            /\ reader.left = <<>> /\ reader.out.idx = reader.idx =>
                 reader.out.data = {captured[reader.idx + 1]}

Replies ==
  /\ reply \in [ring : Rings, idx : 0..MaxTasks, data : Payloads]
  /\ reply.data # Nothing => reply.idx < published["task"]
  /\ WholeReads

(* A reader on its own thread copies a slot's index last.                  *)
IndexLastOrShared == SharedThread \/ CopyOrders \subseteq {<<"data", "idx">>}

IInv == Writer /\ Copies /\ Replies

-----------------------------------------------------------------------------
LEMMA DivMod ==
  ASSUME NEW c \in Nat \ {0}, NEW i \in Nat
  PROVE  i = c * (i \div c) + (i % c) /\ i \div c \in Int /\ i % c \in 0..c - 1
BY SMTT(20)

LEMMA NoMultipleBetween ==
  ASSUME NEW c \in Nat \ {0}, NEW q \in Int, 0 < c * q, c * q < c
  PROVE  FALSE
<1>1. CASE q >= 1
  <2>1. c * q >= c
    BY <1>1, SMTT(20)
  <2>2. QED
    BY <2>1
<1>2. CASE q <= 0
  <2>1. c * q <= 0
    BY <1>2, SMTT(20)
  <2>2. QED
    BY <2>1
<1>3. QED
  BY <1>1, <1>2

(* Two events less than a ring's length apart have different slots.        *)
LEMMA SlotsDiffer ==
  ASSUME NEW i \in Nat, NEW j \in Nat, i < j, j - i < Capacity
  PROVE  SlotOf(i) # SlotOf(j)
<1> SUFFICES ASSUME i % Capacity = j % Capacity PROVE FALSE
  BY DEF SlotOf
<1> DEFINE p == i \div Capacity
           q == j \div Capacity
<1>1. Capacity \in Nat \ {0}
  BY AudioAssumption
<1>2. /\ i = Capacity * p + (i % Capacity) /\ p \in Int
      /\ j = Capacity * q + (j % Capacity) /\ q \in Int
      /\ i % Capacity \in Int
  BY <1>1, DivMod
<1> HIDE DEF p, q
<1>3. j - i = Capacity * q - Capacity * p
  BY <1>1, <1>2
<1>4. Capacity * q - Capacity * p = Capacity * (q - p)
  BY <1>1, <1>2
<1>5. q - p \in Int
  BY <1>2
<1>6. QED
  BY <1>1, <1>3, <1>4, <1>5, NoMultipleBetween

LEMMA SlotRange ==
  ASSUME NEW i \in Nat
  PROVE  SlotOf(i) \in SlotNumbers
BY DivMod, AudioAssumption DEF SlotOf, SlotNumbers

(* The two kinds of stores to a slot: nothing else changes.                *)
IndexStored(r, k, v) ==
  /\ SlotTypes'
  /\ slots'[r][k].idx = v /\ slots'[r][k].data = slots[r][k].data
  /\ \A q \in Rings : \A j \in SlotNumbers :
       /\ q # r \/ j # k => slots'[q][j] = slots[q][j]
       /\ slots'[q][j].data = slots[q][j].data

DataStored(r, k, d) ==
  /\ SlotTypes'
  /\ slots'[r][k].data = d
  /\ \A q \in Rings : \A j \in SlotNumbers :
       /\ q # r \/ j # k => slots'[q][j] = slots[q][j]
       /\ slots'[q][j].idx = slots[q][j].idx

LEMMA StoreIndex ==
  ASSUME SlotTypes, NEW r \in Rings, NEW k \in SlotNumbers, NEW v \in 0..Sentinel,
         slots' = [slots EXCEPT ![r][k].idx = v]
  PROVE  IndexStored(r, k, v)
<1> DEFINE indices == 0..Sentinel
<1> HIDE DEF indices
<1>0. /\ slots[r][k] \in SlotRecords
      /\ [slots[r][k] EXCEPT !.idx = v] \in SlotRecords
  <2>1. slots[r][k] \in SlotRecords
    BY DEF SlotTypes
  <2>2. v \in indices /\ SlotRecords = [idx : indices, data : Payloads]
    BY DEF indices, SlotRecords
  <2>3. QED
    BY <2>1, <2>2
<1>1. /\ slots'[r][k] = [slots[r][k] EXCEPT !.idx = v]
      /\ \A j \in SlotNumbers : j # k => slots'[r][j] = slots[r][j]
      /\ \A q \in Rings : q # r => slots'[q] = slots[q]
      /\ DOMAIN slots' = Rings /\ slots'[r] \in [SlotNumbers -> SlotRecords]
  BY <1>0 DEF SlotTypes
<1>2. slots'[r][k].idx = v /\ slots'[r][k].data = slots[r][k].data
  BY <1>0, <1>1 DEF SlotRecords
<1>3. SlotTypes'
  BY <1>1 DEF SlotTypes
<1>4. QED
  BY <1>1, <1>2, <1>3 DEF IndexStored

LEMMA StoreData ==
  ASSUME SlotTypes, NEW r \in Rings, NEW k \in SlotNumbers, NEW d \in Payloads,
         slots' = [slots EXCEPT ![r][k].data = d]
  PROVE  DataStored(r, k, d)
<1>1. /\ slots[r][k] \in SlotRecords
      /\ slots'[r][k] = [slots[r][k] EXCEPT !.data = d]
      /\ \A j \in SlotNumbers : j # k => slots'[r][j] = slots[r][j]
      /\ \A q \in Rings : q # r => slots'[q] = slots[q]
      /\ DOMAIN slots' = Rings /\ slots'[r] \in [SlotNumbers -> SlotRecords]
  BY DEF SlotTypes, SlotRecords
<1>2. slots'[r][k].idx = slots[r][k].idx /\ slots'[r][k].data = d
  BY <1>1 DEF SlotRecords
<1>3. SlotTypes'
  BY <1>1 DEF SlotTypes
<1>4. QED
  BY <1>1, <1>2, <1>3 DEF DataStored

(* What every step needs to know of the numbers.                           *)
LEMMA Numbers ==
  ASSUME Writer
  PROVE  /\ MaxTasks \in Nat /\ Sentinel = MaxTasks + 1 /\ Sentinel \in 0..Sentinel
         /\ Capacity \in Nat \ {0}
         /\ "task" \in Rings /\ "pcm" \in Rings /\ Rings = {"task", "pcm"}
         /\ published["task"] \in Nat /\ published["pcm"] \in Nat
         /\ published["pcm"] <= published["task"] /\ published["task"] <= task.id
         /\ task.id \in 0..MaxTasks /\ pending.idx \in 0..MaxTasks
         /\ \A r \in Rings : SlotToWrite(r) \in SlotNumbers
BY AudioAssumption, SlotRange DEF Writer, Types, Counts, Rings, Sentinel, SlotToWrite

LEMMA CapturedTypes ==
  ASSUME Writer
  PROVE  \A i \in 1..Len(captured) : captured[i] \in 1..MaxTasks
BY ElementOfSeq DEF Writer, Types

LEMMA InitWriter == Init => Writer
<1> SUFFICES ASSUME Init PROVE Writer
  OBVIOUS
<1>1. /\ MaxTasks \in Nat /\ Sentinel = MaxTasks + 1 /\ Capacity \in Nat \ {0}
  BY AudioAssumption DEF Sentinel
<1>2. SlotTypes
  <2>1. [idx |-> 0, data |-> Nothing] \in SlotRecords
    BY <1>1 DEF SlotRecords, Payloads, Nothing
  <2>2. QED
    BY <2>1 DEF Init, SlotTypes, SlotNumbers
<1>3. captured \in Seq(1..MaxTasks) /\ Len(captured) = 0
  BY DEF Init
<1>4. Types
  BY <1>1, <1>2, <1>3 DEF Init, Types, Rings
<1>5. Counts /\ Edges
  BY <1>1, <1>3 DEF Init, Counts, Edges, PcmSteps, TaskSteps, Rings
<1>6. Stamped
  BY <1>1 DEF Init, Stamped, OpenAt, Rings, SlotNumbers
<1>7. TaskSlots /\ PcmSlots /\ Level
  BY <1>1 DEF Init, TaskSlots, PcmSlots, Level, Rings
<1>8. QED
  BY <1>4, <1>5, <1>6, <1>7 DEF Writer

(* A task starts: the one before it has ended, so its output is all there. *)
LEMMA FirstWriter ==
  ASSUME Writer, NEW audio \in BOOLEAN, NEW saves \in SUBSET Buffers,
         FirstInstruction(audio, saves)
  PROVE  Writer'
<1>1. /\ hook = "idle" /\ task.begun /\ task.id < MaxTasks
      /\ task' = [id |-> task.id + 1, audio |-> audio, saves |-> saves,
                  recorded |-> enabled, begun |-> FALSE]
      /\ output' = Completed
      /\ lastPc' = IF enabled THEN "boot" ELSE lastPc
      /\ hook' = IF StartsTask(audio) THEN "flush" ELSE "idle"
      /\ ~audio => saves = {}
      /\ UNCHANGED <<enabled, slots, published, pending, captured>>
  BY DEF FirstInstruction, MayRun, Saves, ringVars
<1>2. /\ seen' \in [paused : BOOLEAN, silent : BOOLEAN]
      /\ seen'.paused = seen.paused
      /\ ~seen'.silent => ~seen.silent /\ (audio => saves # {})
  BY DEF FirstInstruction, Writer, Types
<1>3. /\ task.id \in 0..MaxTasks /\ MaxTasks \in Nat
      /\ published["task"] \in Nat /\ published["task"] <= task.id
      /\ \A r \in Rings : SlotToWrite(r)' = SlotToWrite(r)
      /\ enabled \in BOOLEAN
  BY <1>1, Numbers DEF Writer, Types, SlotToWrite, SlotOf
<1>4. Types'
  <2>1. Completed \in [Buffers -> 0..MaxTasks]
    BY DEF Completed, Writer, Types
  <2>2. task' \in [id : 0..MaxTasks, audio : BOOLEAN, saves : SUBSET Buffers,
                   recorded : BOOLEAN, begun : BOOLEAN]
    BY <1>1, <1>3
  <2>3. hook' \in {"idle", "flush"} /\ lastPc' \in {"boot", "body"}
    BY <1>1 DEF Writer, Types
  <2>4. SlotTypes'
    BY <1>1 DEF Writer, Types, SlotTypes
  <2>5. QED
    BY <1>1, <1>2, <2>1, <2>2, <2>3, <2>4 DEF Writer, Types
<1>5. Counts'
  BY <1>1, <1>3 DEF Writer, Counts, StartsTask, PcmSteps, TaskSteps
<1>6. ~seen.paused => enabled /\ lastPc # "boot"
  BY <1>1 DEF Writer, Edges
<1>7. Edges'
  <2>1. \A i \in 1..Len(captured) : captured[i] <= task.id /\ captured[i] \in Nat
    BY <1>3, CapturedTypes DEF Writer, Edges
  <2>2. \A i \in 1..Len(captured) : captured[i] < task'.id
    BY <1>1, <1>3, <2>1
  <2>3. ~seen.paused /\ task'.audio => hook' # "idle"
    BY <1>1, <1>6 DEF StartsTask
  <2>4. task'.recorded = enabled /\ ~task'.begun
    BY <1>1
  <2>5. \A i, j \in 1..Len(captured) : i < j => captured[i] < captured[j]
    BY DEF Writer, Edges
  <2>6. QED
    BY <1>1, <1>2, <1>3, <1>6, <2>1, <2>2, <2>3, <2>4, <2>5 DEF Edges
<1>8. Stamped'
  BY <1>1, <1>3, Numbers DEF Writer, Stamped, OpenAt, SlotNumbers
<1>9. TaskSlots'
  BY <1>1 DEF Writer, TaskSlots, SlotOf
<1>10. PcmSlots'
  <2>1. hook' = "idle" /\ ~seen.paused => saves = {}
    BY <1>1, <1>6 DEF StartsTask
  <2>2. \A b \in Buffers : saves = {} => Completed'[b] = Completed[b]
    BY <1>1 DEF Completed
  <2>3. pending.saves \subseteq Buffers /\ hook' \in {"idle", "flush"}
    BY <1>1 DEF Writer, Types
  <2>4. ~seen.paused => \A b \in pending.saves : Completed[b] = captured[pending.idx + 1]
    BY <1>1 DEF Writer, PcmSlots
  <2>5. QED
    BY <1>1, <1>2, <2>1, <2>2, <2>3, <2>4 DEF Writer, PcmSlots, SlotOf, Sentinel
<1>11. Level'
  BY <1>1, <1>2 DEF Writer, Level, SlotOf, StartsTask, PcmSteps
<1>12. QED
  BY <1>4, <1>5, <1>7, <1>8, <1>9, <1>10, <1>11 DEF Writer

(* The other steps of the RSP and of the host, between captures or not.    *)
LEMMA NextInstructionWriter == Writer /\ NextInstruction => Writer'
<1> SUFFICES ASSUME Writer, NextInstruction PROVE Writer'
  OBVIOUS
<1>1. /\ hook = "idle" /\ ~task.begun
      /\ task' = [task EXCEPT !.begun = TRUE]
      /\ lastPc' = IF enabled THEN "body" ELSE lastPc
      /\ UNCHANGED <<output, enabled, slots, published, pending, captured, seen, hook>>
  BY DEF NextInstruction, MayRun, ringVars
<1>2. /\ task' \in [id : 0..MaxTasks, audio : BOOLEAN, saves : SUBSET Buffers,
                    recorded : BOOLEAN, begun : BOOLEAN]
      /\ task'.id = task.id /\ task'.audio = task.audio /\ task'.saves = task.saves
      /\ task'.recorded = task.recorded /\ task'.begun
  BY <1>1 DEF Writer, Types
<1>3. Types'
  BY <1>1, <1>2 DEF Writer, Types, SlotTypes
<1>4. Counts'
  BY <1>1, <1>2 DEF Writer, Counts
<1>5. Edges'
  BY <1>1, <1>2 DEF Writer, Edges
<1>6. Stamped' /\ TaskSlots' /\ Level'
  BY <1>1, <1>2 DEF Writer, Stamped, TaskSlots, Level, SlotToWrite, SlotOf, Sentinel
<1>7. PcmSlots'
  BY <1>1, <1>2 DEF Writer, PcmSlots, Completed, SlotToWrite, SlotOf, Sentinel
<1>8. QED
  BY <1>3, <1>4, <1>5, <1>6, <1>7 DEF Writer

(* The host's switch and the reads leave the rings alone.                  *)
LEMMA OthersWriter ==
  ASSUME Writer, UNCHANGED <<task, output, lastPc, slots, published, pending, captured, hook>>,
         enabled' \in BOOLEAN, seen' \in [paused : BOOLEAN, silent : BOOLEAN],
         ~seen'.paused => ~seen.paused /\ enabled', ~seen'.silent => ~seen.silent
  PROVE  Writer'
<1>1. Types' /\ Counts'
  BY DEF Writer, Types, Counts, SlotTypes
<1>2. Edges'
  BY DEF Writer, Edges
<1>3. Stamped' /\ TaskSlots' /\ Level'
  BY DEF Writer, Stamped, TaskSlots, Level, SlotToWrite, SlotOf, Sentinel
<1>4. PcmSlots'
  BY DEF Writer, PcmSlots, Completed, SlotToWrite, SlotOf, Sentinel
<1>5. QED
  BY <1>1, <1>2, <1>3, <1>4 DEF Writer

(* A store to the output ring spares the slots of the window's other       *)
(* events, which are less than a ring's length away.                       *)
LEMMA OverwrittenLevel ==
  ASSUME Writer, UNCHANGED <<task, published, pending, seen>>, hook' \in PcmSteps,
         \A j \in SlotNumbers :
           j # SlotToWrite("pcm") => slots'["pcm"][j].idx = slots["pcm"][j].idx
  PROVE  Level'
<1> SUFFICES ASSUME ~seen.silent
             PROVE  /\ task.audio => task.saves # {}
                    /\ published["task"] = published["pcm"] + IF pending.saves = {} THEN 0 ELSE 1
                    /\ \A i \in 0..published["pcm"] - 1 :
                         published["pcm"] - i < Capacity => slots'["pcm"][SlotOf(i)].idx = i
  BY Numbers DEF Level, SlotOf
<1>1. ASSUME NEW i \in 0..published["pcm"] - 1, published["pcm"] - i < Capacity
      PROVE  slots'["pcm"][SlotOf(i)].idx = i
  <2>1. i \in Nat /\ published["pcm"] \in Nat /\ i < published["pcm"] /\ Capacity \in Nat
    BY Numbers
  <2>2. SlotOf(i) # SlotToWrite("pcm") /\ SlotOf(i) \in SlotNumbers
    BY <1>1, <2>1, SlotsDiffer, SlotRange DEF SlotToWrite
  <2>3. slots["pcm"][SlotOf(i)].idx = i
    BY <1>1, <2>1 DEF Writer, Level
  <2>4. QED
    BY <2>2, <2>3
<1>2. QED
  BY <1>1 DEF Writer, Level

(* The entries of the output ring when each slot is kept, stamped, or      *)
(* holds what its index names.                                             *)
PcmEntries ==
  \A i \in 0..published["pcm"] - 1 :
     LET e == slots["pcm"][SlotOf(i)] IN
       e.idx # Sentinel => e.idx < published["task"] /\ e.data = {captured[e.idx + 1]}

LEMMA EntriesKept ==
  ASSUME Writer, ~seen.paused, captured' = captured, published' = published,
         \A j \in SlotNumbers :
            \/ slots'["pcm"][j] = slots["pcm"][j]
            \/ slots'["pcm"][j].idx = Sentinel
            \/ /\ slots'["pcm"][j].idx < published["task"]
               /\ slots'["pcm"][j].data = {captured[slots'["pcm"][j].idx + 1]}
  PROVE  PcmEntries'
<1> SUFFICES ASSUME NEW i \in 0..published["pcm"] - 1,
                    slots'["pcm"][SlotOf(i)].idx # Sentinel
             PROVE  /\ slots'["pcm"][SlotOf(i)].idx < published["task"]
                    /\ slots'["pcm"][SlotOf(i)].data = {captured[slots'["pcm"][SlotOf(i)].idx + 1]}
  BY DEF PcmEntries, SlotOf, Sentinel
<1>1. SlotOf(i) \in SlotNumbers
  BY Numbers, SlotRange
<1>2. slots["pcm"][SlotOf(i)].idx # Sentinel =>
        /\ slots["pcm"][SlotOf(i)].idx < published["task"]
        /\ slots["pcm"][SlotOf(i)].data = {captured[slots["pcm"][SlotOf(i)].idx + 1]}
  BY DEF Writer, PcmSlots
<1>3. QED
  BY <1>1, <1>2

(* record_audio_task_start, store by store.                                *)
LEMMA FlushWriter == Writer /\ Flush => Writer'
<1> SUFFICES ASSUME Writer, Flush PROVE Writer'
  OBVIOUS
<1>1. /\ hook = "flush"
      /\ IF pending.saves = {} THEN hook' = "stampTask" /\ slots' = slots
                               ELSE hook' = "fillPcm" /\ Stamp("pcm")
      /\ UNCHANGED <<task, output, enabled, lastPc, published, pending, captured, seen>>
  BY DEF Flush, guestVars
<1>2. /\ SlotToWrite("pcm") \in SlotNumbers /\ "pcm" \in Rings /\ SlotTypes
      /\ Sentinel \in 0..Sentinel
  BY Numbers DEF Writer, Types
<1>3. \A r \in Rings : SlotToWrite(r)' = SlotToWrite(r)
  BY <1>1 DEF SlotToWrite, SlotOf
<1>4. CASE pending.saves = {}
  <2>1. hook' = "stampTask" /\ slots' = slots
    BY <1>1, <1>4
  <2>2. Types'
    BY <1>1, <2>1 DEF Writer, Types, SlotTypes, TaskSteps
  <2>3. Counts' /\ Edges'
    BY <1>1, <1>4, <2>1 DEF Writer, Counts, Edges, PcmSteps
  <2>4. Stamped' /\ TaskSlots' /\ Level'
    BY <1>1, <1>3, <2>1, Numbers DEF Writer, Stamped, TaskSlots, Level, SlotOf, OpenAt, PcmSteps, Sentinel
  <2>5. PcmSlots'
    BY <1>1, <1>3, <1>4, <2>1 DEF Writer, PcmSlots, SlotOf, Sentinel
  <2>6. QED
    BY <2>2, <2>3, <2>4, <2>5 DEF Writer
<1>5. CASE pending.saves # {}
  <2>1. hook' = "fillPcm" /\ slots' = [slots EXCEPT !["pcm"][SlotToWrite("pcm")].idx = Sentinel]
    BY <1>1, <1>5 DEF Stamp
  <2>2. IndexStored("pcm", SlotToWrite("pcm"), Sentinel)
    BY <1>2, <2>1, StoreIndex, Zenon
  <2> USE <2>2 DEF IndexStored
  <2>3. Types'
    BY <1>1, <2>1, <2>2 DEF Writer, Types, PcmSteps
  <2>4. Counts' /\ Edges'
    BY <1>1, <1>5, <2>1 DEF Writer, Counts, Edges, PcmSteps, TaskSteps
  <2>5. Stamped'
    BY <1>1, <1>2, <1>3, <2>1, <2>2, Numbers DEF Writer, Stamped, OpenAt, Sentinel
  <2>6. TaskSlots'
    BY <1>1, <1>3, <2>1, <2>2, Numbers, SlotRange DEF Writer, TaskSlots, SlotOf
  <2>7. PcmSlots'
    <3> SUFFICES ASSUME ~seen.paused PROVE PcmSlots'
      BY <1>1 DEF PcmSlots
    <3>1. \A j \in SlotNumbers :
            slots'["pcm"][j] = slots["pcm"][j] \/ slots'["pcm"][j].idx = Sentinel
      BY <1>2, <2>2
    <3>2. PcmEntries'
      BY <1>1, <3>1, EntriesKept
    <3>3. \A b \in pending.saves : output[b] = captured[pending.idx + 1]
      BY <1>1 DEF Writer, PcmSlots
    <3>4. QED
      BY <1>1, <2>1, <3>2, <3>3 DEF PcmSlots, PcmEntries
  <2>8. Level'
    BY <1>1, <2>1, <2>2, Numbers, OverwrittenLevel DEF PcmSteps
  <2>9. QED
    BY <2>3, <2>4, <2>5, <2>6, <2>7, <2>8 DEF Writer
<1>6. QED
  BY <1>4, <1>5

LEMMA FillPcmWriter == Writer /\ FillPcm => Writer'
<1> SUFFICES ASSUME Writer, FillPcm PROVE Writer'
  OBVIOUS
<1>1. /\ hook = "fillPcm" /\ hook' = "indexPcm"
      /\ slots' = [slots EXCEPT !["pcm"][SlotToWrite("pcm")].data = PendingOutput]
      /\ UNCHANGED <<task, output, enabled, lastPc, published, pending, captured, seen>>
  BY DEF FillPcm, Fill, guestVars
<1>2. /\ SlotToWrite("pcm") \in SlotNumbers /\ "pcm" \in Rings /\ SlotTypes
      /\ PendingOutput \in Payloads
  BY Numbers DEF Writer, Types, PendingOutput, Payloads
<1>3. /\ \A r \in Rings : SlotToWrite(r)' = SlotToWrite(r)
      /\ pending.saves # {}
  BY <1>1 DEF SlotToWrite, SlotOf, Writer, Counts, PcmSteps
<1>4. DataStored("pcm", SlotToWrite("pcm"), PendingOutput)
  BY <1>1, <1>2, StoreData, Zenon
<1> USE <1>4 DEF DataStored
<1>5. Types'
  BY <1>1, <1>4 DEF Writer, Types, PcmSteps
<1>6. Counts' /\ Edges'
  BY <1>1 DEF Writer, Counts, Edges, PcmSteps, TaskSteps
<1>7. Stamped'
  BY <1>1, <1>2, <1>3, <1>4, Numbers DEF Writer, Stamped, OpenAt, Sentinel
<1>8. TaskSlots'
  BY <1>1, <1>3, <1>4, Numbers, SlotRange DEF Writer, TaskSlots, SlotOf
<1>9. PcmSlots'
  <2> SUFFICES ASSUME ~seen.paused PROVE PcmSlots'
    BY <1>1 DEF PcmSlots
  <2>1. PendingOutput = {captured[pending.idx + 1]}
    BY <1>1, <1>3 DEF PendingOutput, Writer, PcmSlots
  <2>2. slots["pcm"][SlotToWrite("pcm")].idx = Sentinel
    BY <1>1, <1>2 DEF Writer, Stamped, OpenAt
  <2>3. QED
    <3>1. slots'["pcm"][SlotToWrite("pcm")].idx = Sentinel
      BY <1>2, <1>4, <2>2
    <3>2. \A j \in SlotNumbers :
            slots'["pcm"][j] = slots["pcm"][j] \/ slots'["pcm"][j].idx = Sentinel
      BY <1>2, <1>4, <3>1
    <3>3. PcmEntries'
      BY <1>1, <3>2, EntriesKept
    <3>4. slots'["pcm"][SlotToWrite("pcm")'].data = {captured[pending.idx + 1]}
      BY <1>2, <1>3, <1>4, <2>1
    <3>5. QED
      BY <1>1, <3>3, <3>4 DEF PcmSlots, PcmEntries
<1>10. Level'
  BY <1>1, <1>4, Numbers, OverwrittenLevel DEF PcmSteps
<1>11. QED
  BY <1>5, <1>6, <1>7, <1>8, <1>9, <1>10 DEF Writer

LEMMA IndexPcmWriter == Writer /\ IndexPcm => Writer'
<1> SUFFICES ASSUME Writer, IndexPcm PROVE Writer'
  OBVIOUS
<1>1. /\ hook = "indexPcm" /\ hook' = "publishPcm"
      /\ slots' = [slots EXCEPT !["pcm"][SlotToWrite("pcm")].idx = pending.idx]
      /\ UNCHANGED <<task, output, enabled, lastPc, published, pending, captured, seen>>
  BY DEF IndexPcm, PutIndex, guestVars
<1>2. /\ SlotToWrite("pcm") \in SlotNumbers /\ "pcm" \in Rings /\ SlotTypes
      /\ pending.idx \in 0..Sentinel /\ pending.idx # Sentinel
  BY Numbers DEF Writer, Types
<1>3. /\ \A r \in Rings : SlotToWrite(r)' = SlotToWrite(r)
      /\ pending.idx + 1 = published["task"]
  BY <1>1 DEF SlotToWrite, SlotOf, Writer, Counts, PcmSteps
<1>4. IndexStored("pcm", SlotToWrite("pcm"), pending.idx)
  BY <1>1, <1>2, StoreIndex, Zenon
<1> USE <1>4 DEF IndexStored
<1>5. Types'
  BY <1>1, <1>4 DEF Writer, Types, PcmSteps
<1>6. Counts' /\ Edges'
  BY <1>1 DEF Writer, Counts, Edges, PcmSteps, TaskSteps
<1>7. Stamped'
  BY <1>1, <1>2, <1>3, <1>4, Numbers DEF Writer, Stamped, OpenAt, Sentinel
<1>8. TaskSlots'
  BY <1>1, <1>3, <1>4, Numbers, SlotRange DEF Writer, TaskSlots, SlotOf
<1>9. PcmSlots'
  <2> SUFFICES ASSUME ~seen.paused PROVE PcmSlots'
    BY <1>1 DEF PcmSlots
  <2>1. slots["pcm"][SlotToWrite("pcm")].data = {captured[pending.idx + 1]}
    BY <1>1 DEF Writer, PcmSlots
  <2>2. QED
    <3> DEFINE e == slots'["pcm"][SlotToWrite("pcm")]
    <3>1. e.idx = pending.idx /\ e.data = {captured[pending.idx + 1]}
      BY <1>2, <1>4, <2>1
    <3>2. pending.idx < published["task"]
      BY <1>2, <1>3, Numbers
    <3>3. \A j \in SlotNumbers : slots'["pcm"][j] = slots["pcm"][j] \/ slots'["pcm"][j] = e
      BY <1>2, <1>4
    <3>4. PcmEntries'
      <4> HIDE DEF e
      <4>1. QED
        BY <1>1, <3>1, <3>2, <3>3, EntriesKept
    <3>5. slots'["pcm"][SlotToWrite("pcm")'].data = {captured[pending.idx + 1]}
      BY <1>2, <1>3, <3>1
    <3>6. QED
      BY <1>1, <3>4, <3>5 DEF PcmSlots, PcmEntries
<1>10. Level'
  BY <1>1, <1>4, Numbers, OverwrittenLevel DEF PcmSteps
<1>11. QED
  BY <1>5, <1>6, <1>7, <1>8, <1>9, <1>10 DEF Writer

(* The slice is published: it takes its place in the window.               *)
LEMMA PublishPcmWriter == Writer /\ PublishPcm => Writer'
<1> SUFFICES ASSUME Writer, PublishPcm PROVE Writer'
  OBVIOUS
<1>1. /\ hook = "publishPcm" /\ hook' = "stampTask"
      /\ published' = [published EXCEPT !["pcm"] = @ + 1]
      /\ pending' = [pending EXCEPT !.saves = {}]
      /\ UNCHANGED <<task, output, enabled, lastPc, slots, captured, seen>>
  BY DEF PublishPcm, Publish, guestVars
<1>2. /\ published' \in [Rings -> Nat] /\ published'["task"] = published["task"]
      /\ published'["pcm"] = published["pcm"] + 1
      /\ pending' \in [idx : 0..MaxTasks, saves : SUBSET Buffers]
      /\ pending'.idx = pending.idx /\ pending'.saves = {}
  BY <1>1 DEF Writer, Types, Rings
<1>3. /\ pending.saves # {} /\ pending.idx + 1 = published["task"]
      /\ published["pcm"] <= pending.idx /\ pending.idx # Sentinel
      /\ slots["pcm"][SlotToWrite("pcm")].idx = pending.idx
      /\ SlotToWrite("task")' = SlotToWrite("task")
  BY <1>1, <1>2, Numbers DEF Writer, Counts, PcmSteps, Stamped, SlotToWrite, SlotOf
<1>4. Types'
  BY <1>1, <1>2 DEF Writer, Types, SlotTypes, TaskSteps
<1>5. Counts' /\ Edges'
  BY <1>1, <1>2, <1>3, Numbers DEF Writer, Counts, Edges, PcmSteps, TaskSteps
<1>6. Stamped'
  BY <1>1, <1>3, Numbers DEF Writer, Stamped, OpenAt, Sentinel
<1>7. TaskSlots'
  BY <1>1, <1>2, <1>3 DEF Writer, TaskSlots, SlotOf
<1>8. PcmSlots'
  <2> SUFFICES ASSUME ~seen.paused, NEW i \in 0..published["pcm"],
                      slots["pcm"][SlotOf(i)].idx # Sentinel
               PROVE  /\ slots["pcm"][SlotOf(i)].idx < published["task"]
                      /\ slots["pcm"][SlotOf(i)].data = {captured[slots["pcm"][SlotOf(i)].idx + 1]}
    BY <1>1, <1>2, <1>3, Numbers DEF PcmSlots, SlotOf, Sentinel
  <2>1. CASE i < published["pcm"]
    BY <2>1, Numbers DEF Writer, PcmSlots
  <2>2. CASE i = published["pcm"]
    BY <1>1, <1>3, <2>2, Numbers DEF Writer, PcmSlots, SlotToWrite
  <2>3. QED
    BY <2>1, <2>2, Numbers
<1>9. Level'
  <2> SUFFICES ASSUME ~seen.silent PROVE Level'
    BY <1>1 DEF Level
  <2>1. published["task"] = published["pcm"] + 1 /\ (task.audio => task.saves # {})
    BY <1>3 DEF Writer, Level
  <2>2. ASSUME NEW i \in 0..published["pcm"], published["pcm"] + 1 - i < Capacity + 1
        PROVE  slots["pcm"][SlotOf(i)].idx = i
    <3>1. CASE i = published["pcm"]
      BY <1>3, <2>1, <3>1, Numbers DEF SlotToWrite
    <3>2. CASE i # published["pcm"]
      <4>1. i \in 0..published["pcm"] - 1 /\ published["pcm"] - i < Capacity
        BY <2>2, <3>2, Numbers
      <4>2. QED
        BY <1>1, <4>1, Numbers DEF Writer, Level, PcmSteps
    <3>3. QED
      BY <3>1, <3>2
  <2>3. QED
    BY <1>1, <1>2, <2>1, <2>2, Numbers DEF Level, SlotOf, PcmSteps
<1>10. QED
  BY <1>4, <1>5, <1>6, <1>7, <1>8, <1>9 DEF Writer

(* The stores to the task ring leave the output alone.                     *)
LEMMA TaskStore ==
  ASSUME Writer, hook \in TaskSteps, hook' \in TaskSteps, SlotTypes',
         \A j \in SlotNumbers : slots'["pcm"][j] = slots["pcm"][j],
         UNCHANGED <<task, output, enabled, lastPc, published, pending, captured, seen>>
  PROVE  Types' /\ Counts' /\ Edges' /\ PcmSlots' /\ Level'
<1>1. Types'
  BY DEF Writer, Types
<1>2. Counts' /\ Edges'
  BY DEF Writer, Counts, Edges, PcmSteps, TaskSteps
<1>3. PcmSlots'
  BY Numbers, SlotRange DEF Writer, PcmSlots, SlotOf, Sentinel, TaskSteps
<1>4. Level'
  BY Numbers, SlotRange DEF Writer, Level, SlotOf, TaskSteps, PcmSteps
<1>5. QED
  BY <1>1, <1>2, <1>3, <1>4

LEMMA StampTaskWriter == Writer /\ StampTask => Writer'
<1> SUFFICES ASSUME Writer, StampTask PROVE Writer'
  OBVIOUS
<1>1. /\ hook = "stampTask" /\ hook' = "fillTask"
      /\ slots' = [slots EXCEPT !["task"][SlotToWrite("task")].idx = Sentinel]
      /\ UNCHANGED <<task, output, enabled, lastPc, published, pending, captured, seen>>
  BY DEF StampTask, Stamp, guestVars
<1>2. /\ SlotToWrite("task") \in SlotNumbers /\ "task" \in Rings /\ SlotTypes
      /\ Sentinel \in 0..Sentinel
  BY Numbers DEF Writer, Types
<1>3. \A r \in Rings : SlotToWrite(r)' = SlotToWrite(r)
  BY <1>1 DEF SlotToWrite, SlotOf
<1>4. IndexStored("task", SlotToWrite("task"), Sentinel)
  BY <1>1, <1>2, StoreIndex, Zenon
<1> USE <1>4 DEF IndexStored
<1>5. Types' /\ Counts' /\ Edges' /\ PcmSlots' /\ Level'
  BY <1>1, Numbers, TaskStore DEF TaskSteps
<1>6. Stamped'
  BY <1>1, <1>2, <1>3, Numbers DEF Writer, Stamped, OpenAt, Sentinel
<1>7. TaskSlots'
  BY <1>1, <1>3, Numbers, SlotRange DEF Writer, TaskSlots, SlotOf
<1>8. QED
  BY <1>5, <1>6, <1>7 DEF Writer

LEMMA FillTaskWriter == Writer /\ FillTask => Writer'
<1> SUFFICES ASSUME Writer, FillTask PROVE Writer'
  OBVIOUS
<1>1. /\ hook = "fillTask" /\ hook' = "indexTask"
      /\ slots' = [slots EXCEPT !["task"][SlotToWrite("task")].data = {task.id}]
      /\ UNCHANGED <<task, output, enabled, lastPc, published, pending, captured, seen>>
  BY DEF FillTask, Fill, guestVars
<1>2. /\ SlotToWrite("task") \in SlotNumbers /\ "task" \in Rings /\ SlotTypes
      /\ {task.id} \in Payloads
  BY Numbers DEF Writer, Types, Payloads
<1>3. \A r \in Rings : SlotToWrite(r)' = SlotToWrite(r)
  BY <1>1 DEF SlotToWrite, SlotOf
<1>4. DataStored("task", SlotToWrite("task"), {task.id})
  BY <1>1, <1>2, StoreData, Zenon
<1> USE <1>4 DEF DataStored
<1>5. Types' /\ Counts' /\ Edges' /\ PcmSlots' /\ Level'
  BY <1>1, Numbers, TaskStore DEF TaskSteps
<1>6. Stamped'
  BY <1>1, <1>2, <1>3, Numbers DEF Writer, Stamped, OpenAt, Sentinel
<1>7. TaskSlots'
  <2>1. slots["task"][SlotToWrite("task")].idx = Sentinel
    BY <1>1, <1>2 DEF Writer, Stamped, OpenAt
  <2>2. QED
    BY <1>1, <1>3, <2>1, Numbers, SlotRange DEF Writer, TaskSlots, SlotOf
<1>8. QED
  BY <1>5, <1>6, <1>7 DEF Writer

LEMMA IndexTaskWriter == Writer /\ IndexTask => Writer'
<1> SUFFICES ASSUME Writer, IndexTask PROVE Writer'
  OBVIOUS
<1>1. /\ hook = "indexTask" /\ hook' = "publishTask"
      /\ slots' = [slots EXCEPT !["task"][SlotToWrite("task")].idx = published["task"]]
      /\ UNCHANGED <<task, output, enabled, lastPc, published, pending, captured, seen>>
  BY DEF IndexTask, PutIndex, guestVars
<1>2. /\ SlotToWrite("task") \in SlotNumbers /\ "task" \in Rings /\ SlotTypes
      /\ published["task"] \in 0..Sentinel /\ published["task"] # Sentinel
  BY Numbers DEF Writer, Types
<1>3. \A r \in Rings : SlotToWrite(r)' = SlotToWrite(r)
  BY <1>1 DEF SlotToWrite, SlotOf
<1>4. IndexStored("task", SlotToWrite("task"), published["task"])
  BY <1>1, <1>2, StoreIndex, Zenon
<1> USE <1>4 DEF IndexStored
<1>5. Types' /\ Counts' /\ Edges' /\ PcmSlots' /\ Level'
  BY <1>1, Numbers, TaskStore DEF TaskSteps
<1>6. Stamped'
  BY <1>1, <1>2, <1>3, Numbers DEF Writer, Stamped, OpenAt, Sentinel
<1>7. TaskSlots'
  BY <1>1, <1>3, Numbers, SlotRange DEF Writer, TaskSlots, SlotOf
<1>8. QED
  BY <1>5, <1>6, <1>7 DEF Writer

(* The task is published, and becomes the one whose output is awaited.     *)
LEMMA PublishTaskWriter == Writer /\ PublishTask => Writer'
<1> SUFFICES ASSUME Writer, PublishTask PROVE Writer'
  OBVIOUS
<1>1. /\ hook = "publishTask" /\ hook' = "idle"
      /\ published' = [published EXCEPT !["task"] = @ + 1]
      /\ pending' = [idx |-> published["task"], saves |-> task.saves]
      /\ captured' = Append(captured, task.id)
      /\ UNCHANGED <<task, output, enabled, lastPc, slots, seen>>
  BY DEF PublishTask, Publish, guestVars
<1>2. /\ published' \in [Rings -> Nat] /\ published'["pcm"] = published["pcm"]
      /\ published'["task"] = published["task"] + 1
  BY <1>1 DEF Writer, Types, Rings
<1>3. /\ published["task"] < task.id /\ ~task.begun /\ task.audio /\ task.recorded
      /\ pending.saves = {} /\ task.saves \in SUBSET Buffers
      /\ SlotToWrite("pcm")' = SlotToWrite("pcm")
      /\ task.id \in 1..MaxTasks
  BY <1>1, <1>2, Numbers DEF Writer, Counts, TaskSteps, Types, SlotToWrite, SlotOf
<1>4. /\ captured' \in Seq(1..MaxTasks) /\ Len(captured') = published["task"] + 1
      /\ \A i \in 1..published["task"] : captured'[i] = captured[i]
      /\ captured'[published["task"] + 1] = task.id
  BY <1>1, <1>3, AppendProperties DEF Writer, Types
<1>5. Len(captured) = published["task"]
  BY DEF Writer, Types
<1>6. Types'
  <2>1. pending' \in [idx : 0..MaxTasks, saves : SUBSET Buffers]
    BY <1>1, <1>3, Numbers
  <2>2. QED
    BY <1>1, <1>2, <1>4, <2>1 DEF Writer, Types, SlotTypes
<1>7. Counts'
  BY <1>1, <1>2, <1>3, Numbers DEF Writer, Counts, PcmSteps, TaskSteps
<1>8. Edges'
  <2>1. \A i \in 1..published["task"] : captured[i] < task.id
    BY <1>1, <1>5 DEF Writer, Edges
  <2>2. \A i, j \in 1..published["task"] : i < j => captured[i] < captured[j]
    BY <1>5 DEF Writer, Edges
  <2>3. \A i \in 1..published["task"] + 1 :
          captured'[i] <= task.id /\ (i <= published["task"] => captured'[i] < task.id)
    <3>1. published["task"] \in Nat /\ task.id \in Nat
      BY Numbers
    <3>2. ASSUME NEW i \in 1..published["task"] + 1 PROVE i \in 1..published["task"] \/ i = published["task"] + 1
      BY <3>1
    <3>3. ASSUME NEW i \in 1..published["task"]
          PROVE  captured'[i] <= task.id /\ captured'[i] < task.id
      <4>1. captured'[i] = captured[i] /\ captured[i] < task.id
        BY <1>4, <2>1
      <4>2. captured[i] \in Nat
        BY <1>5, CapturedTypes
      <4>3. QED
        BY <3>1, <4>1, <4>2
    <3>4. captured'[published["task"] + 1] <= task.id /\ ~(published["task"] + 1 <= published["task"])
      BY <1>4, <3>1
    <3>5. QED
      BY <3>2, <3>3, <3>4
  <2>4. \A i, j \in 1..published["task"] + 1 : i < j => captured'[i] < captured'[j]
    <3> SUFFICES ASSUME NEW i \in 1..published["task"] + 1, NEW j \in 1..published["task"] + 1, i < j
                 PROVE  captured'[i] < captured'[j]
      OBVIOUS
    <3>1. i \in 1..published["task"] /\ captured'[i] = captured[i]
      <4>1. published["task"] \in Nat
        BY Numbers
      <4>2. i \in 1..published["task"]
        BY <4>1
      <4>3. QED
        BY <1>4, <4>2
    <3>2. CASE j \in 1..published["task"]
      BY <1>4, <2>2, <3>1, <3>2
    <3>3. CASE j = published["task"] + 1
      BY <1>4, <2>1, <3>1, <3>3
    <3>4. QED
      <4>1. published["task"] \in Nat
        BY Numbers
      <4>2. j \in 1..published["task"] \/ j = published["task"] + 1
        BY <4>1
      <4>3. QED
        BY <3>2, <3>3, <4>2
  <2>5. Len(captured') = published["task"] + 1 /\ Len(captured') > 0
        /\ captured'[Len(captured')] = task.id
    <3>1. published["task"] \in Nat
      BY Numbers
    <3>2. QED
      BY <1>4, <3>1
  <2>6. /\ task' = task /\ task.audio /\ task.recorded /\ hook' = "idle"
        /\ UNCHANGED <<seen, enabled, lastPc>>
    BY <1>1, <1>3
  <2>7. /\ ~seen.paused => enabled /\ (task.id > 0 => task.recorded)
        /\ lastPc = "boot" => ~task.begun
    BY <1>3 DEF Writer, Edges
  <2>8. QED
    BY <2>3, <2>4, <2>5, <2>6, <2>7 DEF Edges
<1>9. Stamped'
  BY <1>1, <1>3, Numbers DEF Writer, Stamped, OpenAt, Sentinel
<1>10. TaskSlots'
  <2>0. published'["task"] - 1 = published["task"] /\ slots' = slots /\ hook' = "idle"
    BY <1>1, <1>2, Numbers
  <2> SUFFICES ASSUME NEW i \in 0..published["task"], slots["task"][SlotOf(i)].idx = i
               PROVE  slots["task"][SlotOf(i)].data = {captured'[i + 1]}
    BY <2>0 DEF TaskSlots, SlotOf
  <2>1. CASE i < published["task"]
    <3>1. i \in 0..published["task"] - 1 /\ i + 1 \in 1..published["task"]
      BY <2>1, Numbers
    <3>2. captured'[i + 1] = captured[i + 1]
      BY <1>4, <3>1
    <3>3. QED
      BY <3>1, <3>2 DEF Writer, TaskSlots
  <2>2. CASE i = published["task"]
    BY <1>1, <1>4, <2>2, Numbers DEF Writer, TaskSlots, SlotToWrite
  <2>3. QED
    BY <2>1, <2>2, Numbers
<1>11. PcmSlots'
  <2> SUFFICES ASSUME ~seen.paused PROVE PcmSlots'
    BY <1>1 DEF PcmSlots
  <2>1. ASSUME NEW i \in 0..published["pcm"] - 1, slots["pcm"][SlotOf(i)].idx # Sentinel
        PROVE  /\ slots["pcm"][SlotOf(i)].idx < published["task"] + 1
               /\ slots["pcm"][SlotOf(i)].data = {captured'[slots["pcm"][SlotOf(i)].idx + 1]}
    <3>1. SlotOf(i) \in SlotNumbers
      BY SlotRange, Numbers
    <3>2. slots["pcm"][SlotOf(i)].idx \in 0..Sentinel
      BY <3>1, Numbers DEF Writer, Types, SlotTypes, SlotRecords
    <3> DEFINE n == slots["pcm"][SlotOf(i)].idx
    <3>3. n < published["task"] /\ slots["pcm"][SlotOf(i)].data = {captured[n + 1]}
      BY <2>1 DEF Writer, PcmSlots
    <3>4. n + 1 \in 1..published["task"] /\ n < published["task"] + 1
      BY <3>2, <3>3, Numbers
    <3>5. captured'[n + 1] = captured[n + 1]
      BY <1>4, <3>4
    <3>6. QED
      BY <3>3, <3>4, <3>5
  <2>2. \A b \in task.saves : Completed'[b] = task.id
    BY <1>1, <1>3 DEF Completed
  <2>3. QED
    BY <1>1, <1>2, <1>4, <2>1, <2>2, Numbers DEF PcmSlots, SlotOf, Sentinel
<1>12. Level'
  BY <1>1, <1>2, <1>3, Numbers DEF Writer, Level, SlotOf, PcmSteps
<1>13. QED
  BY <1>6, <1>7, <1>8, <1>9, <1>10, <1>11, <1>12 DEF Writer

(* What no step of the writer or of the host does to a reader: no slot is  *)
(* given back an index that was published before, nothing captured         *)
(* changes, and nothing at all moves under a reader on the same thread.    *)
RunsOn ==
  /\ Len(captured') >= Len(captured)
  /\ \A i \in 1..Len(captured) : captured'[i] = captured[i]
  /\ published' \in [Rings -> Nat] /\ \A r \in Rings : published'[r] >= published[r]
  /\ ~seen'.paused => ~seen.paused
  /\ \A r \in Rings : \A i \in 0..published[r] - 1 :
       slots'[r][SlotOf(i)].idx = i => slots[r][SlotOf(i)].idx = i
  /\ SharedThread /\ reader.busy => slots' = slots /\ hook' = "idle"

(* Steps that store nothing in a slot.                                     *)
LEMMA RunsOnUnstored ==
  ASSUME Writer, Copies, UNCHANGED <<slots, published, captured>>, ~seen'.paused => ~seen.paused,
         SharedThread /\ reader.busy => hook' = "idle"
  PROVE  RunsOn
BY Numbers DEF RunsOn, SlotOf, Writer, Types

LEMMA RunsOnStored ==
  ASSUME Writer, Copies, hook # "idle", UNCHANGED <<published, captured, seen>>, NEW r \in Rings,
         \/ IndexStored(r, SlotToWrite(r), Sentinel)
         \/ IndexStored(r, SlotToWrite(r), IF r = "pcm" THEN pending.idx ELSE published["task"])
              /\ (r = "pcm" => pending.saves # {})
         \/ \E d : DataStored(r, SlotToWrite(r), d)
  PROVE  RunsOn
<1>1. ASSUME NEW q \in Rings, NEW i \in 0..published[q] - 1, slots'[q][SlotOf(i)].idx = i
      PROVE  slots[q][SlotOf(i)].idx = i
  <2>1. i # Sentinel /\ i < published[q] /\ SlotOf(i) \in SlotNumbers
    BY Numbers, SlotRange
  <2>2. pending.saves # {} => pending.idx >= published["pcm"]
    BY Numbers DEF Writer, Counts
  <2>3. CASE IndexStored(r, SlotToWrite(r), Sentinel)
    BY <1>1, <2>1, <2>3, Numbers DEF IndexStored
  <2>4. CASE /\ IndexStored(r, SlotToWrite(r), IF r = "pcm" THEN pending.idx ELSE published["task"])
             /\ r = "pcm" => pending.saves # {}
    <3>1. CASE q = r /\ SlotOf(i) = SlotToWrite(r)
      <4>1. i = IF r = "pcm" THEN pending.idx ELSE published["task"]
        BY <1>1, <2>4, <3>1 DEF IndexStored
      <4>2. QED
        BY <2>1, <2>2, <2>4, <3>1, <4>1, Numbers
    <3>2. CASE q # r \/ SlotOf(i) # SlotToWrite(r)
      BY <1>1, <2>1, <2>4, <3>2 DEF IndexStored
    <3>3. QED
      BY <3>1, <3>2
  <2>5. CASE \E d : DataStored(r, SlotToWrite(r), d)
    BY <1>1, <2>1, <2>5 DEF DataStored
  <2>6. QED
    BY <2>3, <2>4, <2>5
<1>2. SharedThread /\ reader.busy => FALSE
  BY DEF Copies, ReaderTypes
<1>3. QED
  BY <1>1, <1>2, Numbers DEF RunsOn, Writer, Types

LEMMA CaptureRunsOn == Writer /\ Copies /\ Capture => RunsOn
<1> SUFFICES ASSUME Writer, Copies, Capture PROVE RunsOn
  OBVIOUS
<1> USE Numbers DEF guestVars
<1>0. SlotTypes /\ (SharedThread /\ reader.busy => hook = "idle")
  BY DEF Writer, Types, Copies, ReaderTypes
<1>1. CASE Flush
  <2>1. CASE pending.saves = {}
    BY <1>0, <1>1, <2>1, RunsOnUnstored DEF Flush
  <2>2. CASE pending.saves # {}
    <3>1. slots' = [slots EXCEPT !["pcm"][SlotToWrite("pcm")].idx = Sentinel]
      BY <1>1, <2>2 DEF Flush, Stamp
    <3>2. IndexStored("pcm", SlotToWrite("pcm"), Sentinel)
      BY <1>0, <3>1, StoreIndex, Zenon
    <3>3. hook # "idle" /\ UNCHANGED <<published, captured, seen>>
      BY <1>1 DEF Flush
    <3>4. QED
      BY <3>2, <3>3, RunsOnStored
  <2>3. QED
    BY <2>1, <2>2
<1>2. CASE FillPcm
  <2>1. PendingOutput \in Payloads
    BY DEF Writer, Types, PendingOutput, Payloads
  <2>2. /\ slots' = [slots EXCEPT !["pcm"][SlotToWrite("pcm")].data = PendingOutput]
        /\ hook # "idle" /\ UNCHANGED <<published, captured, seen>>
    BY <1>2 DEF FillPcm, Fill
  <2>3. DataStored("pcm", SlotToWrite("pcm"), PendingOutput)
    BY <1>0, <2>1, <2>2, StoreData, Zenon
  <2>4. QED
    BY <2>2, <2>3, RunsOnStored
<1>3. CASE IndexPcm
  <2>1. /\ slots' = [slots EXCEPT !["pcm"][SlotToWrite("pcm")].idx = pending.idx]
        /\ hook # "idle" /\ UNCHANGED <<published, captured, seen>> /\ pending.saves # {}
    BY <1>3 DEF IndexPcm, PutIndex, Writer, Counts, PcmSteps
  <2>2. pending.idx \in 0..Sentinel
    OBVIOUS
  <2>3. IndexStored("pcm", SlotToWrite("pcm"), pending.idx)
    BY <1>0, <2>1, <2>2, StoreIndex, Zenon
  <2>4. QED
    BY <2>1, <2>3, RunsOnStored
<1>4. CASE PublishPcm
  <2>1. /\ hook # "idle" /\ published' = [published EXCEPT !["pcm"] = @ + 1]
        /\ UNCHANGED <<slots, captured, seen>>
    BY <1>4 DEF PublishPcm, Publish
  <2>2. QED
    BY <1>0, <2>1 DEF RunsOn, SlotOf, Writer, Types
<1>5. CASE StampTask
  <2>1. /\ slots' = [slots EXCEPT !["task"][SlotToWrite("task")].idx = Sentinel]
        /\ hook # "idle" /\ UNCHANGED <<published, captured, seen>>
    BY <1>5 DEF StampTask, Stamp
  <2>2. IndexStored("task", SlotToWrite("task"), Sentinel)
    BY <1>0, <2>1, StoreIndex, Zenon
  <2>3. QED
    BY <2>1, <2>2, RunsOnStored
<1>6. CASE FillTask
  <2>1. {task.id} \in Payloads
    BY DEF Payloads
  <2>2. /\ slots' = [slots EXCEPT !["task"][SlotToWrite("task")].data = {task.id}]
        /\ hook # "idle" /\ UNCHANGED <<published, captured, seen>>
    BY <1>6 DEF FillTask, Fill
  <2>3. DataStored("task", SlotToWrite("task"), {task.id})
    BY <1>0, <2>1, <2>2, StoreData, Zenon
  <2>4. QED
    BY <2>2, <2>3, RunsOnStored
<1>7. CASE IndexTask
  <2>1. /\ slots' = [slots EXCEPT !["task"][SlotToWrite("task")].idx = published["task"]]
        /\ hook # "idle" /\ UNCHANGED <<published, captured, seen>>
    BY <1>7 DEF IndexTask, PutIndex
  <2>2. published["task"] \in 0..Sentinel
    OBVIOUS
  <2>3. IndexStored("task", SlotToWrite("task"), published["task"])
    BY <1>0, <2>1, <2>2, StoreIndex, Zenon
  <2>4. QED
    BY <2>1, <2>3, RunsOnStored
<1>8. CASE PublishTask
  <2>1. /\ hook # "idle" /\ published' = [published EXCEPT !["task"] = @ + 1]
        /\ captured' = Append(captured, task.id) /\ UNCHANGED <<slots, seen>>
    BY <1>8 DEF PublishTask, Publish
  <2>2. Len(captured') >= Len(captured) /\ \A i \in 1..Len(captured) : captured'[i] = captured[i]
    BY <2>1, AppendProperties DEF Writer, Types
  <2>3. QED
    BY <1>0, <2>1, <2>2 DEF RunsOn, SlotOf, Writer, Types
<1>9. QED
  BY <1>1, <1>2, <1>3, <1>4, <1>5, <1>6, <1>7, <1>8 DEF Capture

(* While none of the reader's own steps is taken.                          *)
LEMMA KeepsCopies ==
  ASSUME Writer, Copies, Replies, RunsOn, UNCHANGED <<reader, reply>>
  PROVE  Copies' /\ Replies'
<1>1. /\ captured \in Seq(1..MaxTasks) /\ Len(captured) = published["task"]
      /\ published \in [Rings -> Nat] /\ published["pcm"] <= published["task"]
      /\ reader.ring \in Rings /\ reader.idx \in 0..MaxTasks
      /\ reply \in [ring : Rings, idx : 0..MaxTasks, data : Payloads]
      /\ reader \in [busy : BOOLEAN, ring : Rings, idx : 0..MaxTasks, left : Lefts, out : SlotRecords]
  BY Numbers DEF Writer, Types, Copies, ReaderTypes, Replies
<1>2. Copies'
  <2> SUFFICES ASSUME reader.busy PROVE Copies'
    BY <1>1 DEF Copies, ReaderTypes
  <2>1. reader.idx < published[reader.ring] /\ reader.idx < published'[reader.ring]
    BY <1>1, Numbers DEF Copies, ReaderTypes, RunsOn
  <2>2. captured'[reader.idx + 1] = captured[reader.idx + 1]
    <3>1. reader.idx < published["task"]
      <4>1. CASE reader.ring = "task"
        BY <2>1, <4>1
      <4>2. CASE reader.ring = "pcm"
        BY <1>1, <2>1, <4>2, Numbers
      <4>3. QED
        BY <1>1, <4>1, <4>2 DEF Rings
    <3>2. reader.idx + 1 \in 1..Len(captured)
      <4>1. \A x, n \in Nat : x < n => x + 1 \in 1..n
        OBVIOUS
      <4>2. reader.idx \in Nat /\ published["task"] \in Nat
        BY <1>1, Numbers
      <4>3. QED
        BY <1>1, <3>1, <4>1, <4>2
    <3>3. QED
      BY <3>2 DEF RunsOn
  <2>3. Asked'.idx = reader.idx => Asked.idx = reader.idx
    <3>1. reader.idx \in 0..published[reader.ring] - 1
      BY <1>1, <2>1
    <3>2. QED
      BY <1>1, <3>1 DEF RunsOn, Asked, SlotOf
  <2>4. reader.left = <<"data">> => Asked' = Asked
    BY DEF Copies, ReaderTypes, RunsOn, Asked, SlotOf
  <2>5. Unspoilt(reader.ring)' => Unspoilt(reader.ring)
    BY DEF Unspoilt, RunsOn
  <2>6. SharedThread => hook' = "idle"
    BY DEF RunsOn
  <2> HIDE DEF Asked, Unspoilt
  <2>7. QED
    BY <1>1, <2>1, <2>2, <2>3, <2>4, <2>5, <2>6 DEF Copies, ReaderTypes, SlotRecords, Payloads, Sentinel
<1>3. Replies'
  <2>1. ASSUME reply.data # Nothing
        PROVE  reply.idx < published'["task"] /\ captured'[reply.idx + 1] = captured[reply.idx + 1]
    <3>1. reply.idx < published["task"] /\ reply.idx + 1 \in 1..Len(captured)
      BY <1>1, <2>1, Numbers DEF Replies
    <3>2. captured'[reply.idx + 1] = captured[reply.idx + 1]
      BY <3>1 DEF RunsOn
    <3>3. published'["task"] >= published["task"] /\ published'["task"] \in Nat
      BY Numbers DEF RunsOn
    <3>4. reply.idx \in Nat /\ published["task"] \in Nat
      BY <1>1, Numbers
    <3>5. reply.idx < published'["task"]
      BY <3>1, <3>3, <3>4
    <3>6. QED
      BY <3>2, <3>5
  <2>2. ~seen'.paused => ~seen.paused
    BY DEF RunsOn
  <2>3. QED
    BY <1>1, <2>1, <2>2 DEF Replies, WholeReads, Nothing, Payloads
<1>4. QED
  BY <1>2, <1>3

LEMMA OneLeft ==
  /\ <<"idx">> # <<"data">> /\ <<"idx">> # <<>> /\ <<"data">> # <<>>
  /\ <<"idx", "data">> \notin {<<>>, <<"idx">>, <<"data">>}
  /\ <<"data", "idx">> \notin {<<>>, <<"idx">>, <<"data">>}
  /\ <<"data", "idx">> # <<"idx", "data">>
<1>1. /\ Len(<<"idx">>) = 1 /\ Len(<<"data">>) = 1 /\ Len(<<>>) = 0
      /\ Len(<<"idx", "data">>) = 2 /\ Len(<<"data", "idx">>) = 2
  OBVIOUS
<1>2. /\ <<"idx">>[1] # <<"data">>[1] /\ <<"data", "idx">>[1] # <<"idx", "data">>[1]
  OBVIOUS
<1>3. QED
  BY <1>1, <1>2

(* What is in the slot under the index asked for is that event.            *)
LEMMA AskedWhole ==
  ASSUME Writer, Copies, reader.busy, Unspoilt(reader.ring), Asked.idx = reader.idx
  PROVE  Asked.data = {captured[reader.idx + 1]}
<1>1. reader.ring \in {"task", "pcm"} /\ reader.idx \in 0..MaxTasks
  BY DEF Copies, ReaderTypes, Rings
<1>2. reader.idx < published[reader.ring] /\ reader.idx # Sentinel
  BY <1>1, Numbers DEF Copies, ReaderTypes
<1>3. reader.idx \in 0..published[reader.ring] - 1
  BY <1>1, <1>2, Numbers
<1>4. CASE reader.ring = "task"
  BY <1>3, <1>4 DEF Asked, Writer, TaskSlots
<1>5. CASE reader.ring = "pcm"
  BY <1>2, <1>3, <1>5 DEF Asked, Unspoilt, Writer, PcmSlots
<1>6. QED
  BY <1>1, <1>4, <1>5

LEMMA GetStartCopies ==
  ASSUME IndexLastOrShared, Writer, Copies, Replies,
         NEW r \in Rings, NEW idx \in 0..MaxTasks, NEW order \in CopyOrders, GetStart(r, idx, order)
  PROVE  IInv'
<1>1. /\ ~reader.busy /\ (SharedThread => hook = "idle") /\ idx < published[r]
      /\ reader' = [reader EXCEPT !.busy = TRUE, !.ring = r, !.idx = idx, !.left = order]
      /\ UNCHANGED <<task, output, enabled, lastPc, slots, published, pending, captured,
                     seen, hook, reply>>
  BY DEF GetStart, MayRead, InWindow, guestVars, ringVars
<1>2. Writer'
  <2>1. enabled \in BOOLEAN /\ seen \in [paused : BOOLEAN, silent : BOOLEAN] /\ (~seen.paused => enabled)
    BY DEF Writer, Types, Edges
  <2>2. QED
    BY <1>1, <2>1, OthersWriter
<1>3. order \in {<<"idx", "data">>, <<"data", "idx">>} /\ (~SharedThread => order = <<"data", "idx">>)
  BY AudioAssumption DEF IndexLastOrShared
<1>4. order # <<>> /\ order # <<"idx">> /\ order # <<"data">>
      /\ (~SharedThread => order # <<"idx", "data">>)
  BY <1>3, OneLeft
<1>5. Copies'
  BY <1>1, <1>3, <1>4 DEF Copies, ReaderTypes, Lefts
<1>6. Replies'
  BY <1>1 DEF Replies, WholeReads
<1>7. QED
  BY <1>2, <1>5, <1>6 DEF IInv

LEMMA GetFieldCopies == Writer /\ Copies /\ Replies /\ GetField => IInv'
<1> SUFFICES ASSUME Writer, Copies, Replies, GetField PROVE IInv'
  OBVIOUS
<1>1. /\ reader.busy /\ reader.left # <<>>
      /\ UNCHANGED <<task, output, enabled, lastPc, slots, published, pending, captured,
                     seen, hook, reply>>
  BY DEF GetField, guestVars, ringVars
<1>2. Writer'
  <2>1. enabled \in BOOLEAN /\ seen \in [paused : BOOLEAN, silent : BOOLEAN] /\ (~seen.paused => enabled)
    BY DEF Writer, Types, Edges
  <2>2. QED
    BY <1>1, <2>1, OthersWriter
<1>3. /\ reader \in [busy : BOOLEAN, ring : Rings, idx : 0..MaxTasks, left : Lefts, out : SlotRecords]
      /\ Asked \in SlotRecords
  BY SlotRange DEF Copies, ReaderTypes, Asked, Writer, Types, SlotTypes
<1>4. PICK f \in {"idx", "data"} : f = Head(reader.left)
  BY <1>1, <1>3 DEF Lefts
<1>5. /\ reader' = [reader EXCEPT !.out[f] = Asked[f], !.left = Tail(@)]
      /\ reader'.busy /\ reader'.ring = reader.ring /\ reader'.idx = reader.idx
      /\ reader'.out = [reader.out EXCEPT ![f] = Asked[f]]
      /\ reader'.left = Tail(reader.left)
  BY <1>1, <1>3, <1>4 DEF GetField, Asked
<1>6. Asked' = Asked /\ Unspoilt(reader.ring)' = Unspoilt(reader.ring)
  BY <1>1, <1>5 DEF Asked, Unspoilt, SlotOf
<1>7. reader'.out \in SlotRecords
  BY <1>3, <1>5 DEF SlotRecords
<1> HIDE DEF Asked, Unspoilt
<1>8. Copies'
  <2>1. CASE reader.left = <<"data", "idx">>
    <3>1. f = "data" /\ reader'.left = <<"idx">> /\ reader'.out.data = Asked.data
      BY <1>3, <1>4, <1>5, <2>1 DEF SlotRecords
    <3>2. QED
      <4>1. ReaderTypes'
        BY <1>1, <1>3, <1>5, <1>7, <3>1 DEF ReaderTypes, Lefts
      <4>2. reader'.left \notin {<<"idx", "data">>, <<"data">>, <<>>}
        BY <3>1, OneLeft
      <4>3. (Unspoilt(reader.ring) /\ Asked.idx = reader.idx =>
              reader.out.data = {captured[reader.idx + 1]})'
        BY <1>1, <1>5, <1>6, <3>1, AskedWhole
      <4>4. /\ reader'.idx < published'[reader'.ring]
            /\ SharedThread => hook' = "idle"
        BY <1>1, <1>5 DEF Copies
      <4>5. QED
        BY <4>1, <4>2, <4>3, <4>4 DEF Copies
  <2>2. CASE reader.left = <<"idx", "data">>
    <3>1. f = "idx" /\ reader'.left = <<"data">> /\ reader'.out.idx = Asked.idx
      BY <1>3, <1>4, <1>5, <2>2 DEF SlotRecords
    <3>2. SharedThread
      BY <1>1, <2>2 DEF Copies, ReaderTypes
    <3>3. QED
      BY <1>1, <1>3, <1>5, <1>6, <1>7, <3>1, <3>2, OneLeft DEF Copies, ReaderTypes, Lefts
  <2>3. CASE reader.left = <<"data">>
    <3>1. f = "data" /\ reader'.left = <<>> /\ reader'.out.data = Asked.data
          /\ reader'.out.idx = reader.out.idx
      BY <1>3, <1>4, <1>5, <2>3 DEF SlotRecords
    <3>2. reader.out.idx = Asked.idx
      BY <1>1, <2>3 DEF Copies, ReaderTypes
    <3>3. QED
      BY <1>1, <1>3, <1>5, <1>6, <1>7, <3>1, <3>2, AskedWhole, OneLeft DEF Copies, ReaderTypes, Lefts
  <2>4. CASE reader.left = <<"idx">>
    <3>1. f = "idx" /\ reader'.left = <<>> /\ reader'.out.idx = Asked.idx
          /\ reader'.out.data = reader.out.data
      BY <1>3, <1>4, <1>5, <2>4 DEF SlotRecords
    <3>2. Unspoilt(reader.ring) /\ Asked.idx = reader.idx =>
            reader.out.data = {captured[reader.idx + 1]}
      BY <1>1, <2>4 DEF Copies, ReaderTypes
    <3>3. QED
      BY <1>1, <1>3, <1>5, <1>6, <1>7, <3>1, <3>2, OneLeft DEF Copies, ReaderTypes, Lefts
  <2>5. QED
    BY <1>1, <1>3, <2>1, <2>2, <2>3, <2>4 DEF Lefts
<1>9. Replies'
  BY <1>1 DEF Replies, WholeReads
<1>10. QED
  BY <1>2, <1>8, <1>9 DEF IInv

(* The copy is complete: it is answered if its index is the one asked for. *)
LEMMA GetEndCopies == Writer /\ Copies /\ Replies /\ GetEnd => IInv'
<1> SUFFICES ASSUME Writer, Copies, Replies, GetEnd PROVE IInv'
  OBVIOUS
<1>1. /\ reader.busy /\ reader.left = <<>>
      /\ reader' = [reader EXCEPT !.busy = FALSE, !.out = [idx |-> 0, data |-> Nothing]]
      /\ reply' = IF reader.out.idx = reader.idx
                    THEN [ring |-> reader.ring, idx |-> reader.idx, data |-> reader.out.data]
                    ELSE reply
      /\ UNCHANGED <<task, output, enabled, lastPc, slots, published, pending, captured,
                     seen, hook>>
  BY DEF GetEnd, guestVars, ringVars
<1>2. Writer'
  <2>1. enabled \in BOOLEAN /\ seen \in [paused : BOOLEAN, silent : BOOLEAN] /\ (~seen.paused => enabled)
    BY DEF Writer, Types, Edges
  <2>2. QED
    BY <1>1, <2>1, OthersWriter
<1>3. reader \in [busy : BOOLEAN, ring : Rings, idx : 0..MaxTasks, left : Lefts, out : SlotRecords]
  BY DEF Copies, ReaderTypes
<1>4. Copies'
  <2>1. [idx |-> 0, data |-> Nothing] \in SlotRecords
    BY Numbers DEF SlotRecords, Payloads, Nothing
  <2>2. QED
    BY <1>1, <1>3, <2>1 DEF Copies, ReaderTypes
<1>5. Replies'
  <2>1. CASE reader.out.idx = reader.idx
    <3>1. reply' = [ring |-> reader.ring, idx |-> reader.idx, data |-> reader.out.data]
      BY <1>1, <2>1
    <3>2. reader.idx < published["task"]
      BY <1>1, <1>3, Numbers DEF Copies, ReaderTypes, Rings
    <3>3. Unspoilt(reader.ring) => reader.out.data = {captured[reader.idx + 1]}
      BY <1>1, <2>1 DEF Copies, ReaderTypes
    <3>4. reader.out.data \in Payloads
      BY <1>3 DEF SlotRecords
    <3>5. QED
      BY <1>1, <1>3, <3>1, <3>2, <3>3, <3>4 DEF Replies, WholeReads, Unspoilt
  <2>2. CASE reader.out.idx # reader.idx
    BY <1>1, <2>2 DEF Replies, WholeReads
  <2>3. QED
    BY <2>1, <2>2
<1>6. QED
  BY <1>2, <1>4, <1>5 DEF IInv

-----------------------------------------------------------------------------
LEMMA ReaderTypesStep == Writer /\ ReaderTypes /\ [Next]_vars => ReaderTypes'
<1> SUFFICES ASSUME Writer, ReaderTypes, [Next]_vars PROVE ReaderTypes'
  OBVIOUS
<1>1. ASSUME NEW r \in Rings, NEW idx \in 0..MaxTasks, NEW order \in CopyOrders, GetStart(r, idx, order)
      PROVE  ReaderTypes'
  <2>1. order \in Lefts
    BY AudioAssumption DEF Lefts
  <2>2. QED
    BY <1>1, <2>1 DEF GetStart, ReaderTypes
<1>2. CASE GetField
  <2>1. Asked \in SlotRecords
    BY SlotRange DEF ReaderTypes, Asked, Writer, Types, SlotTypes
  <2>2. reader.left \in Lefts \ {<<>>}
    BY <1>2 DEF GetField, ReaderTypes
  <2>3. PICK f \in {"idx", "data"} : f = Head(reader.left)
    BY <2>2 DEF Lefts
  <2>4. Tail(reader.left) \in Lefts
    <3>1. /\ Tail(<<"idx">>) = <<>> /\ Tail(<<"data">>) = <<>>
          /\ Tail(<<"idx", "data">>) = <<"data">> /\ Tail(<<"data", "idx">>) = <<"idx">>
      OBVIOUS
    <3>2. QED
      BY <2>2, <3>1 DEF Lefts
  <2>5. reader' = [reader EXCEPT !.out[f] = Asked[f], !.left = Tail(@)]
    BY <1>2, <2>3 DEF GetField, Asked
  <2> HIDE DEF Asked
  <2>6. [reader.out EXCEPT ![f] = Asked[f]] \in SlotRecords
    BY <2>1 DEF ReaderTypes, SlotRecords
  <2>7. QED
    BY <2>4, <2>5, <2>6 DEF ReaderTypes
<1>3. CASE GetEnd
  <2>1. [idx |-> 0, data |-> Nothing] \in SlotRecords
    BY Numbers DEF SlotRecords, Payloads, Nothing
  <2>2. QED
    BY <1>3, <2>1 DEF GetEnd, ReaderTypes
<1>4. CASE \/ \E audio \in BOOLEAN, saves \in SUBSET Buffers : FirstInstruction(audio, saves)
           \/ NextInstruction
           \/ \E on \in BOOLEAN : SetEnabled(on)
           \/ Capture
           \/ UNCHANGED vars
  <2>1. reader' = reader
    BY <1>4 DEF FirstInstruction, NextInstruction, SetEnabled, Capture, Flush, FillPcm, IndexPcm,
       PublishPcm, StampTask, FillTask, IndexTask, PublishTask, vars
  <2>2. QED
    BY <2>1 DEF ReaderTypes
<1>5. QED
  BY <1>1, <1>2, <1>3, <1>4 DEF Next

LEMMA StepWriter == Writer /\ [Next]_vars => Writer'
<1> SUFFICES ASSUME Writer, [Next]_vars PROVE Writer'
  OBVIOUS
<1>1. enabled \in BOOLEAN /\ seen \in [paused : BOOLEAN, silent : BOOLEAN] /\ (~seen.paused => enabled)
  BY DEF Writer, Types, Edges
<1>2. ASSUME NEW on \in BOOLEAN, SetEnabled(on) PROVE Writer'
  <2>1. /\ seen' \in [paused : BOOLEAN, silent : BOOLEAN]
        /\ ~seen'.paused => ~seen.paused /\ on
        /\ ~seen'.silent => ~seen.silent
    BY <1>1, <1>2 DEF SetEnabled
  <2>2. QED
    BY <1>2, <2>1, OthersWriter DEF SetEnabled, guestVars, ringVars
<1>3. CASE \/ \E r \in Rings, idx \in 0..MaxTasks, order \in CopyOrders : GetStart(r, idx, order)
           \/ GetField \/ GetEnd \/ UNCHANGED vars
  <2>1. UNCHANGED <<task, output, enabled, lastPc, slots, published, pending, captured, seen, hook>>
    BY <1>3 DEF GetStart, GetField, GetEnd, vars, guestVars, ringVars
  <2>2. QED
    BY <1>1, <2>1, OthersWriter
<1>4. QED
  BY <1>2, <1>3, FirstWriter, NextInstructionWriter, FlushWriter, FillPcmWriter, IndexPcmWriter,
     PublishPcmWriter, StampTaskWriter, FillTaskWriter, IndexTaskWriter, PublishTaskWriter
     DEF Next, Capture

LEMMA StepIInv == IndexLastOrShared /\ IInv /\ [Next]_vars => IInv'
<1> SUFFICES ASSUME IndexLastOrShared, Writer, Copies, Replies, [Next]_vars PROVE IInv'
  BY DEF IInv
<1>1. Writer'
  BY StepWriter
<1>2. CASE \/ \E audio \in BOOLEAN, saves \in SUBSET Buffers : FirstInstruction(audio, saves)
           \/ NextInstruction
           \/ \E on \in BOOLEAN : SetEnabled(on)
           \/ UNCHANGED vars
  <2>1. /\ UNCHANGED <<slots, published, captured, reader, reply>>
        /\ ~seen'.paused => ~seen.paused
    BY <1>2 DEF FirstInstruction, NextInstruction, SetEnabled, vars, ringVars, Writer, Types
  <2>2. SharedThread /\ reader.busy => hook' = "idle"
    BY <1>2 DEF FirstInstruction, NextInstruction, SetEnabled, vars, MayRun, Copies
  <2>3. QED
    BY <1>1, <2>1, <2>2, RunsOnUnstored, KeepsCopies DEF IInv
<1>3. CASE Capture
  <2>1. UNCHANGED <<reader, reply>>
    BY <1>3 DEF Capture, Flush, FillPcm, IndexPcm, PublishPcm, StampTask, FillTask, IndexTask, PublishTask
  <2>2. QED
    BY <1>1, <1>3, <2>1, CaptureRunsOn, KeepsCopies DEF IInv
<1>4. QED
  BY <1>2, <1>3, GetStartCopies, GetFieldCopies, GetEndCopies DEF Next

LEMMA InitIInv == Init => IInv /\ ReaderTypes
<1> SUFFICES ASSUME Init PROVE IInv /\ ReaderTypes
  OBVIOUS
<1>1. Writer
  BY InitWriter
<1>2. [idx |-> 0, data |-> Nothing] \in SlotRecords
  BY <1>1, Numbers DEF SlotRecords, Payloads, Nothing
<1>3. reader.left \in Lefts /\ ~reader.busy
  BY DEF Init, Lefts
<1>4. ReaderTypes
  BY <1>1, <1>2, <1>3, Numbers DEF Init, ReaderTypes
<1>5. Copies
  BY <1>3, <1>4 DEF Copies
<1>6. Replies
  BY <1>1, Numbers DEF Init, Replies, WholeReads, Nothing, Payloads
<1>7. QED
  BY <1>1, <1>4, <1>5, <1>6 DEF IInv

-----------------------------------------------------------------------------
(* The inductive invariant of the writer, whatever readers do.             *)
THEOREM WriterInvariance == Spec => [](Writer /\ ReaderTypes)
<1>1. QED
  BY InitIInv, StepWriter, ReaderTypesStep, PTL DEF Spec, IInv

(* With it, that of readers that copy a slot's index last or share the     *)
(* writer's thread.                                                        *)
THEOREM Invariance == IndexLastOrShared => (Spec => []IInv)
<1> SUFFICES ASSUME IndexLastOrShared PROVE Spec => []IInv
  OBVIOUS
<1>1. Init => IInv
  BY InitIInv
<1>2. IInv /\ [Next]_vars => IInv'
  BY StepIInv
<1>3. QED
  BY <1>1, <1>2, PTL DEF Spec

(* Slots, counts and the deferred capture keep their types, and no ring    *)
(* counts more events than tasks have started.                             *)
THEOREM TypeCorrect == Spec => []TypeOK
<1>1. Writer /\ ReaderTypes => TypeOK
  <2> SUFFICES ASSUME Writer, ReaderTypes PROVE TypeOK
    OBVIOUS
  <2>1. \A r \in Rings : \A i \in 0..Capacity - 1 : slots[r][i].idx \in 0..Sentinel
    BY DEF Writer, Types, SlotTypes, SlotRecords, SlotNumbers
  <2>2. \A r \in Rings : published[r] \in 0..task.id
    BY Numbers
  <2>3. QED
    BY <2>1, <2>2 DEF Writer, Types, ReaderTypes, TypeOK
<1>2. QED
  BY <1>1, WriterInvariance, PTL

(* Each audio task is captured exactly once, whatever the capacity.        *)
THEOREM OnceEach == Spec => []EveryTaskOnce
<1>1. Writer => EveryTaskOnce
  <2> SUFFICES ASSUME Writer, Settled
               PROVE  /\ Captures(task.id) <= ToCapture
                      /\ ~seen.paused => Captures(task.id) = ToCapture
    BY DEF EveryTaskOnce
  <2> DEFINE places == {i \in 1..Len(captured) : captured[i] = task.id}
  <2>1. Len(captured) \in Nat
    BY Numbers DEF Writer, Types
  <2>2. \A i, j \in places : i = j
    <3> SUFFICES ASSUME NEW i \in places, NEW j \in places, i # j PROVE FALSE
      OBVIOUS
    <3>1. i < j \/ j < i
      BY <2>1
    <3>2. QED
      BY <3>1, CapturedTypes, Numbers DEF Writer, Edges
  <2>3. places # {} => ToCapture = 1
    BY DEF Writer, Edges, ToCapture
  <2>4. ~seen.paused /\ ToCapture = 1 => places # {}
    <3> SUFFICES ASSUME ~seen.paused, ToCapture = 1 PROVE Len(captured) \in places
      OBVIOUS
    <3>1. hook = "idle" /\ task.audio
      BY DEF Settled, ToCapture
    <3>2. Len(captured) > 0 /\ captured[Len(captured)] = task.id
      BY <3>1 DEF Writer, Edges
    <3>3. QED
      BY <2>1, <3>2
  <2>5. ToCapture \in {0, 1}
    BY DEF ToCapture
  <2>6. CASE places = {}
    <3>1. Captures(task.id) = 0
      BY <2>6, FS_EmptySet DEF Captures
    <3>2. QED
      BY <2>4, <2>5, <2>6, <3>1
  <2>7. CASE places # {}
    <3>1. PICK i \in places : places = {i}
      BY <2>2, <2>7
    <3>2. Captures(task.id) = 1
      BY <3>1, FS_Singleton DEF Captures
    <3>3. QED
      BY <2>3, <2>7, <3>2
  <2>8. QED
    BY <2>6, <2>7
<1>2. QED
  BY <1>1, WriterInvariance, PTL

(* A published slice is the output of the task it names, complete.         *)
THEOREM OutputRight == Spec => []OutputOfItsTask
<1>1. Writer => OutputOfItsTask
  <2> SUFFICES ASSUME Writer, hook = "idle", ~seen.paused, NEW i \in 0..published["pcm"] - 1
               PROVE  LET e == slots["pcm"][SlotOf(i)] IN e.data = {captured[e.idx + 1]}
    BY DEF OutputOfItsTask
  <2>1. SlotOf(i) \in SlotNumbers
    BY SlotRange, Numbers
  <2>2. slots["pcm"][SlotOf(i)].idx # Sentinel
    BY <2>1, Numbers DEF Writer, Stamped, OpenAt
  <2>3. QED
    BY <2>2 DEF Writer, PcmSlots
<1>2. QED
  BY <1>1, WriterInvariance, PTL

(* While every audio task saves, ares_audio_pcm_get finds each slice of    *)
(* the window where its index says, pauses or not.                         *)
THEOREM PositionsHold == Spec => []PositionIsIndex
<1>1. Writer => PositionIsIndex
  <2> SUFFICES ASSUME Writer, hook = "idle", ~seen.silent, NEW i \in 0..published["pcm"] - 1,
                      InWindow("pcm", i)
               PROVE  slots["pcm"][SlotOf(i)].idx = i
    BY DEF PositionIsIndex
  <2>1. published["pcm"] - i < Capacity + 1
    BY Numbers DEF InWindow
  <2>2. QED
    BY <2>1 DEF Writer, Level, PcmSteps
<1>2. QED
  BY <1>1, WriterInvariance, PTL

(* What a get returns is whole: the sentinel protects a reader on its own  *)
(* thread that copies the index last, and one thread any reader.           *)
THEOREM ReadsWhole == IndexLastOrShared => (Spec => []WholeReads)
<1>1. IInv => WholeReads
  BY DEF IInv, Replies
<1>2. QED
  BY <1>1, Invariance, PTL
=============================================================================
