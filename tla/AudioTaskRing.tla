--------------------------- MODULE AudioTaskRing ----------------------------
(***************************************************************************)
(* The audio-task ring and the output-PCM ring of the Ares bridge          *)
(* (ares_rsp_ring.cpp).  The RSP runs one task after another; the          *)
(* instruction hook recognises a task by its first instruction, at IMEM    *)
(* offset 0 after an instruction elsewhere, and captures every audio task. *)
(* What a task wrote to its output buffers in RDRAM is captured when the   *)
(* next audio task starts.                                                 *)
(*                                                                         *)
(* A task's command list is the task's number, and so is its output in the *)
(* buffers it saves to; a captured payload is the set of the numbers read. *)
(* The bounds of RDRAM and the caps on the list's and the slices' lengths  *)
(* are left out.  Both rings are written by one protocol: stamp a          *)
(* sentinel, fill in the payload, publish the index.  A reader copies      *)
(* index and payload in one of CopyOrders, on the emulator's thread if     *)
(* SharedThread, else on its own.                                          *)
(***************************************************************************)
EXTENDS Naturals, Sequences, FiniteSets

CONSTANTS
  Capacity,       (* kAudioTaskCapacity                                     *)
  Buffers,        (* AI buffers in RDRAM, which the output rotates over     *)
  MaxTasks,       (* bound: RSP tasks                                       *)
  CopyOrders,     (* the orders in which a reader may copy a slot's fields  *)
  SharedThread    (* readers run on the emulator's thread                   *)

ASSUME AudioAssumption ==
  /\ Capacity \in Nat \ {0}
  /\ MaxTasks \in Nat
  /\ CopyOrders \subseteq {<<"idx", "data">>, <<"data", "idx">>}
  /\ SharedThread \in BOOLEAN

VARIABLES
  task,       (* the task the RSP executes: its number, whether it is audio,
                 the buffers it saves to, whether recording was on when it
                 started, whether it is past offset 0                       *)
  output,     (* RDRAM: the task whose output each buffer holds             *)
  enabled,    (* g_ring.enabled                                             *)
  lastPc,     (* g_ring.last_pc: "boot" is 0, "body" anything else          *)
  slots,      (* g_ring.audio_tasks and g_ring.audio_pcm                    *)
  published,  (* g_ring.audio_task_idx and g_ring.audio_pcm_idx             *)
  pending,    (* g_ring.pending_idx and pending_addr                        *)
  hook,       (* the step record_audio_task_start is at                     *)
  captured,   (* history: the tasks published, oldest first                 *)
  seen,       (* history: recording has been off (paused); an audio task
                 saved nothing (silent)                                     *)
  reader,     (* an ares_audio_*_get in progress                            *)
  reply       (* the event the last successful one answered                 *)

vars == <<task, output, enabled, lastPc, slots, published, pending, hook,
          captured, seen, reader, reply>>
ringVars  == <<slots, published, pending, captured>>
guestVars == <<task, output>>

Rings    == {"task", "pcm"}
Sentinel == MaxTasks + 1                 (* ~0ull: the index of no event    *)
Nothing  == {}
SlotOf(idx) == idx % Capacity

(* One thread: neither starts while the other is at work. *)
MayRun  == hook = "idle" /\ (SharedThread => ~reader.busy)
MayRead == ~reader.busy /\ (SharedThread => hook = "idle")

-----------------------------------------------------------------------------
Init ==
  /\ task = [id |-> 0, audio |-> FALSE, saves |-> {}, recorded |-> FALSE, begun |-> TRUE]
  /\ output = [b \in Buffers |-> 0]
  /\ enabled = TRUE
  /\ lastPc = "body"
  /\ slots = [r \in Rings |-> [i \in 0..Capacity - 1 |-> [idx |-> 0, data |-> Nothing]]]
  /\ published = [r \in Rings |-> 0]
  /\ pending = [idx |-> 0, saves |-> {}]
  /\ hook = "idle"
  /\ captured = <<>>
  /\ seen = [paused |-> FALSE, silent |-> FALSE]
  /\ reader = [busy |-> FALSE, ring |-> "task", idx |-> 0, left |-> <<>>,
               out |-> [idx |-> 0, data |-> Nothing]]
  /\ reply = [ring |-> "task", idx |-> 0, data |-> Nothing]

(* The output buffers when the current task has ended. *)
Completed == [b \in Buffers |-> IF b \in task.saves THEN task.id ELSE output[b]]

(* The RSP starts its next task: the first instruction, at offset 0.  Only *)
(* an audio task saves, and it need not save a whole slice.                *)
Saves(audio) == IF audio THEN SUBSET Buffers ELSE {{}}

StartsTask(audio) == enabled /\ audio /\ lastPc # "boot"

FirstInstruction(audio, saves) ==
  /\ MayRun /\ task.begun /\ task.id < MaxTasks
  /\ saves \in Saves(audio)
  /\ task' = [id |-> task.id + 1, audio |-> audio, saves |-> saves,
              recorded |-> enabled, begun |-> FALSE]
  /\ output' = Completed
  /\ lastPc' = IF enabled THEN "boot" ELSE lastPc
  /\ hook' = IF StartsTask(audio) THEN "flush" ELSE "idle"
  /\ seen' = [seen EXCEPT !.silent = @ \/ (audio /\ saves = {})]
  /\ UNCHANGED <<enabled, ringVars, reader, reply>>

(* Faulty variant: last_pc is only updated when a task starts.             *)
FaultyNextInstruction ==
  /\ MayRun /\ ~task.begun
  /\ task' = [task EXCEPT !.begun = TRUE]
  /\ UNCHANGED <<output, enabled, lastPc, ringVars, seen, hook, reader, reply>>

(* An instruction of rspboot or of the microcode, not at offset 0. *)
NextInstruction ==
  /\ MayRun /\ ~task.begun
  /\ task' = [task EXCEPT !.begun = TRUE]
  /\ lastPc' = IF enabled THEN "body" ELSE lastPc
  /\ UNCHANGED <<output, enabled, ringVars, seen, hook, reader, reply>>

SetEnabled(on) ==
  /\ MayRead
  /\ enabled' = on
  /\ seen' = [seen EXCEPT !.paused = @ \/ ~on]
  /\ UNCHANGED <<guestVars, lastPc, ringVars, hook, reader, reply>>

-----------------------------------------------------------------------------
(* record_audio_task_start, one store to a ring at a time. *)

SlotToWrite(r) == SlotOf(published[r])

Stamp(r) == slots' = [slots EXCEPT ![r][SlotToWrite(r)].idx = Sentinel]
Fill(r, d) == slots' = [slots EXCEPT ![r][SlotToWrite(r)].data = d]
PutIndex(r, i) == slots' = [slots EXCEPT ![r][SlotToWrite(r)].idx = i]
(* Faulty variant: an index is skipped.                                    *)
FaultyPublish(r) == published' = [published EXCEPT ![r] = @ + 2]

Publish(r) == published' = [published EXCEPT ![r] = @ + 1]

Flush ==
  /\ hook = "flush"
  /\ IF pending.saves = {} THEN hook' = "stampTask" /\ UNCHANGED slots
                           ELSE hook' = "fillPcm" /\ Stamp("pcm")
  /\ UNCHANGED <<guestVars, enabled, lastPc, published, pending, captured, seen, reader, reply>>

(* Faulty variant: the buffers of the task that starts are captured.       *)
FaultyPendingOutput == {output[b] : b \in task.saves}

(* What the pending buffers hold now. *)
PendingOutput == {output[b] : b \in pending.saves}

FillPcm ==
  /\ hook = "fillPcm"
  /\ Fill("pcm", PendingOutput)
  /\ hook' = "indexPcm"
  /\ UNCHANGED <<guestVars, enabled, lastPc, published, pending, captured, seen, reader, reply>>

(* Faulty variant: the slices are labelled with the task that starts now.  *)
FaultyIndexPcm ==
  /\ hook = "indexPcm"
  /\ PutIndex("pcm", published["task"])
  /\ hook' = "publishPcm"
  /\ UNCHANGED <<guestVars, enabled, lastPc, published, pending, captured, seen, reader, reply>>

IndexPcm ==
  /\ hook = "indexPcm"
  /\ PutIndex("pcm", pending.idx)
  /\ hook' = "publishPcm"
  /\ UNCHANGED <<guestVars, enabled, lastPc, published, pending, captured, seen, reader, reply>>

PublishPcm ==
  /\ hook = "publishPcm"
  /\ Publish("pcm")
  /\ pending' = [pending EXCEPT !.saves = {}]
  /\ hook' = "stampTask"
  /\ UNCHANGED <<guestVars, enabled, lastPc, slots, captured, seen, reader, reply>>

(* Faulty variant: no sentinel while the slot is being overwritten.        *)
FaultyStampTask ==
  /\ hook = "stampTask"
  /\ hook' = "fillTask"
  /\ UNCHANGED <<guestVars, enabled, lastPc, ringVars, seen, reader, reply>>

StampTask ==
  /\ hook = "stampTask"
  /\ Stamp("task")
  /\ hook' = "fillTask"
  /\ UNCHANGED <<guestVars, enabled, lastPc, published, pending, captured, seen, reader, reply>>

FillTask ==
  /\ hook = "fillTask"
  /\ Fill("task", {task.id})
  /\ hook' = "indexTask"
  /\ UNCHANGED <<guestVars, enabled, lastPc, published, pending, captured, seen, reader, reply>>

IndexTask ==
  /\ hook = "indexTask"
  /\ PutIndex("task", published["task"])
  /\ hook' = "publishTask"
  /\ UNCHANGED <<guestVars, enabled, lastPc, published, pending, captured, seen, reader, reply>>

(* The task is published; its own saves are what the next one flushes.     *)
PublishTask ==
  /\ hook = "publishTask"
  /\ Publish("task")
  /\ pending' = [idx |-> published["task"], saves |-> task.saves]
  /\ captured' = Append(captured, task.id)
  /\ hook' = "idle"
  /\ UNCHANGED <<guestVars, enabled, lastPc, slots, seen, reader, reply>>

Capture == Flush \/ FillPcm \/ IndexPcm \/ PublishPcm
             \/ StampTask \/ FillTask \/ IndexTask \/ PublishTask

-----------------------------------------------------------------------------
(* ares_audio_task_get and ares_audio_pcm_get.  A get outside the window   *)
(* answers 0 and changes nothing.                                          *)
InWindow(r, idx) == idx < published[r] /\ published[r] - idx <= Capacity

GetStart(r, idx, order) ==
  /\ MayRead /\ InWindow(r, idx)
  /\ reader' = [reader EXCEPT !.busy = TRUE, !.ring = r, !.idx = idx, !.left = order]
  /\ UNCHANGED <<guestVars, enabled, lastPc, ringVars, seen, hook, reply>>

GetField ==
  /\ reader.busy /\ reader.left # <<>>
  /\ LET f == Head(reader.left) IN
       reader' = [reader EXCEPT !.out[f] = slots[reader.ring][SlotOf(reader.idx)][f],
                                !.left = Tail(@)]
  /\ UNCHANGED <<guestVars, enabled, lastPc, ringVars, seen, hook, reply>>

GetEnd ==
  /\ reader.busy /\ reader.left = <<>>
  /\ reader' = [reader EXCEPT !.busy = FALSE, !.out = [idx |-> 0, data |-> Nothing]]
  /\ reply' = IF reader.out.idx = reader.idx
                THEN [ring |-> reader.ring, idx |-> reader.idx, data |-> reader.out.data]
                ELSE reply
  /\ UNCHANGED <<guestVars, enabled, lastPc, ringVars, seen, hook>>

Next ==
  \/ \E audio \in BOOLEAN, saves \in SUBSET Buffers : FirstInstruction(audio, saves)
  \/ NextInstruction
  \/ \E on \in BOOLEAN : SetEnabled(on)
  \/ Capture
  \/ \E r \in Rings, idx \in 0..MaxTasks, order \in CopyOrders : GetStart(r, idx, order)
  \/ GetField \/ GetEnd

Spec == Init /\ [][Next]_vars

-----------------------------------------------------------------------------
(* The rings, the deferred capture and the copies hold what their C types  *)
(* hold, and neither ring counts more events than tasks have started.      *)
TypeOK ==
  /\ task.id \in 0..MaxTasks /\ task.saves \subseteq Buffers
  /\ output \in [Buffers -> 0..MaxTasks]
  /\ lastPc \in {"boot", "body"}
  /\ \A r \in Rings : \A i \in 0..Capacity - 1 : slots[r][i].idx \in 0..Sentinel
  /\ \A r \in Rings : published[r] \in 0..task.id
  /\ pending.idx \in 0..MaxTasks /\ pending.saves \subseteq Buffers
  /\ reader.idx \in 0..MaxTasks

(* An event a get returned is whole and is the one asked for: the task the *)
(* ring published under that index, or (what a pause can spoil, see        *)
(* OutputOfItsTask) the output of just that task.                          *)
WholeReads ==
  reply.data # Nothing /\ (reply.ring = "pcm" => ~seen.paused)
    => reply.data = {captured[reply.idx + 1]}

Captures(id) == Cardinality({i \in 1..Len(captured) : captured[i] = id})
ToCapture    == IF task.audio /\ task.recorded THEN 1 ELSE 0
Settled      == hook = "idle" /\ task.begun /\ task.id > 0

(* The edge fires exactly once for each task: a task past its first        *)
(* instruction has been captured if and only if it is audio, as long as    *)
(* recording has stayed on (a pause can hide the edge of the next task).   *)
(* Whatever recording was, no task is captured twice, nor one that is not  *)
(* audio or that started while recording was off.                          *)
EveryTaskOnce ==
  Settled =>
    /\ Captures(task.id) <= ToCapture
    /\ ~seen.paused => Captures(task.id) = ToCapture

(* A published slice holds the output of the task whose index it bears,    *)
(* complete and not yet overwritten, as long as recording has stayed on    *)
(* (tasks that run in a pause overwrite what is still to be captured).     *)
OutputOfItsTask ==
  hook = "idle" /\ ~seen.paused =>
    \A i \in 0..published["pcm"] - 1 :
      InWindow("pcm", i) =>
        LET e == slots["pcm"][SlotOf(i)] IN e.data = {captured[e.idx + 1]}

(* "The pcm ring writes exactly one event per audio task", so an output    *)
(* event stands at the position its index names and ares_audio_pcm_get     *)
(* finds it: while every audio task has saved something, whatever          *)
(* recording was.                                                          *)
PositionIsIndex ==
  hook = "idle" /\ ~seen.silent =>
    \A i \in 0..published["pcm"] - 1 :
      InWindow("pcm", i) => slots["pcm"][SlotOf(i)].idx = i
=============================================================================
