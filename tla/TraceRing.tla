----------------------------- MODULE TraceRing ------------------------------
(***************************************************************************)
(* The RSP instruction trace of the Ares bridge (ares_rsp_ring.cpp).  The  *)
(* hook Ares calls for every RSP instruction reserves a sequence number,   *)
(* copies the event into a slot of the sliding ring and, while there is    *)
(* room, into the boot snapshot.  A reader fetches by sequence number: it  *)
(* loads the write counter, checks the window, copies the slot and checks  *)
(* the sequence number in its copy.                                        *)
(*                                                                         *)
(* An event is its sequence number and one payload, which stands for the   *)
(* registers; the copy of an event into a slot and out of it is two plain  *)
(* stores or loads in either order.  SharedThread says whether the reader  *)
(* runs on the thread that runs Ares, as the oracle server does, or on one *)
(* of its own, which the code's tear check is there for.                   *)
(***************************************************************************)
EXTENDS Naturals, Sequences

CONSTANTS
  Capacity,       (* kSlidingCapacity                                       *)
  BootCapacity,   (* kBootCapacity                                          *)
  MaxInstr,       (* bound: RSP instructions executed                       *)
  SharedThread    (* the reader runs on the emulator's thread               *)

ASSUME RingAssumption ==
  /\ Capacity \in Nat \ {0}
  /\ BootCapacity \in Nat
  /\ MaxInstr \in Nat
  /\ SharedThread \in BOOLEAN

VARIABLES
  executed,   (* RSP instructions executed                                  *)
  writeIdx,   (* g_ring.write_idx                                           *)
  sliding,    (* g_ring.sliding                                             *)
  boot,       (* g_ring.boot, up to boot_count                              *)
  enabled,    (* g_ring.enabled                                             *)
  hook,       (* record_one_instruction: the fields of ev still to be copied *)
  reader,     (* ares_rsp_trace_get in progress                             *)
  log,        (* history: the payloads recorded, by sequence number         *)
  reply       (* the last query's answer                                    *)

vars == <<executed, writeIdx, sliding, boot, enabled, hook, reader, log, reply>>

Fields  == {"seq", "data"}
Missing == 0
Event(seq, data) == [f \in Fields |-> IF f = "seq" THEN seq ELSE data]
ZeroEvent == Event(0, Missing)
SlotOf(seq) == seq % Capacity

HookIdle   == ~hook.busy
ReaderIdle == ~reader.busy
(* On one thread neither starts while the other is at work. *)
MayRecord  == HookIdle /\ (SharedThread => ReaderIdle)
MayRead    == ReaderIdle /\ (SharedThread => HookIdle)

-----------------------------------------------------------------------------
(* All of g_ring is static: zero slots, recording on.                      *)
Init ==
  /\ executed = 0
  /\ writeIdx = 0
  /\ sliding = [i \in 0..Capacity - 1 |-> ZeroEvent]
  /\ boot = <<>>
  /\ enabled = TRUE
  /\ hook = [busy |-> FALSE, ev |-> ZeroEvent, left |-> {}]
  /\ reader = [busy |-> FALSE, idx |-> 0, out |-> ZeroEvent, left |-> {}]
  /\ log = <<>>
  /\ reply = [query |-> "none", pos |-> 0, event |-> Missing]

(* The hook while recording is off. *)
Unrecorded ==
  /\ MayRecord /\ ~enabled /\ executed < MaxInstr
  /\ executed' = executed + 1
  /\ UNCHANGED <<writeIdx, sliding, boot, enabled, hook, reader, log, reply>>

(* The hook reserves my_seq and builds ev. *)
Reserve ==
  /\ MayRecord /\ enabled /\ executed < MaxInstr
  /\ executed' = executed + 1
  /\ writeIdx' = writeIdx + 1
  /\ hook' = [busy |-> TRUE, ev |-> Event(writeIdx, executed + 1),
              left |-> Fields]
  /\ log' = Append(log, executed + 1)
  /\ UNCHANGED <<sliding, boot, enabled, reader, reply>>

(* Faulty variant: the slot after the reserved one is written.             *)
FaultyStoreField(f) ==
  /\ hook.busy /\ f \in hook.left
  /\ sliding' = [sliding EXCEPT ![SlotOf(hook.ev["seq"] + 1)][f] = hook.ev[f]]
  /\ hook' = [hook EXCEPT !.left = @ \ {f}]
  /\ UNCHANGED <<executed, writeIdx, boot, enabled, reader, log, reply>>

(* g_ring.sliding[my_seq & kSlidingMask] = ev, one field.                  *)
StoreField(f) ==
  /\ hook.busy /\ f \in hook.left
  /\ sliding' = [sliding EXCEPT ![SlotOf(hook.ev["seq"])][f] = hook.ev[f]]
  /\ hook' = [hook EXCEPT !.left = @ \ {f}]
  /\ UNCHANGED <<executed, writeIdx, boot, enabled, reader, log, reply>>

(* Faulty variant: one event too many is put into the snapshot.            *)
FaultyBootAppend ==
  /\ hook.busy /\ hook.left = {}
  /\ boot' = IF Len(boot) <= BootCapacity THEN Append(boot, hook.ev) ELSE boot
  /\ hook' = [hook EXCEPT !.busy = FALSE]
  /\ UNCHANGED <<executed, writeIdx, sliding, enabled, reader, log, reply>>

BootAppend ==
  /\ hook.busy /\ hook.left = {}
  /\ boot' = IF Len(boot) < BootCapacity THEN Append(boot, hook.ev) ELSE boot
  /\ hook' = [hook EXCEPT !.busy = FALSE]
  /\ UNCHANGED <<executed, writeIdx, sliding, enabled, reader, log, reply>>

SetEnabled(on) ==
  /\ MayRead
  /\ enabled' = on
  /\ UNCHANGED <<executed, writeIdx, sliding, boot, hook, reader, log, reply>>

-----------------------------------------------------------------------------
Answer(query, pos, event) ==
  reply' = [query |-> query, pos |-> pos, event |-> event]

(* ares_rsp_trace_get: the counter is loaded once. *)
Evicted(idx) == writeIdx - idx > Capacity

GetMissing(idx) ==
  /\ MayRead
  /\ idx >= writeIdx \/ Evicted(idx)
  /\ Answer("get", idx, Missing)
  /\ UNCHANGED <<executed, writeIdx, sliding, boot, enabled, hook, reader, log>>

GetStart(idx) ==
  /\ MayRead
  /\ idx < writeIdx /\ ~Evicted(idx)
  /\ reader' = [busy |-> TRUE, idx |-> idx, out |-> ZeroEvent, left |-> Fields]
  /\ UNCHANGED <<executed, writeIdx, sliding, boot, enabled, hook, log, reply>>

(* *out = slot, one field. *)
LoadField(f) ==
  /\ reader.busy /\ f \in reader.left
  /\ reader' = [reader EXCEPT !.out[f] = sliding[SlotOf(reader.idx)][f],
                              !.left = @ \ {f}]
  /\ UNCHANGED <<executed, writeIdx, sliding, boot, enabled, hook, log, reply>>

(* The check of out->seq: of the copy, not of the slot again. *)
GetEnd ==
  /\ reader.busy /\ reader.left = {}
  /\ Answer("get", reader.idx,
            IF reader.out["seq"] = reader.idx THEN reader.out["data"] ELSE Missing)
  /\ reader' = [reader EXCEPT !.busy = FALSE]
  /\ UNCHANGED <<executed, writeIdx, sliding, boot, enabled, hook, log>>

(* ares_rsp_trace_boot_get. *)
BootGet(pos) ==
  /\ MayRead
  /\ Answer("boot", pos, IF pos < Len(boot) THEN boot[pos + 1]["data"] ELSE Missing)
  /\ UNCHANGED <<executed, writeIdx, sliding, boot, enabled, hook, reader, log>>

Next ==
  \/ Unrecorded \/ Reserve \/ BootAppend \/ GetEnd
  \/ \E f \in Fields : StoreField(f) \/ LoadField(f)
  \/ \E on \in BOOLEAN : SetEnabled(on)
  \/ \E pos \in 0..MaxInstr : GetMissing(pos) \/ GetStart(pos) \/ BootGet(pos)

Spec == Init /\ [][Next]_vars

-----------------------------------------------------------------------------
EventRecords == [Fields -> 0..MaxInstr]

(* Counters, slots and the copies in progress hold values of their types. *)
TypeOK ==
  /\ executed \in 0..MaxInstr
  /\ writeIdx \in 0..executed
  /\ sliding \in [0..Capacity - 1 -> EventRecords]
  /\ boot \in Seq(EventRecords) /\ Len(boot) <= BootCapacity
  /\ enabled \in BOOLEAN
  /\ hook \in [busy : BOOLEAN, ev : EventRecords, left : SUBSET Fields]
  /\ reader \in [busy : BOOLEAN, idx : 0..MaxInstr, out : EventRecords, left : SUBSET Fields]
  /\ log \in Seq(1..MaxInstr) /\ Len(log) = writeIdx

(* Between two instructions every event of the window is in its slot,      *)
(* whatever was switched on and off before, and none is in two.            *)
Window == {i \in 0..writeIdx - 1 : ~Evicted(i)}
RingHoldsWindow ==
  HookIdle => \A i \in Window :
                sliding[SlotOf(i)] = Event(i, log[i + 1])

(* An answered event is the one recorded under the number asked for, not a *)
(* mixture of two nor a slot not written yet (the tear check).             *)
WholeReads ==
  reply.query = "get" /\ reply.event # Missing =>
    reply.pos < Len(log) /\ reply.event = log[reply.pos + 1]

(* Read on the emulator's own thread, the rings are the log they stand for. *)
Log == INSTANCE TraceLog WITH Events <- 1..MaxInstr, Positions <- 0..MaxInstr
LogSpec == Log!LSpec
=============================================================================
