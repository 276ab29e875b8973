--------------------------- MODULE FunctionBounds ---------------------------
(***************************************************************************)
(* Where a function ends (analysis.cpp, discover_function_bounds): a walk  *)
(* over the words of a section from the function's entry, with a stack of  *)
(* places still to scan and, during a scan, the jump table whose address   *)
(* the register "t" holds.  Once the size is known, the CPU runs the       *)
(* function, and should not get past its end.                              *)
(***************************************************************************)
EXTENDS Naturals, Sequences

CONSTANTS
  N,      (* words of the section's body                                    *)
  Codes   (* the bodies considered                                          *)

Words   == 1..N
Nowhere == 0
Targets == Words \cup {Nowhere}

(* Instructions: ordinary ones (jalr is one for the scan), one that loads  *)
(* t from a jump table, one that overwrites t, one the register analysis   *)
(* rejects; branches, unconditional when ~cond; j, jal, jr $ra and jr t.   *)
Word(op)             == [op |-> op]
Load(table)          == [op |-> "load", table |-> table]
Branch(cond, target) == [op |-> "branch", cond |-> cond, target |-> target]
Jump(op, target)     == [op |-> op, target |-> target]

Instructions ==
  [op : {"plain", "wipe", "bad", "return", "jr"}]
    \cup [op : {"load"}, table : Seq(Targets)]
    \cup [op : {"branch"}, cond : BOOLEAN, target : Targets]
    \cup [op : {"j", "jal"}, target : Targets]

ASSUME BoundsAssumption ==
  /\ N \in Nat \ {0}
  /\ Codes \subseteq [Words -> Instructions]

Transfers(ins) == ins.op \in {"branch", "j", "jal", "return", "jr"}

VARIABLES
  code, entry,   (* the body, and the word the function starts at           *)
  worklist,      (* words to scan from, the last one first                  *)
  visited,       (* words that have been looked at                          *)
  cursor,        (* the word the scan is at; Nowhere between scans          *)
  table,         (* the table whose entry t holds, as the scan sees it      *)
  last,          (* the last word reached (max_reached)                     *)
  result,        (* searching, found or failed                              *)
  pc, held       (* the CPU, and the table whose entry its t really holds   *)

walk == <<worklist, visited, cursor, table, last, result>>
cpu  == <<pc, held>>
boundsVars == <<code, entry, walk, cpu>>

BoundsInit ==
  /\ code \in Codes /\ entry \in Words
  /\ worklist = <<entry>>
  /\ visited = {}
  /\ cursor = Nowhere
  /\ table = <<>>
  /\ last = entry
  /\ result = "searching"
  /\ pc = Nowhere /\ held = <<>>

-----------------------------------------------------------------------------
Fresh(a) == a \notin visited

(* Faulty variant: the delay slot of the body's last word.                 *)
FaultySlot(a) == {a + 1}

(* The delay slot of the transfer at a, when the body still has it.        *)
Slot(a) == {a + 1} \cap Words

(* What an instruction leaves of the table in t.                           *)
Loaded(ins, t) ==
  CASE ins.op = "load" -> ins.table
    [] ins.op = "wipe" -> <<>>
    [] OTHER           -> t

(* A table is read up to the first entry outside the body.                 *)
Entries(t) ==
  LET read == CHOOSE n \in 0..Len(t) :
                /\ \A i \in 1..n : t[i] \in Words
                /\ n < Len(t) => t[n + 1] \notin Words
  IN  SubSeq(t, 1, read)

(* The fresh ones of targets, on top of w in their order.                  *)
Stacked(w, targets) ==
  LET upto[i \in 0..Len(targets)] ==
        IF i = 0 THEN w
        ELSE IF targets[i] \in Words /\ Fresh(targets[i]) THEN Append(upto[i - 1], targets[i])
        ELSE upto[i - 1]
  IN  upto[Len(targets)]

Push(targets) == worklist' = Stacked(worklist, targets)

Scanning == result = "searching" /\ cursor # Nowhere

(* The word at the cursor, unless the analysis rejects it, and its slot.   *)
Decode(op) ==
  /\ Scanning /\ cursor \in Words /\ Fresh(cursor)
  /\ code[cursor].op = op
  /\ LET seen == {cursor} \cup IF Transfers(code[cursor]) THEN Slot(cursor) ELSE {}
     IN  /\ visited' = visited \cup seen
         /\ last' = CHOOSE w \in seen \cup {last} : \A v \in seen \cup {last} : v <= w

EndOfScan == cursor' = Nowhere /\ UNCHANGED table
GoOn(a)   == cursor' = a /\ table' = Loaded(code[cursor], table)

StartScan ==
  /\ result = "searching" /\ cursor = Nowhere /\ worklist # <<>>
  /\ LET off == worklist[Len(worklist)]
     IN  /\ worklist' = SubSeq(worklist, 1, Len(worklist) - 1)
         /\ IF Fresh(off) THEN cursor' = off /\ table' = <<>>
                          ELSE UNCHANGED <<cursor, table>>
  /\ UNCHANGED <<code, entry, visited, last, result, cpu>>

(* The scan meets a word it has seen, or the end of the body.              *)
StopScan ==
  /\ Scanning /\ (cursor \notin Words \/ ~Fresh(cursor))
  /\ EndOfScan
  /\ UNCHANGED <<code, entry, worklist, visited, last, result, cpu>>

Ordinary ==
  /\ \E op \in {"plain", "wipe", "load"} : Decode(op)
  /\ GoOn(cursor + 1)
  /\ UNCHANGED <<code, entry, worklist, result, cpu>>

Rejected ==
  /\ Scanning /\ cursor \in Words /\ Fresh(cursor)
  /\ code[cursor].op = "bad"
  /\ result' = "failed"
  /\ UNCHANGED <<code, entry, worklist, visited, cursor, table, last, cpu>>

Return ==
  /\ Decode("return")
  /\ EndOfScan
  /\ UNCHANGED <<code, entry, worklist, result, cpu>>

(* jr t: a jump table when the scan has seen t loaded from one, otherwise  *)
(* a computed tail call.  A table without entries is an error.             *)
JumpRegister ==
  /\ Decode("jr")
  /\ IF table = <<>> THEN UNCHANGED <<worklist, result>>
     ELSE IF Entries(table) = <<>> THEN result' = "failed" /\ UNCHANGED worklist
     ELSE Push(Entries(table)) /\ UNCHANGED result
  /\ EndOfScan
  /\ UNCHANGED <<code, entry, cpu>>

(* A j's target is left alone.                                             *)
TailJump ==
  /\ Decode("j")
  /\ EndOfScan
  /\ UNCHANGED <<code, entry, worklist, result, cpu>>

(* Faulty variant: the function called is taken for a part of this one.    *)
FaultyCall ==
  /\ Decode("jal")
  /\ Push(<<code[cursor].target>>)
  /\ GoOn(cursor + 2)
  /\ UNCHANGED <<code, entry, result, cpu>>

Call ==
  /\ Decode("jal")
  /\ GoOn(cursor + 2)
  /\ UNCHANGED <<code, entry, worklist, result, cpu>>

(* Faulty variant: the target is followed instead of the words after it.   *)
FaultyTakeBranch ==
  /\ Decode("branch")
  /\ Push(<<code[cursor].target>>)
  /\ EndOfScan
  /\ UNCHANGED <<code, entry, result, cpu>>

TakeBranch ==
  /\ Decode("branch")
  /\ Push(<<code[cursor].target>>)
  /\ GoOn(cursor + 2)
  /\ UNCHANGED <<code, entry, result, cpu>>

Found ==
  /\ result = "searching" /\ cursor = Nowhere /\ worklist = <<>>
  /\ result' = "found"
  /\ pc' = entry
  /\ UNCHANGED <<code, entry, worklist, visited, cursor, table, last, held>>

Discover ==
  StartScan \/ StopScan \/ Ordinary \/ Rejected \/ Return \/ JumpRegister
    \/ TailJump \/ Call \/ TakeBranch \/ Found

-----------------------------------------------------------------------------
(* The CPU, a transfer and its delay slot in one step.  Control that goes  *)
(* back before the entry or out of the body has left the function.         *)
Goes(a) == pc' = IF a \in entry..N THEN a ELSE Nowhere

Running(op) == pc # Nowhere /\ code[pc].op = op /\ UNCHANGED <<code, entry, walk>>
AfterSlot(t) == IF pc + 1 \in Words THEN Loaded(code[pc + 1], t) ELSE t

RunOrdinary ==
  /\ \E op \in {"plain", "wipe", "load", "bad"} : Running(op)
  /\ held' = Loaded(code[pc], held)
  /\ Goes(pc + 1)

(* A likely branch that is not taken does not execute its slot.            *)
RunBranch ==
  /\ Running("branch")
  /\ \/ Goes(code[pc].target) /\ held' = AfterSlot(held)
     \/ code[pc].cond /\ Goes(pc + 2) /\ held' \in {held, AfterSlot(held)}

(* A j out of the discovered words is a tail call.                         *)
RunJump ==
  /\ Running("j")
  /\ held' = AfterSlot(held)
  /\ Goes(IF code[pc].target \in entry..last THEN code[pc].target ELSE Nowhere)

(* The function called comes back and may have used t.                     *)
RunCall ==
  /\ Running("jal")
  /\ held' = <<>>
  /\ Goes(pc + 2)

RunTable ==
  /\ Running("jr") /\ held # <<>>
  /\ \E i \in 1..Len(held) : Goes(held[i])
  /\ held' = AfterSlot(held)

Leave ==
  /\ Running("return") \/ (Running("jr") /\ held = <<>>)
  /\ held' = <<>>
  /\ pc' = Nowhere

Run == RunOrdinary \/ RunBranch \/ RunJump \/ RunCall \/ RunTable \/ Leave

BoundsNext == Discover \/ Run
BoundsSpec == BoundsInit /\ [][BoundsNext]_boundsVars

-----------------------------------------------------------------------------
(* Only words of the body are looked at, and the size is never short of    *)
(* the entry.                                                              *)
BoundsTypeOK ==
  /\ code \in [Words -> Instructions] /\ entry \in Words
  /\ worklist \in Seq(Words)
  /\ visited \subseteq Words
  /\ cursor \in Nat /\ cursor <= N + 2
  /\ table \in Seq(Targets)
  /\ last \in entry..N
  /\ result \in {"searching", "found", "failed"}
  /\ pc \in Targets /\ held \in Seq(Targets)
  /\ pc # Nowhere => result = "found"

(* The function's words include every word the CPU executes in it, delay   *)
(* slots too: it does not run past the end of the discovered function.     *)
Covered ==
  pc # Nowhere =>
    /\ pc <= last
    /\ Transfers(code[pc]) => \A slot \in Slot(pc) : slot <= last

(* The words control can go to from a, whatever table t comes from.        *)
Tables == {code[a].table : a \in {b \in Words : code[b].op = "load"}}
Arms   == UNION {{t[i] : i \in 1..Len(t)} : t \in Tables}
Successors(a) ==
  CASE code[a].op = "branch" -> {code[a].target} \cup IF code[a].cond THEN {a + 2} ELSE {}
    [] code[a].op = "jal"    -> {a + 2}
    [] code[a].op = "jr"     -> Arms
    [] code[a].op \in {"j", "return"} -> {}
    [] OTHER                 -> {a + 1}

(* No other function is taken in: whatever has been looked at, control can *)
(* get to from the entry, or is the delay slot of such a word.             *)
NothingElse ==
  result = "found" =>
    \A reached \in SUBSET Words :
      (entry \in reached /\ \A a \in reached : Successors(a) \cap Words \subseteq reached)
        => \A a \in visited : a \in reached \/ (a - 1 \in reached /\ Transfers(code[a - 1]))

-----------------------------------------------------------------------------
(* Bodies the walk is meant for.                                           *)
GoesTo(c) ==
  UNION {CASE c[a].op \in {"branch", "j"} -> {c[a].target}
           [] c[a].op = "load"            -> {c[a].table[i] : i \in 1..Len(c[a].table)}
           [] OTHER                       -> {} : a \in Words}

(* No word that control is sent to is a delay slot.                        *)
SlotsAside(c) == LET goes == GoesTo(c) IN \A a \in Words : Transfers(c[a]) => a + 1 \notin goes

(* The word that sets the register of the jr at a, in the same block.      *)
SetAt(c, goes, b, a) ==
  /\ c[b].op \in {"load", "wipe"}
  /\ \A d \in b + 1..a - 1 : c[d].op = "plain"
  /\ \A d \in b + 1..a : d \notin goes

(* A jr's register is set in the same block, as compilers do.              *)
InBlock(c) ==
  LET goes == GoesTo(c) IN
  \A a \in Words : c[a].op = "jr" => \E b \in 1..a - 1 : SetAt(c, goes, b, a)

(* ... and not in a delay slot of a branch before it.                      *)
InScan(c) == \A a \in 1..N - 1 : Transfers(c[a]) => c[a + 1].op = "plain"

(* A j leaves the body, and the places of a table that are in the body     *)
(* come first.                                                             *)
JumpsLeave(c)  == \A a \in Words : c[a].op = "j" => c[a].target \notin Words
TablesFirst(c) ==
  \A a \in Words : c[a].op = "load" =>
    \A i \in 1..Len(c[a].table) :
      c[a].table[i] \in Words => \A k \in 1..i : c[a].table[k] \in Words

Coverable(c) == SlotsAside(c) /\ InBlock(c) /\ InScan(c) /\ JumpsLeave(c) /\ TablesFirst(c)

(* No branch is unconditional.                                             *)
Conditional(c) == \A a \in Words : c[a].op = "branch" => c[a].cond

AllCoverable   == \A c \in Codes : Coverable(c)
AllConditional == \A c \in Codes : Conditional(c)
=============================================================================
