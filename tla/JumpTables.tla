----------------------------- MODULE JumpTables -----------------------------
(***************************************************************************)
(* How the recompiler finds a function's jump tables (analyze_function):   *)
(* one scan over the words, from first to last whatever the control flow,  *)
(* that follows what each register and stack word holds, then the length   *)
(* of each table; and the C emitted from that, executed: the load of an    *)
(* entry becomes an addiu, the addend is put aside before the addu, and    *)
(* the jr is a switch over it.                                             *)
(***************************************************************************)
EXTENDS TableCode

CONSTANT Values   (* bound: what control arrives with and "other" computes *)

ASSUME ValuesAssumption == Values \subseteq Int /\ 0 \in Values

VARIABLES
  func, phase,
  states,   (* the scan's RegStates before each word (the last are current) *)
  tables,   (* stats.jump_tables                                            *)
  start,    (* history: where control arrived                               *)
  pc, mem,
  entries,  (* history: the places that hold an entry's address, by the addiu *)
  addend,   (* jr_addend of each jr: empty until it is assigned              *)
  left

vars == <<func, phase, states, tables, start, pc, mem, entries, addend, left>>

-----------------------------------------------------------------------------
(* RegState; from, the lui it goes back to, is a history field.            *)
Fresh ==
  [lui |-> FALSE, hi |-> 0, addiu |-> FALSE, lo |-> 0, addend |-> FALSE, by |-> 0, addu |-> 0,
   loaded |-> FALSE, lw |-> 0, table |-> 0, from |-> 0]

Base(w, s)  == IF s[w.s].lui THEN w.s ELSE w.t
Index(w, s) == IF s[w.s].lui THEN w.t ELSE w.s
Entry(w, s) == s[w.s].lui /\ s[w.s].addend /\ ~(w.imm # 0 /\ s[w.s].addiu)

(* What word i leaves in its place.                                        *)
(* Faulty variant: the last of several offsets counts.                     *)
FaultyScanned(w, i, s) ==
  CASE w.op = "lui"   -> [Fresh EXCEPT !.lui = TRUE, !.hi = w.imm, !.from = i]
    [] w.op = "addiu" -> [s[w.s] EXCEPT !.addiu = TRUE, !.lo = w.imm]
    [] w.op = "addu" /\ s[w.s].lui # s[w.t].lui ->
         [s[Base(w, s)] EXCEPT !.addend = TRUE, !.by = Index(w, s), !.addu = i]
    [] w.op = "move"  -> s[w.s]
    [] w.op = "load" /\ Entry(w, s) ->
         [Fresh EXCEPT !.loaded = TRUE, !.lw = i, !.by = s[w.s].by, !.addu = s[w.s].addu,
                       !.table = s[w.s].hi + (IF w.imm # 0 THEN w.imm ELSE s[w.s].lo),
                       !.from = s[w.s].from]
    [] OTHER          -> Fresh

(* An addu never copies: its check_move is overwritten.                    *)
Scanned(w, i, s) ==
  CASE w.op = "lui"   -> [Fresh EXCEPT !.lui = TRUE, !.hi = w.imm, !.from = i]
    [] w.op = "addiu" /\ ~s[w.s].addiu -> [s[w.s] EXCEPT !.addiu = TRUE, !.lo = w.imm]
    [] w.op = "addu" /\ s[w.s].lui # s[w.t].lui ->
         [s[Base(w, s)] EXCEPT !.addend = TRUE, !.by = Index(w, s), !.addu = i]
    [] w.op = "move"  -> s[w.s]
    [] w.op = "load" /\ Entry(w, s) ->
         [Fresh EXCEPT !.loaded = TRUE, !.lw = i, !.by = s[w.s].by, !.addu = s[w.s].addu,
                       !.table = s[w.s].hi + (IF w.imm # 0 THEN w.imm ELSE s[w.s].lo),
                       !.from = s[w.s].from]
    [] OTHER          -> Fresh

(* Stores through other registers and calls leave the states as they are.  *)
After(w, i, s) ==
  IF w.op \in {"jr", "unseen"} THEN s ELSE [s EXCEPT ![w.d] = Scanned(w, i, s)]

TableOf(i, s) == [jr |-> i, addu |-> s.addu, by |-> s.by, lw |-> s.lw, address |-> s.table, from |-> s.from]

(* A table goes on while its entries are in the function, to the next one. *)
Cases(f, ts, t) ==
  {k \in 0..Len(f.data) : \A j \in 0..k :
     /\ Within(f, Word(f, t.address + j))
     /\ \A u \in ts : u.address > t.address => t.address + j < u.address}
(* One that another table begins with, or without entries, is not sized.   *)
(* Faulty variant: a table without entries is.                             *)
FaultySized(f, ts) == \A t, u \in ts : u.address = t.address => u = t

Sized(f, ts) ==
  \A t \in ts : Cases(f, ts, t) # {} /\ \A u \in ts : u.address = t.address => u = t

-----------------------------------------------------------------------------
Init ==
  /\ func \in Functions
  /\ phase = "scan"
  /\ states = <<[p \in Places |-> Fresh]>>
  /\ tables = {}
  /\ start = 0 /\ pc = 0 /\ left = Elsewhere
  /\ mem = [p \in Places |-> 0]
  /\ entries = {}
  /\ addend = [i \in DOMAIN func.code |-> {}]

cvars == <<start, pc, mem, entries, addend, left>>

Scan ==
  /\ phase = "scan" /\ Len(states) <= Len(func.code)
  /\ LET i == Len(states)
         w == func.code[i]
         s == states[i]
     IN  /\ states' = Append(states, After(w, i, s))
         /\ tables' = IF w.op = "jr" /\ s[w.s].loaded
                        THEN tables \cup {TableOf(i, s[w.s])} ELSE tables
  /\ UNCHANGED <<func, phase, cvars>>

(* A function with a table that is not sized becomes a stub.               *)
Size ==
  /\ phase = "scan" /\ Len(states) = Len(func.code) + 1
  /\ phase' = IF Sized(func, tables) THEN "emitted" ELSE "stubbed"
  /\ UNCHANGED <<func, states, tables, cvars>>

-----------------------------------------------------------------------------
Enter ==
  /\ phase = "emitted"
  /\ phase' = "run"
  /\ pc' \in Starts(func) /\ start' = pc'
  /\ mem' \in {m \in [Places -> Values] : m[0] = 0}
  /\ UNCHANGED <<func, states, tables, entries, addend, left>>

At(ops) == phase = "run" /\ pc \in DOMAIN func.code /\ func.code[pc].op \in ops
Ins     == func.code[pc]

(* The loads that an addiu replaces, and the table whose addend an addu    *)
(* puts aside (the first one in the order of their addresses).             *)
Replaced == {t.lw : t \in tables}
Aside(i) ==
  {t \in tables : t.addu = i /\ \A u \in tables : u.addu = i => t.address <= u.address}

Write(v) ==
  /\ mem' = [mem EXCEPT ![Ins.d] = v]
  /\ pc' = pc + 1
  /\ UNCHANGED <<func, phase, states, tables, start, left>>

Compute ==
  /\ At({"lui", "addiu", "move"})
  /\ Write(Result(func, Ins, mem))
  /\ entries' = IF Ins.op = "move" /\ Ins.s \in entries THEN entries \cup {Ins.d} ELSE entries \ {Ins.d}
  /\ UNCHANGED addend

Addu ==
  /\ At({"addu"})
  /\ Write(Result(func, Ins, mem))
  /\ addend' = [i \in DOMAIN addend |->
                  IF \E t \in Aside(pc) : t.jr = i
                    THEN {mem[t.by] : t \in {u \in Aside(pc) : u.jr = i}} ELSE addend[i]]
  /\ entries' = entries \ {Ins.d}

Load ==
  /\ At({"load"})
  /\ IF pc \in Replaced
       THEN Write(mem[Ins.s] + Ins.imm) /\ entries' = entries \cup {Ins.d}
       ELSE Write(Result(func, Ins, mem)) /\ entries' = entries \ {Ins.d}
  /\ UNCHANGED addend

Other ==
  /\ At({"other", "unseen"})
  /\ \E v \in Values : Write(v)
  /\ entries' = entries \ {Ins.d}
  /\ UNCHANGED addend

(* switch (jr_addend), whose default stops; a jr without a table is a tail *)
(* call.  An addend not yet assigned has any value.                        *)
Switch ==
  /\ At({"jr"})
  /\ \E t \in tables :
       /\ t.jr = pc
       /\ \E k \in IF addend[pc] = {} THEN Values ELSE addend[pc] :
            left' = IF k \in Cases(func, tables, t) THEN Word(func, t.address + k) ELSE Elsewhere
  /\ phase' = "left"
  /\ UNCHANGED <<func, states, tables, start, pc, mem, entries, addend>>

TailCall ==
  /\ At({"jr"}) /\ pc \notin {t.jr : t \in tables}
  /\ left' = mem[Ins.s]
  /\ phase' = "left"
  /\ UNCHANGED <<func, states, tables, start, pc, mem, entries, addend>>

Next == Scan \/ Size \/ Enter \/ Compute \/ Addu \/ Load \/ Other \/ Switch \/ TailCall
Spec == Init /\ [][Next]_vars

-----------------------------------------------------------------------------
(* Functions as compilers make them: control does not arrive between the   *)
(* lui of a table and its jr, nor is what is known of them changed unseen; *)
(* one addend for a table, and a table for an addend; and an entry is only *)
(* moved and jumped to.                                                    *)
Usual(f, st, ts) ==
  /\ \A t \in ts :
       /\ \A l \in f.labels : ~(t.from < l /\ l <= t.jr)
       /\ ~st[t.addu][Base(f.code[t.addu], st[t.addu])].addend
       /\ \A u \in ts : u.addu = t.addu => u = t
  /\ \A i \in DOMAIN f.code :
       /\ \A p \in Reads(f.code[i]) : ~(st[i][p].loaded /\ st[i][p].lw \in {t.lw : t \in ts})
       /\ f.code[i].op = "unseen" =>
            \A t \in ts : LET s == st[i][f.code[i].d] IN
              ~((s.lui \/ s.loaded) /\ s.from = t.from /\ i < t.jr)
(* ... and which check the index: past a table's last case there is no     *)
(* address of the function.                                                *)
Checked ==
  \A t \in tables : \A k \in addend[t.jr] :
    k \in Cases(func, tables, t) \/ ~Within(func, Word(func, t.address + k))
Followed == phase = "run" => Usual(func, states, tables) /\ Checked

RegStates ==
  [lui : BOOLEAN, hi : Int, addiu : BOOLEAN, lo : Int, addend : BOOLEAN, by : Places, addu : Nat,
   loaded : BOOLEAN, lw : Nat, table : Int, from : Nat]
Tables ==
  [jr : Nat, addu : Nat, by : Places, lw : Nat, address : Int, from : Nat]

(* A table's parts are in the function in the order of lui, addu, lw and   *)
(* jr, and what is emitted has a case for each.                            *)
TypeOK ==
  /\ func \in FunctionRecords
  /\ phase \in {"scan", "emitted", "stubbed", "run", "left"}
  /\ states \in Seq([Places -> RegStates]) /\ Len(states) \in 1..Len(func.code) + 1
  /\ tables \subseteq Tables
  /\ \A t \in tables :
       /\ 0 < t.from /\ t.from < t.addu /\ t.addu < t.lw /\ t.lw < t.jr /\ t.jr <= Len(func.code)
       /\ func.code[t.addu].op = "addu" /\ func.code[t.lw].op = "load" /\ func.code[t.jr].op = "jr"
  /\ phase \in {"emitted", "run", "left"} => \A t \in tables : 0 \in Cases(func, tables, t)
  /\ start \in Nat /\ pc \in 0..Len(func.code) + 1
  /\ mem \in [Places -> Int] /\ mem[0] = 0
  /\ entries \subseteq Places
  /\ addend \in [DOMAIN func.code -> SUBSET Int]
  /\ left \in Int

Cpu == INSTANCE TableMachine
         WITH running <- (phase = "run"),
              mem <- [p \in Places |-> IF p \in entries THEN Word(func, mem[p]) ELSE mem[p]]

(* The emitted function goes where the CPU goes, for every index, from     *)
(* wherever control arrives (if every function is Usual and Checked).      *)
FollowsCpu == Cpu!TSpec
=============================================================================
