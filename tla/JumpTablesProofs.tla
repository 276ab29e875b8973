-------------------------- MODULE JumpTablesProofs --------------------------
(***************************************************************************)
(* The jump tables of every function: what the scan believes of a place    *)
(* is what a run from anywhere finds there, as far as a table depends on   *)
(* it, so the switch goes where the CPU goes.                              *)
(***************************************************************************)
EXTENDS JumpTables, TLAPS

-----------------------------------------------------------------------------
(* What a RegState at word i tells of the words before it.                 *)
AddendOf(f, st, s) ==
  LET w == f.code[s.addu] IN
  /\ w.op = "addu" /\ st[s.addu][w.s].lui # st[s.addu][w.t].lui
  /\ s.by = Index(w, st[s.addu])
  /\ 0 < s.from /\ s.from < s.addu
LoadOf(f, st, s) ==
  LET w == f.code[s.lw]
      b == st[s.lw][w.s]
  IN  /\ w.op = "load" /\ Entry(w, st[s.lw])
      /\ s.addu = b.addu /\ s.from = b.from /\ s.by = b.by /\ s.addu < s.lw
      /\ s.table = b.hi + (IF w.imm # 0 THEN w.imm ELSE b.lo)
Known(f, st, i, s) ==
  /\ ~s.addiu => s.lo = 0
  /\ s.lui => 0 < s.from /\ s.from < i
  /\ s.addend => s.lui /\ s.addu < i /\ AddendOf(f, st, s)
  /\ s.loaded => ~s.lui /\ s.lw < i /\ AddendOf(f, st, s) /\ LoadOf(f, st, s)

States ==
  /\ states \in Seq([Places -> RegStates]) /\ Len(states) \in 1..Len(func.code) + 1
  /\ \A i \in 1..Len(states) : \A p \in Places : Known(func, states, i, states[i][p])
  /\ \A i \in 1..Len(states) - 1 : states[i + 1] = After(func.code[i], i, states[i])
Found ==
  tables = {TableOf(i, states[i][func.code[i].s]) :
              i \in {j \in 1..Len(states) - 1 :
                       func.code[j].op = "jr" /\ states[j][func.code[j].s].loaded}}

(* What a run from lo, at word i with the values m, finds in a place that  *)
(* the scan believes s of: of use to a table that goes back to a lui which *)
(* the run has passed.                                                     *)
Depends(lo, i, s, t) == s.from = t.from /\ lo <= t.from /\ i <= t.jr
Aimed(a, v, base, u) == \E x \in Int : a[u.jr] = {x} /\ v = base + x
Finds(ts, lo, i, m, e, a, p, s) ==
  /\ p \in e => s.loaded /\ s.lw \in {t.lw : t \in ts}
  /\ \A t \in ts : Depends(lo, i, s, t) =>
       /\ s.lui /\ ~s.addend => m[p] = s.hi + s.lo
       /\ s.addend => \A u \in ts : u.addu = s.addu => Aimed(a, m[p], s.hi + s.lo, u)
       /\ s.loaded => \A u \in ts : u.lw = s.lw => p \in e /\ Aimed(a, m[p], s.table, u)

Types ==
  /\ func \in Functions
  /\ phase \in {"scan", "emitted", "stubbed", "run", "left"}
  /\ phase # "scan" => Len(states) = Len(func.code) + 1
  /\ phase \in {"emitted", "run", "left"} => Sized(func, tables)
  /\ start \in Nat /\ pc \in 0..Len(func.code) + 1
  /\ mem \in [Places -> Int] /\ mem[0] = 0
  /\ entries \subseteq Places
  /\ addend \in [DOMAIN func.code -> SUBSET Int]
  /\ left \in Int
IInv == Types /\ States /\ Found
RInv ==
  /\ phase \in {"scan", "emitted", "stubbed"} => pc = 0 /\ left = Elsewhere /\ entries = {}
  /\ phase = "run" =>
       /\ start \in Starts(func) /\ start <= pc /\ 0 < pc
       /\ \A p \in Places : Finds(tables, start, pc, mem, entries, addend, p, states[pc][p])

-----------------------------------------------------------------------------
LEMMA FunctionShape ==
  ASSUME NEW f \in Functions
  PROVE  /\ f \in FunctionRecords
         /\ f.code \in Seq(Words) /\ f.data \in Seq(Int) /\ Len(f.code) \in Nat
         /\ DOMAIN f.code = 1..Len(f.code)
         /\ f.labels \subseteq 1..Len(f.code)
         /\ \A i \in 1..Len(f.code) : f.code[i] \in Words
         /\ \A i \in 1..Len(f.code) : f.code[i].op # "jr" => f.code[i].d # 0
<1>1. f \in FunctionRecords
  BY TableAssumption
<1>2. f.code \in Seq(Words) /\ f.data \in Seq(Int)
  BY <1>1 DEF FunctionRecords
<1>3. DOMAIN f.code = 1..Len(f.code) /\ Len(f.code) \in Nat
  BY <1>2
<1>4. QED
  BY <1>1, <1>2, <1>3, TableAssumption

LEMMA FreshState ==
  /\ Fresh \in RegStates /\ ~Fresh.lui /\ ~Fresh.addend /\ ~Fresh.loaded /\ Fresh.lo = 0
  /\ Fresh.from = 0
BY TableAssumption DEF Fresh, RegStates, Places

(* What the scan knows of a place does not change as it goes on.           *)
LEMMA KnownLater ==
  ASSUME NEW f, NEW S, NEW st \in Seq(S), NEW x \in S, NEW s \in RegStates,
         NEW j \in 1..Len(st) + 1, Known(f, st, j, s)
  PROVE  Known(f, Append(st, x), j, s)
<1>1. Len(st) \in Nat /\ \A k \in 1..Len(st) : Append(st, x)[k] = st[k]
  OBVIOUS
<1>2. /\ s.addend => s.addu \in 1..Len(st)
      /\ s.loaded => s.addu \in 1..Len(st) /\ s.lw \in 1..Len(st)
  <2>1. s.addu \in Nat /\ s.lw \in Nat /\ s.from \in Nat
    BY DEF RegStates
  <2>2. s.addend => s.addu < j /\ 0 < s.from /\ s.from < s.addu
    BY Zenon DEF Known, AddendOf
  <2>3. s.loaded => s.lw < j /\ 0 < s.from /\ s.from < s.addu /\ s.addu < s.lw
    BY Zenon DEF Known, AddendOf, LoadOf
  <2>4. QED
    BY <1>1, <2>1, <2>2, <2>3
<1>3. s.addend => AddendOf(f, Append(st, x), s)
  BY <1>1, <1>2 DEF Known, AddendOf, Index
<1>4. s.loaded => AddendOf(f, Append(st, x), s)
  BY <1>1, <1>2 DEF Known, AddendOf, Index
<1>5. s.loaded => LoadOf(f, Append(st, x), s)
  BY <1>1, <1>2 DEF Known, LoadOf, Entry
<1>6. QED
  BY <1>3, <1>4, <1>5 DEF Known

LEMMA ScannedKnown ==
  ASSUME NEW f \in Functions, NEW st \in Seq([Places -> RegStates]), Len(st) \in 1..Len(f.code),
         \A p \in Places : Known(f, st, Len(st), st[Len(st)][p])
  PROVE  LET s == Scanned(f.code[Len(st)], Len(st), st[Len(st)]) IN
         s \in RegStates /\ Known(f, st, Len(st) + 1, s)
<1> DEFINE i == Len(st)
           w == f.code[i]
           b == st[i]
           s == Scanned(w, i, b)
<1>1. i \in Nat /\ i > 0 /\ w \in Words /\ b \in [Places -> RegStates]
  BY FunctionShape
<1>2. w.s \in Places /\ w.t \in Places /\ w.imm \in Int
  BY <1>1 DEF Words
<1>3. \A p \in Places : Known(f, st, i + 1, b[p])
  BY <1>1 DEF Known, RegStates
<1>4. CASE w.op = "lui"
  <2>1. s = [Fresh EXCEPT !.lui = TRUE, !.hi = w.imm, !.from = i]
    BY <1>4 DEF Scanned
  <2>2. s \in RegStates
    BY <1>1, <1>2, <2>1, FreshState DEF RegStates
  <2>3. s.lui /\ s.from = i /\ ~s.addend /\ ~s.loaded /\ s.lo = 0
    BY <2>1 DEF Fresh
  <2>4. QED
    BY <1>1, <2>2, <2>3 DEF Known
<1>5. CASE w.op = "addiu" /\ ~b[w.s].addiu
  <2>1. s = [b[w.s] EXCEPT !.addiu = TRUE, !.lo = w.imm]
    BY <1>5 DEF Scanned
  <2>2. b[w.s] \in RegStates /\ Known(f, st, i + 1, b[w.s])
    BY <1>1, <1>2, <1>3
  <2>3. s \in RegStates
    BY <1>2, <2>1, <2>2 DEF RegStates
  <2>4. /\ s.addiu /\ s.lui = b[w.s].lui /\ s.addend = b[w.s].addend /\ s.loaded = b[w.s].loaded
        /\ s.from = b[w.s].from /\ s.addu = b[w.s].addu /\ s.by = b[w.s].by
        /\ s.lw = b[w.s].lw /\ s.table = b[w.s].table
    BY <2>1, <2>2 DEF RegStates
  <2>5. AddendOf(f, st, s) <=> AddendOf(f, st, b[w.s])
    BY <2>4 DEF AddendOf
  <2>6. LoadOf(f, st, s) <=> LoadOf(f, st, b[w.s])
    BY <2>4 DEF LoadOf
  <2>7. QED
    BY <2>2, <2>3, <2>4, <2>5, <2>6 DEF Known
<1>6. CASE w.op = "addu" /\ b[w.s].lui # b[w.t].lui
  <2>1. s = [b[Base(w, b)] EXCEPT !.addend = TRUE, !.by = Index(w, b), !.addu = i]
    BY <1>6 DEF Scanned
  <2>2. Base(w, b) \in Places /\ Index(w, b) \in Places
    BY <1>2 DEF Base, Index
  <2>3. b[Base(w, b)] \in RegStates /\ Known(f, st, i, b[Base(w, b)])
    BY <1>1, <2>2
  <2>4. b[Base(w, b)].lui
    BY <1>1, <1>2, <1>6 DEF Base, RegStates
  <2>5. s \in RegStates
    BY <1>1, <2>1, <2>2, <2>3 DEF RegStates
  <2> DEFINE c == b[Base(w, b)]
  <2>6. /\ s.lui /\ s.addend /\ s.loaded = c.loaded /\ s.addiu = c.addiu /\ s.lo = c.lo
        /\ s.from = c.from /\ s.addu = i /\ s.by = Index(w, b)
    BY <2>1, <2>3, <2>4 DEF RegStates
  <2>7. ~c.loaded /\ c.from \in Nat /\ 0 < c.from /\ c.from < i /\ (~c.addiu => c.lo = 0)
    BY <2>3, <2>4 DEF Known, RegStates
  <2>8. AddendOf(f, st, s)
    <3>1. f.code[s.addu] = w /\ st[s.addu] = b
      BY <2>6
    <3>2. QED
      BY <1>6, <2>6, <2>7, <3>1 DEF AddendOf
  <2>9. Known(f, st, i + 1, s)
    <3> HIDE DEF s, c, i
    <3>1. s.addu < i + 1 /\ s.from < i + 1 /\ 0 < s.from
      BY <1>1, <2>6, <2>7
    <3>2. QED
      BY <2>6, <2>7, <2>8, <3>1 DEF Known
  <2>10. QED
    BY <2>5, <2>9
<1>7. CASE w.op = "move"
  BY <1>1, <1>2, <1>3, <1>7 DEF Scanned
<1>8. CASE w.op = "load" /\ Entry(w, b)
  <2> DEFINE c == b[w.s]
  <2>1. s = [Fresh EXCEPT !.loaded = TRUE, !.lw = i, !.by = c.by, !.addu = c.addu,
                          !.table = c.hi + (IF w.imm # 0 THEN w.imm ELSE c.lo),
                          !.from = c.from]
    BY <1>8 DEF Scanned
  <2>2. c \in RegStates /\ Known(f, st, i, c) /\ c.lui /\ c.addend
    BY <1>1, <1>2, <1>8 DEF Entry
  <2>3. s \in RegStates
    <3>1. (IF w.imm # 0 THEN w.imm ELSE c.lo) \in Int /\ c.hi \in Int /\ c.by \in Places
          /\ c.addu \in Nat /\ c.from \in Nat
      BY <1>2, <2>2 DEF RegStates
    <3>2. c.hi + (IF w.imm # 0 THEN w.imm ELSE c.lo) \in Int
      BY <3>1
    <3>3. QED
      BY <1>1, <2>1, <3>1, <3>2, FreshState DEF RegStates
  <2>4. /\ s.loaded /\ ~s.lui /\ ~s.addend /\ ~s.addiu /\ s.lo = 0 /\ s.lw = i /\ s.by = c.by
        /\ s.addu = c.addu /\ s.from = c.from
        /\ s.table = c.hi + (IF w.imm # 0 THEN w.imm ELSE c.lo)
    BY <2>1 DEF Fresh
  <2>5. AddendOf(f, st, s)
    <3>1. AddendOf(f, st, c)
      BY <2>2 DEF Known
    <3>2. s.addu = c.addu /\ s.by = c.by /\ s.from = c.from
      BY <2>4
    <3> HIDE DEF s, c
    <3>3. QED
      BY <3>1, <3>2 DEF AddendOf
  <2>6. LoadOf(f, st, s)
    BY <1>8, <2>2, <2>4 DEF LoadOf, Known
  <2>7. QED
    <3>1. s.loaded /\ ~s.lui /\ ~s.addend /\ s.lo = 0 /\ s.lw < i + 1
      BY <1>1, <2>4
    <3>2. Known(f, st, i + 1, s)
      <4> HIDE DEF s
      <4>1. QED
        BY <2>5, <2>6, <3>1, Zenon DEF Known
    <3>3. QED
      BY <2>3, <3>2
<1>9. CASE s = Fresh
  BY <1>1, <1>9, FreshState DEF Known, Fresh
<1>10. QED
  BY <1>4, <1>5, <1>6, <1>7, <1>8, <1>9 DEF Scanned

LEMMA AfterKnown ==
  ASSUME NEW f \in Functions, NEW st \in Seq([Places -> RegStates]), Len(st) \in 1..Len(f.code),
         \A p \in Places : Known(f, st, Len(st), st[Len(st)][p])
  PROVE  LET x == After(f.code[Len(st)], Len(st), st[Len(st)]) IN
         x \in [Places -> RegStates] /\ \A p \in Places : Known(f, st, Len(st) + 1, x[p])
<1> DEFINE i == Len(st)
           w == f.code[i]
           b == st[i]
           x == After(w, i, b)
<1>1. i \in Nat /\ w \in Words /\ b \in [Places -> RegStates] /\ w.d \in Places
  BY FunctionShape DEF Words
<1>2. \A p \in Places : Known(f, st, i + 1, b[p])
  BY <1>1 DEF Known, RegStates
<1>3. Scanned(w, i, b) \in RegStates /\ Known(f, st, i + 1, Scanned(w, i, b))
  BY ScannedKnown
<1>4. CASE w.op \in {"jr", "unseen"}
  BY <1>1, <1>2, <1>4 DEF After
<1>5. CASE w.op \notin {"jr", "unseen"}
  <2>1. x = [b EXCEPT ![w.d] = Scanned(w, i, b)]
    BY <1>5 DEF After
  <2>2. x \in [Places -> RegStates] /\ \A p \in Places : Known(f, st, i + 1, x[p])
    <3> HIDE DEF x, b, w, i
    <3>1. QED
      BY <1>1, <1>2, <1>3, <2>1
  <2>3. QED
    BY <2>2
<1>6. QED
  BY <1>4, <1>5

-----------------------------------------------------------------------------
LEMMA InitInv == Init => IInv /\ RInv
<1> SUFFICES ASSUME Init PROVE IInv /\ RInv
  OBVIOUS
<1>1. states \in Seq([Places -> RegStates]) /\ Len(states) = 1 /\ states[1] = [p \in Places |-> Fresh]
  BY FreshState DEF Init
<1>2. Len(func.code) \in Nat /\ DOMAIN func.code = 1..Len(func.code)
  BY FunctionShape DEF Init
<1>3. \A i \in 1..1 : \A p \in Places : Known(func, states, i, states[i][p])
  BY <1>1, FreshState DEF Known
<1>4. States
  BY <1>1, <1>2, <1>3 DEF States
<1>5. Found
  BY <1>1 DEF Found, Init
<1>6. Types
  BY <1>2, TableAssumption DEF Init, Types, Elsewhere, Places
<1>7. QED
  BY <1>4, <1>5, <1>6 DEF IInv, RInv, Init

LEMMA ScanInv ==
  ASSUME IInv, Scan
  PROVE  IInv'
<1> DEFINE i == Len(states)
           w == func.code[i]
           x == After(w, i, states[i])
<1>1. /\ states \in Seq([Places -> RegStates]) /\ i \in 1..Len(func.code) /\ func \in Functions
      /\ Len(func.code) \in Nat
      /\ \A j \in 1..i : \A p \in Places : Known(func, states, j, states[j][p])
      /\ \A j \in 1..i - 1 : states[j + 1] = After(func.code[j], j, states[j])
  BY FunctionShape DEF IInv, Types, States, Scan
<1>2. x \in [Places -> RegStates] /\ \A p \in Places : Known(func, states, i + 1, x[p])
  BY <1>1, AfterKnown
<1>3. func' = func /\ states' = Append(states, x)
  BY DEF Scan
<1> HIDE DEF x
<1>4. /\ states' \in Seq([Places -> RegStates]) /\ Len(states') = i + 1
      /\ states'[i + 1] = x /\ \A j \in 1..i : states'[j] = states[j]
  BY <1>1, <1>2, <1>3
<1>5. States'
  <2>1. ASSUME NEW j \in 1..i + 1, NEW p \in Places
        PROVE  Known(func, states', j, states'[j][p])
    <3>1. states'[j] \in [Places -> RegStates] /\ states'[j][p] \in RegStates
      BY <1>4, <1>1
    <3>2. Known(func, states, j, states'[j][p])
      BY <1>1, <1>2, <1>4
    <3>3. QED
      BY <1>1, <1>2, <1>3, <3>1, <3>2, KnownLater
  <2>2. ASSUME NEW j \in 1..i
        PROVE  states'[j + 1] = After(func.code[j], j, states'[j])
    <3>1. CASE j = i
      BY <1>1, <1>4, <3>1 DEF x
    <3>2. CASE j # i
      <4>1. j \in 1..i - 1 /\ j + 1 \in 1..i
        BY <1>1, <3>2
      <4>2. states'[j + 1] = states[j + 1] /\ states'[j] = states[j]
        BY <1>4, <4>1
      <4>3. states[j + 1] = After(func.code[j], j, states[j])
        BY <1>1, <4>1
      <4>4. QED
        BY <4>2, <4>3
    <3>3. QED
      BY <3>1, <3>2
  <2>3. QED
    BY <1>1, <1>3, <1>4, <2>1, <2>2 DEF States
<1>6. Found'
  <2> DEFINE J  == {j \in 1..i - 1 : func.code[j].op = "jr" /\ states[j][func.code[j].s].loaded}
             JJ == {j \in 1..i : func.code[j].op = "jr" /\ states[j][func.code[j].s].loaded}
  <2>1. tables = {TableOf(j, states[j][func.code[j].s]) : j \in J}
    BY DEF IInv, Found
  <2>2. tables' = IF w.op = "jr" /\ states[i][w.s].loaded
                    THEN tables \cup {TableOf(i, states[i][w.s])} ELSE tables
    BY DEF Scan
  <2>3. JJ = IF w.op = "jr" /\ states[i][w.s].loaded THEN J \cup {i} ELSE J
    BY <1>1
  <2>4. tables' = {TableOf(j, states[j][func.code[j].s]) : j \in JJ}
    <3> HIDE DEF J, JJ
    <3>1. QED
      BY <2>1, <2>2, <2>3
  <2>5. JJ = {j \in 1..Len(states') - 1 : func'.code[j].op = "jr" /\ states'[j][func'.code[j].s].loaded}
    BY <1>1, <1>3, <1>4
  <2>6. \A j \in JJ : states'[j] = states[j]
    BY <1>4
  <2>7. QED
    <3> HIDE DEF JJ
    <3>1. tables' = {TableOf(j, states'[j][func'.code[j].s]) : j \in JJ}
      BY <1>3, <2>4, <2>6
    <3>2. QED
      BY <2>5, <3>1 DEF Found
<1>7. Types'
  BY <1>1 DEF IInv, Types, Scan, cvars
<1>8. QED
  BY <1>5, <1>6, <1>7 DEF IInv

LEMMA WordInt ==
  ASSUME NEW f \in Functions, NEW a
  PROVE  Word(f, a) \in Int
BY FunctionShape DEF Word, Elsewhere

LEMMA ResultInt ==
  ASSUME NEW f \in Functions, NEW w \in Words, w.op \in Straight, NEW m \in [Places -> Int]
  PROVE  Result(f, w, m) \in Int
<1>1. w.s \in Places /\ w.t \in Places /\ w.imm \in Int
  BY DEF Words
<1>2. m[w.s] \in Int /\ m[w.t] \in Int
  BY <1>1
<1>3. Word(f, m[w.s] + w.imm) \in Int
  BY WordInt
<1>4. CASE w.op = "lui"
  BY <1>1, <1>4 DEF Result
<1>5. CASE w.op = "addiu"
  BY <1>1, <1>2, <1>5 DEF Result
<1>6. CASE w.op = "addu"
  BY <1>2, <1>6 DEF Result
<1>7. CASE w.op = "move"
  BY <1>2, <1>7 DEF Result
<1>8. CASE w.op = "load"
  BY <1>3, <1>8 DEF Result
<1>9. QED
  BY <1>4, <1>5, <1>6, <1>7, <1>8 DEF Straight

(* The word the run is at.                                                 *)
LEMMA InsShape ==
  ASSUME IInv, NEW ops, At(ops)
  PROVE  /\ func \in Functions /\ pc \in 1..Len(func.code) /\ Len(func.code) \in Nat
         /\ pc \in DOMAIN func.code /\ pc \in Nat
         /\ Ins \in Words /\ Ins.op \in ops /\ Ins.s \in Places /\ Ins.t \in Places /\ Ins.d \in Places
         /\ Ins.imm \in Int
         /\ Ins.op # "jr" => Ins.d # 0
         /\ phase = "run" /\ Len(states) = Len(func.code) + 1
<1>1. func \in Functions /\ phase = "run" /\ pc \in DOMAIN func.code /\ Ins.op \in ops
      /\ Len(states) = Len(func.code) + 1
  BY DEF IInv, Types, At, Ins
<1>2. Ins \in Words /\ (Ins.op # "jr" => Ins.d # 0) /\ pc \in 1..Len(func.code)
  BY <1>1, FunctionShape DEF Ins
<1>3. QED
  BY <1>1, <1>2, FunctionShape DEF Words

(* A step that writes leaves what the scan found as it is.                 *)
LEMMA WriteInv ==
  ASSUME IInv, NEW ops, At(ops), "jr" \notin ops, NEW v \in Int, Write(v),
         entries' \subseteq Places, addend' \in [DOMAIN func.code -> SUBSET Int]
  PROVE  IInv'
<1>1. func' = func /\ states' = states /\ tables' = tables /\ phase' = phase
      /\ mem' = [mem EXCEPT ![Ins.d] = v] /\ pc' = pc + 1 /\ start' = start /\ left' = left
  BY DEF Write
<1>2. Ins.d \in Places /\ Ins.d # 0 /\ pc \in 1..Len(func.code) /\ Len(func.code) \in Nat
  BY InsShape
<1>3. mem' \in [Places -> Int] /\ mem'[0] = 0
  BY <1>1, <1>2 DEF IInv, Types
<1>4. pc' \in 0..Len(func.code) + 1
  BY <1>1, <1>2
<1>5. Types'
  BY <1>1, <1>3, <1>4 DEF IInv, Types
<1>6. States' /\ Found'
  BY <1>1 DEF IInv, States, Found
<1>7. QED
  BY <1>5, <1>6 DEF IInv

LEMMA NextInv ==
  ASSUME IInv, Next
  PROVE  IInv'
<1>1. CASE Scan
  BY <1>1, ScanInv
<1>2. CASE Size
  BY <1>2 DEF IInv, Types, States, Found, Size, cvars
<1>3. CASE Enter
  <2>1. /\ pc' \in Starts(func) /\ mem' \in [Places -> Values] /\ mem'[0] = 0 /\ start' = pc'
        /\ func' = func /\ states' = states /\ tables' = tables /\ entries' = entries
        /\ addend' = addend /\ left' = left /\ phase = "emitted" /\ phase' = "run"
    BY <1>3 DEF Enter
  <2>2. pc' \in 1..Len(func.code) + 1 /\ Len(func.code) \in Nat
    BY <2>1, FunctionShape DEF Starts, IInv, Types
  <2>3. mem' \in [Places -> Int]
    BY <2>1, ValuesAssumption
  <2>4. Types'
    BY <2>1, <2>2, <2>3 DEF IInv, Types
  <2>5. QED
    BY <2>1, <2>4 DEF IInv, States, Found
<1>4. CASE Compute
  <2>1. Result(func, Ins, mem) \in Int
    BY <1>4, InsShape, ResultInt DEF Compute, Straight, IInv, Types
  <2>2. entries' \subseteq Places /\ addend' \in [DOMAIN func.code -> SUBSET Int]
    BY <1>4, InsShape DEF Compute, IInv, Types
  <2>3. QED
    BY <1>4, <2>1, <2>2, WriteInv DEF Compute
<1>5. CASE Addu
  <2>1. Result(func, Ins, mem) \in Int
    BY <1>5, InsShape, ResultInt DEF Addu, Straight, IInv, Types
  <2>2. entries' \subseteq Places
    BY <1>5 DEF Addu, IInv, Types
  <2>3. addend' \in [DOMAIN func.code -> SUBSET Int]
    <3>1. addend \in [DOMAIN func.code -> SUBSET Int] /\ mem \in [Places -> Int]
      BY DEF IInv, Types
    <3>2. \A t \in tables : t.by \in Places
      <4>1. \A j \in 1..Len(states) - 1 : states[j][func.code[j].s] \in RegStates
        <5>1. /\ func \in Functions /\ states \in Seq([Places -> RegStates])
              /\ Len(states) \in 1..Len(func.code) + 1 /\ Len(func.code) \in Nat
          BY FunctionShape DEF IInv, Types, States
        <5>2. \A j \in 1..Len(states) - 1 : states[j] \in [Places -> RegStates] /\ func.code[j] \in Words
          BY <5>1, FunctionShape
        <5>3. QED
          BY <5>2 DEF Words
      <4>2. QED
        <5>1. \A j \in 1..Len(states) - 1 :
                TableOf(j, states[j][func.code[j].s]).by \in Places
          BY <4>1 DEF TableOf, RegStates
        <5>2. \A t \in tables : \E j \in 1..Len(states) - 1 :
                t = TableOf(j, states[j][func.code[j].s])
          BY DEF IInv, Found
        <5>3. QED
          BY <5>1, <5>2
    <3>3. \A j : {mem[t.by] : t \in {u \in Aside(pc) : u.jr = j}} \subseteq Int
      BY <3>1, <3>2 DEF Aside
    <3>4. QED
      BY <1>5, <3>1, <3>3 DEF Addu
  <2>4. QED
    BY <1>5, <2>1, <2>2, <2>3, WriteInv DEF Addu
<1>6. CASE Load
  <2>1. Result(func, Ins, mem) \in Int /\ mem[Ins.s] + Ins.imm \in Int
    BY <1>6, InsShape, ResultInt DEF Load, Straight, IInv, Types
  <2>2. entries' \subseteq Places /\ addend' \in [DOMAIN func.code -> SUBSET Int]
    BY <1>6, InsShape DEF Load, IInv, Types
  <2>3. QED
    BY <1>6, <2>1, <2>2, WriteInv DEF Load
<1>7. CASE Other
  <2>1. PICK v \in Values : Write(v)
    BY <1>7 DEF Other
  <2>2. entries' \subseteq Places /\ addend' \in [DOMAIN func.code -> SUBSET Int] /\ v \in Int
    BY <1>7, ValuesAssumption DEF Other, IInv, Types
  <2>3. QED
    BY <1>7, <2>1, <2>2, WriteInv DEF Other
<1>8. CASE Switch \/ TailCall
  <2>1. left' \in Int
    <3>1. CASE Switch
      BY <3>1, WordInt DEF Switch, IInv, Types, Elsewhere
    <3>2. CASE TailCall
      BY <3>2, InsShape DEF TailCall, IInv, Types
    <3>3. QED
      BY <1>8, <3>1, <3>2
  <2>2. /\ phase = "run" /\ phase' = "left"
        /\ UNCHANGED <<func, states, tables, start, pc, mem, entries, addend>>
    BY <1>8 DEF Switch, TailCall, At
  <2>3. Types'
    BY <2>1, <2>2 DEF IInv, Types
  <2>4. QED
    BY <2>2, <2>3 DEF IInv, States, Found
<1>9. QED
  BY <1>1, <1>2, <1>3, <1>4, <1>5, <1>6, <1>7, <1>8 DEF Next

-----------------------------------------------------------------------------
(* A table of the function: its parts, in their order.                     *)
Shape(f, st, t) ==
  /\ t.jr \in 1..Len(f.code) /\ t.lw \in 1..Len(f.code) /\ t.addu \in 1..Len(f.code)
  /\ 0 < t.from /\ t.from < t.addu /\ t.addu < t.lw /\ t.lw < t.jr
  /\ f.code[t.jr].op = "jr" /\ st[t.jr][f.code[t.jr].s].loaded
  /\ t = TableOf(t.jr, st[t.jr][f.code[t.jr].s])
  /\ f.code[t.addu].op = "addu"
  /\ st[t.addu][f.code[t.addu].s].lui # st[t.addu][f.code[t.addu].t].lui
  /\ t.by = Index(f.code[t.addu], st[t.addu])
  /\ f.code[t.lw].op = "load" /\ Entry(f.code[t.lw], st[t.lw])
  /\ LET b == st[t.lw][f.code[t.lw].s] IN
       /\ t.addu = b.addu /\ t.from = b.from
       /\ t.address = b.hi + (IF f.code[t.lw].imm # 0 THEN f.code[t.lw].imm ELSE b.lo)

LEMMA TableShape ==
  ASSUME IInv, NEW t \in tables
  PROVE  Shape(func, states, t) /\ t \in Tables
<1>1. /\ func \in Functions /\ states \in Seq([Places -> RegStates])
      /\ Len(states) \in 1..Len(func.code) + 1 /\ Len(func.code) \in Nat
      /\ \A i \in 1..Len(states) : \A p \in Places : Known(func, states, i, states[i][p])
  BY FunctionShape DEF IInv, Types, States
<1>2. PICK j \in 1..Len(states) - 1 :
        /\ func.code[j].op = "jr" /\ states[j][func.code[j].s].loaded
        /\ t = TableOf(j, states[j][func.code[j].s])
  BY DEF IInv, Found
<1> DEFINE s == states[j][func.code[j].s]
<1>3. j \in 1..Len(func.code) /\ func.code[j].s \in Places
  BY <1>1, FunctionShape DEF Words
<1>4. s \in RegStates /\ Known(func, states, j, s)
  BY <1>1, <1>3
<1>5. t.jr = j /\ t.addu = s.addu /\ t.by = s.by /\ t.lw = s.lw /\ t.address = s.table /\ t.from = s.from
  BY <1>2 DEF TableOf
<1>6. s.loaded /\ s.lw < j /\ AddendOf(func, states, s) /\ LoadOf(func, states, s)
  BY <1>2, <1>4 DEF Known
<1>7. /\ 0 < t.from /\ t.from < t.addu /\ t.addu < t.lw /\ t.lw < t.jr
      /\ t.addu \in Nat /\ t.lw \in Nat /\ t.from \in Nat
  BY <1>4, <1>5, <1>6 DEF AddendOf, LoadOf, RegStates
<1>8. t.jr \in 1..Len(func.code) /\ t.lw \in 1..Len(func.code) /\ t.addu \in 1..Len(func.code)
  <2>1. j \in 1..Len(func.code) /\ Len(func.code) \in Nat
    BY <1>1, <1>3
  <2>2. \A n, k, l, m \in Nat : 0 < k /\ k < l /\ l < m /\ m <= n
           => l \in 1..n /\ m \in 1..n /\ k <= n
    OBVIOUS
  <2>3. t.jr \in Nat /\ t.jr <= Len(func.code) /\ 0 < t.addu
    <3> HIDE DEF s
    <3>1. t.jr = j
      BY <1>5
    <3>2. QED
      BY <1>7, <2>1, <3>1
  <2>4. t.lw \in 1..Len(func.code) /\ t.jr \in 1..Len(func.code)
    BY <1>7, <2>1, <2>2, <2>3
  <2>5. t.addu \in 1..Len(func.code)
    BY <1>7, <2>1, <2>3
  <2>6. QED
    BY <2>4, <2>5
<1>9. t \in Tables
  <2>1. /\ s.addu \in Nat /\ s.by \in Places /\ s.lw \in Nat /\ s.table \in Int /\ s.from \in Nat
    BY <1>4 DEF RegStates
  <2>2. j \in Nat
    BY <1>1, <1>3
  <2>3. t = TableOf(j, s)
    BY <1>2
  <2> HIDE DEF s
  <2>4. QED
    BY <2>1, <2>2, <2>3 DEF Tables, TableOf
<1>10. Shape(func, states, t)
  <2> HIDE DEF s
  <2>1. s = states[t.jr][func.code[t.jr].s]
    BY <1>5 DEF s
  <2>2. /\ func.code[t.addu].op = "addu"
        /\ states[t.addu][func.code[t.addu].s].lui # states[t.addu][func.code[t.addu].t].lui
        /\ t.by = Index(func.code[t.addu], states[t.addu])
    BY <1>5, <1>6 DEF AddendOf
  <2>3. /\ func.code[t.lw].op = "load" /\ Entry(func.code[t.lw], states[t.lw])
        /\ LET b == states[t.lw][func.code[t.lw].s] IN
             /\ t.addu = b.addu /\ t.from = b.from
             /\ t.address = b.hi + (IF func.code[t.lw].imm # 0 THEN func.code[t.lw].imm ELSE b.lo)
    BY <1>5, <1>6 DEF LoadOf
  <2>4. func.code[t.jr].op = "jr" /\ s.loaded /\ t = TableOf(t.jr, s)
    <3>1. func.code[j].op = "jr" /\ s.loaded /\ t = TableOf(j, s)
      BY <1>2 DEF s
    <3>2. QED
      BY <1>5, <3>1
  <2>5. QED
    BY <1>7, <1>8, <2>1, <2>2, <2>3, <2>4 DEF Shape
<1>11. QED
  BY <1>9, <1>10

(* Where a table's parts are.                                              *)
LEMMA TableOrder ==
  ASSUME IInv
  PROVE  /\ tables \in SUBSET Tables
         /\ \A t \in tables :
              /\ t.jr \in 1..Len(func.code) /\ t.lw \in 1..Len(func.code)
              /\ t.addu \in 1..Len(func.code) /\ t.from \in Nat /\ t.from # 0
              /\ 0 < t.from /\ t.from < t.addu /\ t.addu < t.lw /\ t.lw < t.jr
<1>1. tables \in SUBSET Tables
  BY TableShape
<1>2. ASSUME NEW t \in tables
      PROVE  /\ t.jr \in 1..Len(func.code) /\ t.lw \in 1..Len(func.code)
             /\ t.addu \in 1..Len(func.code)
             /\ 0 < t.from /\ t.from < t.addu /\ t.addu < t.lw /\ t.lw < t.jr
  <2>1. Shape(func, states, t)
    BY TableShape
  <2>2. QED
    BY <2>1, Zenon DEF Shape
<1>3. ASSUME NEW t \in tables
      PROVE  t.from \in Nat /\ t.from # 0
  <2>1. t.from \in Nat
    BY <1>1 DEF Tables
  <2>2. QED
    BY <1>2, <2>1
<1>4. QED
  BY <1>1, <1>2, <1>3

(* The words at them.                                                      *)
LEMMA TableWords ==
  ASSUME IInv, NEW t \in tables
  PROVE  /\ func.code[t.addu].op = "addu" /\ func.code[t.lw].op = "load"
         /\ func.code[t.jr].op = "jr"
         /\ states[t.addu][func.code[t.addu].s].lui # states[t.addu][func.code[t.addu].t].lui
         /\ t.by = Index(func.code[t.addu], states[t.addu])
         /\ Entry(func.code[t.lw], states[t.lw])
         /\ t.addu = states[t.lw][func.code[t.lw].s].addu
<1>1. Shape(func, states, t)
  BY TableShape
<1>2. QED
  BY <1>1, Zenon DEF Shape

(* A jr has one table.                                                     *)
LEMMA OneTable ==
  ASSUME IInv, NEW t \in tables, NEW u \in tables, t.jr = u.jr
  PROVE  t = u
<1>1. Shape(func, states, t) /\ Shape(func, states, u)
  BY TableShape
<1>2. /\ t = TableOf(t.jr, states[t.jr][func.code[t.jr].s])
      /\ u = TableOf(u.jr, states[u.jr][func.code[u.jr].s])
  BY <1>1, Zenon DEF Shape
<1>3. QED
  BY <1>1, <1>2, Zenon

LEMMA EmittedSized ==
  ASSUME NEW f \in Functions, NEW ts, NEW t \in ts, Sized(f, ts)
  PROVE  0 \in Cases(f, ts, t)
<1>1. PICK k : k \in Cases(f, ts, t)
  BY DEF Sized
<1>2. k \in 0..Len(f.data) /\ Len(f.data) \in Nat
  BY <1>1, FunctionShape DEF Cases
<1>3. QED
  BY <1>1, <1>2 DEF Cases

LEMMA InvTypeOK ==
  ASSUME IInv
  PROVE  TypeOK
<1>1. func \in Functions /\ func \in FunctionRecords
  BY FunctionShape DEF IInv, Types
<1>2. \A t \in tables : Shape(func, states, t) /\ t \in Tables
  BY TableShape
<1>3. \A t \in tables :
        /\ 0 < t.from /\ t.from < t.addu /\ t.addu < t.lw /\ t.lw < t.jr /\ t.jr <= Len(func.code)
        /\ func.code[t.addu].op = "addu" /\ func.code[t.lw].op = "load" /\ func.code[t.jr].op = "jr"
  <2>1. Len(func.code) \in Nat
    BY <1>1, FunctionShape
  <2>2. \A t \in tables : t.jr <= Len(func.code)
    BY <2>1, TableOrder
  <2>3. QED
    BY <2>2, TableOrder, TableWords
<1>4. phase \in {"emitted", "run", "left"} => \A t \in tables : 0 \in Cases(func, tables, t)
  BY <1>1, EmittedSized DEF IInv, Types
<1>5. QED
  BY <1>1, <1>2, <1>3, <1>4 DEF IInv, Types, States, TypeOK

(* TypeOK, for every function: a table's lui, addu, lw and jr are in it in *)
(* that order, and an emitted switch has a case for each (analyze_function *)
(* makes a table only of what it has seen, and sizes it before the C is).  *)
THEOREM TypeCorrect == Spec => []TypeOK
<1>1. Init => IInv
  BY InitInv
<1>2. IInv /\ [Next]_vars => IInv'
  <2> SUFFICES ASSUME IInv, [Next]_vars PROVE IInv'
    OBVIOUS
  <2>1. CASE Next
    BY <2>1, NextInv
  <2>2. CASE UNCHANGED vars
    BY <2>2 DEF vars, IInv, Types, States, Found
  <2>3. QED
    BY <2>1, <2>2
<1>3. IInv => TypeOK
  BY InvTypeOK
<1>4. QED
  BY <1>1, <1>2, <1>3, PTL DEF Spec

-----------------------------------------------------------------------------
(* What a run finds in the places a word does not write.                   *)
LEMMA KeptFinds ==
  ASSUME NEW ts \in SUBSET Tables, NEW lo \in Nat, NEW i \in Nat, NEW s \in RegStates, NEW p,
         NEW m, NEW e, NEW a, NEW mm, NEW ee, NEW aa,
         Finds(ts, lo, i, m, e, a, p, s),
         mm[p] = m[p], p \in ee <=> p \in e,
         \A u \in ts : u.addu < u.lw /\ (u.addu # i => aa[u.jr] = a[u.jr]),
         s.addend => s.addu < i, s.loaded => s.lw < i
  PROVE  Finds(ts, lo, i + 1, mm, ee, aa, p, s)
<1>1. s.addu \in Nat /\ s.lw \in Nat /\ \A u \in ts : u.addu \in Nat /\ u.lw \in Nat /\ u.jr \in Nat
  BY DEF RegStates, Tables
<1>2. \A t \in ts : Depends(lo, i + 1, s, t) => Depends(lo, i, s, t)
  BY <1>1 DEF Depends
<1>3. s.addend => \A u \in ts : u.addu = s.addu => aa[u.jr] = a[u.jr]
  BY <1>1
<1>4. s.loaded => \A u \in ts : u.lw = s.lw => aa[u.jr] = a[u.jr]
  BY <1>1
<1>5. p \in ee => s.loaded /\ s.lw \in {t.lw : t \in ts}
  BY DEF Finds
<1>6. ASSUME NEW t \in ts, Depends(lo, i + 1, s, t)
      PROVE  /\ s.lui /\ ~s.addend => mm[p] = s.hi + s.lo
             /\ s.addend => \A u \in ts : u.addu = s.addu => Aimed(aa, mm[p], s.hi + s.lo, u)
             /\ s.loaded => \A u \in ts : u.lw = s.lw => p \in ee /\ Aimed(aa, mm[p], s.table, u)
  <2>1. Depends(lo, i, s, t)
    BY <1>2, <1>6
  <2>2. s.lui /\ ~s.addend => mm[p] = s.hi + s.lo
    BY <2>1 DEF Finds
  <2>3. s.addend => \A u \in ts : u.addu = s.addu => Aimed(aa, mm[p], s.hi + s.lo, u)
    BY <1>3, <2>1 DEF Finds, Aimed
  <2>4. s.loaded => \A u \in ts : u.lw = s.lw => p \in ee /\ Aimed(aa, mm[p], s.table, u)
    BY <1>4, <2>1 DEF Finds, Aimed
  <2>5. QED
    BY <2>2, <2>3, <2>4
<1>7. QED
  BY <1>5, <1>6 DEF Finds

(* Nothing is expected of a place the scan knows nothing of.               *)
LEMMA FreshFinds ==
  ASSUME NEW ts, \A t \in ts : t.from # 0, NEW lo, NEW i, NEW m, NEW e, NEW a, NEW p, p \notin e
  PROVE  Finds(ts, lo, i, m, e, a, p, Fresh)
BY FreshState DEF Finds, Depends

(* What the scan believes before and after the word the run is at.         *)
LEMMA NextState ==
  ASSUME IInv, NEW ops, At(ops), "jr" \notin ops
  PROVE  /\ states[pc] \in [Places -> RegStates] /\ states[pc + 1] \in [Places -> RegStates]
         /\ \A p \in Places : Known(func, states, pc, states[pc][p])
         /\ \A p \in Places \ {Ins.d} : states[pc + 1][p] = states[pc][p]
         /\ states[pc + 1][Ins.d] =
              IF Ins.op = "unseen" THEN states[pc][Ins.d] ELSE Scanned(Ins, pc, states[pc])
<1>1. /\ pc \in 1..Len(states) - 1 /\ pc + 1 \in 1..Len(states) /\ pc \in 1..Len(states)
      /\ Ins.d \in Places /\ Ins.op # "jr"
  BY InsShape
<1>2. /\ states \in Seq([Places -> RegStates])
      /\ \A p \in Places : Known(func, states, pc, states[pc][p])
      /\ states[pc + 1] = After(Ins, pc, states[pc])
  BY <1>1 DEF IInv, States, Ins
<1>3. states[pc] \in [Places -> RegStates] /\ states[pc + 1] \in [Places -> RegStates]
  BY <1>1, <1>2
<1>4. QED
  BY <1>1, <1>2, <1>3 DEF After

LEMMA WriteRInv ==
  ASSUME IInv, RInv, NEW ops, At(ops), "jr" \notin ops, NEW v \in Int, Write(v),
         \A u \in tables : u.addu # pc => addend'[u.jr] = addend[u.jr],
         \A p \in Places \ {Ins.d} : p \in entries' <=> p \in entries,
         Finds(tables, start, pc + 1, mem', entries', addend', Ins.d, states[pc + 1][Ins.d])
  PROVE  RInv'
<1>1. func' = func /\ states' = states /\ tables' = tables /\ phase' = phase
      /\ mem' = [mem EXCEPT ![Ins.d] = v] /\ pc' = pc + 1 /\ start' = start
  BY DEF Write
<1>2. phase = "run" /\ pc \in Nat /\ Ins.d \in Places /\ mem \in [Places -> Int] /\ start \in Nat
  BY InsShape DEF IInv, Types
<1>3. tables \in SUBSET Tables /\ \A u \in tables : u.addu < u.lw
  BY TableOrder
<1>4. ASSUME NEW p \in Places
      PROVE  Finds(tables, start, pc + 1, mem', entries', addend', p, states[pc + 1][p])
  <2>1. CASE p # Ins.d
    <3>1. states[pc + 1][p] = states[pc][p] /\ states[pc][p] \in RegStates
          /\ Known(func, states, pc, states[pc][p])
      BY <2>1, NextState
    <3>2. mem'[p] = mem[p] /\ (p \in entries' <=> p \in entries)
      BY <1>1, <1>2, <2>1
    <3>3. /\ states[pc][p].addend => states[pc][p].addu < pc
          /\ states[pc][p].loaded => states[pc][p].lw < pc
      BY <3>1 DEF Known
    <3>4. Finds(tables, start, pc, mem, entries, addend, p, states[pc][p])
      BY <1>2 DEF RInv
    <3>5. QED
      BY <1>2, <1>3, <3>1, <3>2, <3>3, <3>4, KeptFinds
  <2>2. QED
    BY <2>1
<1>5. start <= pc + 1 /\ 0 < pc + 1 /\ start \in Starts(func)
  BY <1>2 DEF RInv
<1>6. QED
  BY <1>1, <1>2, <1>4, <1>5 DEF RInv

-----------------------------------------------------------------------------
(* What it finds in the place a word writes, one operation at a time.      *)
LEMMA MoveFinds ==
  ASSUME NEW ts \in SUBSET Tables, NEW lo, NEW i \in Nat, NEW c, NEW p, NEW d,
         NEW m, NEW e, NEW a, NEW mm, NEW ee,
         Finds(ts, lo, i, m, e, a, p, c), mm[d] = m[p], d \in ee <=> p \in e
  PROVE  Finds(ts, lo, i + 1, mm, ee, a, d, c)
<1>1. \A t \in ts : Depends(lo, i + 1, c, t) => Depends(lo, i, c, t)
  BY DEF Depends, Tables
<1>2. QED
  BY <1>1 DEF Finds

LEMMA AddiuFinds ==
  ASSUME NEW ts \in SUBSET Tables, NEW lo, NEW i \in Nat, NEW c \in RegStates, NEW p, NEW d,
         NEW m, NEW e, NEW a, NEW mm, NEW ee, NEW x, NEW imm \in Int,
         Finds(ts, lo, i, m, e, a, p, c), m[p] \in Int, mm[d] = m[p] + imm, d \notin ee,
         c.lo = 0, ~(c.loaded /\ c.lw \in {t.lw : t \in ts}),
         x.from = c.from, x.lui = c.lui, x.addend = c.addend, x.addu = c.addu,
         x.loaded = c.loaded, x.lw = c.lw, x.hi = c.hi, x.lo = imm
  PROVE  Finds(ts, lo, i + 1, mm, ee, a, d, x)
<1>1. c.hi \in Int
  BY DEF RegStates
<1>2. \A t \in ts : Depends(lo, i + 1, x, t) => Depends(lo, i, c, t)
  BY <1>1 DEF Depends, Tables
<1>3. ASSUME NEW t \in ts, Depends(lo, i + 1, x, t)
      PROVE  /\ x.lui /\ ~x.addend => mm[d] = x.hi + x.lo
             /\ x.addend => \A u \in ts : u.addu = x.addu => Aimed(a, mm[d], x.hi + x.lo, u)
             /\ x.loaded => \A u \in ts : u.lw = x.lw => d \in ee /\ Aimed(a, mm[d], x.table, u)
  <2>1. Depends(lo, i, c, t)
    BY <1>2, <1>3
  <2>2. x.lui /\ ~x.addend => mm[d] = x.hi + x.lo
    <3>1. x.lui /\ ~x.addend => m[p] = c.hi + c.lo
      BY <1>1, <2>1 DEF Finds
    <3>2. QED
      BY <1>1, <3>1
  <2>3. ASSUME x.addend, NEW u \in ts, u.addu = x.addu
        PROVE  Aimed(a, mm[d], x.hi + x.lo, u)
    <3>1. PICK y \in Int : a[u.jr] = {y} /\ m[p] = c.hi + c.lo + y
      BY <1>1, <2>1, <2>3 DEF Finds, Aimed
    <3>2. mm[d] = x.hi + x.lo + y
      BY <1>1, <3>1
    <3>3. QED
      BY <3>1, <3>2 DEF Aimed
  <2>4. x.loaded => \A u \in ts : u.lw # x.lw
    BY <1>1
  <2>5. QED
    BY <2>2, <2>3, <2>4
<1>4. QED
  BY <1>3 DEF Finds

(* An addu of a table puts aside what it adds.                             *)
AdduLeaves(ts, lo, i, d, base, index, mm, ee, aa, x) ==
  /\ i \in Nat /\ base \in Int /\ index \in Int /\ x \in RegStates
  /\ mm[d] = base + index /\ d \notin ee
  /\ x.lui /\ x.addend /\ x.addu = i /\ ~x.loaded
  /\ \A t, u \in ts : Depends(lo, i + 1, x, t) /\ u.addu = i =>
       base = x.hi + x.lo /\ aa[u.jr] = {index}

LEMMA AdduFinds ==
  ASSUME NEW ts, NEW lo, NEW i, NEW d, NEW base, NEW index, NEW mm, NEW ee, NEW aa, NEW x,
         AdduLeaves(ts, lo, i, d, base, index, mm, ee, aa, x)
  PROVE  Finds(ts, lo, i + 1, mm, ee, aa, d, x)
<1> USE DEF AdduLeaves
<1>1. x.hi \in Int /\ x.lo \in Int
  BY DEF RegStates
<1>2. ASSUME NEW t \in ts, Depends(lo, i + 1, x, t), NEW u \in ts, u.addu = i
      PROVE  Aimed(aa, mm[d], x.hi + x.lo, u)
  <2>1. mm[d] = x.hi + x.lo + index /\ aa[u.jr] = {index}
    BY <1>2
  <2>2. QED
    BY <2>1 DEF Aimed
<1>3. QED
  BY <1>2 DEF Finds

(* The load of an entry of a table leaves the entry's address.             *)
LoadLeaves(ts, i, c, p, d, m, mm, ee, x, imm) ==
  /\ ts \in SUBSET Tables /\ i \in Nat /\ c \in RegStates /\ imm \in Int /\ m[p] \in Int
  /\ c.lui /\ c.addend
  /\ \A u \in ts : u.lw = i => u.addu = c.addu /\ d \in ee /\ mm[d] = m[p] + imm
  /\ d \in ee => i \in {t.lw : t \in ts}
  /\ x.from = c.from /\ x.loaded /\ ~x.lui /\ ~x.addend /\ x.lw = i
  /\ x.table = c.hi + c.lo + imm

LEMMA LoadFinds ==
  ASSUME NEW ts, NEW lo, NEW i, NEW c, NEW p, NEW d, NEW m, NEW e, NEW a, NEW mm, NEW ee,
         NEW x, NEW imm,
         Finds(ts, lo, i, m, e, a, p, c), LoadLeaves(ts, i, c, p, d, m, mm, ee, x, imm)
  PROVE  Finds(ts, lo, i + 1, mm, ee, a, d, x)
<1> USE DEF LoadLeaves
<1>1. \A t \in ts : Depends(lo, i + 1, x, t) => Depends(lo, i, c, t)
  BY DEF Depends, Tables
<1>2. ASSUME NEW t \in ts, Depends(lo, i + 1, x, t), NEW u \in ts, u.lw = i
      PROVE  d \in ee /\ Aimed(a, mm[d], x.table, u)
  <2>1. PICK y \in Int : a[u.jr] = {y} /\ m[p] = c.hi + c.lo + y
    BY <1>1, <1>2 DEF Finds, Aimed
  <2>2. c.hi \in Int /\ c.lo \in Int
    BY DEF RegStates
  <2>3. mm[d] = x.table + y
    BY <1>2, <2>1, <2>2
  <2>4. QED
    BY <1>2, <2>1, <2>3 DEF Aimed
<1>3. QED
  BY <1>2 DEF Finds

-----------------------------------------------------------------------------
LEMMA EnterRInv ==
  ASSUME IInv, RInv, Enter
  PROVE  RInv'
<1>1. /\ pc' \in Starts(func) /\ start' = pc' /\ phase = "emitted" /\ phase' = "run"
      /\ func' = func /\ states' = states /\ tables' = tables /\ entries' = entries
  BY DEF Enter
<1>2. /\ func \in Functions /\ Len(states) = Len(func.code) + 1 /\ Len(func.code) \in Nat
      /\ states \in Seq([Places -> RegStates])
  BY <1>1, FunctionShape DEF IInv, Types, States
<1>3. pc' \in 1..Len(states) /\ pc' \in Nat
  BY <1>1, <1>2, FunctionShape DEF Starts
<1>4. ASSUME NEW p \in Places
      PROVE  Finds(tables, pc', pc', mem', entries', addend', p, states[pc'][p])
  <2> DEFINE s == states[pc'][p]
  <2>1. s \in RegStates /\ Known(func, states, pc', s)
    BY <1>2, <1>3 DEF IInv, States
  <2>2. p \notin entries'
    BY <1>1 DEF RInv
  <2>3. \A t \in tables : Depends(pc', pc', s, t) => ~s.lui /\ ~s.addend /\ ~s.loaded
    <3> HIDE DEF s
    <3>1. s.from \in Nat /\ s.addu \in Nat /\ s.lw \in Nat
      BY <2>1 DEF RegStates
    <3>2. s.lui \/ s.addend \/ s.loaded => s.from < pc'
      <4>1. pc' \in Nat
        BY <1>3
      <4>2. s.lui => s.from < pc'
        BY <2>1, Zenon DEF Known
      <4>3. s.addend => s.lui
        BY <2>1, Zenon DEF Known
      <4>4. s.loaded => s.from < s.addu /\ s.addu < s.lw /\ s.lw < pc'
        BY <2>1, Zenon DEF Known, AddendOf, LoadOf
      <4>5. QED
        BY <3>1, <4>1, <4>2, <4>3, <4>4
    <3>3. QED
      BY <1>3, <3>1, <3>2 DEF Depends
  <2>4. QED
    BY <2>2, <2>3 DEF Finds
<1>5. QED
  BY <1>1, <1>3, <1>4 DEF RInv

LEMMA ComputeRInv ==
  ASSUME IInv, RInv, Followed, Compute
  PROVE  RInv'
<1> DEFINE b == states[pc]
           d == Ins.d
           x == states[pc + 1][d]
           v == Result(func, Ins, mem)
<1>1. At({"lui", "addiu", "move"}) /\ Write(v) /\ addend' = addend
  BY DEF Compute
<1>2. /\ Ins \in Words /\ Ins.op \in {"lui", "addiu", "move"} /\ Ins.s \in Places /\ d \in Places
      /\ Ins.imm \in Int /\ phase = "run" /\ pc \in Nat /\ func \in Functions /\ pc \in DOMAIN func.code
  BY <1>1, InsShape
<1>3. /\ b \in [Places -> RegStates] /\ x = Scanned(Ins, pc, b)
      /\ \A p \in Places : Known(func, states, pc, b[p])
  BY <1>1, <1>2, NextState
<1>4. /\ mem \in [Places -> Int] /\ v \in Int /\ mem' = [mem EXCEPT ![d] = v] /\ mem'[d] = v
  BY <1>1, <1>2, ResultInt DEF IInv, Types, Write, Straight
<1>5. \A p \in Places : Finds(tables, start, pc, mem, entries, addend, p, b[p])
  BY <1>2 DEF RInv
<1>6. tables \in SUBSET Tables /\ \A t \in tables : t.from # 0
  BY TableOrder
<1>7. Finds(tables, start, pc + 1, mem', entries', addend', d, x)
  <2>1. CASE Ins.op = "lui"
    <3>1. x = [Fresh EXCEPT !.lui = TRUE, !.hi = Ins.imm, !.from = pc]
      BY <1>3, <2>1 DEF Scanned
    <3>2. x.lui /\ ~x.addend /\ ~x.loaded /\ x.hi = Ins.imm /\ x.lo = 0
      BY <3>1 DEF Fresh
    <3>3. v = Ins.imm /\ d \notin entries'
      BY <2>1 DEF Result, Compute
    <3>4. mem'[d] = x.hi + x.lo
      BY <1>2, <1>4, <3>2, <3>3
    <3> HIDE DEF x
    <3>5. QED
      BY <3>2, <3>3, <3>4 DEF Finds
  <2>2. CASE Ins.op = "addiu" /\ ~b[Ins.s].addiu
    <3>1. x = [b[Ins.s] EXCEPT !.addiu = TRUE, !.lo = Ins.imm]
      BY <1>3, <2>2 DEF Scanned
    <3>2. v = mem[Ins.s] + Ins.imm /\ d \notin entries'
      BY <2>2 DEF Result, Compute
    <3>3. b[Ins.s].lo = 0 /\ b[Ins.s] \in RegStates
      BY <1>2, <1>3, <2>2 DEF Known
    <3>4. ~(b[Ins.s].loaded /\ b[Ins.s].lw \in {t.lw : t \in tables})
      BY <1>2, <2>2 DEF Followed, Usual, Reads, Ins
    <3>5. Finds(tables, start, pc, mem, entries, addend, Ins.s, b[Ins.s]) /\ mem[Ins.s] \in Int
      BY <1>2, <1>4, <1>5
    <3>6. /\ x.from = b[Ins.s].from /\ x.lui = b[Ins.s].lui /\ x.addend = b[Ins.s].addend
          /\ x.addu = b[Ins.s].addu /\ x.loaded = b[Ins.s].loaded /\ x.lw = b[Ins.s].lw
          /\ x.hi = b[Ins.s].hi /\ x.lo = Ins.imm
      BY <3>1, <3>3 DEF RegStates
    <3>7. mem'[d] = mem[Ins.s] + Ins.imm
      BY <1>4, <3>2
    <3> HIDE DEF x, v, b
    <3>8. Finds(tables, start, pc + 1, mem', entries', addend, d, x)
      BY <1>2, <1>6, <3>2, <3>3, <3>4, <3>5, <3>6, <3>7, AddiuFinds
    <3>9. QED
      BY <1>1, <3>8
  <2>3. CASE Ins.op = "addiu" /\ b[Ins.s].addiu
    <3>1. x = Fresh /\ d \notin entries'
      BY <1>3, <2>3 DEF Scanned, Compute
    <3>2. QED
      BY <1>6, <3>1, FreshFinds
  <2>4. CASE Ins.op = "move"
    <3>1. x = b[Ins.s] /\ v = mem[Ins.s]
      BY <1>3, <2>4 DEF Scanned, Result
    <3>2. d \in entries' <=> Ins.s \in entries
      BY <2>4 DEF Compute
    <3>3. Finds(tables, start, pc, mem, entries, addend, Ins.s, x)
      BY <1>2, <1>5, <3>1
    <3> HIDE DEF x, v, b
    <3>4. QED
      BY <1>1, <1>2, <1>4, <1>6, <3>1, <3>2, <3>3, MoveFinds
  <2>5. QED
    BY <1>2, <2>1, <2>2, <2>3, <2>4
<1>8. \A p \in Places \ {d} : p \in entries' <=> p \in entries
  BY DEF Compute
<1> HIDE DEF v
<1>9. QED
  BY <1>1, <1>4, <1>7, <1>8, WriteRInv

LEMMA AdduRInv ==
  ASSUME IInv, RInv, Followed, Addu
  PROVE  RInv'
<1> DEFINE b == states[pc]
           d == Ins.d
           x == states[pc + 1][d]
           v == Result(func, Ins, mem)
           p == Base(Ins, b)
           q == Index(Ins, b)
<1>1. At({"addu"}) /\ Write(v) /\ entries' = entries \ {d}
  BY DEF Addu
<1>2. /\ Ins \in Words /\ Ins.op = "addu" /\ Ins.s \in Places /\ Ins.t \in Places /\ d \in Places
      /\ phase = "run" /\ pc \in Nat /\ func \in Functions /\ pc \in DOMAIN func.code
  BY <1>1, InsShape
<1>3. /\ b \in [Places -> RegStates] /\ x = Scanned(Ins, pc, b)
      /\ \A r \in Places : Known(func, states, pc, b[r])
  BY <1>1, <1>2, NextState
<1>4. /\ mem \in [Places -> Int] /\ v \in Int /\ mem' = [mem EXCEPT ![d] = v] /\ mem'[d] = v
      /\ v = mem[Ins.s] + mem[Ins.t]
  BY <1>1, <1>2, ResultInt DEF IInv, Types, Write, Straight, Result
<1>5. p \in Places /\ q \in Places /\ v = mem[p] + mem[q]
  BY <1>2, <1>4 DEF Base, Index
<1>6. tables \in SUBSET Tables /\ \A t \in tables : t.from # 0
  BY TableOrder
<1>7. \A u \in tables : u.addu = pc => b[Ins.s].lui # b[Ins.t].lui /\ u.by = q /\ ~b[p].addend
  <2>1. ASSUME NEW u \in tables, u.addu = pc
        PROVE  b[Ins.s].lui # b[Ins.t].lui /\ u.by = q
    BY <2>1, TableWords DEF Ins
  <2>2. ASSUME NEW u \in tables, u.addu = pc
        PROVE  ~b[p].addend
    BY <1>2, <2>2 DEF Followed, Usual, Ins
  <2>3. QED
    BY <2>1, <2>2
<1>8. \A t, u \in tables : t.addu = u.addu => t = u
  BY <1>2 DEF Followed, Usual
<1>9. addend \in [DOMAIN func.code -> SUBSET Int] /\ \A u \in tables : u.jr \in DOMAIN func.code
  BY TableOrder, FunctionShape DEF IInv, Types
<1>10. Aside(pc) = {t \in tables : t.addu = pc}
  <2>1. \A t \in tables : t.address <= t.address
    BY <1>6 DEF Tables
  <2>2. QED
    BY <1>8, <2>1 DEF Aside
<1>11. ASSUME NEW u \in tables, u.addu = pc
       PROVE  addend'[u.jr] = {mem[q]}
  <2>1. Aside(pc) = {u} /\ {y \in Aside(pc) : y.jr = u.jr} = {u}
    BY <1>8, <1>10, <1>11
  <2>2. addend'[u.jr] = {mem[t.by] : t \in {u}}
    BY <1>9, <2>1 DEF Addu
  <2>3. QED
    BY <1>7, <1>11, <2>2
<1>12. ASSUME NEW u \in tables, u.addu # pc
       PROVE  addend'[u.jr] = addend[u.jr]
  <2>1. ~\E t \in Aside(pc) : t.jr = u.jr
    BY <1>10, <1>12, OneTable
  <2>2. QED
    BY <1>9, <2>1 DEF Addu
<1>13. Finds(tables, start, pc + 1, mem', entries', addend', d, x)
  <2>1. CASE b[Ins.s].lui # b[Ins.t].lui
    <3>1. x = [b[p] EXCEPT !.addend = TRUE, !.by = q, !.addu = pc]
      BY <1>2, <1>3, <2>1 DEF Scanned
    <3>2. b[p].lui
      BY <1>2, <1>3, <2>1 DEF Base, RegStates
    <3>3. b[p] \in RegStates /\ ~b[p].loaded
      BY <1>3, <1>5, <3>2 DEF Known
    <3>4. Finds(tables, start, pc, mem, entries, addend, p, b[p])
      BY <1>2, <1>5 DEF RInv
    <3>5. mem[p] \in Int /\ mem[q] \in Int
      BY <1>4, <1>5
    <3>6. /\ x.from = b[p].from /\ x.lui /\ x.addend /\ x.addu = pc /\ ~x.loaded
          /\ x.hi = b[p].hi /\ x.lo = b[p].lo
      BY <3>1, <3>2, <3>3 DEF RegStates
    <3>7. mem'[d] = mem[p] + mem[q] /\ d \notin entries'
      BY <1>1, <1>4, <1>5
    <3>8. ASSUME NEW t \in tables, Depends(start, pc + 1, x, t), NEW u \in tables, u.addu = pc
          PROVE  mem[p] = x.hi + x.lo /\ addend'[u.jr] = {mem[q]}
      <4>1. ~b[p].addend /\ addend'[u.jr] = {mem[q]}
        BY <1>7, <1>11, <3>8
      <4>2. Depends(start, pc, b[p], t)
        BY <1>2, <1>6, <3>6, <3>8 DEF Depends, Tables
      <4>3. QED
        BY <3>2, <3>4, <3>6, <4>1, <4>2 DEF Finds
    <3>9. x \in RegStates
      BY <1>1, <1>2, NextState
    <3> HIDE DEF x, v, b, p, q
    <3>10. QED
      <4>1. \A t, u \in tables : Depends(start, pc + 1, x, t) /\ u.addu = pc
              => mem[p] = x.hi + x.lo /\ addend'[u.jr] = {mem[q]}
        BY <3>8
      <4>2. pc \in Nat /\ x.lui /\ x.addend /\ x.addu = pc /\ ~x.loaded
        BY <1>2, <3>6
      <4>3. AdduLeaves(tables, start, pc, d, mem[p], mem[q], mem', entries', addend', x)
        BY <3>5, <3>7, <3>9, <4>1, <4>2 DEF AdduLeaves
      <4>4. QED
        BY <4>3, AdduFinds
  <2>2. CASE b[Ins.s].lui = b[Ins.t].lui
    <3>1. x = Fresh
      BY <1>2, <1>3, <2>2 DEF Scanned
    <3>2. QED
      BY <1>1, <1>6, <3>1, FreshFinds
  <2>3. QED
    BY <2>1, <2>2
<1>14. \A r \in Places \ {d} : r \in entries' <=> r \in entries
  BY <1>1
<1> HIDE DEF v
<1>15. QED
  BY <1>1, <1>4, <1>12, <1>13, <1>14, WriteRInv

LEMMA LoadRInv ==
  ASSUME IInv, RInv, Load
  PROVE  RInv'
<1> DEFINE b == states[pc]
           c == b[Ins.s]
           d == Ins.d
           x == states[pc + 1][d]
           v == IF pc \in Replaced THEN mem[Ins.s] + Ins.imm ELSE Result(func, Ins, mem)
<1>1. /\ At({"load"}) /\ Write(v) /\ addend' = addend
      /\ entries' = IF pc \in Replaced THEN entries \cup {d} ELSE entries \ {d}
  BY DEF Load
<1>2. /\ Ins \in Words /\ Ins.op = "load" /\ Ins.s \in Places /\ d \in Places
      /\ Ins.imm \in Int /\ phase = "run" /\ pc \in Nat /\ func \in Functions
  BY <1>1, InsShape
<1>3. /\ b \in [Places -> RegStates] /\ x = Scanned(Ins, pc, b)
      /\ \A r \in Places : Known(func, states, pc, b[r])
  BY <1>1, <1>2, NextState
<1>4. /\ mem \in [Places -> Int] /\ mem[Ins.s] \in Int /\ v \in Int
  BY <1>1, <1>2, ResultInt DEF IInv, Types, Straight
<1>5. mem' = [mem EXCEPT ![d] = v] /\ mem'[d] = v
  BY <1>1, <1>2, <1>4 DEF Write
<1>6. tables \in SUBSET Tables /\ \A t \in tables : t.from # 0
  BY TableOrder
<1>7. ASSUME NEW u \in tables, u.lw = pc
      PROVE  Entry(Ins, b) /\ u.addu = c.addu
  BY <1>7, TableWords DEF Ins
<1>8. Finds(tables, start, pc + 1, mem', entries', addend', d, x)
  <2>1. CASE Entry(Ins, b)
    <3>1. x = [Fresh EXCEPT !.loaded = TRUE, !.lw = pc, !.by = c.by, !.addu = c.addu,
                            !.table = c.hi + (IF Ins.imm # 0 THEN Ins.imm ELSE c.lo),
                            !.from = c.from]
      BY <1>2, <1>3, <2>1 DEF Scanned
    <3>2. /\ x.from = c.from /\ x.loaded /\ ~x.lui /\ ~x.addend /\ x.lw = pc
          /\ x.table = c.hi + (IF Ins.imm # 0 THEN Ins.imm ELSE c.lo)
      BY <3>1 DEF Fresh
    <3>3. c.lui /\ c.addend /\ (Ins.imm # 0 => c.lo = 0) /\ c \in RegStates
      BY <1>2, <1>3, <2>1 DEF Entry, Known
    <3>4. Finds(tables, start, pc, mem, entries, addend, Ins.s, c)
      BY <1>2 DEF RInv
    <3>5. d \in entries' => pc \in {t.lw : t \in tables}
      BY <1>1 DEF Replaced
    <3>6. ASSUME NEW u \in tables, u.lw = pc
          PROVE  u.addu = c.addu /\ d \in entries' /\ mem'[d] = mem[Ins.s] + Ins.imm
      <4>1. pc \in Replaced
        BY <3>6 DEF Replaced
      <4>2. QED
        BY <1>1, <1>5, <1>7, <3>6, <4>1
    <3>7. x.table = c.hi + c.lo + Ins.imm
      <4>1. c.hi \in Int /\ c.lo \in Int
        BY <3>3 DEF RegStates
      <4> HIDE DEF x, c
      <4>2. QED
        BY <1>2, <3>2, <3>3, <4>1
    <3> HIDE DEF x, v, b, c
    <3>8. Finds(tables, start, pc + 1, mem', entries', addend, d, x)
      <4>1. \A u \in tables : u.lw = pc =>
              u.addu = c.addu /\ d \in entries' /\ mem'[d] = mem[Ins.s] + Ins.imm
        BY <3>6
      <4>2. pc \in Nat /\ Ins.imm \in Int /\ mem[Ins.s] \in Int
        BY <1>2, <1>4
      <4>3. tables \in SUBSET Tables
        BY <1>6
      <4>4. LoadLeaves(tables, pc, c, Ins.s, d, mem, mem', entries', x, Ins.imm)
        BY <3>2, <3>3, <3>5, <3>7, <4>1, <4>2, <4>3 DEF LoadLeaves
      <4>5. QED
        BY <3>4, <4>4, LoadFinds
    <3>9. QED
      BY <1>1, <3>8
  <2>2. CASE ~Entry(Ins, b)
    <3>1. x = Fresh
      BY <1>2, <1>3, <2>2 DEF Scanned
    <3>2. d \notin entries'
      BY <1>1, <1>7, <2>2 DEF Replaced
    <3>3. QED
      BY <1>6, <3>1, <3>2, FreshFinds
  <2>3. QED
    BY <2>1, <2>2
<1>9. \A r \in Places \ {d} : r \in entries' <=> r \in entries
  BY <1>1
<1> HIDE DEF v
<1>10. QED
  BY <1>1, <1>4, <1>8, <1>9, WriteRInv

LEMMA OtherRInv ==
  ASSUME IInv, RInv, Followed, Other
  PROVE  RInv'
<1> DEFINE d == Ins.d
           s == states[pc][d]
<1>1. At({"other", "unseen"}) /\ addend' = addend /\ entries' = entries \ {d}
  BY DEF Other
<1>2. PICK v \in Int : Write(v)
  BY ValuesAssumption DEF Other
<1>3. /\ Ins \in Words /\ Ins.op \in {"other", "unseen"} /\ d \in Places
      /\ phase = "run" /\ pc \in Nat /\ pc \in DOMAIN func.code
  BY <1>1, InsShape
<1>4. \A t \in tables : t.from # 0 /\ t.jr \in Nat
  BY TableOrder
<1>5. Finds(tables, start, pc + 1, mem', entries', addend', d, states[pc + 1][d])
  <2>1. CASE Ins.op = "other"
    <3>1. states[pc + 1][d] = Fresh
      BY <1>1, <2>1, NextState DEF Scanned
    <3>2. QED
      BY <1>1, <1>4, <3>1, FreshFinds
  <2>2. CASE Ins.op = "unseen"
    <3>1. states[pc + 1][d] = s /\ s \in RegStates /\ Known(func, states, pc, s)
      BY <1>1, <1>3, <2>2, NextState
    <3>2. \A t \in tables : ~((s.lui \/ s.loaded) /\ s.from = t.from /\ pc < t.jr)
      BY <1>3, <2>2 DEF Followed, Usual, Ins
    <3> HIDE DEF s
    <3>3. \A t \in tables : Depends(start, pc + 1, s, t) => ~s.lui /\ ~s.addend /\ ~s.loaded
      <4>1. s.addend => s.lui
        BY <3>1 DEF Known
      <4>2. \A t \in tables : pc + 1 <= t.jr => pc < t.jr
        BY <1>3, <1>4
      <4>3. QED
        BY <3>2, <4>1, <4>2 DEF Depends
    <3>4. QED
      BY <1>1, <3>1, <3>3 DEF Finds
  <2>3. QED
    BY <1>3, <2>1, <2>2
<1>6. \A r \in Places \ {d} : r \in entries' <=> r \in entries
  BY <1>1
<1>7. QED
  BY <1>1, <1>2, <1>5, <1>6, WriteRInv

LEMMA NextRInv ==
  ASSUME IInv, RInv, Followed, Next
  PROVE  RInv'
<1>1. CASE Scan \/ Size
  BY <1>1 DEF RInv, Scan, Size, cvars
<1>2. CASE Switch \/ TailCall
  BY <1>2 DEF RInv, Switch, TailCall
<1>3. QED
  BY <1>1, <1>2, EnterRInv, ComputeRInv, AdduRInv, LoadRInv, OtherRInv DEF Next

-----------------------------------------------------------------------------
(* The CPU's values: a place that holds an entry's address has the entry.  *)
CpuMem == [p \in Places |-> IF p \in entries THEN Word(func, mem[p]) ELSE mem[p]]

LEMMA CpuOps ==
  /\ Cpu!Places = Places /\ Cpu!Straight = Straight /\ Cpu!FunctionRecords = FunctionRecords
  /\ Cpu!Elsewhere = Elsewhere
  /\ \A f, a : Cpu!Within(f, a) = Within(f, a) /\ Cpu!Word(f, a) = Word(f, a)
  /\ \A f : Cpu!Starts(f) = Starts(f)
  /\ \A f, w, m : Cpu!Result(f, w, m) = Result(f, w, m)
<1>1. Cpu!Places = Places /\ Cpu!Straight = Straight /\ Cpu!Elsewhere = Elsewhere
  BY DEF Cpu!Places, Places, Cpu!Straight, Straight, Cpu!Elsewhere, Elsewhere
<1>2. Cpu!FunctionRecords = FunctionRecords
  BY <1>1 DEF Cpu!FunctionRecords, FunctionRecords, Cpu!Words, Words, Cpu!Ops, Ops
<1>3. \A f, a : Cpu!Within(f, a) = Within(f, a) /\ Cpu!Word(f, a) = Word(f, a)
  BY <1>1 DEF Cpu!Within, Within, Cpu!Word, Word
<1>4. \A f : Cpu!Starts(f) = Starts(f)
  BY DEF Cpu!Starts, Starts
<1>5. \A f, w, m : Cpu!Result(f, w, m) = Result(f, w, m)
  BY <1>3 DEF Cpu!Result, Result
<1>6. QED
  BY <1>1, <1>2, <1>3, <1>4, <1>5

LEMMA CpuMemShape ==
  ASSUME IInv
  PROVE  /\ CpuMem \in [Places -> Int] /\ DOMAIN CpuMem = Places
         /\ \A p \in Places : p \notin entries => CpuMem[p] = mem[p]
         /\ \A p \in Places : p \in entries => CpuMem[p] = Word(func, mem[p])
BY WordInt DEF CpuMem, IInv, Types

(* A step that writes is one of the CPU that writes what its place then    *)
(* has there.                                                              *)
LEMMA WriteMaps ==
  ASSUME IInv, IInv', NEW ops, At(ops), "jr" \notin ops, NEW v \in Int, Write(v),
         \A p \in Places \ {Ins.d} : p \in entries' <=> p \in entries,
         NEW r, CpuMem'[Ins.d] = r
  PROVE  CpuMem' = [CpuMem EXCEPT ![Ins.d] = r]
<1>1. func' = func /\ mem' = [mem EXCEPT ![Ins.d] = v] /\ mem \in [Places -> Int] /\ Ins.d \in Places
  BY InsShape DEF Write, IInv, Types
<1>2. CpuMem \in [Places -> Int] /\ CpuMem' \in [Places -> Int]
  BY CpuMemShape, WordInt DEF CpuMem, IInv, Types
<1>3. ASSUME NEW p \in Places \ {Ins.d}
      PROVE  CpuMem'[p] = CpuMem[p]
  BY <1>1 DEF CpuMem
<1>4. QED
  BY <1>1, <1>2, <1>3

LEMMA StraightMaps ==
  ASSUME IInv, IInv', NEW ops, At(ops), ops \subseteq Straight, NEW v \in Int, Write(v),
         \A p \in Places \ {Ins.d} : p \in entries' <=> p \in entries,
         CpuMem'[Ins.d] = Result(func, Ins, CpuMem)
  PROVE  Cpu!TNext
<1>1. CpuMem' = [CpuMem EXCEPT ![Ins.d] = Result(func, Ins, CpuMem)]
  BY WriteMaps DEF Straight
<1>2. /\ phase = "run" /\ pc \in DOMAIN func.code /\ Ins.op \in Straight
      /\ pc' = pc + 1 /\ func' = func /\ phase' = phase /\ left' = left
  BY InsShape DEF Write
<1>3. Cpu!TStraight
  BY <1>1, <1>2, CpuOps DEF Cpu!TStraight, Cpu!At, Cpu!TWrite, CpuMem, Ins
<1>4. QED
  BY <1>3 DEF Cpu!TNext

LEMMA WrittenMem ==
  ASSUME IInv, NEW ops, At(ops), NEW v \in Int, Write(v)
  PROVE  CpuMem'[Ins.d] = IF Ins.d \in entries' THEN Word(func, v) ELSE v
<1>1. func' = func /\ mem' = [mem EXCEPT ![Ins.d] = v] /\ mem \in [Places -> Int] /\ Ins.d \in Places
  BY InsShape DEF Write, IInv, Types
<1>2. mem'[Ins.d] = v
  BY <1>1
<1>3. QED
  BY <1>1, <1>2 DEF CpuMem

(* What is computed with is not the address of an entry.                   *)
LEMMA ReadMem ==
  ASSUME IInv, RInv, Followed, NEW ops, At(ops), NEW p \in Reads(Ins)
  PROVE  p \in Places /\ CpuMem[p] = mem[p]
<1>1. /\ p \in Places /\ phase = "run" /\ pc \in DOMAIN func.code
  BY InsShape DEF Reads
<1>2. p \in entries => states[pc][p].loaded /\ states[pc][p].lw \in {t.lw : t \in tables}
  BY <1>1 DEF RInv, Finds
<1>3. ~(states[pc][p].loaded /\ states[pc][p].lw \in {t.lw : t \in tables})
  BY <1>1 DEF Followed, Usual, Ins
<1>4. QED
  BY <1>1, <1>2, <1>3, CpuMemShape

LEMMA ComputeMaps ==
  ASSUME IInv, IInv', RInv, Followed, Compute
  PROVE  Cpu!TNext
<1> DEFINE d == Ins.d
           v == Result(func, Ins, mem)
<1>1. At({"lui", "addiu", "move"}) /\ Write(v)
  BY DEF Compute
<1>2. /\ Ins \in Words /\ Ins.op \in {"lui", "addiu", "move"} /\ Ins.s \in Places
      /\ func \in Functions /\ mem \in [Places -> Int]
  BY <1>1, InsShape DEF IInv, Types
<1>3. v \in Int
  BY <1>2, ResultInt DEF Straight
<1>4. CpuMem'[d] = IF d \in entries' THEN Word(func, v) ELSE v
  BY <1>1, <1>3, WrittenMem
<1>5. CpuMem'[d] = Result(func, Ins, CpuMem)
  <2>1. CASE Ins.op = "lui"
    BY <1>4, <2>1 DEF Result, Compute
  <2>2. CASE Ins.op = "addiu"
    <3>1. CpuMem[Ins.s] = mem[Ins.s]
      BY <1>1, <2>2, ReadMem DEF Reads
    <3>2. d \notin entries'
      BY <2>2 DEF Compute
    <3>3. QED
      BY <1>4, <2>2, <3>1, <3>2 DEF Result
  <2>3. CASE Ins.op = "move"
    <3>1. (d \in entries' <=> Ins.s \in entries) /\ v = mem[Ins.s]
      BY <2>3 DEF Compute, Result
    <3>2. Result(func, Ins, CpuMem) = CpuMem[Ins.s]
      BY <2>3 DEF Result
    <3>3. QED
      BY <1>2, <1>4, <3>1, <3>2, CpuMemShape
  <2>4. QED
    BY <1>2, <2>1, <2>2, <2>3
<1>6. \A p \in Places \ {d} : p \in entries' <=> p \in entries
  BY DEF Compute
<1> HIDE DEF v
<1>7. QED
  BY <1>1, <1>3, <1>5, <1>6, StraightMaps DEF Straight

LEMMA AdduMaps ==
  ASSUME IInv, IInv', RInv, Followed, Addu
  PROVE  Cpu!TNext
<1> DEFINE d == Ins.d
           v == Result(func, Ins, mem)
<1>1. At({"addu"}) /\ Write(v) /\ entries' = entries \ {d}
  BY DEF Addu
<1>2. Ins \in Words /\ Ins.op = "addu" /\ func \in Functions /\ mem \in [Places -> Int]
  BY <1>1, InsShape DEF IInv, Types
<1>3. v \in Int
  BY <1>2, ResultInt DEF Straight
<1>4. CpuMem'[d] = v
  BY <1>1, <1>3, WrittenMem
<1>5. CpuMem[Ins.s] = mem[Ins.s] /\ CpuMem[Ins.t] = mem[Ins.t]
  BY <1>1, <1>2, ReadMem DEF Reads
<1>6. CpuMem'[d] = Result(func, Ins, CpuMem)
  BY <1>2, <1>4, <1>5 DEF Result
<1>7. \A p \in Places \ {d} : p \in entries' <=> p \in entries
  BY <1>1
<1> HIDE DEF v
<1>8. QED
  BY <1>1, <1>3, <1>6, <1>7, StraightMaps DEF Straight

LEMMA LoadMaps ==
  ASSUME IInv, IInv', RInv, Followed, Load
  PROVE  Cpu!TNext
<1> DEFINE d == Ins.d
           v == IF pc \in Replaced THEN mem[Ins.s] + Ins.imm ELSE Result(func, Ins, mem)
<1>1. /\ At({"load"}) /\ Write(v)
      /\ entries' = IF pc \in Replaced THEN entries \cup {d} ELSE entries \ {d}
  BY DEF Load
<1>2. /\ Ins \in Words /\ Ins.op = "load" /\ Ins.s \in Places /\ Ins.imm \in Int
      /\ func \in Functions /\ mem \in [Places -> Int]
  BY <1>1, InsShape DEF IInv, Types
<1>3. v \in Int
  <2>1. mem[Ins.s] + Ins.imm \in Int
    BY <1>2
  <2>2. QED
    BY <1>2, <2>1, ResultInt DEF Straight
<1>4. CpuMem'[d] = IF d \in entries' THEN Word(func, v) ELSE v
  <2> HIDE DEF v
  <2>1. QED
    BY <1>1, <1>3, WrittenMem
<1>5. CpuMem[Ins.s] = mem[Ins.s]
  BY <1>1, <1>2, ReadMem DEF Reads
<1>6. CpuMem'[d] = Result(func, Ins, CpuMem)
  <2>1. Result(func, Ins, CpuMem) = Word(func, mem[Ins.s] + Ins.imm)
        /\ Result(func, Ins, mem) = Word(func, mem[Ins.s] + Ins.imm)
    BY <1>2, <1>5 DEF Result
  <2>2. QED
    BY <1>1, <1>4, <2>1
<1>7. \A p \in Places \ {d} : p \in entries' <=> p \in entries
  BY <1>1
<1> HIDE DEF v
<1>8. QED
  BY <1>1, <1>3, <1>6, <1>7, StraightMaps DEF Straight

LEMMA OtherMaps ==
  ASSUME IInv, IInv', Other
  PROVE  Cpu!TNext
<1>1. At({"other", "unseen"}) /\ entries' = entries \ {Ins.d}
  BY DEF Other
<1>2. PICK v \in Int : Write(v)
  BY ValuesAssumption DEF Other
<1>3. CpuMem'[Ins.d] = v
  BY <1>1, <1>2, WrittenMem
<1>4. CpuMem' = [CpuMem EXCEPT ![Ins.d] = v]
  BY <1>1, <1>2, <1>3, WriteMaps
<1>5. /\ phase = "run" /\ pc \in DOMAIN func.code /\ Ins.op \in {"other", "unseen"}
      /\ pc' = pc + 1 /\ func' = func /\ phase' = phase /\ left' = left
  BY <1>1, <1>2, InsShape DEF Write
<1>6. Cpu!TOther
  BY <1>2, <1>3, <1>4, <1>5 DEF Cpu!TOther, Cpu!At, Cpu!TWrite, CpuMem, Ins
<1>7. QED
  BY <1>6 DEF Cpu!TNext

LEMMA EnterMaps ==
  ASSUME IInv, IInv', RInv, Enter
  PROVE  Cpu!TNext
<1>1. /\ phase = "emitted" /\ phase' = "run" /\ pc' \in Starts(func)
      /\ mem' \in [Places -> Int] /\ mem'[0] = 0
      /\ func' = func /\ left' = left /\ entries' = entries
  BY ValuesAssumption DEF Enter
<1>2. pc = 0 /\ entries = {}
  BY <1>1 DEF RInv
<1>3. CpuMem' \in [Places -> Int] /\ CpuMem'[0] = 0
  BY <1>1, <1>2, TableAssumption DEF CpuMem, Places
<1>4. Cpu!TStart
  BY <1>1, <1>2, <1>3, CpuOps DEF Cpu!TStart, CpuMem
<1>5. QED
  BY <1>4 DEF Cpu!TNext

(* The switch goes where the table's entry says, or stops where that is    *)
(* not in the function.                                                    *)
LEMMA SwitchMaps ==
  ASSUME IInv, RInv, Followed, Switch
  PROVE  Cpu!TNext
<1>1. PICK t \in tables :
        /\ t.jr = pc
        /\ \E k \in IF addend[pc] = {} THEN Values ELSE addend[pc] :
             left' = IF k \in Cases(func, tables, t) THEN Word(func, t.address + k) ELSE Elsewhere
  BY DEF Switch
<1> DEFINE s == states[pc][Ins.s]
<1>2. /\ phase = "run" /\ pc \in DOMAIN func.code /\ Ins.op = "jr" /\ Ins.s \in Places /\ pc \in Nat
      /\ func \in Functions /\ At({"jr"})
  BY InsShape DEF Switch
<1>3. Shape(func, states, t) /\ t \in Tables
  BY TableShape
<1>4. s.loaded /\ s.from = t.from /\ s.lw = t.lw /\ s.table = t.address /\ t.from > 0
  <2>1. t = TableOf(pc, s) /\ s.loaded
    BY <1>1, <1>3 DEF Shape, Ins
  <2>2. t.from \in Nat /\ 0 < t.from
    BY <1>3 DEF Shape, Tables
  <2> HIDE DEF s
  <2>3. QED
    BY <2>1, <2>2 DEF TableOf
<1>5. start <= t.from
  <2>1. start \in Nat /\ start \in Starts(func) /\ start <= t.jr /\ t.from \in Nat
    BY <1>1, <1>2, <1>3 DEF RInv, IInv, Types, Tables
  <2>2. CASE start = 1
    BY <1>4, <2>1, <2>2
  <2>3. CASE start \in func.labels
    <3>1. ~(t.from < start /\ start <= t.jr)
      BY <1>2, <2>3 DEF Followed, Usual
    <3>2. QED
      BY <2>1, <3>1
  <2>4. QED
    BY <2>1, <2>2, <2>3 DEF Starts
<1>6. Ins.s \in entries /\ Aimed(addend, mem[Ins.s], t.address, t)
  <2>1. Finds(tables, start, pc, mem, entries, addend, Ins.s, s)
    BY <1>2 DEF RInv
  <2>2. Depends(start, pc, s, t)
    BY <1>1, <1>2, <1>4, <1>5 DEF Depends
  <2> HIDE DEF s
  <2>3. QED
    BY <1>4, <2>1, <2>2 DEF Finds
<1>7. PICK x \in Int : addend[pc] = {x} /\ mem[Ins.s] = t.address + x
  BY <1>1, <1>6 DEF Aimed
<1>8. left' = IF x \in Cases(func, tables, t) THEN Word(func, t.address + x) ELSE Elsewhere
  BY <1>1, <1>7
<1>9. CpuMem[Ins.s] = Word(func, t.address + x)
  BY <1>2, <1>6, <1>7, CpuMemShape
<1>10. x \in Cases(func, tables, t) \/ ~Within(func, Word(func, t.address + x))
  BY <1>1, <1>2, <1>7 DEF Followed, Checked
<1>11. /\ phase' = "left" /\ func' = func /\ pc' = pc /\ CpuMem' = CpuMem
  BY DEF Switch, CpuMem
<1>12. Cpu!TJr
  BY <1>2, <1>8, <1>9, <1>10, <1>11, CpuOps DEF Cpu!TJr, Cpu!At, CpuMem, Ins
<1>13. QED
  BY <1>12 DEF Cpu!TNext

(* A jr without a table goes where its place says.                         *)
LEMMA TailCallMaps ==
  ASSUME IInv, RInv, TailCall
  PROVE  Cpu!TNext
<1>1. /\ phase = "run" /\ pc \in DOMAIN func.code /\ Ins.op = "jr" /\ Ins.s \in Places
      /\ pc \in 1..Len(states) - 1 /\ left' = mem[Ins.s]
  BY InsShape DEF TailCall
<1>2. ~states[pc][Ins.s].loaded
  <2>1. SUFFICES ASSUME states[pc][Ins.s].loaded PROVE FALSE
    OBVIOUS
  <2>2. TableOf(pc, states[pc][Ins.s]) \in tables
    BY <1>1, <2>1 DEF IInv, Found, Ins
  <2>3. QED
    BY <2>2 DEF TableOf, TailCall
<1>3. Ins.s \notin entries
  BY <1>1, <1>2 DEF RInv, Finds
<1>4. CpuMem[Ins.s] = left'
  BY <1>1, <1>3, CpuMemShape
<1>5. /\ phase' = "left" /\ func' = func /\ pc' = pc /\ CpuMem' = CpuMem
  BY DEF TailCall, CpuMem
<1>6. Cpu!TJr
  BY <1>1, <1>4, <1>5 DEF Cpu!TJr, Cpu!At, CpuMem, Ins
<1>7. QED
  BY <1>6 DEF Cpu!TNext

LEMMA InitMaps == Init => Cpu!TInit
<1> SUFFICES ASSUME Init PROVE Cpu!TInit
  OBVIOUS
<1>1. CpuMem \in [Places -> Int]
  BY DEF Init, CpuMem
<1>2. func \in FunctionRecords
  BY FunctionShape DEF Init
<1>3. QED
  BY <1>1, <1>2, CpuOps DEF Init, Cpu!TInit, CpuMem

LEMMA NextMaps ==
  ASSUME IInv, IInv', RInv, Followed, Next
  PROVE  [Cpu!TNext]_(Cpu!tvars)
<1>1. CASE Scan \/ Size
  <2>1. CpuMem' = CpuMem /\ (phase = "run") = (phase' = "run") /\ func' = func /\ pc' = pc /\ left' = left
    BY <1>1 DEF Scan, Size, cvars, CpuMem
  <2>2. QED
    BY <2>1 DEF Cpu!tvars, CpuMem
<1>2. QED
  BY <1>1, EnterMaps, ComputeMaps, AdduMaps, LoadMaps, OtherMaps, SwitchMaps, TailCallMaps DEF Next

(* FollowsCpu: for every function whose runs are Usual and Checked, the    *)
(* emitted C goes where the CPU goes (what analyze_function finds in one   *)
(* scan is true of every way control takes through it).                    *)
THEOREM Follows == Spec /\ []Followed => FollowsCpu
<1>1. Init => IInv /\ RInv
  BY InitInv
<1>2. IInv /\ RInv /\ Followed /\ [Next]_vars => (IInv /\ RInv)'
  <2> SUFFICES ASSUME IInv, RInv, Followed, [Next]_vars PROVE IInv' /\ RInv'
    OBVIOUS
  <2>1. CASE Next
    BY <2>1, NextInv, NextRInv
  <2>2. CASE UNCHANGED vars
    BY <2>2 DEF vars, IInv, Types, States, Found, RInv
  <2>3. QED
    BY <2>1, <2>2
<1>3. IInv /\ IInv' /\ RInv /\ Followed /\ [Next]_vars => [Cpu!TNext]_(Cpu!tvars)
  <2> SUFFICES ASSUME IInv, IInv', RInv, Followed, [Next]_vars PROVE [Cpu!TNext]_(Cpu!tvars)
    OBVIOUS
  <2>1. CASE UNCHANGED vars
    BY <2>1 DEF vars, Cpu!tvars
  <2>2. QED
    BY <2>1, NextMaps
<1>4. QED
  BY <1>1, <1>2, <1>3, InitMaps, PTL DEF Spec, FollowsCpu, Cpu!TSpec
=============================================================================
