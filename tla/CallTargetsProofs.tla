------------------------- MODULE CallTargetsProofs -------------------------
(***************************************************************************)
(* Calls bound once, sections loaded in any order: for every program whose *)
(* sections are Linked, however large, a call runs the code in memory at   *)
(* its address, and finds it.                                              *)
(***************************************************************************)
EXTENDS CallTargets, FiniteSetTheorems, SequenceTheorems, WellFoundedInduction, TLAPS

(* Where the game has a section is one of the places it loads it at.       *)
AtHome == \A s \in Indices(prog) : at[s] # Nowhere => at[s] \in prog.sections[s].homes

(* A section with a function running has not been loaded over.             *)
InMemory == \A k \in DOMAIN running : at[running[k][1]] # Nowhere

(* The hypotheses of the theorems: programs as a linker makes them.        *)
AllConsistent == \A p \in Programs : Consistent(p)
AllLinked     == \A p \in Programs : Linked(p)

-----------------------------------------------------------------------------
(* The least of a set of numbers. *)
LEMMA LeastNat ==
  ASSUME NEW T \in SUBSET Nat, T # {}
  PROVE  \E m \in T : \A n \in T : m <= n
<1> DEFINE R == OpToRel(<, Nat)
<1>1. IsWellFoundedOn(R, Nat)
  BY NatLessThanWellFounded DEF OpToRel
<1> HIDE DEF R
<1>2. \E x \in T : \A y \in T : ~ (<<y, x>> \in R)
  BY <1>1, WFMin, Zenon
<1>3. PICK m \in T : \A y \in T : ~ (<<y, m>> \in R)
  BY <1>2
<1>4. ASSUME NEW n \in T PROVE m <= n
  <2>1. <<n, m>> \notin R
    BY <1>3
  <2>2. n \in Nat /\ m \in Nat
    OBVIOUS
  <2>3. <<n, m>> \in R <=> n < m
    BY <2>2 DEF R, OpToRel
  <2>4. QED
    BY <2>1, <2>2, <2>3
<1>5. QED
  BY <1>4

LEMMA MinOf ==
  ASSUME NEW T \in SUBSET Nat, T # {}
  PROVE  Min(T) \in T
<1>1. \E m \in T : \A n \in T : m <= n
  BY LeastNat
<1>2. QED
  BY <1>1 DEF Min

(* A finite set with two different members is of more than one. *)
LEMMA OneMember ==
  ASSUME NEW S, IsFiniteSet(S), ~(Cardinality(S) > 1), NEW x \in S, NEW y \in S
  PROVE  x = y
<1>1. SUFFICES ASSUME x # y PROVE FALSE
  OBVIOUS
<1>2. IsFiniteSet({x}) /\ Cardinality({x}) = 1
  BY FS_Singleton
<1>3. Cardinality({x} \cup {y}) = 2 /\ IsFiniteSet({x} \cup {y})
  <2>1. y \notin {x}
    BY <1>1
  <2>2. /\ IsFiniteSet({x} \cup {y})
        /\ Cardinality({x} \cup {y}) = IF y \in {x} THEN Cardinality({x}) ELSE Cardinality({x}) + 1
    <3> DEFINE T == {x}
    <3>1. IsFiniteSet(T)
      BY <1>2
    <3> HIDE DEF T
    <3>2. /\ IsFiniteSet(T \cup {y})
          /\ Cardinality(T \cup {y}) = IF y \in T THEN Cardinality(T) ELSE Cardinality(T) + 1
      BY <3>1, FS_AddElement
    <3>3. QED
      BY <3>2 DEF T
  <2>3. QED
    BY <1>2, <2>1, <2>2
<1>4. Cardinality({x} \cup {y}) <= Cardinality(S)
  <2>1. {x} \cup {y} \in SUBSET S
    OBVIOUS
  <2>2. QED
    BY <2>1, FS_Subset
<1>5. Cardinality(S) \in Nat
  BY FS_CardinalityType
<1>6. QED
  BY <1>3, <1>4, <1>5

(* What the assumption on programs says of one of them. *)
LEMMA ProgramFacts ==
  ASSUME NEW p \in Programs
  PROVE  /\ p \in ProgramRecords
         /\ Room \in Nat
         /\ Indices(p) = 1..Len(p.sections) /\ Len(p.sections) \in Nat
         /\ DOMAIN p.symbols = 1..Len(p.symbols) /\ Len(p.symbols) \in Nat
         /\ DOMAIN p.sites = 1..Len(p.sites) /\ Len(p.sites) \in Nat
         /\ 1 \in Indices(p) /\ 0 \in p.sections[1].homes
         /\ \A s \in Indices(p) :
              /\ p.sections[s].ram \in Nat /\ p.sections[s].linked \in Nat
              /\ p.sections[s].size \in Nat /\ p.sections[s].size > 0
              /\ p.sections[s].relocatable \in BOOLEAN
              /\ p.sections[s].homes \subseteq Memory
              /\ \A b \in p.sections[s].homes : b + p.sections[s].size <= Room
         /\ \A i \in DOMAIN p.symbols :
              /\ p.symbols[i].section \in Indices(p)
              /\ p.symbols[i].vram \in Nat /\ p.symbols[i].off \in Nat
              /\ p.symbols[i].size \in Nat /\ p.symbols[i].kind \in Kinds
         /\ \A i \in DOMAIN p.sites :
              /\ p.sites[i].section \in Indices(p)
              /\ p.sites[i].vram \in Nat
              /\ p.sites[i].form \in {"jal", "branch", "pointer"}
              /\ p.sites[i].reloc \in Nat
              /\ p.sites[i].reloc # 0 => p.sites[i].reloc \in Indices(p)
              /\ p.sites[i].form = "pointer" => p.sites[i].reloc # 0
<1>1. /\ p \in ProgramRecords
      /\ Room \in Nat
      /\ p.sections # <<>> /\ 0 \in p.sections[1].homes
      /\ \A s \in DOMAIN p.sections : \A b \in p.sections[s].homes \cup {p.sections[s].ram} :
           b + p.sections[s].size <= Room
      /\ \A i \in DOMAIN p.symbols : p.symbols[i].section \in DOMAIN p.sections
      /\ \A i \in DOMAIN p.sites :
           /\ p.sites[i].section \in DOMAIN p.sections
           /\ p.sites[i].reloc \in {0} \cup DOMAIN p.sections
           /\ p.sites[i].form = "pointer" => p.sites[i].reloc # 0
  BY ProgramAssumption
<1>2. p.sections \in Seq(Sections) /\ p.symbols \in Seq(Symbols) /\ p.sites \in Seq(Sites)
  BY <1>1 DEF ProgramRecords
<1>3. /\ Indices(p) = 1..Len(p.sections) /\ Len(p.sections) \in Nat
      /\ DOMAIN p.symbols = 1..Len(p.symbols) /\ Len(p.symbols) \in Nat
      /\ DOMAIN p.sites = 1..Len(p.sites) /\ Len(p.sites) \in Nat
  BY <1>2 DEF Indices
<1>4. \A s \in Indices(p) : p.sections[s] \in Sections
  BY <1>2 DEF Indices
<1>5. \A i \in DOMAIN p.symbols : p.symbols[i] \in Symbols
  BY <1>2
<1>6. \A i \in DOMAIN p.sites : p.sites[i] \in Sites
  BY <1>2
<1>7. 1 \in Indices(p)
  BY <1>1, <1>2, <1>3
<1>8. Memory \subseteq Nat
  BY <1>1 DEF Memory
<1>9. \A s \in Indices(p) :
        /\ p.sections[s].ram \in Nat /\ p.sections[s].linked \in Nat
        /\ p.sections[s].size \in Nat /\ p.sections[s].size > 0
        /\ p.sections[s].relocatable \in BOOLEAN
        /\ p.sections[s].homes \subseteq Memory
        /\ \A b \in p.sections[s].homes : b + p.sections[s].size <= Room
  <2>1. SUFFICES ASSUME NEW s \in Indices(p)
                 PROVE  /\ p.sections[s].ram \in Nat /\ p.sections[s].linked \in Nat
                        /\ p.sections[s].size \in Nat /\ p.sections[s].size > 0
                        /\ p.sections[s].relocatable \in BOOLEAN
                        /\ p.sections[s].homes \subseteq Memory
                        /\ \A b \in p.sections[s].homes : b + p.sections[s].size <= Room
    OBVIOUS
  <2>2. p.sections[s] \in Sections
    BY <1>4
  <2>3. /\ p.sections[s].ram \in Memory /\ p.sections[s].linked \in Memory
        /\ p.sections[s].size \in Nat \ {0}
        /\ p.sections[s].relocatable \in BOOLEAN
        /\ p.sections[s].homes \subseteq Memory
    BY <2>2 DEF Sections
  <2>4. \A b \in p.sections[s].homes : b + p.sections[s].size <= Room
    BY <1>1 DEF Indices
  <2>5. p.sections[s].ram \in Nat /\ p.sections[s].linked \in Nat
    BY <1>8, <2>3
  <2>6. p.sections[s].size \in Nat /\ p.sections[s].size > 0
    BY <2>3
  <2>7. QED
    BY <2>3, <2>4, <2>5, <2>6, Zenon
<1>10. \A i \in DOMAIN p.symbols :
         /\ p.symbols[i].section \in Indices(p)
         /\ p.symbols[i].vram \in Nat /\ p.symbols[i].off \in Nat
         /\ p.symbols[i].size \in Nat /\ p.symbols[i].kind \in Kinds
  BY <1>1, <1>5, <1>8 DEF Symbols, Indices
<1>11. \A i \in DOMAIN p.sites :
         /\ p.sites[i].section \in Indices(p)
         /\ p.sites[i].vram \in Nat
         /\ p.sites[i].form \in {"jal", "branch", "pointer"}
         /\ p.sites[i].reloc \in Nat
         /\ p.sites[i].reloc # 0 => p.sites[i].reloc \in Indices(p)
         /\ p.sites[i].form = "pointer" => p.sites[i].reloc # 0
  BY <1>1, <1>6, <1>8 DEF Sites, Indices
<1>12. QED
  BY <1>1, <1>3, <1>7, <1>9, <1>10, <1>11

-----------------------------------------------------------------------------
(* A linked program's sections are where their symbols say. *)
LEMMA ConsistentFacts ==
  ASSUME NEW p \in Programs, Consistent(p)
  PROVE  /\ \A s \in Indices(p) :
              /\ Base(p, s) = p.sections[s].linked
              /\ ~RamAt(p, s, p.sections[s].linked + p.sections[s].size)
              /\ ~p.sections[s].relocatable =>
                   p.sections[s].homes = {p.sections[s].ram} /\ p.sections[s].linked = p.sections[s].ram
              /\ \A a : InSection(p, s, a) <=> LinkedAt(p, s, a) \/ RamAt(p, s, a)
         /\ \A i \in DOMAIN p.symbols :
              LET f == p.symbols[i]
                  n == p.sections[f.section].size
              IN  /\ f.off < n /\ f.off + f.size <= n
                  /\ f.vram = p.sections[f.section].linked + f.off
<1>1. \A s \in Indices(p) :
        /\ Base(p, s) = p.sections[s].linked
        /\ ~RamAt(p, s, p.sections[s].linked + p.sections[s].size)
        /\ ~p.sections[s].relocatable =>
             p.sections[s].homes = {p.sections[s].ram} /\ p.sections[s].linked = p.sections[s].ram
  <2>1. ASSUME NEW s \in Indices(p)
        PROVE  /\ Base(p, s) = p.sections[s].linked
               /\ ~RamAt(p, s, Base(p, s) + p.sections[s].size)
               /\ ~p.sections[s].relocatable =>
                    p.sections[s].homes = {p.sections[s].ram} /\ Base(p, s) = p.sections[s].ram
    BY Zenon DEF Consistent
  <2>2. QED
    BY <2>1, Zenon
<1>2. \A s \in Indices(p) : \A a : InSection(p, s, a) <=> LinkedAt(p, s, a) \/ RamAt(p, s, a)
  BY <1>1, Zenon DEF InSection, LinkedAt
<1>3. ASSUME NEW i \in DOMAIN p.symbols
      PROVE  LET f == p.symbols[i]
                 n == p.sections[f.section].size
             IN  /\ f.off < n /\ f.off + f.size <= n
                 /\ f.vram = p.sections[f.section].linked + f.off
  <2> DEFINE f == p.symbols[i]
  <2>1. /\ f.off < p.sections[f.section].size
        /\ f.off + f.size <= p.sections[f.section].size
        /\ f.vram - f.off = Base(p, f.section)
    BY Zenon DEF Consistent
  <2>2. f.section \in Indices(p) /\ f.vram \in Nat /\ f.off \in Nat
    BY ProgramFacts
  <2>3. Base(p, f.section) = p.sections[f.section].linked /\ p.sections[f.section].linked \in Nat
    BY <1>1, <2>2, ProgramFacts
  <2>4. f.vram = p.sections[f.section].linked + f.off
    BY <2>1, <2>2, <2>3
  <2>5. QED
    BY <2>1, <2>4
<1>4. QED
  BY <1>1, <1>2, <1>3

(* The code that is linked at an address in a section.                     *)
LEMMA MeantInside ==
  ASSUME NEW p \in Programs, Consistent(p), NEW s \in Indices(p), NEW a \in Nat,
         InSection(p, s, a)
  PROVE  Meant(p, s, a) \in 0..p.sections[s].size - 1
<1>1. LinkedAt(p, s, a) \/ RamAt(p, s, a)
  BY ConsistentFacts
<1>2. p.sections[s].ram \in Nat /\ p.sections[s].linked \in Nat /\ p.sections[s].size \in Nat
  BY ProgramFacts
<1>3. CASE LinkedAt(p, s, a)
  BY <1>2, <1>3 DEF LinkedAt, Covers, Meant
<1>4. CASE ~LinkedAt(p, s, a) /\ RamAt(p, s, a)
  BY <1>2, <1>4 DEF RamAt, Covers, Meant
<1>5. QED
  BY <1>1, <1>3, <1>4

(* A symbol is the code linked at its address in its section. *)
LEMMA SymbolPlace ==
  ASSUME NEW p \in Programs, Consistent(p), NEW i \in DOMAIN p.symbols,
         NEW s, s = p.symbols[i].section, NEW a, a = p.symbols[i].vram
  PROVE  /\ s \in Indices(p) /\ a \in Nat
         /\ InSection(p, s, a)
         /\ Function(p.symbols[i]) = <<s, Meant(p, s, a)>>
         /\ a = p.sections[s].linked + p.symbols[i].off
         /\ p.symbols[i].off < p.sections[s].size
<1>1. /\ p.symbols[i].section \in Indices(p)
      /\ p.symbols[i].vram \in Nat /\ p.symbols[i].off \in Nat
  BY ProgramFacts
<1>2. s \in Indices(p) /\ a \in Nat
  BY <1>1
<1>3. p.sections[s].linked \in Nat /\ p.sections[s].size \in Nat
  BY <1>2, ProgramFacts
<1>4. a = p.sections[s].linked + p.symbols[i].off /\ p.symbols[i].off < p.sections[s].size
  BY ConsistentFacts
<1>5. LinkedAt(p, s, a)
  <2>1. \A l, o, n \in Nat : o < n => l + o \in l..l + n - 1
    OBVIOUS
  <2>2. a \in p.sections[s].linked..p.sections[s].linked + p.sections[s].size - 1
    <3>1. p.sections[s].linked + p.symbols[i].off
             \in p.sections[s].linked..p.sections[s].linked + p.sections[s].size - 1
      BY <1>1, <1>3, <1>4, <2>1, Zenon
    <3>2. QED
      BY <1>4, <3>1, Zenon
  <2>3. QED
    BY <2>2 DEF LinkedAt, Covers
<1>6. InSection(p, s, a)
  BY <1>2, <1>5, ConsistentFacts
<1>7. Meant(p, s, a) = p.symbols[i].off
  <2>1. Meant(p, s, a) = a - p.sections[s].linked
    BY <1>5, Zenon DEF Meant
  <2>2. \A l, o \in Nat : (l + o) - l = o
    OBVIOUS
  <2>3. (p.sections[s].linked + p.symbols[i].off) - p.sections[s].linked
           = p.symbols[i].off
    BY <1>1, <1>3, <2>2, Zenon
  <2>4. QED
    BY <1>4, <2>1, <2>3, Zenon
<1>8. Function(p.symbols[i]) = <<s, Meant(p, s, a)>>
  BY <1>7 DEF Function
<1>9. QED
  BY <1>2, <1>4, <1>6, <1>8

(* So is the function made for a static: an alias of a symbol there, a     *)
(* part of a longer function, or the code decoded there.                   *)
LEMMA StaticPlace ==
  ASSUME NEW p \in Programs, Consistent(p), NEW s \in Indices(p), NEW a \in Nat,
         InSection(p, s, a)
  PROVE  StaticFunction(p, s, a) = <<s, Meant(p, s, a)>>
<1> DEFINE E == Exact(p, s, a)
           C == Containing(p, s, a)
<1>1. DOMAIN p.symbols \subseteq Nat
  BY ProgramFacts
<1>2. CASE E # {}
  <2>1. E \in SUBSET Nat
    BY <1>1 DEF Exact, Own
  <2>2. Min(E) \in E
    BY <1>2, <2>1, MinOf
  <2>3. /\ Min(E) \in DOMAIN p.symbols
        /\ p.symbols[Min(E)].section = s /\ p.symbols[Min(E)].vram = a
    BY <2>2 DEF Exact, Own
  <2>4. Function(p.symbols[Min(E)]) = <<s, Meant(p, s, a)>>
    BY <2>3, SymbolPlace
  <2>5. StaticFunction(p, s, a) = Function(p.symbols[Min(E)])
    BY <1>2 DEF StaticFunction
  <2>6. QED
    BY <2>4, <2>5
<1>3. CASE E = {} /\ C # {}
  <2> DEFINE i == Min(C)
             f == p.symbols[i]
  <2>1. C \in SUBSET Nat
    BY <1>1 DEF Containing
  <2>2. i \in C
    BY <1>3, <2>1, MinOf
  <2>3. i \in DOMAIN p.symbols /\ f.section = s /\ f.vram < a /\ a < f.vram + f.size
    BY <2>2 DEF Containing, Inside
  <2>4. /\ f.vram \in Nat /\ f.off \in Nat /\ f.size \in Nat
        /\ p.sections[s].linked \in Nat /\ p.sections[s].size \in Nat
    BY <2>3, ProgramFacts
  <2>5. f.vram = p.sections[s].linked + f.off /\ f.off + f.size <= p.sections[s].size
    BY <2>3, ConsistentFacts
  <2>6. StaticFunction(p, s, a) = <<s, f.off + (a - f.vram)>>
    BY <1>3 DEF StaticFunction
  <2> HIDE DEF i
  <2>7. a \in p.sections[s].linked..p.sections[s].linked + p.sections[s].size - 1
    BY <2>3, <2>4, <2>5
  <2>8. Meant(p, s, a) = a - p.sections[s].linked
    BY <2>7 DEF Meant, LinkedAt, Covers
  <2>9. f.off + (a - f.vram) = a - p.sections[s].linked
    BY <2>4, <2>5
  <2>10. QED
    BY <2>6, <2>8, <2>9
<1>4. CASE E = {} /\ C = {}
  <2>1. StaticFunction(p, s, a) = <<s, a - DecodeBase(p, s, a)>>
    BY <1>4 DEF StaticFunction
  <2>2. /\ Base(p, s) = p.sections[s].linked
        /\ ~RamAt(p, s, p.sections[s].linked + p.sections[s].size)
        /\ LinkedAt(p, s, a) \/ RamAt(p, s, a)
    BY ConsistentFacts
  <2>3. p.sections[s].ram \in Nat /\ p.sections[s].linked \in Nat /\ p.sections[s].size \in Nat
    BY ProgramFacts
  <2>4. LinkedAt(p, s, a) <=> a \in p.sections[s].linked..p.sections[s].linked + p.sections[s].size
    <3>1. LinkedAt(p, s, a) <=> a \in p.sections[s].linked..p.sections[s].linked + p.sections[s].size - 1
      BY DEF LinkedAt, Covers
    <3>2. a # p.sections[s].linked + p.sections[s].size \/ LinkedAt(p, s, a)
      BY <2>2
    <3>3. QED
      BY <2>3, <3>1, <3>2
  <2>5. DecodeBase(p, s, a) = IF LinkedAt(p, s, a) THEN p.sections[s].linked ELSE p.sections[s].ram
    BY <2>2, <2>4 DEF DecodeBase
  <2>6. a - DecodeBase(p, s, a) = Meant(p, s, a)
    BY <2>5 DEF Meant
  <2>7. QED
    BY <2>1, <2>6
<1>5. QED
  BY <1>2, <1>3, <1>4

-----------------------------------------------------------------------------
(* resolve_jal, case by case. *)
LEMMA ResolveCases ==
  ASSUME NEW p \in Programs, Consistent(p), NEW s \in Indices(p), NEW a \in Nat
  PROVE  /\ p.always => resolve_jal(p, s, a) = Ambiguous
         /\ ~p.always /\ InSection(p, s, a) =>
              \/ /\ resolve_jal(p, s, a) = Match(Min(Named(p, s, a)))
                 /\ Min(Named(p, s, a)) \in Own(p, s, a)
              \/ resolve_jal(p, s, a) = Static(s)
         /\ ~p.always /\ ~InSection(p, s, a) =>
              \/ resolve_jal(p, s, a) \in {Ambiguous, NoMatch}
              \/ \E j \in FixedHere(p, a) :
                   FixedHere(p, a) = {j} /\ resolve_jal(p, s, a) = Match(j)
              \/ \E r \in Indices(p) :
                   /\ Holders(p, a) = {r}
                   /\ \/ resolve_jal(p, s, a) = Static(r)
                      \/ \E j \in Own(p, r, a) : resolve_jal(p, s, a) = Match(j)
<1>1. DOMAIN p.symbols \subseteq Nat /\ IsFiniteSet(DOMAIN p.symbols)
  <2>1. DOMAIN p.symbols = 1..Len(p.symbols) /\ Len(p.symbols) \in Nat
    BY ProgramFacts
  <2>2. IsFiniteSet(1..Len(p.symbols))
    BY <2>1, FS_Interval
  <2>3. QED
    BY <2>1, <2>2
<1>2. Indices(p) \subseteq Nat /\ IsFiniteSet(Indices(p))
  <2>1. Indices(p) = 1..Len(p.sections) /\ Len(p.sections) \in Nat
    BY ProgramFacts
  <2>2. IsFiniteSet(1..Len(p.sections))
    BY <2>1, FS_Interval
  <2>3. QED
    BY <2>1, <2>2
<1>3. CASE p.always
  BY <1>3 DEF resolve_jal
<1>4. CASE ~p.always /\ InSection(p, s, a)
  <2>1. resolve_jal(p, s, a) =
          IF Named(p, s, a) # {} THEN Match(Min(Named(p, s, a))) ELSE Static(s)
    BY <1>4 DEF resolve_jal
  <2>2. Named(p, s, a) # {} => Min(Named(p, s, a)) \in Own(p, s, a)
    <3>1. Named(p, s, a) \subseteq Own(p, s, a) /\ Own(p, s, a) \subseteq DOMAIN p.symbols
      BY DEF Named, Own
    <3>2. Named(p, s, a) \in SUBSET Nat
      BY <1>1, <3>1
    <3>3. QED
      BY <3>1, <3>2, MinOf
  <2>3. QED
    BY <1>4, <2>1, <2>2
<1>5. CASE ~p.always /\ ~InSection(p, s, a)
  <2>1. Named(p, s, a) = {}
    <3>1. ASSUME NEW i \in Named(p, s, a) PROVE FALSE
      <4>1. i \in DOMAIN p.symbols /\ p.symbols[i].vram = a /\ p.symbols[i].section = s
        BY DEF Named, Own
      <4>2. InSection(p, s, a)
        BY <4>1, SymbolPlace
      <4>3. QED
        BY <1>5, <4>2
    <3>2. QED
      BY <3>1
  <2>2. Candidates(p, s, a) = FixedHere(p, a)
    BY <2>1 DEF Candidates
  <2>3. CASE FixedHere(p, a) # {}
    <3>1. resolve_jal(p, s, a) =
            IF Cardinality(FixedHere(p, a)) = 1 THEN Match(Min(FixedHere(p, a))) ELSE Ambiguous
      BY <1>5, <2>2, <2>3 DEF resolve_jal
    <3>2. FixedHere(p, a) \in SUBSET DOMAIN p.symbols
      BY DEF FixedHere
    <3>3. IsFiniteSet(FixedHere(p, a))
      BY <1>1, <3>2, FS_Subset
    <3>4. Min(FixedHere(p, a)) \in FixedHere(p, a)
      BY <1>1, <2>3, <3>2, MinOf
    <3>5. Cardinality(FixedHere(p, a)) = 1 => FixedHere(p, a) = {Min(FixedHere(p, a))}
      BY <3>3, <3>4, FS_Singleton
    <3>6. QED
      BY <1>5, <3>1, <3>4, <3>5
  <2>4. CASE FixedHere(p, a) = {}
    <3> DEFINE r == Min(Holders(p, a))
    <3>1. resolve_jal(p, s, a) =
            IF Holders(p, a) = {} THEN NoMatch
            ELSE IF Cardinality(Holders(p, a)) > 1 THEN Ambiguous
            ELSE IF Exact(p, r, a) # {} THEN Match(Min(Exact(p, r, a))) ELSE Static(r)
      BY <1>5, <2>2, <2>4 DEF resolve_jal
    <3> HIDE DEF r
    <3>2. Holders(p, a) \in SUBSET Indices(p)
      BY DEF Holders
    <3>3. IsFiniteSet(Holders(p, a))
      BY <1>2, <3>2, FS_Subset
    <3>4. Holders(p, a) # {} => r \in Holders(p, a)
      BY <1>2, <3>2, MinOf DEF r
    <3>5. Holders(p, a) # {} /\ ~(Cardinality(Holders(p, a)) > 1) => Holders(p, a) = {r}
      <4>1. SUFFICES ASSUME Holders(p, a) # {}, ~(Cardinality(Holders(p, a)) > 1),
                            NEW q \in Holders(p, a)
                     PROVE  q = r
        BY <3>4
      <4>2. QED
        BY <3>3, <3>4, <4>1, OneMember
    <3>6. Exact(p, r, a) # {} => Min(Exact(p, r, a)) \in Own(p, r, a)
      <4>1. Exact(p, r, a) \subseteq Own(p, r, a) /\ Own(p, r, a) \subseteq DOMAIN p.symbols
        BY DEF Exact, Own
      <4>2. Exact(p, r, a) \in SUBSET Nat
        BY <1>1, <4>1
      <4>3. QED
        BY <4>1, <4>2, MinOf
    <3>7. CASE Holders(p, a) = {} \/ Cardinality(Holders(p, a)) > 1
      BY <1>5, <3>1, <3>7
    <3>8. CASE Holders(p, a) # {} /\ ~(Cardinality(Holders(p, a)) > 1)
      <4>1. Holders(p, a) = {r} /\ r \in Indices(p)
        BY <3>2, <3>4, <3>5, <3>8
      <4>2. resolve_jal(p, s, a) =
              IF Exact(p, r, a) # {} THEN Match(Min(Exact(p, r, a))) ELSE Static(r)
        BY <3>1, <3>8
      <4>3. \/ resolve_jal(p, s, a) = Static(r)
            \/ \E j \in Own(p, r, a) : resolve_jal(p, s, a) = Match(j)
        BY <3>6, <4>2
      <4>4. QED
        BY <1>5, <4>1, <4>3
    <3>9. QED
      BY <3>7, <3>8
  <2>5. QED
    BY <2>3, <2>4
<1>6. QED
  BY <1>3, <1>4, <1>5

(* A name is put at a call only for a section that holds its address: the  *)
(* caller's target section, the only symbol of a section that never moves, *)
(* or the only section that holds it.                                      *)
Chosen(p, s, a, t) ==
  /\ t \in Indices(p) /\ InSection(p, t, a) /\ ~p.always
  /\ \/ InSection(p, s, a) /\ t = s
     \/ /\ ~InSection(p, s, a) /\ ~p.sections[t].relocatable
        /\ Cardinality(FixedHere(p, a)) = 1
     \/ ~InSection(p, s, a) /\ Holders(p, a) = {t}

LEMMA ResolveMatch ==
  ASSUME NEW p \in Programs, Consistent(p), NEW s \in Indices(p), NEW a \in Nat,
         resolve_jal(p, s, a).by = "match"
  PROVE  LET j == resolve_jal(p, s, a).symbol
             t == p.symbols[j].section
         IN  Chosen(p, s, a, t) /\ Function(p.symbols[j]) = <<t, Meant(p, t, a)>>
<1> DEFINE R == resolve_jal(p, s, a)
           t == p.symbols[R.symbol].section
<1>1. R \notin {Ambiguous, NoMatch} /\ \A r : R # Static(r)
  BY DEF Ambiguous, NoMatch, Static
<1>2. \A j : R = Match(j) => R.symbol = j
  BY DEF Match
<1>3. ~p.always
  BY <1>1, ResolveCases
<1>4. CASE InSection(p, s, a)
  <2>1. R.symbol \in Own(p, s, a)
    BY <1>1, <1>2, <1>3, <1>4, ResolveCases
  <2>2. R.symbol \in DOMAIN p.symbols /\ t = s /\ p.symbols[R.symbol].vram = a
    BY <2>1 DEF Own
  <2>3. Function(p.symbols[R.symbol]) = <<t, Meant(p, t, a)>>
    BY <2>2, SymbolPlace
  <2>4. QED
    BY <1>3, <1>4, <2>2, <2>3 DEF Chosen
<1>5. CASE ~InSection(p, s, a)
  <2>1. \/ \E j \in FixedHere(p, a) : FixedHere(p, a) = {j} /\ R = Match(j)
        \/ \E r \in Indices(p) : Holders(p, a) = {r} /\ \E j \in Own(p, r, a) : R = Match(j)
    BY <1>1, <1>3, <1>5, ResolveCases
  <2>2. CASE \E j \in FixedHere(p, a) : FixedHere(p, a) = {j} /\ R = Match(j)
    <3>1. R.symbol \in FixedHere(p, a) /\ FixedHere(p, a) = {R.symbol}
      BY <1>2, <2>2
    <3>2. /\ R.symbol \in DOMAIN p.symbols /\ p.symbols[R.symbol].vram = a
          /\ ~p.sections[t].relocatable
      BY <3>1 DEF FixedHere
    <3>3. t \in Indices(p) /\ InSection(p, t, a) /\ Function(p.symbols[R.symbol]) = <<t, Meant(p, t, a)>>
      BY <3>2, SymbolPlace
    <3>4. Cardinality(FixedHere(p, a)) = 1
      BY <3>1, FS_Singleton
    <3>5. QED
      BY <1>3, <1>5, <3>2, <3>3, <3>4 DEF Chosen
  <2>3. CASE \E r \in Indices(p) : Holders(p, a) = {r} /\ \E j \in Own(p, r, a) : R = Match(j)
    <3>1. PICK r \in Indices(p) : Holders(p, a) = {r} /\ \E j \in Own(p, r, a) : R = Match(j)
      BY <2>3
    <3>2. R.symbol \in Own(p, r, a)
      BY <1>2, <3>1
    <3>3. R.symbol \in DOMAIN p.symbols /\ t = r /\ p.symbols[R.symbol].vram = a
      BY <3>2 DEF Own
    <3>4. t \in Indices(p) /\ InSection(p, t, a) /\ Function(p.symbols[R.symbol]) = <<t, Meant(p, t, a)>>
      BY <3>3, SymbolPlace
    <3>5. QED
      BY <1>3, <1>5, <3>1, <3>3, <3>4 DEF Chosen
  <2>4. QED
    BY <2>1, <2>2, <2>3
<1>6. QED
  BY <1>4, <1>5

LEMMA ResolveStatic ==
  ASSUME NEW p \in Programs, Consistent(p), NEW s \in Indices(p), NEW a \in Nat,
         resolve_jal(p, s, a).by = "static"
  PROVE  LET t == resolve_jal(p, s, a).section
         IN  Chosen(p, s, a, t) /\ StaticFunction(p, t, a) = <<t, Meant(p, t, a)>>
<1> DEFINE R == resolve_jal(p, s, a)
           t == R.section
<1>1. R \notin {Ambiguous, NoMatch} /\ \A j : R # Match(j)
  BY DEF Ambiguous, NoMatch, Match
<1>2. \A r : R = Static(r) => t = r
  BY DEF Static
<1>3. ~p.always
  BY <1>1, ResolveCases
<1>4. CASE InSection(p, s, a)
  <2>1. t = s
    BY <1>1, <1>2, <1>3, <1>4, ResolveCases
  <2>2. QED
    BY <1>3, <1>4, <2>1, StaticPlace DEF Chosen
<1>5. CASE ~InSection(p, s, a)
  <2>1. PICK r \in Indices(p) : Holders(p, a) = {r} /\ R = Static(r)
    BY <1>1, <1>3, <1>5, ResolveCases
  <2>2. t = r
    BY <1>2, <2>1
  <2>3. InSection(p, t, a) /\ t \in Indices(p)
    BY <2>1, <2>2 DEF Holders
  <2>4. QED
    BY <1>3, <1>5, <2>1, <2>2, <2>3, StaticPlace DEF Chosen
<1>6. QED
  BY <1>4, <1>5

-----------------------------------------------------------------------------
(* The game's addresses and code are those of the module they share. *)
LEMMA GuestCode ==
  /\ \A p, w, a : Guest!CodeAt(p, w, a) = CodeAt(p, w, a)
  /\ \A p, s, a : Guest!Meant(p, s, a) = Meant(p, s, a)
  /\ \A p : Guest!Indices(p) = Indices(p)
  /\ Guest!Nowhere = Nowhere
<1>1. /\ \A p : Guest!Indices(p) = Indices(p)
      /\ \A b, n, a : Guest!Covers(b, n, a) = Covers(b, n, a)
      /\ Guest!Nowhere = Nowhere
  BY DEF Guest!Indices, Indices, Guest!Covers, Covers, Guest!Nowhere, Nowhere
<1>2. \A p, s, a : Guest!LinkedAt(p, s, a) = LinkedAt(p, s, a)
  BY <1>1, Zenon DEF Guest!LinkedAt, LinkedAt
<1>3. \A p, s, a : Guest!Meant(p, s, a) = Meant(p, s, a)
  BY <1>2, Zenon DEF Guest!Meant, Meant
<1>4. \A p, w, a : Guest!CodeAt(p, w, a) = CodeAt(p, w, a)
  BY <1>1, Zenon DEF Guest!CodeAt, CodeAt
<1>5. QED
  BY <1>1, <1>3, <1>4, Zenon

(* The types of what is loaded. *)
Mapped == prog \in Programs /\ at \in [Indices(prog) -> Memory \cup {Nowhere}] /\ AtHome

LEMMA LoadedFacts ==
  ASSUME Mapped, NEW s \in Indices(prog)
  PROVE  /\ at[s] \in Nat
         /\ at[s] # Nowhere => at[s] \in prog.sections[s].homes
<1>1. Room \in Nat /\ at[s] \in Memory \cup {Nowhere}
  BY ProgramFacts DEF Mapped
<1>2. at[s] \in Nat
  BY <1>1 DEF Memory, Nowhere
<1>3. QED
  BY <1>2 DEF Mapped, AtHome

(* A section that does not move is loaded where it was linked. *)
LEMMA FixedSection ==
  ASSUME Mapped, Consistent(prog), NEW t \in Indices(prog), NEW a \in Nat,
         ~prog.sections[t].relocatable
  PROVE  /\ at[t] # Nowhere => at[t] = prog.sections[t].ram
         /\ RamAt(prog, t, a) <=> InSection(prog, t, a)
         /\ InSection(prog, t, a) => prog.sections[t].ram + Meant(prog, t, a) = a
         /\ InSection(prog, t, a) => t \in Loadable(prog, a)
<1>1. /\ prog.sections[t].homes = {prog.sections[t].ram}
      /\ prog.sections[t].linked = prog.sections[t].ram
      /\ InSection(prog, t, a) <=> LinkedAt(prog, t, a) \/ RamAt(prog, t, a)
  BY ConsistentFacts DEF Mapped
<1>2. at[t] # Nowhere => at[t] = prog.sections[t].ram
  BY <1>1, LoadedFacts
<1>3. LinkedAt(prog, t, a) <=> RamAt(prog, t, a)
  BY <1>1 DEF LinkedAt, RamAt
<1>4. prog.sections[t].ram \in Nat
  BY ProgramFacts DEF Mapped
<1>5. InSection(prog, t, a) => prog.sections[t].ram + Meant(prog, t, a) = a
  BY <1>1, <1>4 DEF Meant
<1>6. InSection(prog, t, a) => t \in Loadable(prog, a)
  BY <1>1, <1>3 DEF Loadable, RamAt
<1>7. QED
  BY <1>1, <1>2, <1>3, <1>5, <1>6

(* The code linked at an address of a loaded section is where the section  *)
(* is, as far from its start.                                              *)
LEMMA CodeThere ==
  ASSUME Mapped, Consistent(prog), NEW t \in Indices(prog), NEW a \in Nat,
         InSection(prog, t, a), at[t] # Nowhere
  PROVE  <<t, Meant(prog, t, a)>> \in CodeAt(prog, at, at[t] + Meant(prog, t, a))
<1> DEFINE m == Meant(prog, t, a)
           n == prog.sections[t].size
<1>1. m \in 0..n - 1 /\ n \in Nat /\ at[t] \in Nat
  BY MeantInside, ProgramFacts, LoadedFacts DEF Mapped
<1> HIDE DEF m, n
<1>2. at[t] + m \in at[t]..at[t] + n - 1 /\ (at[t] + m) - at[t] = m
  BY <1>1
<1>3. Covers(at[t], prog.sections[t].size, at[t] + m)
  BY <1>2 DEF Covers, n
<1>4. <<t, (at[t] + m) - at[t]>> \in CodeAt(prog, at, at[t] + m)
  BY <1>3, Zenon DEF CodeAt
<1>5. QED
  BY <1>2, <1>4 DEF m

(* Where a call's address is in memory, a section is loaded. *)
LEMMA SomethingThere ==
  ASSUME Mapped, NEW a \in Nat, CodeAt(prog, at, a) # {}
  PROVE  \E r \in Loadable(prog, a) :
           at[r] # Nowhere /\ Covers(at[r], prog.sections[r].size, a)
<1>1. PICK r \in Indices(prog) : at[r] # Nowhere /\ Covers(at[r], prog.sections[r].size, a)
  BY DEF CodeAt
<1>2. at[r] \in prog.sections[r].homes
  BY <1>1, LoadedFacts
<1>3. QED
  BY <1>1, <1>2 DEF Loadable

(* The section a call is bound to is loaded when it is made, and the       *)
(* address called is where the code linked there is now.                   *)
LEMMA BoundRight ==
  ASSUME Mapped, Linked(prog), NEW i \in DOMAIN prog.sites,
         prog.sites[i].form # "pointer",
         at[prog.sites[i].section] # Nowhere, Guest!Present(prog.sites[i]),
         NEW t, Chosen(prog, TargetSection(prog.sites[i]), prog.sites[i].vram, t)
  PROVE  /\ t \in Indices(prog) /\ at[t] # Nowhere
         /\ Guest!Address(prog.sites[i]) = at[t] + Meant(prog, t, prog.sites[i].vram)
<1> DEFINE site == prog.sites[i]
           a    == site.vram
           s    == TargetSection(site)
<1>1. Consistent(prog) /\ Unambiguous(prog, i)
  BY DEF Linked
<1>2. /\ site.section \in Indices(prog) /\ a \in Nat
      /\ site.form \in {"jal", "branch"} /\ site.reloc \in Nat
      /\ site.reloc # 0 => site.reloc \in Indices(prog)
  BY ProgramFacts DEF Mapped
<1>3. t \in Indices(prog) /\ InSection(prog, t, a)
  BY DEF Chosen
<1>4. CASE site.reloc # 0
  <2>1. s = site.reloc /\ InSection(prog, s, a)
    <3>1. CASE site.form = "jal"
      <4>1. InSection(prog, site.reloc, a)
        BY <1>1, <1>4, <3>1 DEF Unambiguous
      <4>2. s = site.reloc
        BY <1>4, <3>1 DEF TargetSection
      <4>3. QED
        BY <4>1, <4>2
    <3>2. CASE site.form = "branch"
      BY <1>1, <1>4, <3>2 DEF Unambiguous
    <3>3. QED
      BY <1>2, <3>1, <3>2
  <2>2. t = s
    BY <2>1 DEF Chosen
  <2>3. at[site.reloc] # Nowhere
    BY <1>4, GuestCode DEF Guest!Present
  <2>4. Guest!Address(site) = at[site.reloc] + Meant(prog, site.reloc, a)
    BY <1>4, GuestCode DEF Guest!Address
  <2>5. QED
    BY <1>3, <2>1, <2>2, <2>3, <2>4
<1>5. CASE site.reloc = 0
  <2>1. s = site.section
    BY <1>5 DEF TargetSection
  <2>2. Guest!Address(site) = a
    BY <1>5 DEF Guest!Address
  <2>3. t \in Holders(prog, a)
    BY <1>3 DEF Holders
  <2>4. /\ \A r \in Loadable(prog, a) : ~prog.sections[r].relocatable
        /\ InSection(prog, s, a) => Loadable(prog, a) = {s} \/ ~prog.sections[s].relocatable
        /\ ~InSection(prog, s, a) /\ Cardinality(Loadable(prog, a)) > 1
             => Cardinality(FixedHere(prog, a)) # 1
    BY <1>1, <1>5, <2>3 DEF Unambiguous
  <2>5. CodeAt(prog, at, a) # {}
    BY <2>2, GuestCode DEF Guest!Present
  <2>6. PICK r \in Loadable(prog, a) : at[r] # Nowhere /\ Covers(at[r], prog.sections[r].size, a)
    BY <1>2, <2>5, SomethingThere
  <2>7. r \in Indices(prog) /\ ~prog.sections[r].relocatable
    BY <2>4, <2>6 DEF Loadable
  <2>8. at[r] = prog.sections[r].ram
    BY <1>1, <1>2, <2>6, <2>7, FixedSection
  <2>9. InSection(prog, r, a)
    BY <2>6, <2>8 DEF InSection, RamAt
  <2>10. ~prog.sections[t].relocatable /\ at[t] # Nowhere
    <3>1. CASE InSection(prog, s, a) /\ t = s
      BY <2>1, <2>4, <2>6, <2>7, <3>1
    <3>2. CASE /\ ~InSection(prog, s, a) /\ ~prog.sections[t].relocatable
               /\ Cardinality(FixedHere(prog, a)) = 1
      <4>1. t \in Loadable(prog, a)
        BY <1>1, <1>2, <1>3, <3>2, FixedSection
      <4>2. IsFiniteSet(Loadable(prog, a))
        <5>1. IsFiniteSet(Indices(prog))
          <6>1. Indices(prog) = 1..Len(prog.sections) /\ Len(prog.sections) \in Nat
            BY ProgramFacts DEF Mapped
          <6>2. IsFiniteSet(1..Len(prog.sections))
            BY <6>1, FS_Interval
          <6>3. QED
            BY <6>1, <6>2
        <5>2. Loadable(prog, a) \in SUBSET Indices(prog)
          BY DEF Loadable
        <5>3. QED
          BY <5>1, <5>2, FS_Subset
      <4>3. ~(Cardinality(Loadable(prog, a)) > 1)
        BY <2>4, <3>2
      <4>4. t = r
        BY <2>6, <4>1, <4>2, <4>3, OneMember
      <4>5. QED
        BY <2>6, <2>7, <4>4
    <3>3. CASE Holders(prog, a) = {t}
      <4>1. r \in Holders(prog, a)
        BY <2>7, <2>9 DEF Holders
      <4>2. QED
        BY <2>6, <2>7, <3>3, <4>1
    <3>4. QED
      BY <3>1, <3>2, <3>3 DEF Chosen
  <2>11. at[t] = prog.sections[t].ram /\ prog.sections[t].ram + Meant(prog, t, a) = a
    BY <1>1, <1>2, <1>3, <2>10, FixedSection
  <2>12. QED
    BY <1>3, <2>2, <2>10, <2>11
<1>6. QED
  BY <1>4, <1>5

-----------------------------------------------------------------------------
(* Where the address of a call comes from. *)
LEMMA SiteFacts ==
  ASSUME NEW p \in Programs, NEW i \in DOMAIN p.sites
  PROVE  /\ p.sites[i].section \in Indices(p) /\ p.sites[i].vram \in Nat
         /\ TargetSection(p.sites[i]) \in Indices(p)
         /\ Resolved(p, i).by # "lookup" =>
              /\ p.sites[i].form # "pointer"
              /\ Resolved(p, i) = resolve_jal(p, TargetSection(p.sites[i]), p.sites[i].vram)
<1>1. /\ p.sites[i].section \in Indices(p) /\ p.sites[i].vram \in Nat
      /\ p.sites[i].reloc # 0 => p.sites[i].reloc \in Indices(p)
  BY ProgramFacts
<1>2. TargetSection(p.sites[i]) \in Indices(p)
  BY <1>1 DEF TargetSection
<1>3. Ambiguous.by = "lookup"
  BY DEF Ambiguous
<1>4. QED
  BY <1>1, <1>2, <1>3 DEF Resolved

(* What a call by name enters is code of a section, as is what a lookup    *)
(* finds.                                                                  *)
Code(p) == {c \in Indices(p) \X Nat : c[2] \in 0..p.sections[c[1]].size - 1}

LEMMA NamedCode ==
  ASSUME NEW p \in Programs, Consistent(p), NEW i \in DOMAIN p.sites
  PROVE  /\ Resolved(p, i).by = "match" =>
              LET f == p.symbols[Resolved(p, i).symbol]
              IN  /\ Chosen(p, TargetSection(p.sites[i]), p.sites[i].vram, f.section)
                  /\ Function(f) = <<f.section, Meant(p, f.section, p.sites[i].vram)>>
                  /\ Function(f) \in Code(p)
         /\ Resolved(p, i).by = "static" =>
              LET t == Resolved(p, i).section
                  c == StaticFunction(p, t, p.sites[i].vram)
              IN  /\ Chosen(p, TargetSection(p.sites[i]), p.sites[i].vram, t)
                  /\ c = <<t, Meant(p, t, p.sites[i].vram)>>
                  /\ c \in Code(p)
<1> DEFINE a == p.sites[i].vram
           s == TargetSection(p.sites[i])
<1>1. s \in Indices(p) /\ a \in Nat
  BY SiteFacts
<1>2. ASSUME NEW t, Chosen(p, s, a, t)
      PROVE  <<t, Meant(p, t, a)>> \in Code(p)
  <2>1. t \in Indices(p) /\ InSection(p, t, a)
    BY <1>2 DEF Chosen
  <2>2. Meant(p, t, a) \in 0..p.sections[t].size - 1
    BY <1>1, <2>1, MeantInside
  <2>3. QED
    BY <2>1, <2>2 DEF Code
<1>3. CASE Resolved(p, i).by = "match"
  <2>1. Resolved(p, i) = resolve_jal(p, s, a)
    BY <1>3, SiteFacts
  <2>2. /\ Chosen(p, s, a, p.symbols[Resolved(p, i).symbol].section)
        /\ Function(p.symbols[Resolved(p, i).symbol])
             = <<p.symbols[Resolved(p, i).symbol].section,
                 Meant(p, p.symbols[Resolved(p, i).symbol].section, a)>>
    BY <1>1, <1>3, <2>1, ResolveMatch
  <2>3. QED
    BY <1>2, <1>3, <2>2
<1>4. CASE Resolved(p, i).by = "static"
  <2>1. Resolved(p, i) = resolve_jal(p, s, a)
    BY <1>4, SiteFacts
  <2>2. /\ Chosen(p, s, a, Resolved(p, i).section)
        /\ StaticFunction(p, Resolved(p, i).section, a)
             = <<Resolved(p, i).section, Meant(p, Resolved(p, i).section, a)>>
    BY <1>1, <1>4, <2>1, ResolveStatic
  <2>3. QED
    BY <1>2, <1>4, <2>2
<1>5. QED
  BY <1>3, <1>4

LEMMA LookedUpCode ==
  ASSUME Mapped, NEW a, NEW c \in CodeAt(prog, at, a)
  PROVE  c \in Code(prog) /\ at[c[1]] # Nowhere
<1>1. PICK s \in Indices(prog) :
        c = <<s, a - at[s]>> /\ at[s] # Nowhere /\ Covers(at[s], prog.sections[s].size, a)
  BY DEF CodeAt
<1>2. at[s] \in Nat /\ prog.sections[s].size \in Nat
  BY LoadedFacts, ProgramFacts DEF Mapped
<1>3. a - at[s] \in 0..prog.sections[s].size - 1
  BY <1>1, <1>2 DEF Covers
<1>4. QED
  BY <1>1, <1>3 DEF Code

-----------------------------------------------------------------------------
(* The types, with the code that runs as a stack: inductive if programs    *)
(* are Consistent, and together with InMemory if they are Linked.          *)
Stack == running \in Seq(Code(prog)) /\ Len(running) \in 1..MaxDepth
TInv  == Mapped /\ Stack /\ stopped \in BOOLEAN

LEMMA TInvTypeOK == TInv => TypeOK
<1> SUFFICES ASSUME TInv PROVE TypeOK
  OBVIOUS
<1>1. prog \in ProgramRecords
  BY ProgramFacts DEF TInv, Mapped
<1>2. ASSUME NEW k \in DOMAIN running
      PROVE  /\ running[k][1] \in Indices(prog)
             /\ running[k][2] \in 0..prog.sections[running[k][1]].size - 1
  <2>1. running[k] \in Code(prog)
    BY DEF TInv, Stack
  <2>2. QED
    BY <2>1 DEF Code
<1>3. QED
  BY <1>1, <1>2 DEF TInv, Mapped, Stack, TypeOK

LEMMA InitHolds == Init => TInv /\ InMemory
<1> SUFFICES ASSUME Init PROVE TInv /\ InMemory
  OBVIOUS
<1>1. /\ prog \in Programs /\ at = [s \in Indices(prog) |-> IF s = 1 THEN 0 ELSE Nowhere]
      /\ running = << <<1, 0>> >> /\ stopped = FALSE
  BY DEF Init
<1>2. /\ 1 \in Indices(prog) /\ 0 \in prog.sections[1].homes
      /\ prog.sections[1].homes \subseteq Memory
      /\ prog.sections[1].size \in Nat /\ prog.sections[1].size > 0 /\ Room \in Nat
  BY <1>1, ProgramFacts
<1>3. at \in [Indices(prog) -> Memory \cup {Nowhere}] /\ AtHome
  BY <1>1, <1>2 DEF AtHome
<1>4. <<1, 0>> \in Code(prog)
  BY <1>2 DEF Code
<1>5. Stack
  BY <1>1, <1>4, DepthAssumption DEF Stack
<1>6. 0 # Nowhere
  <2>1. 0 \in Memory
    BY <1>2
  <2>2. QED
    BY <1>2, <2>1 DEF Memory, Nowhere
<1>7. InMemory
  <2>1. SUFFICES ASSUME NEW k \in DOMAIN running PROVE at[running[k][1]] # Nowhere
    BY DEF InMemory
  <2>2. k = 1
    BY <1>1
  <2>3. at[1] = 0
    BY <1>1, <1>2
  <2>4. running[k][1] = 1
    BY <1>1, <2>2
  <2>5. QED
    BY <1>6, <2>3, <2>4
<1>8. QED
  BY <1>1, <1>3, <1>5, <1>7 DEF TInv, Mapped

(* Sections keep to their places. *)
LEMMA LoadKeeps ==
  ASSUME TInv, NEW s \in Indices(prog), NEW b \in prog.sections[s].homes, Load(s, b)
  PROVE  TInv' /\ (InMemory => InMemory')
<1> DEFINE over == Guest!Overlapping(prog, at, s, b)
<1>1. /\ prog' = prog /\ running' = running /\ stopped' = stopped
      /\ at' = [r \in Indices(prog) |-> IF r = s THEN b ELSE IF r \in over THEN Nowhere ELSE at[r]]
      /\ \A k \in DOMAIN running : running[k][1] \notin {s} \cup over
  BY GuestCode DEF Load, Guest!GLoad
<1> HIDE DEF over
<1>2. /\ b \in Memory
      /\ at \in [Indices(prog) -> Memory \cup {Nowhere}]
      /\ prog \in Programs
  BY ProgramFacts DEF TInv, Mapped
<1>3. at' \in [Indices(prog) -> Memory \cup {Nowhere}]
  BY <1>1, <1>2
<1>4. AtHome'
  BY <1>1 DEF TInv, Mapped, AtHome
<1>5. Mapped' /\ Stack'
  BY <1>1, <1>2, <1>3, <1>4, Zenon DEF TInv, Mapped, Stack
<1>6. ASSUME InMemory PROVE InMemory'
  <2>1. SUFFICES ASSUME NEW k \in DOMAIN running PROVE at'[running[k][1]] # Nowhere
    BY <1>1 DEF InMemory
  <2>2. at[running[k][1]] # Nowhere /\ running[k][1] \notin {s} \cup over
    BY <1>1, <1>6 DEF InMemory
  <2>3. running[k][1] \in Indices(prog)
    <3>1. running[k] \in Code(prog)
      BY DEF TInv, Stack
    <3>2. QED
      BY <3>1 DEF Code
  <2>4. QED
    BY <1>1, <2>2, <2>3
<1>7. QED
  BY <1>1, <1>5, <1>6 DEF TInv

(* A stack with its last element replaced, and with one more. *)
LEMMA Replaced ==
  ASSUME NEW C, NEW q \in Seq(C), NEW c \in C, Len(q) > 0,
         NEW w, w = [q EXCEPT ![Len(q)] = c]
  PROVE  /\ w \in Seq(C) /\ Len(w) = Len(q)
         /\ \A k \in DOMAIN w : w[k] = c \/ (k \in DOMAIN q /\ w[k] = q[k])
<1>1. Len(q) \in 1..Len(q)
  OBVIOUS
<1>2. /\ w \in Seq(C) /\ Len(w) = Len(q)
      /\ \A k \in 1..Len(q) : w[k] = IF k = Len(q) THEN c ELSE q[k]
  BY <1>1, ExceptSeq
<1>3. DOMAIN w = 1..Len(q) /\ DOMAIN q = 1..Len(q)
  BY <1>2
<1>4. ASSUME NEW k \in DOMAIN w PROVE w[k] = c \/ (k \in DOMAIN q /\ w[k] = q[k])
  <2>1. k \in 1..Len(q)
    BY <1>3
  <2>2. w[k] = c \/ w[k] = q[k]
    BY <1>2, <2>1
  <2>3. k \in DOMAIN q
    BY <1>3, <2>1
  <2>4. QED
    BY <2>2, <2>3, Zenon
<1>5. QED
  BY <1>2, <1>4

LEMMA Appended ==
  ASSUME NEW C, NEW q \in Seq(C), NEW c \in C, NEW w, w = Append(q, c)
  PROVE  /\ w \in Seq(C) /\ Len(w) = Len(q) + 1
         /\ \A k \in DOMAIN w : w[k] = c \/ (k \in DOMAIN q /\ w[k] = q[k])
<1>1. w \in Seq(C) /\ Len(w) = Len(q) + 1 /\ Len(q) \in Nat
  OBVIOUS
<1>2. w[Len(q) + 1] = c /\ \A k \in 1..Len(q) : w[k] = q[k]
  BY AppendProperties
<1>3. DOMAIN w = 1..Len(q) + 1 /\ DOMAIN q = 1..Len(q)
  BY <1>1
<1>4. \A k \in 1..Len(q) + 1 : k = Len(q) + 1 \/ k \in 1..Len(q)
  BY <1>1
<1>5. ASSUME NEW k \in DOMAIN w PROVE w[k] = c \/ (k \in DOMAIN q /\ w[k] = q[k])
  <2>1. k = Len(q) + 1 \/ k \in 1..Len(q)
    BY <1>3, <1>4
  <2>2. CASE k = Len(q) + 1
    BY <1>2, <2>2, Zenon
  <2>3. CASE k \in 1..Len(q)
    BY <1>2, <1>3, <2>3, Zenon
  <2>4. QED
    BY <2>1, <2>2, <2>3, Zenon
<1>6. QED
  BY <1>1, <1>5

(* A call enters code of a section. *)
LEMMA EnterKeeps ==
  ASSUME TInv, NEW i \in DOMAIN prog.sites, Calls(i), NEW code \in Code(prog), Enter(i, code)
  PROVE  TInv' /\ (InMemory /\ at[code[1]] # Nowhere => InMemory')
<1>1. /\ prog' = prog /\ at' = at /\ stopped' = stopped
      /\ prog.sites[i].form # "branch" => Len(running) < MaxDepth
  BY DEF Calls, Guest!Calls, Enter
<1>2. running \in Seq(Code(prog)) /\ Len(running) \in 1..MaxDepth /\ MaxDepth \in Nat
  BY DepthAssumption DEF TInv, Stack
<1> DEFINE n == Len(running)
<1>3. /\ running' \in Seq(Code(prog)) /\ Len(running') \in 1..MaxDepth
      /\ \A k \in DOMAIN running' :
           running'[k] = code \/ (k \in DOMAIN running /\ running'[k] = running[k])
  <2>1. CASE prog.sites[i].form = "branch"
    <3>1. running' = [running EXCEPT ![n] = code]
      BY <2>1 DEF Enter
    <3>2. QED
      BY <1>2, <3>1, Replaced
  <2>2. CASE prog.sites[i].form # "branch"
    <3>1. running' = Append(running, code)
      BY <2>2 DEF Enter
    <3>2. running' \in Seq(Code(prog)) /\ Len(running') = n + 1
      BY <1>2, <3>1, Appended
    <3>3. \A k \in DOMAIN running' :
            running'[k] = code \/ (k \in DOMAIN running /\ running'[k] = running[k])
      BY <1>2, <3>1, Appended
    <3>4. n + 1 \in 1..MaxDepth
      BY <1>1, <1>2, <2>2
    <3>5. QED
      BY <3>2, <3>3, <3>4
  <2>3. QED
    BY <2>1, <2>2
<1>4. Mapped' /\ Stack'
  <2>1. Mapped'
    BY <1>1, Zenon DEF TInv, Mapped, AtHome
  <2>2. Stack'
    BY <1>1, <1>3 DEF Stack
  <2>3. QED
    BY <2>1, <2>2
<1>5. ASSUME InMemory, at[code[1]] # Nowhere PROVE InMemory'
  BY <1>1, <1>3, <1>5 DEF InMemory
<1>6. QED
  BY <1>1, <1>4, <1>5 DEF TInv

LEMMA ReturnKeeps ==
  ASSUME TInv, Return
  PROVE  TInv' /\ (InMemory => InMemory')
<1>1. /\ prog' = prog /\ at' = at /\ stopped' = stopped
      /\ Len(running) > 1 /\ running' = SubSeq(running, 1, Len(running) - 1)
  BY DEF Return, Guest!GReturn
<1>2. running \in Seq(Code(prog)) /\ Len(running) \in 1..MaxDepth /\ MaxDepth \in Nat
  BY DepthAssumption DEF TInv, Stack
<1>3. /\ running' \in Seq(Code(prog)) /\ Len(running') = Len(running) - 1
      /\ \A k \in DOMAIN running' : k \in DOMAIN running /\ running'[k] = running[k]
  BY <1>1, <1>2
<1>4. Stack'
  BY <1>1, <1>2, <1>3 DEF Stack
<1>5. Mapped'
  BY <1>1, Zenon DEF TInv, Mapped, AtHome
<1>6. InMemory => InMemory'
  BY <1>1, <1>3 DEF InMemory
<1>7. QED
  BY <1>1, <1>4, <1>5, <1>6 DEF TInv

(* The host stops. *)
LEMMA StopKeeps ==
  ASSUME TInv, prog' = prog, at' = at, running' = running, stopped' = TRUE
  PROVE  TInv' /\ (InMemory => InMemory')
<1>1. Mapped'
  BY Zenon DEF TInv, Mapped, AtHome
<1>2. Stack'
  BY Zenon DEF TInv, Stack
<1>3. InMemory => InMemory'
  BY Zenon DEF InMemory
<1>4. QED
  BY <1>1, <1>2, <1>3 DEF TInv

-----------------------------------------------------------------------------
(* What a lookup is given is the address called. *)
LookupAddress(site) == IF site.form = "pointer" THEN Guest!Address(site) ELSE site.vram

(* The function that runs is code of a loaded section. *)
LEMMA CallerLoaded ==
  ASSUME TInv, InMemory, NEW i \in DOMAIN prog.sites, Calls(i)
  PROVE  at[prog.sites[i].section] # Nowhere /\ Guest!Present(prog.sites[i])
<1>1. prog.sites[i].section = running[Len(running)][1] /\ Guest!Present(prog.sites[i])
  BY DEF Calls, Guest!Calls, Guest!Inner
<1>2. running \in Seq(Code(prog)) /\ Len(running) \in 1..MaxDepth
  BY DEF TInv, Stack
<1>3. Len(running) \in DOMAIN running
  BY <1>2
<1>4. QED
  BY <1>1, <1>3 DEF InMemory

LEMMA NotRelocated ==
  ASSUME prog \in Programs, Linked(prog), NEW i \in DOMAIN prog.sites,
         prog.sites[i].form # "pointer", Resolved(prog, i).by = "lookup"
  PROVE  prog.sites[i].reloc = 0
<1> DEFINE site == prog.sites[i]
           s    == TargetSection(site)
<1>1. SUFFICES ASSUME site.reloc # 0 PROVE FALSE
  OBVIOUS
<1>2. Unambiguous(prog, i) /\ Consistent(prog)
  BY DEF Linked
<1>3. site.form \in {"jal", "branch"} /\ site.vram \in Nat /\ s \in Indices(prog)
  BY ProgramFacts, SiteFacts
<1>4. ~prog.always /\ InSection(prog, s, site.vram)
  <2>1. CASE site.form = "jal"
    <3>1. ~prog.always /\ InSection(prog, site.reloc, site.vram)
      BY <1>1, <1>2, <2>1 DEF Unambiguous
    <3>2. s = site.reloc
      BY <1>1, <2>1 DEF TargetSection
    <3>3. QED
      BY <3>1, <3>2
  <2>2. CASE site.form = "branch"
    BY <1>1, <1>2, <2>2 DEF Unambiguous
  <2>3. QED
    BY <1>3, <2>1, <2>2
<1>5. Resolved(prog, i) = resolve_jal(prog, s, site.vram)
  BY DEF Resolved
<1>6. (\E j : Resolved(prog, i) = Match(j)) \/ Resolved(prog, i) = Static(s)
  BY <1>2, <1>3, <1>4, <1>5, ResolveCases
<1>7. Resolved(prog, i).by \in {"match", "static"}
  BY <1>6 DEF Match, Static
<1>8. QED
  BY <1>7

(* What a call enters is the code in memory at its address. *)
LEMMA CallRight ==
  ASSUME TInv, InMemory, Linked(prog), NEW i \in DOMAIN prog.sites, Calls(i)
  PROVE  LET site == prog.sites[i]
             way  == Resolved(prog, i)
             here == CodeAt(prog, at, Guest!Address(site))
         IN  /\ way.by = "match"  => Function(prog.symbols[way.symbol]) \in here
             /\ way.by = "static" => StaticFunction(prog, way.section, site.vram) \in here
             /\ way.by = "lookup" => LookupAddress(site) = Guest!Address(site)
<1> DEFINE site == prog.sites[i]
           a    == site.vram
           way  == Resolved(prog, i)
           here == CodeAt(prog, at, Guest!Address(site))
<1>1. Mapped /\ prog \in Programs /\ Consistent(prog)
  BY DEF TInv, Mapped, Linked
<1>2. at[site.section] # Nowhere /\ Guest!Present(site)
  BY CallerLoaded
<1>3. a \in Nat
  BY <1>1, SiteFacts
<1>4. ASSUME NEW t, Chosen(prog, TargetSection(site), a, t), site.form # "pointer"
      PROVE  <<t, Meant(prog, t, a)>> \in here
  <2>1. /\ t \in Indices(prog) /\ at[t] # Nowhere
        /\ Guest!Address(site) = at[t] + Meant(prog, t, a)
    BY <1>1, <1>2, <1>4, BoundRight
  <2>2. InSection(prog, t, a)
    BY <1>4 DEF Chosen
  <2>3. QED
    BY <1>1, <1>3, <2>1, <2>2, CodeThere
<1>5. way.by = "match" => Function(prog.symbols[way.symbol]) \in here
  <2>1. SUFFICES ASSUME way.by = "match" PROVE Function(prog.symbols[way.symbol]) \in here
    OBVIOUS
  <2>2. site.form # "pointer"
    BY <1>1, <2>1, SiteFacts
  <2>3. /\ Chosen(prog, TargetSection(site), a, prog.symbols[way.symbol].section)
        /\ Function(prog.symbols[way.symbol])
             = <<prog.symbols[way.symbol].section, Meant(prog, prog.symbols[way.symbol].section, a)>>
    BY <1>1, <2>1, NamedCode
  <2>4. QED
    BY <1>4, <2>2, <2>3
<1>6. way.by = "static" => StaticFunction(prog, way.section, a) \in here
  <2>1. SUFFICES ASSUME way.by = "static" PROVE StaticFunction(prog, way.section, a) \in here
    OBVIOUS
  <2>2. site.form # "pointer"
    BY <1>1, <2>1, SiteFacts
  <2>3. /\ Chosen(prog, TargetSection(site), a, way.section)
        /\ StaticFunction(prog, way.section, a) = <<way.section, Meant(prog, way.section, a)>>
    BY <1>1, <2>1, NamedCode
  <2>4. QED
    BY <1>4, <2>2, <2>3
<1>7. way.by = "lookup" => LookupAddress(site) = Guest!Address(site)
  <2>1. SUFFICES ASSUME way.by = "lookup", site.form # "pointer" PROVE a = Guest!Address(site)
    BY DEF LookupAddress
  <2>2. site.reloc = 0
    BY <1>1, <2>1, NotRelocated
  <2>3. QED
    BY <2>2 DEF Guest!Address
<1>8. QED
  BY <1>5, <1>6, <1>7

-----------------------------------------------------------------------------
(* The calls, one way or the other, and the code they enter. *)
Entered(i, code) ==
  /\ Enter(i, code)
  /\ \/ Resolved(prog, i).by = "match" /\ code = Function(prog.symbols[Resolved(prog, i).symbol])
     \/ /\ Resolved(prog, i).by = "static"
        /\ code = StaticFunction(prog, Resolved(prog, i).section, prog.sites[i].vram)
     \/ /\ Resolved(prog, i).by = "lookup"
        /\ code \in CodeAt(prog, at, LookupAddress(prog.sites[i]))

Stops == prog' = prog /\ at' = at /\ running' = running /\ stopped' = TRUE

Call(i) == CallSymbol(i) \/ CallStatic(i) \/ CallLookup(i) \/ CallNothing(i)

LEMMA CallWays ==
  ASSUME NEW i \in DOMAIN prog.sites, Call(i)
  PROVE  Calls(i) /\ (Stops \/ \E code : Entered(i, code))
<1>1. ASSUME Calls(i) PROVE prog' = prog /\ at' = at
  BY <1>1 DEF Calls, Guest!Calls
<1>2. CASE CallSymbol(i)
  BY <1>2, Zenon DEF CallSymbol, Entered
<1>3. CASE CallStatic(i)
  <2>1. Calls(i) /\ Resolved(prog, i).by = "static"
    BY <1>3 DEF CallStatic
  <2>2. \/ Enter(i, StaticFunction(prog, Resolved(prog, i).section, prog.sites[i].vram))
        \/ stopped' = TRUE /\ UNCHANGED running
    BY <1>3 DEF CallStatic
  <2>3. QED
    BY <1>1, <2>1, <2>2, Zenon DEF Entered, Stops
<1>4. CASE CallLookup(i)
  <2>1. Calls(i) /\ Resolved(prog, i).by = "lookup"
    BY <1>4 DEF CallLookup
  <2>2. \/ \E code \in CodeAt(prog, at, LookupAddress(prog.sites[i])) : Enter(i, code)
        \/ stopped' = TRUE /\ UNCHANGED running
    BY <1>4 DEF CallLookup, LookupAddress
  <2>3. QED
    BY <1>1, <2>1, <2>2, Zenon DEF Entered, Stops
<1>5. CASE CallNothing(i)
  BY <1>1, <1>5, Zenon DEF CallNothing, Stops
<1>6. QED
  BY <1>2, <1>3, <1>4, <1>5 DEF Call

LEMMA EnteredCode ==
  ASSUME TInv, Consistent(prog), NEW i \in DOMAIN prog.sites, Calls(i), NEW code, Entered(i, code)
  PROVE  /\ code \in Code(prog)
         /\ InMemory /\ Linked(prog) =>
              code \in CodeAt(prog, at, Guest!Address(prog.sites[i])) /\ at[code[1]] # Nowhere
<1>1. Mapped /\ prog \in Programs
  BY DEF TInv, Mapped
<1>2. code \in Code(prog)
  BY <1>1, NamedCode, LookedUpCode DEF Entered
<1>3. ASSUME InMemory, Linked(prog)
      PROVE  code \in CodeAt(prog, at, Guest!Address(prog.sites[i]))
  BY <1>3, CallRight DEF Entered
<1>4. QED
  BY <1>1, <1>2, <1>3, LookedUpCode

LEMMA CallKeeps ==
  ASSUME TInv, Consistent(prog), NEW i \in DOMAIN prog.sites, Call(i)
  PROVE  TInv' /\ (InMemory /\ Linked(prog) => InMemory')
<1>1. Calls(i) /\ (Stops \/ \E code : Entered(i, code))
  BY CallWays
<1>2. CASE Stops
  BY <1>2, StopKeeps DEF Stops
<1>3. ASSUME NEW code, Entered(i, code)
      PROVE  TInv' /\ (InMemory /\ Linked(prog) => InMemory')
  <2>1. code \in Code(prog) /\ (InMemory /\ Linked(prog) => at[code[1]] # Nowhere)
    BY <1>1, <1>3, EnteredCode
  <2>2. Enter(i, code)
    BY <1>3 DEF Entered
  <2>3. QED
    BY <1>1, <2>1, <2>2, EnterKeeps
<1>4. QED
  BY <1>1, <1>2, <1>3

LEMMA NextCases ==
  Next <=> \/ \E s \in Indices(prog) : \E b \in prog.sections[s].homes : Load(s, b)
           \/ \E i \in DOMAIN prog.sites : Call(i)
           \/ Return
BY Zenon DEF Next, Call

(* A step keeps the program, and the invariant if the program is linked.   *)
LEMMA StepKeeps ==
  ASSUME TInv, Consistent(prog), [Next]_vars
  PROVE  TInv' /\ prog' = prog /\ (InMemory /\ Linked(prog) => InMemory')
<1>1. CASE UNCHANGED vars
  <2>1. prog' = prog /\ at' = at /\ running' = running /\ stopped' = stopped
    BY <1>1 DEF vars
  <2>2. QED
    BY <2>1, Zenon DEF TInv, Mapped, AtHome, Stack, InMemory
<1>2. ASSUME NEW s \in Indices(prog), NEW b \in prog.sections[s].homes, Load(s, b)
      PROVE  TInv' /\ prog' = prog /\ (InMemory => InMemory')
  <2>1. prog' = prog
    BY <1>2 DEF Load, Guest!GLoad
  <2>2. QED
    BY <1>2, <2>1, LoadKeeps
<1>3. ASSUME NEW i \in DOMAIN prog.sites, Call(i)
      PROVE  TInv' /\ prog' = prog /\ (InMemory /\ Linked(prog) => InMemory')
  <2>1. prog' = prog
    BY <1>3, CallWays DEF Calls, Guest!Calls
  <2>2. QED
    BY <1>3, <2>1, CallKeeps
<1>4. CASE Return
  <2>1. prog' = prog
    BY <1>4 DEF Return, Guest!GReturn
  <2>2. QED
    BY <1>4, <2>1, ReturnKeeps
<1>5. QED
  BY <1>1, <1>2, <1>3, <1>4, NextCases

-----------------------------------------------------------------------------
(* The game's own calls are calls of code that is there. *)
LEMMA GuestCalls ==
  ASSUME TInv, InMemory, Linked(prog), NEW i \in DOMAIN prog.sites, Call(i)
  PROVE  Guest!GCall(i) \/ Guest!GStop
<1>1. Calls(i) /\ (Stops \/ \E code : Entered(i, code))
  BY CallWays
<1>2. Guest!Calls(i) /\ ~stopped
  BY <1>1 DEF Calls, Guest!Calls
<1>3. CASE Stops
  BY <1>2, <1>3 DEF Stops, Guest!GStop
<1>4. ASSUME NEW code, Entered(i, code) PROVE Guest!GCall(i)
  <2>1. code \in CodeAt(prog, at, Guest!Address(prog.sites[i]))
    BY <1>1, <1>4, EnteredCode DEF Linked
  <2>2. code \in Guest!CodeAt(prog, at, Guest!Address(prog.sites[i]))
    BY <2>1, GuestCode
  <2>3. /\ running' = IF prog.sites[i].form = "branch" THEN [running EXCEPT ![Len(running)] = code]
                                                       ELSE Append(running, code)
        /\ UNCHANGED stopped
    BY <1>4 DEF Entered, Enter
  <2>4. QED
    BY <1>2, <2>2, <2>3, Zenon DEF Guest!GCall
<1>5. QED
  BY <1>1, <1>3, <1>4

LEMMA GuestStep ==
  ASSUME TInv, InMemory, Linked(prog), [Next]_vars
  PROVE  [Guest!GNext]_Guest!gvars
<1>1. CASE UNCHANGED vars
  BY <1>1 DEF vars, Guest!gvars
<1>2. ASSUME NEW s \in Indices(prog), NEW b \in prog.sections[s].homes, Load(s, b)
      PROVE  Guest!GNext
  BY <1>2, GuestCode DEF Load, Guest!GNext
<1>3. ASSUME NEW i \in DOMAIN prog.sites, Call(i) PROVE Guest!GNext
  BY <1>3, GuestCalls DEF Guest!GNext
<1>4. CASE Return
  BY <1>4 DEF Return, Guest!GNext
<1>5. QED
  BY <1>1, <1>2, <1>3, <1>4, NextCases

LEMMA GuestInit == Init => Guest!GInit
<1> SUFFICES ASSUME Init PROVE Guest!GInit
  OBVIOUS
<1>1. /\ prog \in Programs /\ at = [s \in Indices(prog) |-> IF s = 1 THEN 0 ELSE Nowhere]
      /\ running = << <<1, 0>> >> /\ stopped = FALSE
  BY DEF Init
<1>2. Guest!ProgramRecords = ProgramRecords
  BY Zenon DEF Guest!ProgramRecords, ProgramRecords, Guest!Sections, Sections, Guest!Symbols, Symbols,
         Guest!Sites, Sites, Guest!Kinds, Kinds, Guest!Memory, Memory
<1>3. prog \in Guest!ProgramRecords
  BY <1>1, <1>2, ProgramFacts
<1>4. QED
  BY <1>1, <1>3, GuestCode DEF Guest!GInit

-----------------------------------------------------------------------------
(* A section's table has what a symbol or a static of it is.               *)
LEMMA TableHas ==
  ASSUME NEW p \in Programs, Consistent(p), NEW s \in Indices(p), NEW a \in Nat,
         InSection(p, s, a), InTable(p, s, a)
  PROVE  <<s, Meant(p, s, a)>> \in Entries(p)
<1>1. CASE \E i \in Own(p, s, a) : p.symbols[i].kind \in {"code", "reimplemented"}
  <2>1. PICK i \in Own(p, s, a) : p.symbols[i].kind \in {"code", "reimplemented"}
    BY <1>1
  <2>2. i \in DOMAIN p.symbols /\ p.symbols[i].section = s /\ p.symbols[i].vram = a
    BY DEF Own
  <2>3. Function(p.symbols[i]) = <<s, Meant(p, s, a)>>
    BY <2>2, SymbolPlace
  <2>4. Function(p.symbols[i]) \in Entries(p)
    BY <2>1, <2>2, Zenon DEF Entries
  <2>5. QED
    BY <2>3, <2>4
<1>2. CASE <<s, a>> \in Statics(p) /\ Exact(p, s, a) = {}
  <2>1. StaticFunction(p, s, a) = <<s, Meant(p, s, a)>>
    BY StaticPlace
  <2>2. <<s, a>> \in {d \in Statics(p) : Exact(p, d[1], d[2]) = {}}
    BY <1>2
  <2>3. StaticFunction(p, <<s, a>>[1], <<s, a>>[2]) \in Entries(p)
    BY <2>2, Zenon DEF Entries
  <2>4. QED
    BY <2>1, <2>3
<1>3. QED
  BY <1>1, <1>2 DEF InTable

(* If the tables have the sections' code at an address, the lookup finds   *)
(* the section that is loaded.                                             *)
LEMMA LookupFinds ==
  ASSUME TInv, InMemory, Linked(prog), NEW i \in DOMAIN prog.sites, Calls(i),
         Listed(prog, i), Resolved(prog, i).by = "lookup"
  PROVE  CodeAt(prog, at, LookupAddress(prog.sites[i])) \cap Entries(prog) # {}
<1> DEFINE site == prog.sites[i]
           a    == site.vram
<1>1. Mapped /\ prog \in Programs /\ Consistent(prog) /\ Unambiguous(prog, i)
  BY DEF TInv, Mapped, Linked
<1>2. Guest!Present(site)
  BY CallerLoaded
<1>3. /\ a \in Nat /\ site.reloc \in Nat
      /\ site.reloc # 0 => site.reloc \in Indices(prog)
      /\ site.form = "pointer" => site.reloc # 0
  BY <1>1, ProgramFacts
<1>4. LookupAddress(site) = Guest!Address(site)
  BY CallRight
<1>5. /\ Holders(prog, a) # {}
      /\ \A s \in Indices(prog) :
           InSection(prog, s, a) /\ site.reloc \in {0, s} => InTable(prog, s, a)
  BY DEF Listed
<1>6. SUFFICES \E t \in Indices(prog) :
                 /\ InSection(prog, t, a) /\ site.reloc \in {0, t} /\ at[t] # Nowhere
                 /\ Guest!Address(site) = at[t] + Meant(prog, t, a)
  <2>1. PICK t \in Indices(prog) :
          /\ InSection(prog, t, a) /\ site.reloc \in {0, t} /\ at[t] # Nowhere
          /\ Guest!Address(site) = at[t] + Meant(prog, t, a)
    BY <1>6
  <2>2. <<t, Meant(prog, t, a)>> \in Entries(prog)
    BY <1>1, <1>3, <1>5, <2>1, TableHas
  <2>3. <<t, Meant(prog, t, a)>> \in CodeAt(prog, at, LookupAddress(site))
    BY <1>1, <1>3, <1>4, <2>1, CodeThere
  <2>4. QED
    BY <2>2, <2>3
<1>7. CASE site.form = "pointer"
  <2>1. InSection(prog, site.reloc, a)
    BY <1>1, <1>3, <1>7 DEF Unambiguous
  <2>2. at[site.reloc] # Nowhere
    BY <1>2, <1>3, <1>7, GuestCode DEF Guest!Present
  <2>3. Guest!Address(site) = at[site.reloc] + Meant(prog, site.reloc, a)
    BY <1>3, <1>7, GuestCode DEF Guest!Address
  <2>4. QED
    BY <1>3, <1>7, <2>1, <2>2, <2>3
<1>8. CASE site.form # "pointer"
  <2>1. site.reloc = 0
    BY <1>1, <1>8, NotRelocated
  <2>2. Guest!Address(site) = a
    BY <2>1 DEF Guest!Address
  <2>3. CodeAt(prog, at, a) # {}
    BY <1>2, <2>2, GuestCode DEF Guest!Present
  <2>4. PICK r \in Loadable(prog, a) : at[r] # Nowhere /\ Covers(at[r], prog.sections[r].size, a)
    BY <1>1, <1>3, <2>3, SomethingThere
  <2>5. \A q \in Loadable(prog, a) : ~prog.sections[q].relocatable
    BY <1>1, <1>5, <2>1 DEF Unambiguous
  <2>6. r \in Indices(prog) /\ ~prog.sections[r].relocatable
    BY <2>4, <2>5 DEF Loadable
  <2>7. at[r] = prog.sections[r].ram
    BY <1>1, <1>3, <2>4, <2>6, FixedSection
  <2>8. InSection(prog, r, a)
    BY <2>4, <2>7 DEF InSection, RamAt
  <2>9. at[r] + Meant(prog, r, a) = a
    BY <1>1, <1>3, <2>6, <2>7, <2>8, FixedSection
  <2>10. QED
    BY <2>1, <2>2, <2>4, <2>6, <2>8, <2>9
<1>9. QED
  BY <1>7, <1>8

(* A call whose target is Listed does not stop the host.                   *)
LEMMA CallGoesOn ==
  ASSUME TInv, InMemory, Linked(prog), NEW i \in DOMAIN prog.sites, Call(i), Listed(prog, i)
  PROVE  stopped' = stopped
<1>1. CASE CallSymbol(i)
  BY <1>1 DEF CallSymbol, Enter
<1>2. CASE CallStatic(i)
  <2>1. Resolved(prog, i).by = "static"
    BY <1>2 DEF CallStatic
  <2>2. <<Resolved(prog, i).section, prog.sites[i].vram>> \in Requested(prog)[i]
    BY <2>1 DEF Listed
  <2>3. QED
    BY <1>2, <2>2 DEF CallStatic, Enter
<1>3. CASE CallLookup(i)
  <2>1. Calls(i) /\ Resolved(prog, i).by = "lookup"
    BY <1>3 DEF CallLookup
  <2>2. CodeAt(prog, at, LookupAddress(prog.sites[i])) \cap Entries(prog) # {}
    BY <2>1, LookupFinds
  <2>3. \E code \in CodeAt(prog, at, LookupAddress(prog.sites[i])) : Enter(i, code)
    BY <1>3, <2>2 DEF CallLookup, LookupAddress
  <2>4. QED
    BY <2>3 DEF Enter
<1>4. CASE CallNothing(i)
  BY <1>4 DEF CallNothing, Listed
<1>5. QED
  BY <1>1, <1>2, <1>3, <1>4 DEF Call

-----------------------------------------------------------------------------
(* Programs whose sections are linked where their symbols say, whatever    *)
(* their calls: every call enters code of a section, never past its end,   *)
(* and the stack is bounded (resolve_jal, the static functions, the        *)
(* function tables).                                                       *)
THEOREM TypeCorrect == AllConsistent => (Spec => []TypeOK)
<1> SUFFICES ASSUME AllConsistent PROVE Spec => []TypeOK
  OBVIOUS
<1>1. Init => TInv
  BY InitHolds
<1>2. TInv /\ [Next]_vars => TInv'
  BY StepKeeps DEF AllConsistent, TInv, Mapped
<1>3. TInv => TypeOK
  BY TInvTypeOK
<1>4. QED
  BY <1>1, <1>2, <1>3, PTL DEF Spec

(* For linked programs of any size, with any sections, symbols and calls:  *)
(* a call bound by name, by a static function or by a lookup runs the code *)
(* that is in memory at its address, in whatever order sections are loaded *)
(* (emit_call_by_address over resolve_jal).                                *)
THEOREM CallsFollowLoader == AllLinked => (Spec => FollowsLoader)
<1> SUFFICES ASSUME AllLinked PROVE Spec => FollowsLoader
  OBVIOUS
<1> DEFINE Inv == TInv /\ InMemory
<1>1. Init => Inv /\ Guest!GInit
  BY InitHolds, GuestInit
<1>2. Inv => Linked(prog) /\ Consistent(prog)
  BY DEF AllLinked, Linked, TInv, Mapped
<1>3. Inv /\ [Next]_vars => Inv'
  BY <1>2, StepKeeps
<1>4. Inv /\ [Next]_vars => [Guest!GNext]_Guest!gvars
  BY <1>2, GuestStep
<1> HIDE DEF Inv
<1>5. QED
  BY <1>1, <1>3, <1>4, PTL DEF Spec, FollowsLoader, Guest!GSpec

(* And it finds that code, for every program: if it is linked and the      *)
(* function tables list the targets of its calls, no call stops the host   *)
(* (LOOKUP_FUNC, recomp_unhandled_call, recomp_unhandled_branch).          *)
THEOREM CallsFound == Spec => []AlwaysFound
<1> DEFINE Good == Linked(prog)
           All  == \A i \in DOMAIN prog.sites : Listed(prog, i)
           Inv  == prog \in Programs /\ (Good => TInv /\ InMemory) /\ (Good /\ All => ~stopped)
<1>1. Init => Inv
  <2> SUFFICES ASSUME Init PROVE Inv
    OBVIOUS
  <2>1. prog \in Programs /\ stopped = FALSE
    BY DEF Init
  <2>2. QED
    BY <2>1, InitHolds
<1>2. Inv /\ [Next]_vars => Inv'
  <2> SUFFICES ASSUME Inv, [Next]_vars PROVE Inv'
    OBVIOUS
  <2>1. prog' = prog
    <3>1. CASE UNCHANGED vars
      BY <3>1 DEF vars
    <3>2. ASSUME NEW s \in Indices(prog), NEW b \in prog.sections[s].homes, Load(s, b)
          PROVE  prog' = prog
      BY <3>2 DEF Load, Guest!GLoad
    <3>3. ASSUME NEW i \in DOMAIN prog.sites, Call(i) PROVE prog' = prog
      BY <3>3, CallWays DEF Calls, Guest!Calls
    <3>4. CASE Return
      BY <3>4 DEF Return, Guest!GReturn
    <3>5. QED
      BY <3>1, <3>2, <3>3, <3>4, NextCases
  <2>2. Good => TInv' /\ InMemory'
    BY StepKeeps DEF Linked
  <2>3. Good /\ All => ~stopped'
    <3> SUFFICES ASSUME Good, All PROVE stopped' = stopped
      OBVIOUS
    <3>1. CASE UNCHANGED vars
      BY <3>1 DEF vars
    <3>2. ASSUME NEW s \in Indices(prog), NEW b \in prog.sections[s].homes, Load(s, b)
          PROVE  stopped' = stopped
      BY <3>2 DEF Load, Guest!GLoad
    <3>3. ASSUME NEW i \in DOMAIN prog.sites, Call(i) PROVE stopped' = stopped
      BY <3>3, CallGoesOn
    <3>4. CASE Return
      BY <3>4 DEF Return, Guest!GReturn
    <3>5. QED
      BY <3>1, <3>2, <3>3, <3>4, NextCases
  <2>4. prog' \in Programs /\ (Linked(prog)' <=> Linked(prog))
        /\ ((\A i \in DOMAIN prog.sites : Listed(prog, i))' <=> \A i \in DOMAIN prog.sites : Listed(prog, i))
    BY <2>1
  <2>5. QED
    BY <2>2, <2>3, <2>4
<1>3. Inv => AlwaysFound
  BY DEF AlwaysFound
<1> HIDE DEF Inv
<1>4. QED
  BY <1>1, <1>2, <1>3, PTL DEF Spec
=============================================================================
