--------------------------- MODULE WorklistProofs ---------------------------
(***************************************************************************)
(* Proofs about the recompiler's two worklists: of statics to emit         *)
(* (StaticWorklist), for every set of places, sections and inputs; and of  *)
(* words to scan (FunctionBounds), for bodies of any length.               *)
(***************************************************************************)
EXTENDS StaticWorklist, FunctionBounds, WellFoundedInduction, TLAPS

(* What is still to be translated or handled has no definition yet.        *)
Undefined ==
  /\ \A f \in program.bodies \ translated : copies[Fn(f)] = 0
  /\ \A a \in Places \ handled : copies[Static(a)] = 0

OnceInv == TypeOK /\ DefinedOnce /\ Undefined

(* What has been translated or handled has one, unless it is data or, with *)
(* a file for every function, an alias.                                    *)
Emitted ==
  /\ \A a \in program.natives : copies[Fn(a)] > 0
  /\ ~failed => \A f \in translated : copies[Fn(f)] > 0
  /\ ~failed => \A a \in handled :
       \/ copies[Static(a)] > 0
       \/ a \in program.data \ Known(program)
       \/ program.ownFiles /\ a \in Known(program)

Progress ==
  /\ section > 0 => translated = program.bodies
  /\ failed => section <= Last
  /\ synthetic \cap (Known(program) \cup program.data) = {}
  /\ program.ownFiles \/ open

(* A static the output names is code, is asked for, and is not left behind *)
(* in a section already done.                                              *)
Awaited(a) ==
  /\ a \in requested \ program.data
  /\ program.ownFiles => a \notin Known(program)
  /\ Section[a] < section => a \in handled

Accounted ==
  /\ \A a \in Places : Fn(a) \in named => a \in Known(program)
  /\ \A a \in Places : Static(a) \in named => Awaited(a)
  /\ \A f \in translated \ program.fails : Called(f) \subseteq named

MissingInv == TypeOK /\ Progress /\ Emitted /\ Accounted

-----------------------------------------------------------------------------
LEMMA Naming ==
  /\ \A a \in Places : Fn(a) \in Names /\ Static(a) \in Names
  /\ \A a, b \in Places : Fn(a) # Static(b)
  /\ \A a, b \in Places : Fn(a) = Fn(b) => a = b
  /\ \A a, b \in Places : Static(a) = Static(b) => a = b
  /\ \A n \in Names : \E a \in Places : n = Fn(a) \/ n = Static(a)
<1>1. \A a \in Places : Fn(a) \in Names /\ Static(a) \in Names
  BY DEF Fn, Static, Names
<1>2. \A a, b \in Places : Fn(a) # Static(b)
  BY DEF Fn, Static
<1>3. \A a, b \in Places : (Fn(a) = Fn(b) => a = b) /\ (Static(a) = Static(b) => a = b)
  BY DEF Fn, Static
<1>4. \A n \in Names : \E a \in Places : n = Fn(a) \/ n = Static(a)
  BY DEF Fn, Static, Names
<1> QED BY <1>1, <1>2, <1>3, <1>4

(* The parts of an input, and what their shape guarantees.                 *)
LEMMA Parts ==
  ASSUME TypeOK
  PROVE  /\ program.bodies \subseteq Places /\ program.natives \subseteq Places
         /\ program.data \subseteq Places /\ program.fails \subseteq Places
         /\ program.bodies \cap program.natives = {}
         /\ Known(program) = program.bodies \cup program.natives
         /\ \A a \in Places :
              /\ program.calls[a] \subseteq Places /\ program.links[a] \subseteq Places
              /\ program.calls[a] \cap program.data = {}
              /\ program.owner[a] \in Places
              /\ program.owner[a] # a => program.owner[a] \in program.bodies
              /\ Section[program.owner[a]] = Section[a]
              /\ Section[a] \in 1..Last
<1>1. program \in Inputs /\ WellFormed(program) /\ Section \in [Places -> 1..Last]
  BY WorklistAssumption DEF TypeOK
<1> QED BY <1>1 DEF Inputs, WellFormed, Known

LEMMA AskedPlaces == ASSUME TypeOK, NEW u \in Places PROVE Asked(u) \subseteq Places
BY Parts DEF Asked, Created

LEMMA CalledNames == ASSUME TypeOK, NEW u \in Places PROVE Called(u) \subseteq Names
<1>1. \A a \in program.calls[u] : a \in Places
  BY Parts
<1>2. \A a \in program.calls[u] : NameOf(a, Section[u]) \in Names
  BY <1>1, Naming DEF NameOf
<1> QED BY <1>2 DEF Called

(* Defining a name leaves the others alone.                                *)
LEMMA DefineOne ==
  ASSUME TypeOK, NEW n \in Names, Define(n)
  PROVE  /\ copies' \in [Names -> 0..2]
         /\ copies'[n] = IF copies[n] = 0 THEN 1 ELSE 2
         /\ \A k \in Names : k # n => copies'[k] = copies[k]
BY DEF TypeOK, Define

(* What translating a unit under a name does, whether it succeeds or not.  *)
LEMMA RecompileEffect ==
  ASSUME TypeOK, NEW u \in Places, NEW n \in Names, Recompile(u, n)
  PROVE  /\ requested \subseteq requested' /\ requested' \subseteq Places
         /\ named' \subseteq Names /\ failed' \in BOOLEAN
         /\ copies' \in [Names -> 0..2]
         /\ copies' = copies \/ Define(n)
         /\ failed' = failed \/ (failed' = TRUE)
<1>1. Asked(u) \subseteq Places /\ Called(u) \subseteq Names
  BY AskedPlaces, CalledNames
<1>2. requested \subseteq Places /\ named \subseteq Names /\ failed \in BOOLEAN /\ copies \in [Names -> 0..2]
  BY DEF TypeOK
<1>3. CASE Translate(u, n)
  BY <1>1, <1>2, <1>3, DefineOne DEF Translate
<1>4. CASE GiveUp(u, n)
  <2>1. requested \subseteq requested' /\ requested' \subseteq Places
    BY <1>1, <1>2, <1>4 DEF GiveUp
  <2>2. copies' \in [Names -> 0..2] /\ (copies' = copies \/ Define(n)) /\ failed' \in BOOLEAN
          /\ (failed' = failed \/ failed' = TRUE)
    BY <1>2, <1>4, DefineOne DEF GiveUp
  <2>3. named' \subseteq Names
    BY <1>2, <1>4 DEF GiveUp
  <2> QED BY <1>2, <2>1, <2>2, <2>3
<1> QED BY <1>3, <1>4 DEF Recompile

-----------------------------------------------------------------------------
(* An input's own shape never changes.                                     *)
LEMMA SameProgram == ASSUME [Next]_vars PROVE program' = program
BY DEF Next, vars, KnownFunction, Alias, DropData, StaticFunction, NextSection

LEMMA TypeInit == Init => TypeOK
<1> SUFFICES ASSUME Init PROVE TypeOK
  OBVIOUS
<1>1. program \in Inputs
  BY WorklistAssumption DEF Init
<1>2. requested \subseteq Places
  BY <1>1 DEF Init, Inputs
<1>3. copies \in [Names -> 0..2]
  BY DEF Init
<1>4. section \in 0..Last + 1
  BY WorklistAssumption DEF Init
<1> QED BY <1>2, <1>3, <1>4 DEF Init, TypeOK

(* What a step that handles the statics takes from those still to be done. *)
LEMMA TodoPlaces ==
  ASSUME TypeOK, NEW a \in Todo
  PROVE  a \in Places /\ a \in requested /\ a \notin handled /\ Section[a] = section
BY DEF TypeOK, Todo

LEMMA TypeNext == ASSUME TypeOK, [Next]_vars PROVE TypeOK'
<1>1. program' \in Programs
  BY SameProgram DEF TypeOK
<1>2. CASE KnownFunction
  <2>1. PICK f \in program.bodies \ translated :
          Recompile(f, Fn(f)) /\ translated' = translated \cup {f}
    BY <1>2 DEF KnownFunction
  <2>2. f \in Places /\ Fn(f) \in Names
    BY <2>1, Parts, Naming
  <2> QED BY <1>1, <1>2, <2>1, <2>2, RecompileEffect, SameProgram DEF KnownFunction, TypeOK
<1>3. CASE Alias
  <2>1. PICK a \in Todo \cap Known(program) :
          /\ handled' = handled \cup {a}
          /\ IF open THEN Define(Static(a)) /\ named' = named \cup {Fn(a)}
                     ELSE UNCHANGED <<copies, named>>
    BY <1>3 DEF Alias
  <2>2. a \in Places /\ a \in requested /\ Static(a) \in Names /\ Fn(a) \in Names
    BY <2>1, TodoPlaces, Naming
  <2>3. copies' \in [Names -> 0..2] /\ named' \subseteq Names
    BY <2>1, <2>2, DefineOne DEF TypeOK
  <2> QED BY <1>1, <1>3, <2>1, <2>2, <2>3 DEF Alias, TypeOK
<1>4. CASE DropData
  BY <1>1, <1>4, TodoPlaces DEF DropData, TypeOK
<1>5. CASE StaticFunction
  <2>1. PICK a \in Todo \ (Known(program) \cup program.data) :
          /\ synthetic' = synthetic \cup {a}
          /\ Recompile(program.owner[a], Static(a))
          /\ handled' = handled \cup {a}
    BY <1>5 DEF StaticFunction
  <2>2. a \in Places /\ a \in requested /\ Static(a) \in Names /\ program.owner[a] \in Places
    BY <2>1, TodoPlaces, Naming, Parts
  <2>3. requested \subseteq requested' /\ requested' \subseteq Places
        /\ named' \subseteq Names /\ failed' \in BOOLEAN /\ copies' \in [Names -> 0..2]
    BY <2>1, <2>2, RecompileEffect
  <2> QED BY <1>1, <1>5, <2>1, <2>2, <2>3 DEF StaticFunction, TypeOK
<1>6. CASE NextSection
  BY <1>1, <1>6, WorklistAssumption DEF NextSection, TypeOK
<1>7. CASE UNCHANGED vars
  BY <1>7 DEF vars, TypeOK
<1> QED BY <1>2, <1>3, <1>4, <1>5, <1>6, <1>7 DEF Next

-----------------------------------------------------------------------------
LEMMA OnceInit == Init => OnceInv
<1> SUFFICES ASSUME Init PROVE OnceInv
  OBVIOUS
<1>1. TypeOK
  BY TypeInit
<1>2. \A n \in Names : copies[n] = IF \E a \in program.natives : n = Fn(a) THEN 1 ELSE 0
  BY DEF Init
<1>3. DefinedOnce
  BY <1>2 DEF DefinedOnce
<1>4. ASSUME NEW f \in program.bodies PROVE copies[Fn(f)] = 0
  <2>1. \A a \in program.natives : Fn(f) # Fn(a)
    BY <1>1, Parts, Naming
  <2> QED BY <1>1, <1>2, <2>1, Parts, Naming
<1>5. ASSUME NEW a \in Places PROVE copies[Static(a)] = 0
  <2>1. \A b \in program.natives : Static(a) # Fn(b)
    BY <1>1, Parts, Naming
  <2> QED BY <1>2, <2>1, Naming
<1> QED BY <1>1, <1>3, <1>4, <1>5 DEF OnceInv, Undefined

(* Defining a name that has no definition yet.                             *)
LEMMA DefineFresh ==
  ASSUME TypeOK, DefinedOnce, NEW n \in Names, copies[n] = 0, copies' = copies \/ Define(n)
  PROVE  DefinedOnce' /\ \A k \in Names : k # n => copies'[k] = copies[k]
BY DefineOne DEF DefinedOnce

LEMMA OnceNext == ASSUME OnceInv, [Next]_vars PROVE OnceInv'
<1>0. TypeOK /\ DefinedOnce /\ Undefined /\ TypeOK' /\ program' = program
  BY TypeNext, SameProgram DEF OnceInv
<1>p. program.bodies \subseteq Places
  BY <1>0, Parts
<1>1. CASE KnownFunction
  <2>1. PICK f \in program.bodies \ translated :
          Recompile(f, Fn(f)) /\ translated' = translated \cup {f}
    BY <1>1 DEF KnownFunction
  <2>2. f \in Places /\ Fn(f) \in Names /\ copies[Fn(f)] = 0
    BY <1>0, <1>p, <2>1, Naming DEF Undefined
  <2>3. copies' = copies \/ Define(Fn(f))
    BY <1>0, <2>1, <2>2, RecompileEffect
  <2>4. DefinedOnce' /\ \A k \in Names : k # Fn(f) => copies'[k] = copies[k]
    BY <1>0, <2>2, <2>3, DefineFresh
  <2>5. \A g \in program.bodies \ translated' : copies'[Fn(g)] = 0
    BY <1>0, <1>p, <2>1, <2>2, <2>4, Naming DEF Undefined
  <2>6. \A a \in Places \ handled' : copies'[Static(a)] = 0
    BY <1>0, <1>1, <2>2, <2>4, Naming DEF Undefined, KnownFunction
  <2> QED BY <1>0, <2>4, <2>5, <2>6 DEF OnceInv, Undefined
<1>2. ASSUME NEW a \in Todo, handled' = handled \cup {a}, translated' = translated,
             copies' = copies \/ Define(Static(a))
      PROVE  OnceInv'
  <2>1. a \in Places /\ Static(a) \in Names /\ copies[Static(a)] = 0
    BY <1>0, TodoPlaces, Naming DEF Undefined
  <2>2. DefinedOnce' /\ \A k \in Names : k # Static(a) => copies'[k] = copies[k]
    BY <1>0, <1>2, <2>1, DefineFresh
  <2>3. \A f \in program.bodies \ translated' : copies'[Fn(f)] = 0
    BY <1>0, <1>p, <1>2, <2>1, <2>2, Naming DEF Undefined
  <2>4. \A b \in Places \ handled' : copies'[Static(b)] = 0
    BY <1>0, <1>2, <2>1, <2>2, Naming DEF Undefined
  <2> QED BY <1>0, <2>2, <2>3, <2>4 DEF OnceInv, Undefined
<1>3. CASE Alias
  BY <1>2, <1>3 DEF Alias
<1>4. CASE DropData
  BY <1>2, <1>4 DEF DropData
<1>5. CASE StaticFunction
  <2>1. PICK a \in Todo \ (Known(program) \cup program.data) :
          Recompile(program.owner[a], Static(a)) /\ handled' = handled \cup {a}
    BY <1>5 DEF StaticFunction
  <2>2. program.owner[a] \in Places /\ Static(a) \in Names
    BY <1>0, <2>1, TodoPlaces, Parts, Naming
  <2>3. copies' = copies \/ Define(Static(a))
    BY <1>0, <2>1, <2>2, RecompileEffect
  <2> QED BY <1>2, <1>5, <2>1, <2>3 DEF StaticFunction
<1>6. CASE NextSection \/ UNCHANGED vars
  BY <1>0, <1>6 DEF NextSection, vars, OnceInv, DefinedOnce, Undefined
<1> QED BY <1>1, <1>3, <1>4, <1>5, <1>6 DEF Next

(* The states keep their types, and statics are appended only once asked   *)
(* for, whatever the program, its sections and its files.                  *)
THEOREM TypeCorrect == Spec => []TypeOK
<1>1. Init => TypeOK
  BY TypeInit
<1>2. TypeOK /\ [Next]_vars => TypeOK'
  BY TypeNext
<1> QED BY <1>1, <1>2, PTL DEF Spec

(* No name is defined twice in the emitted C, in any program: an address   *)
(* asked for again, before or after it is handled, is not emitted again.   *)
THEOREM EmittedOnce == Spec => []DefinedOnce
<1>1. Init => OnceInv
  BY OnceInit
<1>2. OnceInv /\ [Next]_vars => OnceInv'
  BY OnceNext
<1>3. OnceInv => DefinedOnce
  BY DEF OnceInv
<1> QED BY <1>1, <1>2, <1>3, PTL DEF Spec

-----------------------------------------------------------------------------
AllForward == \A p \in Programs : Forward(p)

(* What a name is depends on the input alone: a static that is appended    *)
(* keeps the name by which it was asked for.                               *)
LEMMA FixedName ==
  ASSUME Progress, NEW a, NEW from
  PROVE  NameOf(a, from) = IF a \in program.bodies \/ (a \in program.natives /\ Section[a] # from)
                             THEN Fn(a) ELSE Static(a)
BY DEF Progress, NameOf, Matches, Known

LEMMA FixedCalled ==
  ASSUME Progress, program' = program, NEW u,
         synthetic' \cap (Known(program) \cup program.data) = {}
  PROVE  Called(u)' = Called(u)
<1>1. ASSUME NEW a PROVE NameOf(a, Section[u])' = NameOf(a, Section[u])
  BY DEF Progress, NameOf, Matches, Known
<1> QED BY <1>1 DEF Called

(* A function the code names is known; a static is asked for, and an alias *)
(* only of a reimplemented symbol of the same section.                     *)
LEMMA CalledFn ==
  ASSUME TypeOK, Progress, NEW u \in Places, NEW b \in Places, Fn(b) \in Called(u)
  PROVE  b \in Known(program)
<1>1. PICK c \in program.calls[u] : Fn(b) = NameOf(c, Section[u])
  BY DEF Called
<1>2. c \in Places
  BY <1>1, Parts
<1>3. c = b /\ (b \in program.bodies \/ b \in program.natives)
  BY <1>1, <1>2, FixedName, Naming
<1> QED BY <1>3, Parts

LEMMA CalledStatic ==
  ASSUME TypeOK, Progress, NEW u \in Places, NEW b \in Places, Static(b) \in Called(u)
  PROVE  /\ b \in program.calls[u] \ program.data
         /\ b \in Asked(u) \cup synthetic
         /\ b \in Known(program) => b \in program.natives /\ Section[b] = Section[u]
<1>1. PICK c \in program.calls[u] : Static(b) = NameOf(c, Section[u])
  BY DEF Called
<1>2. c \in Places
  BY <1>1, Parts
<1>3. c = b /\ b \notin program.bodies /\ (b \in program.natives => Section[b] = Section[u])
  BY <1>1, <1>2, FixedName, Naming
<1>4. b \in Asked(u) \cup synthetic
  BY <1>1, <1>3 DEF Asked, Created, Matches
<1> QED BY <1>1, <1>3, <1>4, Parts

(* Translating a unit defines its name, unless the recompiler exits.       *)
LEMMA RecompileDefines ==
  ASSUME TypeOK, NEW u \in Places, NEW n \in Names, Recompile(u, n)
  PROVE  /\ failed' \/ copies'[n] > 0
         /\ \A k \in Names : copies[k] > 0 => copies'[k] > 0
         /\ failed => failed'
         /\ failed' => failed \/ program.ownFiles
<1>1. CASE Define(n)
  <2>1. copies'[n] > 0 /\ \A k \in Names : copies[k] > 0 => copies'[k] > 0
    BY <1>1, DefineOne
  <2>2. (failed => failed') /\ (failed' => failed \/ program.ownFiles)
    <3>1. CASE failed' = failed
      BY <3>1
    <3>2. CASE failed' = TRUE /\ program.ownFiles
      BY <3>2
    <3> QED BY <3>1, <3>2 DEF Recompile, Translate, GiveUp
  <2> QED BY <2>1, <2>2
<1>2. CASE ~Define(n)
  BY <1>2 DEF Recompile, Translate, GiveUp
<1> QED BY <1>1, <1>2

(* What the names need stays accounted for when a unit is translated whose *)
(* statics are ahead, or were named before.                                *)
LEMMA RecompileNames ==
  ASSUME MissingInv, Forward(program), NEW u \in Places, NEW n \in Names, Recompile(u, n),
         program' = program, section' = section, handled \subseteq handled',
         translated' \subseteq translated \cup {u},
         synthetic' \cap (Known(program) \cup program.data) = {},
         u \notin program.fails => \A b \in Places :
           Static(b) \in Called(u) => Static(b) \in named \/ Section[b] >= section
  PROVE  Accounted'
<1>0. TypeOK /\ Progress /\ Accounted /\ requested \subseteq requested'
  BY RecompileEffect DEF MissingInv
<1>1. named' = named \/ (u \notin program.fails /\ named' = named \cup Called(u)
                         /\ requested' = requested \cup Asked(u))
  BY DEF Recompile, Translate, GiveUp
<1>2. ASSUME NEW a \in Places, Fn(a) \in named' PROVE a \in Known(program)
  BY <1>0, <1>1, <1>2, CalledFn DEF Accounted
<1>3. ASSUME NEW a \in Places, Awaited(a) PROVE Awaited(a)'
  BY <1>0, <1>3 DEF Awaited, Known
<1>4. ASSUME NEW a \in Places, Static(a) \in named' PROVE Awaited(a)'
  <2>1. CASE Static(a) \in named
    BY <1>0, <1>3, <2>1 DEF Accounted
  <2>2. CASE Static(a) \notin named
    <3>1. u \notin program.fails /\ Static(a) \in Called(u) /\ requested' = requested \cup Asked(u)
      BY <1>1, <1>4, <2>2
    <3>2. /\ a \in program.calls[u] \ program.data
          /\ a \in Asked(u) \cup synthetic
          /\ a \in Known(program) => a \in program.natives /\ Section[a] = Section[u]
      BY <1>0, <3>1, CalledStatic
    <3>3. a \in requested'
      BY <1>0, <3>1, <3>2 DEF TypeOK
    <3>4. program.ownFiles => a \notin Known(program)
      BY <3>2 DEF Forward
    <3>5. Section[a] \in Nat /\ section \in Nat /\ Section[a] >= section
      BY <1>0, <2>2, <3>1, Parts, WorklistAssumption DEF TypeOK
    <3>6. ~(Section[a] < section')
      BY <3>5
    <3> QED BY <3>2, <3>3, <3>4, <3>6 DEF Awaited, Known
  <2> QED BY <2>1, <2>2
<1>5. ASSUME NEW f \in translated' \ program'.fails PROVE Called(f)' \subseteq named'
  <2>1. Called(f)' = Called(f)
    BY <1>0, FixedCalled
  <2>2. CASE f \in translated
    BY <1>0, <1>1, <1>5, <2>1, <2>2 DEF Accounted
  <2>3. CASE f = u
    <3>1. Called(u) \subseteq named'
      BY <1>5, <2>3 DEF Recompile, Translate, GiveUp
    <3> QED BY <2>1, <2>3, <3>1
  <2> QED BY <1>5, <2>2, <2>3
<1>6. \A a \in Places : Fn(a) \in named' => a \in Known(program')
  BY <1>2
<1> QED BY <1>4, <1>5, <1>6 DEF Accounted

-----------------------------------------------------------------------------
LEMMA MissingInit == ASSUME Init PROVE MissingInv
<1>1. TypeOK
  BY TypeInit
<1>2. Progress
  <2>1. ~failed
    BY DEF Init
  <2>2. section = 0 /\ synthetic = {}
    BY DEF Init
  <2>3. program.ownFiles \/ open
    BY Zenon DEF Init
  <2> QED BY <2>1, <2>2, <2>3 DEF Progress
<1>3. ASSUME NEW a \in program.natives PROVE copies[Fn(a)] > 0
  <2>1. Fn(a) \in Names
    BY <1>1, Parts, Naming
  <2> QED BY <2>1 DEF Init
<1>4. Emitted
  BY <1>3 DEF Init, Emitted
<1>5. Accounted
  BY DEF Init, Accounted
<1> QED BY <1>1, <1>2, <1>4, <1>5 DEF MissingInv

LEMMA MissingNext == ASSUME AllForward, MissingInv, [Next]_vars PROVE MissingInv'
<1>0. /\ TypeOK /\ Progress /\ Emitted /\ Accounted /\ TypeOK'
      /\ program' = program /\ Forward(program)
  BY TypeNext, SameProgram DEF MissingInv, AllForward, TypeOK
<1>p. /\ program.bodies \subseteq Places /\ program.natives \subseteq Places
      /\ translated \subseteq Places /\ handled \subseteq Places
      /\ Known(program)' = Known(program) /\ Known(program) \subseteq Places
  BY <1>0, Parts DEF TypeOK, Known
(* Steps that neither request nor name a static.                           *)
<1>q. ASSUME requested' = requested, translated' = translated, synthetic' = synthetic,
             handled \subseteq handled', section' = section,
             named' = named \/ (\E b \in Known(program) : named' = named \cup {Fn(b)})
      PROVE  Accounted'
  <2>1. \A a \in Places : Fn(a) \in named' => a \in Known(program)
    BY <1>0, <1>p, <1>q, Naming DEF Accounted
  <2>2. \A a \in Places : Static(a) \in named' => Static(a) \in named
    BY <1>p, <1>q, Naming
  <2>3. \A a \in Places : Awaited(a) => Awaited(a)'
    BY <1>0, <1>q DEF Awaited, Known
  <2>4. \A a \in Places : Static(a) \in named' => Awaited(a)'
    BY <1>0, <2>2, <2>3 DEF Accounted
  <2>5. ASSUME NEW f \in translated \ program.fails PROVE Called(f)' \subseteq named'
    <3>1. Called(f)' = Called(f)
      BY <1>0, <1>q, FixedCalled DEF Progress
    <3> QED BY <1>0, <1>q, <3>1 DEF Accounted
  <2> QED BY <1>0, <1>p, <1>q, <2>1, <2>4, <2>5 DEF Accounted
<1>1. CASE KnownFunction
  <2>1. PICK f \in program.bodies \ translated :
          Recompile(f, Fn(f)) /\ translated' = translated \cup {f}
    BY <1>1 DEF KnownFunction
  <2>2. f \in Places /\ Fn(f) \in Names /\ section = 0 /\ section' = 0
        /\ handled' = handled /\ synthetic' = synthetic /\ open' = open /\ ~failed
    BY <1>1, <1>p, <2>1, Naming DEF KnownFunction
  <2>3. /\ failed' \/ copies'[Fn(f)] > 0
        /\ \A k \in Names : copies[k] > 0 => copies'[k] > 0
    BY <1>0, <2>1, <2>2, RecompileDefines
  <2>4. Progress'
    BY <1>0, <1>p, <2>2, WorklistAssumption DEF Progress
  <2>5. Emitted'
    BY <1>0, <1>p, <2>1, <2>2, <2>3, Naming DEF Emitted
  <2>6. \A b \in Places : Section[b] >= section
    BY <1>0, <2>2, Parts
  <2>7. Accounted'
    BY <1>0, <2>1, <2>2, <2>6, RecompileNames DEF MissingInv, Progress
  <2> QED BY <1>0, <2>4, <2>5, <2>7 DEF MissingInv
<1>2. CASE Alias
  <2>1. PICK a \in Todo \cap Known(program) :
          /\ handled' = handled \cup {a}
          /\ IF open THEN Define(Static(a)) /\ named' = named \cup {Fn(a)}
                     ELSE UNCHANGED <<copies, named>>
    BY <1>2 DEF Alias
  <2>2. a \in Places /\ Static(a) \in Names /\ (open \/ program.ownFiles)
    BY <1>0, <2>1, TodoPlaces, Naming DEF Progress
  <2>3. Progress'
    BY <1>0, <1>2, <1>p DEF Alias, Progress
  <2>4. (\A k \in Names : copies[k] > 0 => copies'[k] > 0) /\ (open => copies'[Static(a)] > 0)
    BY <1>0, <2>1, <2>2, DefineOne
  <2>5. Emitted'
    BY <1>0, <1>2, <1>p, <2>1, <2>2, <2>4, Naming DEF Alias, Emitted
  <2>6. Accounted'
    BY <1>2, <1>q, <2>1 DEF Alias
  <2> QED BY <1>0, <2>3, <2>5, <2>6 DEF MissingInv
<1>3. CASE DropData
  <2>1. PICK a \in (Todo \cap program.data) \ Known(program) : handled' = handled \cup {a}
    BY <1>3 DEF DropData
  <2>2. Progress' /\ Emitted'
    BY <1>0, <1>3, <1>p, <2>1 DEF DropData, Progress, Emitted
  <2>3. Accounted'
    BY <1>3, <1>q, <2>1 DEF DropData
  <2> QED BY <1>0, <2>2, <2>3 DEF MissingInv
<1>4. CASE StaticFunction
  <2>1. PICK a \in Todo \ (Known(program) \cup program.data) :
          /\ synthetic' = synthetic \cup {a}
          /\ Recompile(program.owner[a], Static(a))
          /\ handled' = handled \cup {a}
    BY <1>4 DEF StaticFunction
  <2>2. /\ a \in Places /\ Section[a] = section /\ Static(a) \in Names
        /\ program.owner[a] \in Places /\ Section[program.owner[a]] = section
        /\ section \in 1..Last
        /\ translated' = translated /\ section' = section /\ open' = open /\ ~failed
    BY <1>0, <1>4, <2>1, TodoPlaces, Parts, Naming DEF StaticFunction
  <2>3. /\ failed' \/ copies'[Static(a)] > 0
        /\ \A k \in Names : copies[k] > 0 => copies'[k] > 0
    BY <1>0, <2>1, <2>2, RecompileDefines
  <2>4. Progress'
    BY <1>0, <1>p, <2>1, <2>2, WorklistAssumption DEF Progress
  <2>5. Emitted'
    BY <1>0, <1>p, <2>1, <2>2, <2>3, Naming DEF Emitted
  <2>6. ASSUME program.owner[a] \notin program.fails, NEW b \in Places,
               Static(b) \in Called(program.owner[a]), Static(b) \notin named
        PROVE  Section[b] >= section
    <3>1. program.owner[a] = a
      <4>1. program.owner[a] # a => program.owner[a] \in translated \ program.fails
        BY <1>0, <2>2, <2>6, Parts DEF Progress
      <4> QED BY <1>0, <2>6, <4>1 DEF Accounted
    <3>2. b \in program.calls[a] /\ (b \in Known(program) => Section[b] = Section[a])
      BY <1>0, <2>2, <2>6, <3>1, CalledStatic
    <3>3. b \in Known(program) \/ Section[b] >= Section[a]
      BY <1>0, <2>1, <2>2, <3>1, <3>2 DEF Forward
    <3> QED BY <1>0, <2>2, <3>2, <3>3, Parts
  <2>7. Accounted'
    <3>1. handled \subseteq handled' /\ translated' \subseteq translated \cup {program.owner[a]}
          /\ synthetic' \cap (Known(program) \cup program.data) = {}
      BY <1>0, <2>1, <2>2 DEF Progress
    <3> QED BY <1>0, <2>1, <2>2, <2>6, <3>1, RecompileNames DEF MissingInv
  <2> QED BY <1>0, <2>4, <2>5, <2>7 DEF MissingInv
<1>5. CASE NextSection
  <2>1. Progress' /\ Emitted'
    BY <1>0, <1>5, <1>p DEF NextSection, Progress, Emitted, TypeOK
  <2>2. ASSUME NEW a \in Places, Awaited(a) PROVE Awaited(a)'
    <3>1. Section[a] \in 1..Last /\ section \in Nat /\ section' = section + 1
      BY <1>0, <1>5, Parts, WorklistAssumption DEF NextSection, TypeOK
    <3>2. Section[a] < section' => a \in handled
      BY <1>5, <2>2, <3>1 DEF Awaited, NextSection, Todo
    <3> QED BY <1>0, <1>5, <2>2, <3>2 DEF Awaited, Known, NextSection
  <2>3. \A f \in Places : Called(f)' = Called(f)
    BY <1>0, <1>5, FixedCalled DEF Progress, NextSection
  <2>4. Accounted'
    BY <1>0, <1>5, <1>p, <2>2, <2>3 DEF Accounted, NextSection
  <2> QED BY <1>0, <2>1, <2>4 DEF MissingInv
<1>6. CASE UNCHANGED vars
  <2>1. Progress' /\ Emitted'
    BY <1>0, <1>6, <1>p DEF vars, Progress, Emitted
  <2>2. Accounted'
    BY <1>6, <1>q DEF vars
  <2> QED BY <1>0, <2>1, <2>2 DEF MissingInv
<1> QED BY <1>1, <1>2, <1>3, <1>4, <1>5, <1>6 DEF Next

(* For every program whose statics do not call back into a section already *)
(* done, and that needs no alias where every function has a file of its    *)
(* own, each name the output uses has been defined when the recompiler is  *)
(* done.                                                                   *)
THEOREM Closed == AllForward => (Spec => []NothingMissing)
<1> SUFFICES ASSUME AllForward PROVE Spec => []NothingMissing
  OBVIOUS
<1>1. Init => MissingInv
  BY MissingInit
<1>2. MissingInv /\ [Next]_vars => MissingInv'
  BY MissingNext
<1>3. MissingInv => NothingMissing
  <2> SUFFICES ASSUME MissingInv, section = Last + 1, NEW n \in named \cup Table
               PROVE  copies[n] > 0
    BY DEF NothingMissing
  <2>1. TypeOK /\ Progress /\ Emitted /\ Accounted /\ Last \in Nat
    BY WorklistAssumption DEF MissingInv
  <2>2. translated = program.bodies /\ ~failed
    BY <2>1 DEF Progress
  <2>3. ASSUME NEW a \in Known(program) PROVE copies[Fn(a)] > 0
    BY <2>1, <2>2 DEF Emitted, Known
  <2>4. ASSUME NEW a \in Places, Static(a) \in named \/ a \in synthetic
        PROVE  copies[Static(a)] > 0
    <3>1. a \in handled
      BY <2>1, <2>4, Parts DEF Accounted, Awaited, TypeOK
    <3>2. a \notin program.data /\ (program.ownFiles => a \notin Known(program))
      BY <2>1, <2>4 DEF Accounted, Awaited, Progress
    <3> QED BY <2>1, <2>2, <3>1, <3>2 DEF Emitted
  <2>5. n \in Names
    BY <2>1, Parts, Naming DEF TypeOK, Table
  <2>6. PICK a \in Places : n = Fn(a) \/ n = Static(a)
    BY <2>5, Naming
  <2>7. CASE n = Fn(a)
    BY <2>1, <2>3, <2>6, <2>7, Parts, Naming DEF Accounted, Table, Known, TypeOK
  <2>8. CASE n = Static(a)
    <3>1. Static(a) \in named \/ a \in synthetic
      BY <2>1, <2>6, <2>8, Parts, Naming DEF Table, TypeOK
    <3> QED BY <2>4, <2>8, <3>1
  <2> QED BY <2>6, <2>7, <2>8
<1> QED BY <1>1, <1>2, <1>3, PTL DEF Spec

-----------------------------------------------------------------------------
(* The walk over a function's words.                                       *)

(* The tables t may come from, and the words control is sent to.           *)
Held(c) == {c[a].table : a \in {b \in Words : c[b].op = "load"}} \cup {<<>>}

(* The word at b sets the register of the jr at v.                         *)
Block(c, b, v) ==
  v \in Words /\ c[v].op = "jr" /\ b \in 1..v - 1 /\ SetAt(c, GoesTo(c), b, v)

(* What it leaves in t, in a function entered at e.                        *)
Given(c, e, b) == IF b < e THEN <<>> ELSE Loaded(c[b], <<>>)

(* Words whose successors the walk has seen to: not slots, but for the     *)
(* entry.                                                                  *)
Slotless(c, a) == \A p \in Words : p + 1 = a => ~Transfers(c[p])
Scanned == {v \in visited : v >= entry /\ (v = entry \/ Slotless(code, v))}

(* Control can go from v to s.                                             *)
Continues(c, e, v, s) ==
  \/ c[v].op = "branch" /\ (s = c[v].target \/ s = v + 2)
  \/ c[v].op = "jal" /\ s = v + 2
  \/ c[v].op = "jr" /\ \E b \in Words : Block(c, b, v) /\ \E i \in 1..Len(Given(c, e, b)) : s = Given(c, e, b)[i]
  \/ ~Transfers(c[v]) /\ s = v + 1

(* a has been looked at, or will be.                                       *)
Stacks(w, a) == \E i \in 1..Len(w) : w[i] = a
Due(a) == a \in visited \/ a = cursor \/ Stacks(worklist, a)

Starts ==
  /\ \A v \in visited : v <= last
  /\ visited # {} => entry \in visited
  /\ visited = {} => \/ cursor = entry
                     \/ cursor = Nowhere /\ worklist = <<entry>> /\ result = "searching"
  /\ result = "found" => worklist = <<>> /\ cursor = Nowhere
  /\ result = "searching" => pc = Nowhere /\ held = <<>>

Sent ==
  /\ \A i \in 1..Len(worklist) : worklist[i] \in GoesTo(code) \cup {entry}
  /\ table \in Held(code) /\ held \in Held(code)

(* In a block that sets t, the scan and the CPU know what it holds.        *)
Believed ==
  \A b, v \in Words :
    Block(code, b, v) /\ cursor \in b + 1..v /\ cursor >= entry /\ Fresh(cursor)
      => table = Given(code, entry, b)
Holds ==
  \A b, v \in Words : Block(code, b, v) /\ pc \in b + 1..v => held = Given(code, entry, b)

(* The walk is closed under control flow, up to what is still to be done.  *)
Sees ==
  result # "failed" =>
    \A v \in Scanned :
      /\ Transfers(code[v]) => Slot(v) \subseteq visited
      /\ \A s \in entry..N : Continues(code, entry, v, s) => Due(s)

Inside == pc # Nowhere => pc \in Scanned

CoverInv == BoundsTypeOK /\ code \in Codes /\ Starts /\ Sent /\ Believed /\ Holds /\ Sees /\ Inside
-----------------------------------------------------------------------------
(* The least of some numbers, for what is shown step by step.              *)
LEMMA LeastNat ==
  ASSUME NEW T \in SUBSET Nat, T # {}
  PROVE  \E m \in T : \A n \in T : m <= n
<1> DEFINE R == OpToRel(<, Nat)
<1>1. IsWellFoundedOn(R, Nat)
  BY NatLessThanWellFounded DEF OpToRel
<1> HIDE DEF R
<1>2. PICK m \in T : \A y \in T : ~ (<<y, m>> \in R)
  BY <1>1, WFMin, Zenon
<1>3. ASSUME NEW n \in T PROVE m <= n
  <2>1. <<n, m>> \notin R /\ n \in Nat /\ m \in Nat
    BY <1>2
  <2>2. <<n, m>> \in R <=> n < m
    BY <2>1 DEF R, OpToRel
  <2>3. QED
    BY <2>1, <2>2
<1>4. QED
  BY <1>3

(* The shapes of instructions.                                             *)
LEMMA InstructionFacts ==
  ASSUME NEW ins \in Instructions
  PROVE  /\ ins.op \in {"plain", "wipe", "bad", "load", "branch", "j", "jal", "return", "jr"}
         /\ ins.op = "load" => ins.table \in Seq(Targets)
         /\ ins.op \in {"branch", "j", "jal"} => ins.target \in Targets
         /\ ins.op = "branch" => ins.cond \in BOOLEAN
BY DEF Instructions

LEMMA CodeFacts ==
  ASSUME NEW c \in [Words -> Instructions], NEW a \in Words
  PROVE  /\ N \in Nat \ {0} /\ a \in Nat /\ a >= 1 /\ a <= N
         /\ c[a] \in Instructions
         /\ \A t \in Seq(Targets) : Loaded(c[a], t) \in Seq(Targets)
         /\ \A t \in Held(c) : Loaded(c[a], t) \in Held(c)
<1>1. N \in Nat \ {0} /\ a \in Nat /\ a >= 1 /\ a <= N /\ c[a] \in Instructions
  BY BoundsAssumption DEF Words
<1>2. <<>> \in Seq(Targets)
  OBVIOUS
<1> QED BY <1>1, <1>2, InstructionFacts DEF Loaded, Held

(* A table is read up to its first entry outside the body.                 *)
LEMMA EntriesAre ==
  ASSUME NEW t \in Seq(Targets)
  PROVE  \E n \in 0..Len(t) :
           /\ Entries(t) \in Seq(Words) /\ Len(Entries(t)) = n
           /\ \A i \in 1..n : Entries(t)[i] = t[i] /\ t[i] \in Words
           /\ n < Len(t) => t[n + 1] \notin Words
<1> DEFINE P(n) == /\ \A i \in 1..n : t[i] \in Words
                   /\ n < Len(t) => t[n + 1] \notin Words
           Out == {i \in Nat : i < Len(t) /\ t[i + 1] \notin Words}
<1>1. Len(t) \in Nat
  OBVIOUS
<1>2. \E n \in 0..Len(t) : P(n)
  <2>1. CASE Out = {}
    <3>1. ASSUME NEW i \in 1..Len(t) PROVE t[i] \in Words
      <4>1. i - 1 \in Nat /\ i - 1 < Len(t) /\ (i - 1) + 1 = i
        BY <1>1
      <4> QED BY <2>1, <4>1
    <3> QED BY <1>1, <3>1
  <2>2. CASE Out # {}
    <3>1. Out \in SUBSET Nat
      OBVIOUS
    <3> HIDE DEF Out
    <3>2. PICK m \in Out : \A n \in Out : m <= n
      BY <2>2, <3>1, LeastNat
    <3>3. m \in Nat /\ m < Len(t) /\ t[m + 1] \notin Words
      BY <3>2 DEF Out
    <3>4. ASSUME NEW i \in 1..m PROVE t[i] \in Words
      <4>1. i - 1 \in Nat /\ i - 1 < Len(t) /\ ~(m <= i - 1) /\ (i - 1) + 1 = i
        BY <1>1, <3>3
      <4>2. i - 1 \notin Out
        BY <3>2, <4>1
      <4> QED BY <4>1, <4>2 DEF Out
    <3> QED BY <1>1, <3>3, <3>4
  <2> QED BY <2>1, <2>2
<1> DEFINE read == CHOOSE n \in 0..Len(t) : P(n)
<1>3. read \in 0..Len(t) /\ P(read)
  BY <1>2
<1>4. Entries(t) = SubSeq(t, 1, read)
  BY DEF Entries
<1> HIDE DEF read
<1>5. \A i \in 1..read : t[i] \in Words
  BY <1>3
<1>6. SubSeq(t, 1, read) = [i \in 1..read |-> t[i]]
  BY <1>1, <1>3
<1>7. Entries(t) \in [1..read -> Words] /\ \A i \in 1..read : Entries(t)[i] = t[i]
  BY <1>4, <1>5, <1>6
<1>8. Entries(t) \in Seq(Words) /\ Len(Entries(t)) = read
  BY <1>1, <1>3, <1>7
<1> QED BY <1>3, <1>7, <1>8
(* What is stacked on w, as a function of how many targets are done.       *)
Extends(w, u, S) ==
  /\ u \in Seq(Words) /\ Len(w) <= Len(u)
  /\ \A k \in 1..Len(w) : u[k] = w[k]
  /\ \A k \in 1..Len(u) : k > Len(w) => u[k] \in S

StackUpTo(f, w, t, n) ==
  f = [i \in 0..n |->
         IF i = 0 THEN w
         ELSE IF t[i] \in Words /\ Fresh(t[i]) THEN Append(f[i - 1], t[i])
         ELSE f[i - 1]]

LEMMA StackExists ==
  ASSUME NEW w, NEW t, NEW n \in Nat
  PROVE  \E f : StackUpTo(f, w, t, n)
<1> DEFINE T == {m \in Nat : \A f : ~StackUpTo(f, w, t, m)}
<1> SUFFICES ASSUME T # {} PROVE FALSE
  BY Zenon
<1>1. T \in SUBSET Nat
  OBVIOUS
<1> HIDE DEF T
<1>2. PICK m \in T : \A k \in T : m <= k
  BY <1>1, LeastNat
<1>3. m \in Nat /\ \A f : ~StackUpTo(f, w, t, m)
  BY <1>2 DEF T
<1>4. CASE m = 0
  <2> DEFINE f == [i \in 0..0 |-> w]
  <2>1. f = [i \in 0..m |->
               IF i = 0 THEN w
               ELSE IF t[i] \in Words /\ Fresh(t[i]) THEN Append(f[i - 1], t[i])
               ELSE f[i - 1]]
    BY <1>4
  <2>2. StackUpTo(f, w, t, m)
    BY <2>1 DEF StackUpTo
  <2> QED BY <1>3, <2>2
<1>5. CASE m # 0
  <2>1. m - 1 \in Nat /\ ~(m <= m - 1)
    BY <1>3, <1>5
  <2>2. m - 1 \notin T
    BY <1>2, <2>1
  <2>3. PICK g : StackUpTo(g, w, t, m - 1)
    BY <2>1, <2>2 DEF T
  <2> DEFINE f == [i \in 0..m |->
                     IF i = m
                     THEN IF t[m] \in Words /\ Fresh(t[m]) THEN Append(g[m - 1], t[m]) ELSE g[m - 1]
                     ELSE g[i]]
             Step(i) == IF i = 0 THEN w
                        ELSE IF t[i] \in Words /\ Fresh(t[i]) THEN Append(f[i - 1], t[i])
                        ELSE f[i - 1]
  <2>4. ASSUME NEW i \in 0..m PROVE f[i] = Step(i)
    <3>1. CASE i = m
      <4>1. i # 0 /\ i - 1 \in 0..m /\ i - 1 # m
        BY <1>3, <1>5, <3>1
      <4>2. f[i - 1] = g[m - 1]
        BY <3>1, <4>1
      <4> QED BY <3>1, <4>1, <4>2
    <3>2. CASE i # m
      <4>1. i \in 0..(m - 1)
        BY <1>3, <3>2
      <4>2. f[i] = g[i]
        BY <3>2
      <4>3. CASE i = 0
        BY <2>3, <4>1, <4>2, <4>3 DEF StackUpTo
      <4>4. CASE i # 0
        <5>1. i - 1 \in 0..m /\ i - 1 # m
          BY <1>3, <4>1, <4>4
        <5>2. f[i - 1] = g[i - 1]
          BY <5>1
        <5>3. g[i] = IF t[i] \in Words /\ Fresh(t[i]) THEN Append(g[i - 1], t[i]) ELSE g[i - 1]
          BY <2>3, <4>1, <4>4 DEF StackUpTo
        <5> QED BY <4>2, <4>4, <5>2, <5>3
      <4> QED BY <4>3, <4>4
    <3> QED BY <3>1, <3>2
  <2>5. f = [i \in 0..m |-> f[i]]
    OBVIOUS
  <2> HIDE DEF f
  <2>6. StackUpTo(f, w, t, m)
    BY <2>4, <2>5 DEF StackUpTo
  <2> QED BY <1>3, <2>6
<1> QED BY <1>4, <1>5

LEMMA StackBuilt ==
  ASSUME NEW w, NEW t \in Seq(Targets)
  PROVE  \E f : StackUpTo(f, w, t, Len(t)) /\ Stacked(w, t) = f[Len(t)]
<1>1. Len(t) \in Nat
  OBVIOUS
<1>2. \E f : StackUpTo(f, w, t, Len(t))
  BY <1>1, StackExists
<1>3. StackUpTo(CHOOSE f : StackUpTo(f, w, t, Len(t)), w, t, Len(t))
  BY <1>2, Zenon
<1>4. Stacked(w, t) = (CHOOSE f : StackUpTo(f, w, t, Len(t)))[Len(t)]
  BY Zenon DEF Stacked, StackUpTo
<1> QED BY <1>3, <1>4

LEMMA AppendExtends ==
  ASSUME NEW w \in Seq(Words), NEW u, NEW S \in SUBSET Words, Extends(w, u, S), NEW a \in S
  PROVE  /\ Extends(w, Append(u, a), S)
         /\ Stacks(Append(u, a), a)
         /\ \A x : Stacks(u, x) => Stacks(Append(u, a), x)
<1>1. /\ u \in Seq(Words) /\ Len(w) \in Nat /\ Len(u) \in Nat /\ Len(w) <= Len(u)
      /\ Append(u, a) \in Seq(Words) /\ Len(Append(u, a)) = Len(u) + 1
      /\ \A k \in 1..Len(u) : Append(u, a)[k] = u[k]
      /\ Append(u, a)[Len(u) + 1] = a
  BY DEF Extends
<1>2. \A k \in 1..Len(w) : Append(u, a)[k] = w[k]
  BY <1>1 DEF Extends
<1>3. ASSUME NEW k \in 1..Len(u) + 1, k > Len(w) PROVE Append(u, a)[k] \in S
  <2>1. CASE k = Len(u) + 1
    BY <1>1, <2>1
  <2>2. CASE k # Len(u) + 1
    <3>1. k \in 1..Len(u)
      BY <1>1, <2>2
    <3> QED BY <1>1, <1>3, <3>1 DEF Extends
  <2> QED BY <2>1, <2>2
<1>4. Extends(w, Append(u, a), S)
  BY <1>1, <1>2, <1>3 DEF Extends
<1>5. Len(u) + 1 \in 1..Len(Append(u, a)) /\ \A k \in 1..Len(u) : k \in 1..Len(Append(u, a))
  BY <1>1
<1>6. Stacks(Append(u, a), a) /\ \A x : Stacks(u, x) => Stacks(Append(u, a), x)
  BY <1>1, <1>5 DEF Stacks
<1> QED BY <1>4, <1>6

LEMMA StackedIs ==
  ASSUME NEW w \in Seq(Words), NEW t \in Seq(Targets)
  PROVE  /\ Extends(w, Stacked(w, t), {t[k] : k \in 1..Len(t)} \cap Words)
         /\ \A k \in 1..Len(t) : t[k] \in Words /\ Fresh(t[k]) => Stacks(Stacked(w, t), t[k])
<1>1. PICK f : StackUpTo(f, w, t, Len(t)) /\ Stacked(w, t) = f[Len(t)]
  BY StackBuilt
<1>2. Len(t) \in Nat
  OBVIOUS
<1> DEFINE S == {t[k] : k \in 1..Len(t)} \cap Words
           Good(i) == /\ Extends(w, f[i], S)
                      /\ \A k \in 1..i : t[k] \in Words /\ Fresh(t[k]) => Stacks(f[i], t[k])
           T == {i \in Nat : i <= Len(t) /\ ~Good(i)}
<1>3. f[0] = w
  BY <1>1, <1>2 DEF StackUpTo
<1>4. \A i \in 1..Len(t) :
        f[i] = IF t[i] \in Words /\ Fresh(t[i]) THEN Append(f[i - 1], t[i]) ELSE f[i - 1]
  <2> SUFFICES ASSUME NEW i \in 1..Len(t)
               PROVE  f[i] = IF t[i] \in Words /\ Fresh(t[i]) THEN Append(f[i - 1], t[i])
                             ELSE f[i - 1]
    OBVIOUS
  <2>1. i \in 0..Len(t) /\ i # 0
    BY <1>2
  <2> QED BY <1>1, <2>1, Zenon DEF StackUpTo
<1>5. Good(0)
  BY <1>3 DEF Extends
<1>6. ASSUME NEW i \in 1..Len(t), Good(i - 1) PROVE Good(i)
  <2>1. S \in SUBSET Words
    OBVIOUS
  <2>2. CASE t[i] \in Words /\ Fresh(t[i])
    <3>1. f[i] = Append(f[i - 1], t[i])
      BY <1>4, <2>2
    <3>2. t[i] \in S
      BY <2>2
    <3> HIDE DEF S
    <3>3. /\ Extends(w, f[i], S) /\ Stacks(f[i], t[i])
          /\ \A x : Stacks(f[i - 1], x) => Stacks(f[i], x)
      BY <1>6, <2>1, <3>1, <3>2, AppendExtends
    <3>4. ASSUME NEW k \in 1..i, t[k] \in Words, Fresh(t[k]) PROVE Stacks(f[i], t[k])
      <4>1. CASE k = i
        BY <3>3, <4>1
      <4>2. CASE k # i
        <5>1. k \in 1..i - 1
          BY <4>2
        <5> QED BY <1>6, <3>3, <3>4, <5>1
      <4> QED BY <4>1, <4>2
    <3> QED BY <3>3, <3>4
  <2>3. CASE ~(t[i] \in Words /\ Fresh(t[i]))
    <3>1. f[i] = f[i - 1]
      BY <1>4, <2>3
    <3>2. ASSUME NEW k \in 1..i, t[k] \in Words, Fresh(t[k]) PROVE Stacks(f[i], t[k])
      <4>1. k # i
        BY <2>3, <3>2
      <4>2. k \in 1..i - 1
        BY <4>1
      <4> QED BY <1>6, <3>1, <3>2, <4>2
    <3> HIDE DEF S
    <3> QED BY <1>6, <3>1, <3>2
  <2> QED BY <2>2, <2>3
<1> HIDE DEF Good
<1>7. T = {}
  <2> SUFFICES ASSUME T # {} PROVE FALSE
    OBVIOUS
  <2>1. T \in SUBSET Nat
    OBVIOUS
  <2> HIDE DEF T
  <2>2. PICK m \in T : \A k \in T : m <= k
    BY <2>1, LeastNat
  <2>3. m \in Nat /\ m <= Len(t) /\ ~Good(m)
    BY <2>2 DEF T
  <2>4. m # 0
    BY <1>5, <2>3
  <2>5. m \in 1..Len(t) /\ m - 1 \in Nat /\ m - 1 <= Len(t) /\ ~(m <= m - 1)
    BY <1>2, <2>3, <2>4
  <2>6. Good(m - 1)
    BY <2>2, <2>5 DEF T
  <2> QED BY <1>6, <2>3, <2>5, <2>6
<1>8. Good(Len(t))
  BY <1>2, <1>7
<1> QED BY <1>1, <1>8 DEF Good
-----------------------------------------------------------------------------
Seen(c, a) == {a} \cup IF Transfers(c[a]) THEN Slot(a) ELSE {}

LEMMA DecodeIs ==
  ASSUME BoundsTypeOK, NEW op, Decode(op)
  PROVE  /\ result = "searching" /\ cursor \in Words /\ cursor # Nowhere /\ Fresh(cursor)
         /\ code[cursor].op = op
         /\ Seen(code, cursor) \subseteq Words
         /\ visited' = visited \cup Seen(code, cursor)
         /\ last' \in entry..N /\ last <= last'
         /\ \A v \in Seen(code, cursor) : v <= last'
<1>1. /\ result = "searching" /\ cursor \in Words /\ cursor # Nowhere /\ Fresh(cursor)
      /\ code[cursor].op = op
      /\ visited' = visited \cup Seen(code, cursor)
      /\ last' = CHOOSE w \in Seen(code, cursor) \cup {last} :
                   \A v \in Seen(code, cursor) \cup {last} : v <= w
  BY DEF Decode, Scanning, Seen
<1>2. N \in Nat /\ cursor \in Nat /\ cursor >= 1 /\ cursor <= N /\ entry \in Words /\ last \in entry..N
  BY <1>1, CodeFacts DEF BoundsTypeOK, Words
<1>3. entry \in Nat /\ last \in Nat
  BY <1>2 DEF Words
<1>4. Seen(code, cursor) \in {{cursor}, {cursor, cursor + 1}} /\ Seen(code, cursor) \subseteq Words
  BY <1>1, <1>2 DEF Seen, Slot, Words
<1> DEFINE S == Seen(code, cursor) \cup {last}
<1>5. \E w \in S : \A v \in S : v <= w
  <2>1. CASE Seen(code, cursor) = {cursor}
    <3>1. S = {cursor, last}
      BY <2>1
    <3> HIDE DEF S
    <3> QED BY <3>1, <1>2, <1>3
  <2>2. CASE Seen(code, cursor) = {cursor, cursor + 1}
    <3>1. S = {cursor, cursor + 1, last}
      BY <2>2
    <3>2. CASE cursor + 1 <= last
      <4>1. \A v \in S : v <= last
        BY <1>2, <1>3, <3>1, <3>2
      <4> HIDE DEF S
      <4> QED BY <3>1, <4>1
    <3>3. CASE ~(cursor + 1 <= last)
      <4>1. \A v \in S : v <= cursor + 1
        BY <1>2, <1>3, <3>1, <3>3
      <4> HIDE DEF S
      <4> QED BY <3>1, <4>1
    <3> QED BY <3>2, <3>3
  <2> QED BY <1>4, <2>1, <2>2
<1>6. last' \in S /\ \A v \in S : v <= last'
  <2> HIDE DEF S
  <2>1. (CHOOSE w \in S : \A v \in S : v <= w) \in S
        /\ \A v \in S : v <= (CHOOSE w \in S : \A v1 \in S : v1 <= w)
    BY <1>5
  <2>2. last' = CHOOSE w \in S : \A v \in S : v <= w
    BY <1>1 DEF S
  <2> QED BY <2>1, <2>2
<1>7. S \subseteq 1..N
  BY <1>2, <1>3, <1>4 DEF Words
<1>8. last <= last' /\ last' \in 1..N
  BY <1>6, <1>7
<1>9. last' \in entry..N
  BY <1>2, <1>3, <1>8
<1> QED BY <1>1, <1>4, <1>6, <1>8, <1>9

LEMMA GoOnTypes ==
  ASSUME BoundsTypeOK, cursor \in Words, NEW a \in {cursor + 1, cursor + 2}, GoOn(a)
  PROVE  cursor' \in Nat /\ cursor' <= N + 2 /\ table' \in Seq(Targets)
<1>1. N \in Nat /\ cursor \in Nat /\ cursor <= N
  BY CodeFacts DEF BoundsTypeOK
<1>2. table' \in Seq(Targets)
  BY CodeFacts DEF BoundsTypeOK, GoOn
<1> QED BY <1>1, <1>2 DEF GoOn

LEMMA EndOfScanTypes ==
  ASSUME BoundsTypeOK, EndOfScan
  PROVE  cursor' \in Nat /\ cursor' <= N + 2 /\ table' \in Seq(Targets)
BY BoundsAssumption DEF EndOfScan, BoundsTypeOK, Nowhere

LEMMA PushTypes ==
  ASSUME BoundsTypeOK, NEW t \in Seq(Targets), Push(t)
  PROVE  worklist' \in Seq(Words)
BY StackedIs DEF BoundsTypeOK, Push, Extends

(* What an action may push: the valid part of a table, or one target.      *)
LEMMA PushedTargets ==
  ASSUME BoundsTypeOK
  PROVE  /\ Entries(table) \in Seq(Targets)
         /\ cursor \in Words /\ code[cursor].op \in {"branch", "jal"}
              => <<code[cursor].target>> \in Seq(Targets)
<1>1. Entries(table) \in Seq(Words)
  BY EntriesAre DEF BoundsTypeOK
<1>2. Entries(table) \in Seq(Targets)
  BY <1>1 DEF Targets
<1>3. ASSUME cursor \in Words, code[cursor].op \in {"branch", "jal"}
      PROVE  code[cursor].target \in Targets
  BY <1>3, CodeFacts, InstructionFacts DEF BoundsTypeOK
<1> QED BY <1>2, <1>3

LEMMA RunTypes ==
  ASSUME BoundsTypeOK, Run
  PROVE  pc \in Words /\ pc' \in Targets /\ held' \in Seq(Targets)
         /\ result = "found" /\ UNCHANGED <<code, entry, walk>>
<1>1. pc \in Words /\ pc # Nowhere /\ result = "found"
  BY DEF BoundsTypeOK, Targets, Run, RunOrdinary, RunBranch, RunJump, RunCall, RunTable, Leave, Running
<1>2. UNCHANGED <<code, entry, walk>>
  BY DEF Run, RunOrdinary, RunBranch, RunJump, RunCall, RunTable, Leave, Running
<1>3. \A a : Goes(a) => pc' \in Targets
  BY DEF Goes, Targets, Words, BoundsTypeOK
<1>4. Loaded(code[pc], held) \in Seq(Targets) /\ AfterSlot(held) \in Seq(Targets) /\ <<>> \in Seq(Targets)
  BY <1>1, CodeFacts DEF BoundsTypeOK, AfterSlot
<1>5. pc' \in Targets
  BY <1>3 DEF Run, RunOrdinary, RunBranch, RunJump, RunCall, RunTable, Leave, Targets
<1>6. held' \in Seq(Targets)
  <2>1. CASE RunOrdinary
    BY <1>4, <2>1 DEF RunOrdinary
  <2>2. CASE RunBranch
    BY <1>4, <2>2 DEF RunBranch, BoundsTypeOK
  <2>3. CASE RunJump
    BY <1>4, <2>3 DEF RunJump
  <2>4. CASE RunCall
    BY <1>4, <2>4 DEF RunCall
  <2>5. CASE RunTable
    BY <1>4, <2>5 DEF RunTable
  <2>6. CASE Leave
    BY <1>4, <2>6 DEF Leave
  <2> QED BY <2>1, <2>2, <2>3, <2>4, <2>5, <2>6 DEF Run
<1> QED BY <1>1, <1>2, <1>5, <1>6

LEMMA BoundsTypesInit == BoundsInit => BoundsTypeOK
<1> SUFFICES ASSUME BoundsInit PROVE BoundsTypeOK
  OBVIOUS
<1>1. code \in [Words -> Instructions] /\ entry \in 1..N /\ N \in Nat
  BY BoundsAssumption DEF BoundsInit, Words
<1>2. last \in entry..N
  BY <1>1 DEF BoundsInit
<1> QED BY <1>1, <1>2 DEF BoundsInit, BoundsTypeOK, Words, Targets, Nowhere

LEMMA BoundsTypesStep == BoundsTypeOK /\ [BoundsNext]_boundsVars => BoundsTypeOK'
<1> SUFFICES ASSUME BoundsTypeOK, [BoundsNext]_boundsVars PROVE BoundsTypeOK'
  OBVIOUS
<1> USE DEF cpu
<1>1. CASE StartScan
  <2>1. worklist \in Seq(Words) /\ worklist # <<>> /\ worklist' = SubSeq(worklist, 1, Len(worklist) - 1)
    BY <1>1 DEF StartScan, BoundsTypeOK
  <2>2. worklist' \in Seq(Words) /\ worklist[Len(worklist)] \in Words
    BY <2>1
  <2>3. cursor' \in Nat /\ cursor' <= N + 2 /\ table' \in Seq(Targets)
    <3>1. worklist[Len(worklist)] \in Nat /\ worklist[Len(worklist)] <= N /\ N \in Nat
      BY <2>2, BoundsAssumption DEF Words
    <3>2. /\ cursor' \in {cursor, worklist[Len(worklist)]} /\ table' \in {table, <<>>}
      BY <1>1 DEF StartScan
    <3>3. cursor \in Nat /\ cursor <= N + 2 /\ table \in Seq(Targets) /\ <<>> \in Seq(Targets)
      BY DEF BoundsTypeOK
    <3>4. table' \in Seq(Targets)
      BY <3>2, <3>3, Zenon
    <3>5. CASE cursor' = cursor
      BY <3>3, <3>4, <3>5, Zenon
    <3>6. CASE cursor' = worklist[Len(worklist)]
      <4> DEFINE off == worklist[Len(worklist)]
      <4> HIDE DEF off
      <4> QED BY <3>1, <3>4, <3>6 DEF off
    <3> QED BY <3>2, <3>5, <3>6
  <2> QED BY <1>1, <2>2, <2>3 DEF StartScan, BoundsTypeOK
<1>2. CASE StopScan
  BY <1>2, EndOfScanTypes DEF StopScan, BoundsTypeOK
<1>3. CASE Ordinary
  <2>1. PICK op : Decode(op)
    BY <1>3 DEF Ordinary
  <2> QED BY <1>3, <2>1, DecodeIs, GoOnTypes DEF Ordinary, BoundsTypeOK
<1>4. CASE Rejected
  BY <1>4 DEF Rejected, BoundsTypeOK, Scanning
<1>5. CASE Return
  BY <1>5, DecodeIs, EndOfScanTypes DEF Return, BoundsTypeOK
<1>6. CASE JumpRegister
  <2>1. worklist' \in Seq(Words)
    BY <1>6, PushTypes, PushedTargets DEF JumpRegister, BoundsTypeOK
  <2>2. result' \in {"searching", "failed"} /\ result = "searching"
    BY <1>6, DecodeIs DEF JumpRegister
  <2> QED BY <1>6, <2>1, <2>2, DecodeIs, EndOfScanTypes DEF JumpRegister, BoundsTypeOK
<1>7. CASE TailJump
  BY <1>7, DecodeIs, EndOfScanTypes DEF TailJump, BoundsTypeOK
<1>8. CASE Call
  BY <1>8, DecodeIs, GoOnTypes DEF Call, BoundsTypeOK
<1>9. CASE TakeBranch
  <2>1. worklist' \in Seq(Words)
    BY <1>9, PushTypes, PushedTargets, DecodeIs DEF TakeBranch
  <2> QED BY <1>9, <2>1, DecodeIs, GoOnTypes DEF TakeBranch, BoundsTypeOK
<1>10. CASE Found
  BY <1>10 DEF Found, BoundsTypeOK, Targets
<1>11. CASE Run
  BY <1>11, RunTypes DEF BoundsTypeOK, walk
<1>12. CASE UNCHANGED boundsVars
  BY <1>12 DEF boundsVars, walk, BoundsTypeOK
<1> QED BY <1>1, <1>2, <1>3, <1>4, <1>5, <1>6, <1>7, <1>8, <1>9, <1>10, <1>11, <1>12 DEF BoundsNext, Discover

(* The walk only looks at words of the body, and its size reaches the      *)
(* entry.                                                                  *)
THEOREM BoundsTypesHold == BoundsSpec => []BoundsTypeOK
BY BoundsTypesInit, BoundsTypesStep, PTL DEF BoundsSpec
-----------------------------------------------------------------------------
(* What a coverable body says, fact by fact.                               *)
LEMMA Sends ==
  ASSUME NEW c \in [Words -> Instructions]
  PROVE  /\ \A a \in Words : c[a].op \in {"branch", "j"} => c[a].target \in GoesTo(c)
         /\ \A t \in Held(c) : \A i \in 1..Len(t) : t[i] \in GoesTo(c)
<1> DEFINE To(a) == CASE c[a].op \in {"branch", "j"} -> {c[a].target}
                      [] c[a].op = "load"            -> {c[a].table[i] : i \in 1..Len(c[a].table)}
                      [] OTHER                       -> {}
<1>1. \A a \in Words : To(a) \subseteq GoesTo(c)
  BY DEF GoesTo
<1>2. ASSUME NEW a \in Words, c[a].op \in {"branch", "j"} PROVE c[a].target \in To(a)
  BY <1>2
<1>3. ASSUME NEW a \in Words, c[a].op = "load", NEW i \in 1..Len(c[a].table)
      PROVE  c[a].table[i] \in To(a)
  <2>1. To(a) = {c[a].table[k] : k \in 1..Len(c[a].table)}
    BY <1>3
  <2> QED BY <2>1
<1> HIDE DEF To
<1>4. ASSUME NEW t \in Held(c), NEW i \in 1..Len(t) PROVE t[i] \in GoesTo(c)
  <2>1. CASE t = <<>>
    BY <2>1
  <2>2. CASE t # <<>>
    <3>1. PICK a \in Words : c[a].op = "load" /\ t = c[a].table
      BY <2>2 DEF Held
    <3> QED BY <1>1, <1>3, <3>1
  <2> QED BY <2>1, <2>2
<1> QED BY <1>1, <1>2, <1>4

LEMMA BlockFacts ==
  ASSUME NEW c \in [Words -> Instructions], NEW b, NEW v, Block(c, b, v)
  PROVE  /\ v \in Words /\ b \in Words /\ b < v /\ c[v].op = "jr"
         /\ c[b].op \in {"load", "wipe"} /\ ~Transfers(c[b])
         /\ \A d \in b + 1..v - 1 : c[d].op = "plain" /\ ~Transfers(c[d])
         /\ \A d \in b + 1..v : d \notin GoesTo(c)
<1>1. v \in Words /\ N \in Nat
  BY BoundsAssumption DEF Block
<1>2. b \in Words /\ b < v
  BY <1>1 DEF Block, Words
<1> QED BY <1>1, <1>2 DEF Block, SetAt, Transfers

LEMMA SlotIsPlain ==
  ASSUME NEW c \in [Words -> Instructions], InScan(c), NEW a \in Words, Transfers(c[a]), a + 1 \in Words
  PROVE  c[a + 1].op = "plain" /\ ~Transfers(c[a + 1])
<1>1. a \in 1..N - 1
  BY BoundsAssumption DEF Words
<1> QED BY <1>1 DEF InScan, Transfers

(* Where control is sent is no slot, and not behind a load in its block.   *)
LEMMA Lands ==
  ASSUME NEW c \in [Words -> Instructions], Coverable(c), NEW s \in Words,
         s \in GoesTo(c) \/ \E a \in Words : Transfers(c[a]) /\ s = a + 2
  PROVE  Slotless(c, s) /\ \A b, v : Block(c, b, v) => s \notin b + 1..v
<1>1. InScan(c) /\ SlotsAside(c) /\ N \in Nat
  BY BoundsAssumption DEF Coverable
<1>2. CASE s \in GoesTo(c)
  <2>1. \A a \in Words : Transfers(c[a]) => a + 1 \notin GoesTo(c)
    BY <1>1 DEF SlotsAside
  <2>2. Slotless(c, s)
    BY <1>2, <2>1 DEF Slotless
  <2> QED BY <1>2, <2>2, BlockFacts
<1>3. CASE \E a \in Words : Transfers(c[a]) /\ s = a + 2
  <2>1. PICK a \in Words : Transfers(c[a]) /\ s = a + 2
    BY <1>3
  <2>2. a \in Nat /\ a + 1 \in Words /\ a >= 1 /\ s <= N
    BY <1>1, <2>1 DEF Words
  <2>3. c[a + 1].op = "plain" /\ ~Transfers(c[a + 1])
    BY <1>1, <2>1, <2>2, SlotIsPlain
  <2>4. Slotless(c, s)
    <3> SUFFICES ASSUME NEW p \in Words, p + 1 = s PROVE ~Transfers(c[p])
      BY DEF Slotless
    <3>1. p = a + 1
      BY <1>1, <2>1, <2>2 DEF Words
    <3> QED BY <2>3, <3>1
  <2>5. ASSUME NEW b, NEW v, Block(c, b, v), s \in b + 1..v PROVE FALSE
    <3>1. /\ v \in Words /\ b \in Words /\ b < v
          /\ c[b].op \in {"load", "wipe"} /\ ~Transfers(c[b])
          /\ \A d \in b + 1..v - 1 : ~Transfers(c[d])
      BY <2>5, BlockFacts
    <3>2. v \in Nat /\ b \in Nat
      BY <3>1 DEF Words
    <3>3. CASE a + 1 = b
      BY <2>3, <3>1, <3>3
    <3>4. CASE a = b
      BY <2>1, <3>1, <3>4
    <3>5. CASE a \in b + 1..v - 1
      BY <2>1, <3>1, <3>5
    <3>6. a + 1 = b \/ a = b \/ a \in b + 1..v - 1
      BY <2>1, <2>2, <2>5, <3>2
    <3> QED BY <3>3, <3>4, <3>5, <3>6
  <2> QED BY <2>4, <2>5
<1> QED BY <1>2, <1>3

(* Control that falls through stays in its block.                          *)
LEMMA FallsThrough ==
  ASSUME NEW c \in [Words -> Instructions], NEW a \in Words, ~Transfers(c[a])
  PROVE  /\ Slotless(c, a + 1)
         /\ \A b, v : Block(c, b, v) /\ a + 1 \in b + 1..v =>
              a = b \/ (a \in b + 1..v /\ c[a].op = "plain")
<1>1. N \in Nat /\ a \in Nat
  BY BoundsAssumption DEF Words
<1>2. Slotless(c, a + 1)
  <2> SUFFICES ASSUME NEW p \in Words, p + 1 = a + 1 PROVE ~Transfers(c[p])
    BY DEF Slotless
  <2>1. p = a
    BY <1>1 DEF Words
  <2> QED BY <2>1
<1>3. ASSUME NEW b, NEW v, Block(c, b, v), a + 1 \in b + 1..v, a # b
      PROVE  a \in b + 1..v /\ c[a].op = "plain"
  <2>1. v \in Words /\ b \in Words /\ \A d \in b + 1..v - 1 : c[d].op = "plain"
    BY <1>3, BlockFacts
  <2>2. v \in Nat /\ b \in Nat
    BY <2>1 DEF Words
  <2>3. a \in b + 1..v - 1
    BY <1>1, <1>3, <2>2
  <2> QED BY <2>1, <2>2, <2>3
<1> QED BY <1>2, <1>3

(* What the word at a leaves in t is what its block is given.              *)
LEMMA GivenOn ==
  ASSUME NEW c \in [Words -> Instructions], NEW a \in Words, ~Transfers(c[a]), NEW e \in Words, a >= e,
         NEW b \in Words, NEW v \in Words, Block(c, b, v), a + 1 \in b + 1..v,
         NEW t, a \in b + 1..v => t = Given(c, e, b)
  PROVE  Loaded(c[a], t) = Given(c, e, b)
<1>1. c[b].op \in {"load", "wipe"} /\ a \in Nat /\ e \in Nat
  BY BlockFacts, BoundsAssumption DEF Words
<1>2. CASE a = b
  <2>1. Given(c, e, b) = Loaded(c[b], <<>>)
    BY <1>1, <1>2 DEF Given
  <2>2. Loaded(c[b], t) = Loaded(c[b], <<>>)
    BY <1>1 DEF Loaded
  <2> QED BY <1>2, <2>1, <2>2
<1>3. CASE a # b
  <2>1. a \in b + 1..v /\ c[a].op = "plain"
    BY <1>3, FallsThrough
  <2>2. Loaded(c[a], t) = t
    BY <2>1 DEF Loaded
  <2> QED BY <2>1, <2>2
<1> QED BY <1>2, <1>3
-----------------------------------------------------------------------------
LEMMA Fixed == ASSUME BoundsNext PROVE code' = code /\ entry' = entry
BY DEF BoundsNext, Discover, Run, StartScan, StopScan, Ordinary, Rejected, Return, JumpRegister,
       TailJump, Call, TakeBranch, Found, RunOrdinary, RunBranch, RunJump, RunCall, RunTable,
       Leave, Running

(* Each step of the walk, as what it does to the words to come.            *)
LEMMA StartSplits ==
  ASSUME BoundsTypeOK, StartScan
  PROVE  /\ \A i \in 1..Len(worklist') : worklist'[i] = worklist[i] /\ i \in 1..Len(worklist)
         /\ \A a : Stacks(worklist, a) => Stacks(worklist', a) \/ a = worklist[Len(worklist)]
         /\ Stacks(worklist, worklist[Len(worklist)])
         /\ worklist[Len(worklist)] \in Words
<1> DEFINE n == Len(worklist)
<1>1. worklist \in Seq(Words) /\ worklist # <<>> /\ n \in Nat /\ n # 0
  BY DEF BoundsTypeOK, StartScan
<1>2. worklist' = SubSeq(worklist, 1, n - 1)
  BY DEF StartScan
<1>3. Len(worklist') = n - 1 /\ \A i \in 1..n - 1 : worklist'[i] = worklist[i]
  <2> DEFINE m == n - 1
  <2>1. m \in 0..n
    BY <1>1
  <2>2. SubSeq(worklist, 1, m) = [i \in 1..m |-> worklist[i]]
    BY <1>1, <2>1
  <2> HIDE DEF m
  <2>3. Len(SubSeq(worklist, 1, m)) = m
    BY <2>1, <2>2, <1>1
  <2> QED BY <1>2, <2>2, <2>3 DEF m
<1>4. n \in 1..n /\ worklist[n] \in Words
  BY <1>1
<1> HIDE DEF n
<1>5. \A i \in 1..n - 1 : i \in 1..n
  BY <1>1
<1>6. ASSUME NEW i \in 1..n PROVE Stacks(worklist', worklist[i]) \/ i = n
  <2>1. i \in 1..n - 1 \/ i = n
    BY <1>1
  <2> QED BY <1>3, <2>1 DEF Stacks
<1> QED BY <1>3, <1>4, <1>5, <1>6 DEF Stacks, n

LEMMA PushSplits ==
  ASSUME BoundsTypeOK, NEW t \in Seq(Targets), Push(t)
  PROVE  /\ \A i \in 1..Len(worklist') :
              \/ \E k \in 1..Len(worklist) : worklist'[i] = worklist[k]
              \/ \E k \in 1..Len(t) : worklist'[i] = t[k]
         /\ \A a : Stacks(worklist, a) => Stacks(worklist', a)
         /\ \A k \in 1..Len(t) : t[k] \in Words => t[k] \in visited \/ Stacks(worklist', t[k])
<1>1. worklist' = Stacked(worklist, t) /\ worklist \in Seq(Words)
  BY DEF Push, BoundsTypeOK
<1>2. /\ Extends(worklist, worklist', {t[k] : k \in 1..Len(t)} \cap Words)
      /\ \A k \in 1..Len(t) : t[k] \in Words /\ Fresh(t[k]) => Stacks(worklist', t[k])
  BY <1>1, StackedIs
<1>3. /\ Len(worklist) \in Nat /\ Len(worklist') \in Nat /\ Len(worklist) <= Len(worklist')
      /\ \A k \in 1..Len(worklist) : worklist'[k] = worklist[k] /\ k \in 1..Len(worklist')
  BY <1>1, <1>2 DEF Extends
<1>4. ASSUME NEW i \in 1..Len(worklist'), i \notin 1..Len(worklist)
      PROVE  \E k \in 1..Len(t) : worklist'[i] = t[k]
  <2>1. i > Len(worklist)
    BY <1>3, <1>4
  <2> QED BY <1>2, <2>1 DEF Extends
<1>5. \A a : Stacks(worklist, a) => Stacks(worklist', a)
  BY <1>3 DEF Stacks
<1> QED BY <1>2, <1>3, <1>4, <1>5 DEF Fresh

(* The words a scan decodes after the entry are not the entry.             *)
LEMMA DecodeStarts ==
  ASSUME BoundsTypeOK, Starts, NEW op, Decode(op)
  PROVE  /\ \A v \in visited' : v <= last'
         /\ entry \in visited' /\ cursor \in visited'
         /\ cursor = entry \/ entry \in visited
<1>1. visited' = visited \cup Seen(code, cursor) /\ cursor \in Words /\ cursor # Nowhere
      /\ last <= last' /\ last' \in entry..N /\ \A v \in Seen(code, cursor) : v <= last'
  BY DecodeIs
<1>2. cursor = entry \/ entry \in visited
  BY <1>1 DEF Starts
<1>3. ASSUME NEW v \in visited PROVE v <= last'
  <2>1. v \in Nat /\ last \in Nat /\ last' \in Nat /\ v <= last
    BY <1>1 DEF BoundsTypeOK, Words, Starts
  <2> QED BY <1>1, <2>1
<1> QED BY <1>1, <1>2, <1>3 DEF Seen

LEMMA StartsStep == ASSUME BoundsTypeOK, Starts, BoundsNext PROVE Starts'
<1>1. CASE StartScan
  <2>1. visited = {} => worklist[Len(worklist)] = entry /\ worklist = <<entry>>
    BY <1>1 DEF StartScan, Starts, BoundsTypeOK, Words, Nowhere
  <2> QED BY <1>1, <2>1 DEF StartScan, Starts, cpu, Fresh
<1>2. CASE StopScan
  <2>1. visited # {}
    BY <1>2 DEF StopScan, Scanning, Fresh, Starts, BoundsTypeOK
  <2> QED BY <1>2, <2>1 DEF StopScan, Starts, cpu, Scanning, EndOfScan
<1>3. CASE Ordinary
  BY <1>3, DecodeIs, DecodeStarts DEF Ordinary, Starts, cpu
<1>4. CASE Rejected
  BY <1>4 DEF Rejected, Starts, cpu, Scanning
<1>5. CASE Return
  BY <1>5, DecodeIs, DecodeStarts DEF Return, Starts, cpu
<1>6. CASE JumpRegister
  <2>1. result' \in {"searching", "failed"} /\ result = "searching"
    BY <1>6, DecodeIs DEF JumpRegister
  <2> QED BY <1>6, <2>1, DecodeStarts DEF JumpRegister, Starts, cpu
<1>7. CASE TailJump
  BY <1>7, DecodeIs, DecodeStarts DEF TailJump, Starts, cpu
<1>8. CASE Call
  BY <1>8, DecodeIs, DecodeStarts DEF Call, Starts, cpu
<1>9. CASE TakeBranch
  BY <1>9, DecodeIs, DecodeStarts DEF TakeBranch, Starts, cpu
<1>10. CASE Found
  BY <1>10 DEF Found, Starts, Nowhere, Words, BoundsTypeOK
<1>11. CASE Run
  BY <1>11, RunTypes DEF Starts, walk
<1> QED BY <1>1, <1>2, <1>3, <1>4, <1>5, <1>6, <1>7, <1>8, <1>9, <1>10, <1>11 DEF BoundsNext, Discover

LEMMA HeldOn ==
  ASSUME NEW c \in [Words -> Instructions], NEW a \in Words, NEW t \in Held(c)
  PROVE  Loaded(c[a], t) \in Held(c)
BY CodeFacts

LEMMA SentStep == ASSUME BoundsTypeOK, Sent, BoundsNext PROVE Sent'
<1> DEFINE S == GoesTo(code) \cup {entry}
<1>1. code' = code /\ entry' = entry
  BY Fixed
<1>2. code \in [Words -> Instructions]
  BY DEF BoundsTypeOK
<1>3. SUFFICES /\ \A i \in 1..Len(worklist') : worklist'[i] \in S
               /\ table' \in Held(code) /\ held' \in Held(code)
  BY <1>1 DEF Sent
<1>4. \A i \in 1..Len(worklist) : worklist[i] \in S
  BY DEF Sent
<1>5. table \in Held(code) /\ held \in Held(code) /\ <<>> \in Held(code)
  BY DEF Sent, Held
<1>6. \A a : cursor \in Words /\ GoOn(a) => table' \in Held(code)
  BY <1>2, <1>5, HeldOn DEF GoOn
<1>7. \A op : Decode(op) => cursor \in Words /\ code[cursor].op = op
  BY DecodeIs
<1> HIDE DEF S
<1>8. CASE StartScan
  BY <1>4, <1>5, <1>8, StartSplits DEF StartScan, cpu
<1>9. CASE StopScan \/ Rejected \/ Found
  BY <1>4, <1>5, <1>9 DEF StopScan, Rejected, Found, EndOfScan, cpu
<1>10. CASE Ordinary \/ Call
  BY <1>4, <1>5, <1>6, <1>7, <1>10 DEF Ordinary, Call, cpu
<1>11. CASE Return \/ TailJump
  BY <1>4, <1>5, <1>11 DEF Return, TailJump, EndOfScan, cpu
<1>12. CASE JumpRegister
  <2>1. CASE UNCHANGED worklist
    BY <1>4, <1>5, <1>12, <2>1 DEF JumpRegister, EndOfScan, cpu
  <2>2. CASE Push(Entries(table))
    <3>1. ASSUME NEW k \in 1..Len(Entries(table)) PROVE Entries(table)[k] \in S
      <4>1. table \in Seq(Targets) /\ Len(table) \in Nat
        BY DEF BoundsTypeOK
      <4>2. PICK n \in 0..Len(table) : /\ Len(Entries(table)) = n
                                       /\ \A i \in 1..n : Entries(table)[i] = table[i]
        BY <4>1, EntriesAre
      <4>3. k \in 1..Len(table) /\ Entries(table)[k] = table[k]
        BY <4>1, <4>2
      <4> QED BY <1>2, <1>5, <4>3, Sends DEF S
    <3>2. \A i \in 1..Len(worklist') : worklist'[i] \in S
      BY <1>4, <2>2, <3>1, PushSplits, PushedTargets
    <3> QED BY <1>5, <1>12, <3>2 DEF JumpRegister, EndOfScan, cpu
  <2> QED BY <1>12, <2>1, <2>2 DEF JumpRegister
<1>13. CASE TakeBranch
  <2>1. cursor \in Words /\ code[cursor].op = "branch" /\ Push(<<code[cursor].target>>)
    BY <1>7, <1>13 DEF TakeBranch
  <2>2. code[cursor].target \in S
    BY <1>2, <2>1, Sends DEF S
  <2>3. \A k \in 1..Len(<<code[cursor].target>>) : <<code[cursor].target>>[k] = code[cursor].target
    OBVIOUS
  <2>4. \A i \in 1..Len(worklist') : worklist'[i] \in S
    BY <1>4, <2>1, <2>2, <2>3, PushSplits, PushedTargets
  <2> QED BY <1>5, <1>6, <1>7, <1>13, <2>4 DEF TakeBranch, cpu
<1>14. CASE Run
  <2>1. pc \in Words /\ worklist' = worklist /\ table' = table
    BY <1>14, RunTypes DEF walk
  <2>2. Loaded(code[pc], held) \in Held(code) /\ AfterSlot(held) \in Held(code)
    BY <1>2, <1>5, <2>1, HeldOn DEF AfterSlot
  <2>3. held' \in {held, <<>>, Loaded(code[pc], held), AfterSlot(held)}
    BY <1>14 DEF Run, RunOrdinary, RunBranch, RunJump, RunCall, RunTable, Leave
  <2> QED BY <1>4, <1>5, <2>1, <2>2, <2>3
<1> QED BY <1>8, <1>9, <1>10, <1>11, <1>12, <1>13, <1>14 DEF BoundsNext, Discover
-----------------------------------------------------------------------------
(* A scan that goes on knows what t holds in the next word's block.        *)
LEMMA BelievedOn ==
  ASSUME BoundsTypeOK, Starts, Believed, Coverable(code), NEW op, Decode(op),
         NEW a, GoOn(a), code' = code, entry' = entry,
         IF Transfers(code[cursor]) THEN a = cursor + 2 ELSE a = cursor + 1
  PROVE  Believed'
<1>1. /\ code \in [Words -> Instructions] /\ N \in Nat /\ cursor \in Words /\ cursor \in Nat
      /\ Fresh(cursor) /\ entry \in Words /\ entry \in Nat
  BY DecodeIs, BoundsAssumption DEF BoundsTypeOK, Words
<1>2. cursor' = a /\ table' = Loaded(code[cursor], table)
  BY DEF GoOn
<1> SUFFICES ASSUME NEW b \in Words, NEW v \in Words, Block(code, b, v), a \in b + 1..v,
                    a >= entry, a \notin visited'
             PROVE  table' = Given(code, entry, b)
  BY <1>2 DEF Believed, Fresh
<1>3. a \in Words
  BY <1>1 DEF Words
<1>4. CASE Transfers(code[cursor])
  BY <1>1, <1>3, <1>4, Lands
<1>5. CASE ~Transfers(code[cursor])
  <2>1. a = cursor + 1
    BY <1>5
  <2>2. cursor >= entry
    <3>1. entry \in visited'
      BY DecodeStarts
    <3>2. a # entry
      BY <3>1
    <3> QED BY <1>1, <2>1, <3>2
  <2>3. cursor \in b + 1..v => table = Given(code, entry, b)
    BY <1>1, <2>2 DEF Believed
  <2> QED BY <1>1, <1>2, <1>5, <2>1, <2>2, <2>3, GivenOn
<1> QED BY <1>4, <1>5

LEMMA BelievedStep ==
  ASSUME BoundsTypeOK, Starts, Sent, Believed, Coverable(code), BoundsNext
  PROVE  Believed'
<1>1. code' = code /\ entry' = entry
  BY Fixed
<1>2. code \in [Words -> Instructions]
  BY DEF BoundsTypeOK
<1>3. ASSUME cursor' = Nowhere PROVE Believed'
  <2>1. \A b, v \in Words : Nowhere \notin b + 1..v
    BY BoundsAssumption DEF Words, Nowhere
  <2> QED BY <1>3, <2>1 DEF Believed
<1>4. ASSUME UNCHANGED <<visited, cursor, table>> PROVE Believed'
  BY <1>1, <1>4 DEF Believed, Fresh
<1>5. CASE StartScan
  <2> DEFINE off == worklist[Len(worklist)]
  <2>1. CASE Fresh(off)
    <3>1. cursor' = off /\ table' = <<>>
      BY <1>5, <2>1 DEF StartScan
    <3>2. off \in Words /\ (off \in GoesTo(code) \/ off = entry)
      BY <1>5, StartSplits DEF Sent, Stacks
    <3> HIDE DEF off
    <3> SUFFICES ASSUME NEW b \in Words, NEW v \in Words, Block(code, b, v), off \in b + 1..v
                 PROVE  Given(code, entry, b) = <<>>
      BY <1>1, <3>1 DEF Believed
    <3>3. off = entry
      BY <1>2, <3>2, BlockFacts
    <3>4. b < entry
      BY <3>3, BoundsAssumption DEF Words
    <3> QED BY <3>4 DEF Given
  <2>2. CASE ~Fresh(off)
    BY <1>4, <1>5, <2>2 DEF StartScan
  <2> QED BY <2>1, <2>2
<1>6. CASE StopScan \/ Return \/ JumpRegister \/ TailJump
  BY <1>3, <1>6 DEF StopScan, Return, JumpRegister, TailJump, EndOfScan
<1>7. CASE Ordinary
  <2>1. PICK op \in {"plain", "wipe", "load"} : Decode(op)
    BY <1>7 DEF Ordinary
  <2>2. ~Transfers(code[cursor])
    BY <2>1, DecodeIs DEF Transfers
  <2> QED BY <1>1, <1>7, <2>1, <2>2, BelievedOn DEF Ordinary
<1>8. CASE Call \/ TakeBranch
  <2>1. PICK op \in {"jal", "branch"} : Decode(op)
    BY <1>8 DEF Call, TakeBranch
  <2>2. Transfers(code[cursor])
    BY <2>1, DecodeIs DEF Transfers
  <2> QED BY <1>1, <1>8, <2>1, <2>2, BelievedOn DEF Call, TakeBranch
<1>9. CASE Rejected \/ Found
  BY <1>4, <1>9 DEF Rejected, Found
<1>10. CASE Run
  BY <1>4, <1>10, RunTypes DEF walk
<1> QED BY <1>5, <1>6, <1>7, <1>8, <1>9, <1>10 DEF BoundsNext, Discover

(* Nothing decoded: what was due still is.                                 *)
LEMMA SeesKept ==
  ASSUME BoundsTypeOK, Sees, result = "searching", code' = code, entry' = entry, visited' = visited,
         \A a \in Words : Due(a) => Due(a)'
  PROVE  Sees'
<1>1. entry..N \subseteq Words
  BY BoundsAssumption DEF BoundsTypeOK, Words
<1>2. Scanned' = Scanned
  BY DEF Scanned
<1>3. ASSUME NEW v \in Scanned
      PROVE  /\ Transfers(code[v]) => Slot(v) \subseteq visited
             /\ \A s \in entry..N : Continues(code, entry, v, s) => Due(s)'
  BY <1>1 DEF Sees
<1> QED BY <1>2, <1>3 DEF Sees, Slot

(* A word decoded: its successors are due.                                 *)
LEMMA SeesDecoded ==
  ASSUME BoundsTypeOK, Starts, Sees, code' = code, entry' = entry, NEW op, Decode(op),
         \A a : Stacks(worklist, a) => Stacks(worklist', a),
         cursor >= entry => \A s \in entry..N : Continues(code, entry, cursor, s) =>
           s \in visited \/ s = cursor' \/ Stacks(worklist', s)
  PROVE  Sees'
<1>1. /\ visited' = visited \cup Seen(code, cursor) /\ result = "searching"
      /\ cursor \in Words /\ visited \subseteq visited'
  BY DecodeIs
<1>2. cursor = entry \/ entry \in visited
  BY DecodeStarts
<1>3. \A s : Due(s) => Due(s)'
  <2>1. cursor \in visited'
    BY <1>1 DEF Seen
  <2> QED BY <1>1, <2>1 DEF Due
<1>4. \A s : s \in visited \/ s = cursor' \/ Stacks(worklist', s) => Due(s)'
  BY <1>1 DEF Due
<1>5. ASSUME NEW v \in Scanned' PROVE v \in Scanned \/ (v = cursor /\ cursor >= entry)
  <2>1. v \in visited' /\ v >= entry /\ (v = entry \/ Slotless(code, v))
    BY <1>5 DEF Scanned
  <2>2. CASE v \in visited
    BY <2>1, <2>2 DEF Scanned
  <2>3. CASE v = cursor
    BY <2>1, <2>3
  <2>4. CASE v \notin visited /\ v # cursor
    <3>1. v = cursor + 1 /\ Transfers(code[cursor])
      BY <1>1, <2>1, <2>4 DEF Seen, Slot
    <3>2. ~Slotless(code, v)
      BY <1>1, <3>1 DEF Slotless
    <3>3. v # entry
      BY <1>1, <1>2, <2>4
    <3> QED BY <2>1, <3>2, <3>3
  <2> QED BY <2>2, <2>3, <2>4
<1>6. ASSUME NEW v \in Scanned'
      PROVE  /\ Transfers(code[v]) => Slot(v) \subseteq visited'
             /\ \A s \in entry..N : Continues(code, entry, v, s) => Due(s)'
  <2>1. CASE v \in Scanned
    BY <1>1, <1>3, <2>1 DEF Sees
  <2>2. CASE v = cursor /\ cursor >= entry
    <3>1. Transfers(code[v]) => Slot(v) \subseteq visited'
      BY <1>1, <2>2 DEF Seen
    <3> QED BY <1>4, <2>2, <3>1
  <2> QED BY <1>5, <2>1, <2>2
<1> QED BY <1>6 DEF Sees, Slot
(* A jr's block: what the scan believes is what the register is given.     *)
LEMMA JumpBlock ==
  ASSUME NEW c \in [Words -> Instructions], Coverable(c), NEW a \in Words, c[a].op = "jr"
  PROVE  \E b \in Words : Block(c, b, a) /\ a \in b + 1..a
<1>1. PICK b \in 1..a - 1 : SetAt(c, GoesTo(c), b, a)
  BY DEF Coverable, InBlock
<1>2. Block(c, b, a)
  BY <1>1 DEF Block
<1>3. b \in Words /\ a \in b + 1..a
  BY <1>1, BoundsAssumption DEF Words
<1> QED BY <1>2, <1>3

LEMMA SeesStep ==
  ASSUME BoundsTypeOK, Starts, Sent, Believed, Sees, Coverable(code), BoundsNext
  PROVE  Sees'
<1>1. code' = code /\ entry' = entry /\ code \in [Words -> Instructions]
  BY Fixed DEF BoundsTypeOK
<1>2. /\ N \in Nat /\ entry \in Nat /\ \A s \in entry..N : s \in Words
  BY BoundsAssumption DEF BoundsTypeOK, Words
<1>3. CASE StartScan
  <2>1. ASSUME NEW a \in Words, Due(a) PROVE Due(a)'
    <3>1. a # cursor
      BY <1>3, BoundsAssumption DEF StartScan, Nowhere, Words
    <3>2. CASE a \in visited \/ Stacks(worklist', a)
      BY <1>3, <3>2 DEF StartScan, Due
    <3>3. CASE a = worklist[Len(worklist)]
      BY <1>3, <3>3 DEF StartScan, Due, Fresh
    <3> QED BY <1>3, <2>1, <3>1, <3>2, <3>3, StartSplits DEF Due
  <2> QED BY <1>1, <1>3, <2>1, SeesKept DEF StartScan
<1>4. CASE StopScan
  <2>1. ASSUME NEW a \in Words, Due(a) PROVE Due(a)'
    BY <1>4, <2>1 DEF StopScan, Due, Fresh
  <2> QED BY <1>1, <1>4, <2>1, SeesKept DEF StopScan, Scanning
<1>5. CASE Rejected
  BY <1>5 DEF Rejected, Sees
<1>6. CASE Found
  <2>1. ASSUME NEW a \in Words, Due(a) PROVE Due(a)'
    BY <1>6, <2>1 DEF Found, Due
  <2> QED BY <1>1, <1>6, <2>1, SeesKept DEF Found
<1>7. CASE Ordinary
  <2>1. PICK op \in {"plain", "wipe", "load"} : Decode(op)
    BY <1>7 DEF Ordinary
  <2>2. code[cursor].op \in {"plain", "wipe", "load"} /\ cursor' = cursor + 1 /\ worklist' = worklist
    BY <1>7, <2>1, DecodeIs DEF Ordinary, GoOn
  <2>3. \A s : Continues(code, entry, cursor, s) => s = cursor'
    BY <2>2 DEF Continues, Transfers
  <2> QED BY <1>1, <2>1, <2>2, <2>3, SeesDecoded
<1>8. CASE Call
  <2>1. Decode("jal") /\ code[cursor].op = "jal" /\ cursor' = cursor + 2 /\ worklist' = worklist
    BY <1>8, DecodeIs DEF Call, GoOn
  <2>2. \A s : Continues(code, entry, cursor, s) => s = cursor'
    BY <2>1 DEF Continues, Transfers
  <2> QED BY <1>1, <2>1, <2>2, SeesDecoded
<1>9. CASE Return \/ TailJump
  <2>1. PICK op \in {"return", "j"} : Decode(op)
    BY <1>9 DEF Return, TailJump
  <2>2. code[cursor].op \in {"return", "j"} /\ worklist' = worklist
    BY <1>9, <2>1, DecodeIs DEF Return, TailJump
  <2>3. \A s : ~Continues(code, entry, cursor, s)
    BY <2>2 DEF Continues, Transfers
  <2> QED BY <1>1, <2>1, <2>2, <2>3, SeesDecoded
<1>10. CASE TakeBranch
  <2>1. /\ Decode("branch") /\ code[cursor].op = "branch" /\ cursor' = cursor + 2
        /\ cursor \in Words /\ Push(<<code[cursor].target>>)
    BY <1>10, DecodeIs DEF TakeBranch, GoOn
  <2> DEFINE t == <<code[cursor].target>>
  <2>2. t \in Seq(Targets) /\ 1 \in 1..Len(t) /\ t[1] = code[cursor].target
    BY <2>1, PushedTargets
  <2> HIDE DEF t
  <2>3. \A a : Stacks(worklist, a) => Stacks(worklist', a)
    BY <2>1, <2>2, PushSplits DEF t
  <2>4. t[1] \in Words => t[1] \in visited \/ Stacks(worklist', t[1])
    BY <2>1, <2>2, PushSplits DEF t
  <2>5. \A s \in entry..N : Continues(code, entry, cursor, s) =>
          s \in visited \/ s = cursor' \/ Stacks(worklist', s)
    BY <1>2, <2>1, <2>2, <2>4 DEF Continues, Transfers
  <2> QED BY <1>1, <2>1, <2>3, <2>5, SeesDecoded
<1>11. CASE JumpRegister
  <2>1. Decode("jr") /\ code[cursor].op = "jr" /\ cursor \in Words /\ Fresh(cursor)
        /\ result = "searching"
    BY <1>11, DecodeIs DEF JumpRegister
  <2>2. table \in Held(code) /\ table \in Seq(Targets)
    BY DEF Sent, BoundsTypeOK
  <2>3. ASSUME cursor >= entry, NEW s \in entry..N, Continues(code, entry, cursor, s)
        PROVE  \E i \in 1..Len(table) : s = table[i]
    <3>1. PICK b \in Words : Block(code, b, cursor)
                             /\ \E i \in 1..Len(Given(code, entry, b)) : s = Given(code, entry, b)[i]
      BY <2>1, <2>3 DEF Continues, Transfers
    <3>2. cursor \in b + 1..cursor
      BY <1>2, <2>1, <3>1, BlockFacts, <1>1 DEF Words
    <3>3. table = Given(code, entry, b)
      BY <2>1, <2>3, <3>1, <3>2 DEF Believed
    <3> QED BY <3>1, <3>3
  <2>4. CASE table = <<>>
    <3>1. worklist' = worklist
      BY <1>11, <2>4 DEF JumpRegister
    <3>2. \A s \in entry..N : cursor >= entry => ~Continues(code, entry, cursor, s)
      BY <2>3, <2>4
    <3> QED BY <1>1, <2>1, <3>1, <3>2, SeesDecoded
  <2>5. CASE table # <<>> /\ Entries(table) = <<>>
    <3>1. result' = "failed"
      BY <1>11, <2>5 DEF JumpRegister
    <3> QED BY <3>1 DEF Sees
  <2>6. CASE table # <<>> /\ Entries(table) # <<>>
    <3>1. Push(Entries(table)) /\ Entries(table) \in Seq(Targets)
      BY <1>11, <2>6, PushedTargets DEF JumpRegister
    <3>2. \A a : Stacks(worklist, a) => Stacks(worklist', a)
      BY <3>1, PushSplits
    <3>3. ASSUME NEW i \in 1..Len(table), table[i] \in Words
          PROVE  table[i] \in visited \/ Stacks(worklist', table[i])
      <4>1. PICK n \in 0..Len(table) :
              /\ Len(Entries(table)) = n
              /\ \A k \in 1..n : Entries(table)[k] = table[k]
              /\ n < Len(table) => table[n + 1] \notin Words
        BY <2>2, EntriesAre
      <4>2. \A k \in 1..i : table[k] \in Words
        <5>1. PICK a \in Words : code[a].op = "load" /\ table = code[a].table
          BY <2>2, <2>6 DEF Held
        <5> QED BY <3>3, <5>1 DEF Coverable, TablesFirst
      <4>3. Len(table) \in Nat
        BY <2>2
      <4>4. i \in 1..n
        BY <4>1, <4>2, <4>3
      <4>5. i \in 1..Len(Entries(table)) /\ Entries(table)[i] = table[i]
        BY <4>1, <4>4
      <4> QED BY <3>1, <3>3, <4>5, PushSplits
    <3>4. cursor >= entry => \A s \in entry..N : Continues(code, entry, cursor, s) =>
            s \in visited \/ s = cursor' \/ Stacks(worklist', s)
      BY <1>2, <2>3, <3>3
    <3> QED BY <1>1, <2>1, <3>2, <3>4, SeesDecoded
  <2> QED BY <2>4, <2>5, <2>6
<1>12. CASE Run
  <2>1. result = "found" /\ UNCHANGED walk
    BY <1>12, RunTypes
  <2>2. Scanned' = Scanned /\ \A a : Due(a)' <=> Due(a)
    BY <1>1, <2>1 DEF walk, Scanned, Due
  <2> QED BY <1>1, <2>1, <2>2 DEF Sees, walk, Slot
<1> QED BY <1>3, <1>4, <1>5, <1>6, <1>7, <1>8, <1>9, <1>10, <1>11, <1>12 DEF BoundsNext, Discover
-----------------------------------------------------------------------------
(* Where the CPU gets to, the walk has been.                               *)
LEMMA Reaches ==
  ASSUME BoundsTypeOK, Starts, Sees, Inside, pc # Nowhere, code' = code, entry' = entry,
         UNCHANGED walk, NEW s, Goes(s),
         Continues(code, entry, pc, s), s \in Words => Slotless(code, s)
  PROVE  Inside'
<1>1. pc \in Scanned /\ result = "found" /\ N \in Nat /\ entry \in Nat /\ entry >= 1
  BY BoundsAssumption DEF Inside, BoundsTypeOK, Words
<1>2. worklist = <<>> /\ cursor = Nowhere
  BY <1>1 DEF Starts
<1>3. CASE s \in entry..N
  <2>1. Due(s)
    BY <1>1, <1>3 DEF Sees
  <2>2. s \in Words /\ s >= entry /\ s # Nowhere
    BY <1>1, <1>3 DEF Words, Nowhere
  <2>3. s \in visited
    BY <1>2, <2>1, <2>2 DEF Due, Stacks
  <2>4. s \in Scanned
    BY <2>2, <2>3 DEF Scanned
  <2>5. pc' = s
    BY <1>3 DEF Goes
  <2> QED BY <2>4, <2>5 DEF Inside, Scanned, walk
<1>4. CASE s \notin entry..N
  BY <1>4 DEF Goes, Inside
<1> QED BY <1>3, <1>4

(* It lands outside every block but its first word, and the register's     *)
(* contents need not be known.                                             *)
LEMMA HoldsOutside ==
  ASSUME code' = code, entry' = entry, NEW s, Goes(s),
         s \in Words => \A b, v : Block(code, b, v) => s \notin b + 1..v
  PROVE  Holds'
<1>1. CASE pc' = Nowhere
  <2>1. \A b, v \in Words : Nowhere \notin b + 1..v
    BY BoundsAssumption DEF Words, Nowhere
  <2> QED BY <1>1, <2>1 DEF Holds
<1>2. CASE pc' = s
  <2>1. \A b, v \in Words : s \in b + 1..v => s \in Words
    BY BoundsAssumption DEF Words
  <2> QED BY <1>2, <2>1 DEF Holds
<1> QED BY <1>1, <1>2 DEF Goes

LEMMA RunStays ==
  ASSUME BoundsTypeOK, Starts, Sent, Holds, Sees, Inside, Coverable(code), Run
  PROVE  Inside' /\ Holds'
<1>1. /\ pc \in Words /\ pc # Nowhere /\ pc \in Scanned /\ code' = code /\ entry' = entry
      /\ UNCHANGED walk /\ code \in [Words -> Instructions]
  BY RunTypes DEF Inside, BoundsTypeOK, Nowhere, Words
<1>2. pc >= entry /\ pc \in Nat /\ entry \in Words /\ N \in Nat
  BY <1>1, BoundsAssumption DEF Scanned, Words, BoundsTypeOK
<1>3. ASSUME NEW s, Goes(s), Continues(code, entry, pc, s),
             s \in Words => s \in GoesTo(code) \/ \E a \in Words : Transfers(code[a]) /\ s = a + 2
      PROVE  Inside' /\ Holds'
  <2>1. s \in Words => Slotless(code, s) /\ \A b, v : Block(code, b, v) => s \notin b + 1..v
    BY <1>1, <1>3, Lands
  <2> QED BY <1>1, <1>3, <2>1, Reaches, HoldsOutside
<1>4. ASSUME pc' = Nowhere PROVE Inside' /\ Holds'
  <2>1. \A b, v \in Words : Nowhere \notin b + 1..v
    BY BoundsAssumption DEF Words, Nowhere
  <2> QED BY <1>4, <2>1 DEF Inside, Holds
<1>5. CASE RunOrdinary
  <2>1. Goes(pc + 1) /\ held' = Loaded(code[pc], held) /\ ~Transfers(code[pc])
    BY <1>5 DEF RunOrdinary, Running, Transfers
  <2>2. Continues(code, entry, pc, pc + 1) /\ Slotless(code, pc + 1)
    BY <1>1, <2>1, FallsThrough DEF Continues
  <2>3. Inside'
    BY <1>1, <2>1, <2>2, Reaches
  <2>4. CASE pc' = Nowhere
    BY <1>4, <2>4
  <2>5. CASE pc' = pc + 1
    <3> SUFFICES ASSUME NEW b \in Words, NEW v \in Words, Block(code, b, v), pc + 1 \in b + 1..v
                 PROVE  held' = Given(code, entry, b)
      BY <1>1, <2>3, <2>5 DEF Holds
    <3>1. pc \in b + 1..v => held = Given(code, entry, b)
      BY DEF Holds
    <3> QED BY <1>1, <1>2, <2>1, <3>1, GivenOn
  <2> QED BY <2>1, <2>3, <2>4, <2>5 DEF Goes
<1>6. CASE RunBranch
  <2>1. code[pc].op = "branch" /\ Transfers(code[pc])
    BY <1>6 DEF RunBranch, Running, Transfers
  <2>2. CASE Goes(code[pc].target)
    <3>1. Continues(code, entry, pc, code[pc].target) /\ code[pc].target \in GoesTo(code)
      BY <1>1, <2>1, Sends DEF Continues
    <3> QED BY <1>3, <2>2, <3>1
  <2>3. CASE Goes(pc + 2)
    <3>1. Continues(code, entry, pc, pc + 2)
      BY <2>1 DEF Continues
    <3> QED BY <1>1, <1>3, <2>1, <2>3, <3>1
  <2> QED BY <1>6, <2>2, <2>3 DEF RunBranch
<1>7. CASE RunJump
  <2>1. code[pc].op = "j" /\ code[pc].target \notin Words
    BY <1>1, <1>7 DEF RunJump, Running, Coverable, JumpsLeave
  <2>2. entry..last \subseteq Words
    BY <1>2 DEF BoundsTypeOK, Words
  <2>3. Goes(Nowhere)
    BY <1>7, <2>1, <2>2 DEF RunJump
  <2> QED BY <1>4, <2>3 DEF Goes
<1>8. CASE RunCall
  <2>1. code[pc].op = "jal" /\ Transfers(code[pc]) /\ Goes(pc + 2)
    BY <1>8 DEF RunCall, Running, Transfers
  <2>2. Continues(code, entry, pc, pc + 2)
    BY <2>1 DEF Continues
  <2> QED BY <1>1, <1>3, <2>1, <2>2
<1>9. CASE RunTable
  <2>1. code[pc].op = "jr" /\ Transfers(code[pc])
    BY <1>9 DEF RunTable, Running, Transfers
  <2>2. PICK i \in 1..Len(held) : Goes(held[i])
    BY <1>9 DEF RunTable
  <2>3. PICK b \in Words : Block(code, b, pc) /\ pc \in b + 1..pc
    BY <1>1, <2>1, JumpBlock
  <2>4. held = Given(code, entry, b)
    BY <1>1, <2>3 DEF Holds
  <2>5. Continues(code, entry, pc, held[i])
    BY <2>1, <2>3, <2>4 DEF Continues
  <2>6. held[i] \in GoesTo(code)
    BY <1>1, Sends DEF Sent
  <2> QED BY <1>3, <2>2, <2>5, <2>6
<1>10. CASE Leave
  BY <1>4, <1>10 DEF Leave
<1> QED BY <1>5, <1>6, <1>7, <1>8, <1>9, <1>10 DEF Run

LEMMA CpuStep ==
  ASSUME BoundsTypeOK, Starts, Sent, Holds, Sees, Inside, Coverable(code), BoundsNext
  PROVE  Inside' /\ Holds'
<1>1. code' = code /\ entry' = entry /\ entry \in Words
  BY Fixed DEF BoundsTypeOK
<1>2. CASE Run
  BY <1>2, RunStays
<1>3. CASE Found
  <2>1. /\ pc' = entry /\ held' = <<>> /\ entry \in visited
    BY <1>3 DEF Found, Starts, BoundsTypeOK, Words, Nowhere
  <2>2. entry \in Scanned'
    BY <1>1, <1>3, <2>1, BoundsAssumption DEF Found, Scanned, Words
  <2>3. ASSUME NEW b \in Words, NEW v \in Words, entry \in b + 1..v PROVE Given(code, entry, b) = <<>>
    BY <1>1, <2>3, BoundsAssumption DEF Given, Words
  <2> QED BY <1>1, <2>1, <2>2, <2>3 DEF Inside, Holds
<1>4. CASE Discover /\ ~Found
  <2>1. result = "searching" /\ pc' = pc
    BY <1>4, DecodeIs DEF Discover, StartScan, StopScan, Ordinary, Rejected, Return, JumpRegister, TailJump,
       Call, TakeBranch, cpu, Scanning
  <2>2. pc' = Nowhere
    BY <2>1 DEF Starts
  <2>3. \A b, v \in Words : Nowhere \notin b + 1..v
    BY BoundsAssumption DEF Words, Nowhere
  <2> QED BY <2>2, <2>3 DEF Inside, Holds
<1> QED BY <1>2, <1>3, <1>4 DEF BoundsNext

LEMMA CoverInit == BoundsInit => CoverInv
<1> SUFFICES ASSUME BoundsInit PROVE CoverInv
  OBVIOUS
<1>1. BoundsTypeOK
  BY BoundsTypesInit
<1>2. Starts
  BY DEF BoundsInit, Starts
<1>3. Sent
  BY DEF BoundsInit, Sent, Held
<1>4. Believed /\ Holds
  <2>1. \A b, v \in Words : Nowhere \notin b + 1..v
    BY BoundsAssumption DEF Words, Nowhere
  <2> QED BY <2>1 DEF BoundsInit, Believed, Holds
<1>5. Sees /\ Inside
  BY DEF BoundsInit, Sees, Inside, Scanned
<1> QED BY <1>1, <1>2, <1>3, <1>4, <1>5 DEF CoverInv, BoundsInit

LEMMA CoverStep == ASSUME AllCoverable PROVE CoverInv /\ [BoundsNext]_boundsVars => CoverInv'
<1> SUFFICES ASSUME CoverInv, [BoundsNext]_boundsVars PROVE CoverInv'
  OBVIOUS
<1>1. CASE BoundsNext
  <2>1. Coverable(code) /\ code' = code
    BY <1>1, Fixed DEF CoverInv, AllCoverable
  <2>2. BoundsTypeOK'
    BY BoundsTypesStep DEF CoverInv
  <2>3. Starts' /\ Sent'
    BY <1>1, StartsStep, SentStep DEF CoverInv
  <2>4. Believed' /\ Sees'
    BY <1>1, <2>1, BelievedStep, SeesStep DEF CoverInv
  <2>5. Holds' /\ Inside'
    BY <1>1, <2>1, CpuStep DEF CoverInv
  <2> QED BY <2>1, <2>2, <2>3, <2>4, <2>5 DEF CoverInv
<1>2. CASE UNCHANGED boundsVars
  BY <1>2 DEF boundsVars, walk, cpu, CoverInv, BoundsTypeOK, Starts, Sent, Believed, Holds, Sees, Inside,
     Scanned, Fresh, Due, Stacks, Slot
<1> QED BY <1>1, <1>2

LEMMA CoverImplies == CoverInv => Covered
<1> SUFFICES ASSUME CoverInv, pc # Nowhere
             PROVE  /\ pc <= last
                    /\ Transfers(code[pc]) => \A slot \in Slot(pc) : slot <= last
  BY DEF Covered
<1>1. pc \in Scanned /\ pc \in visited /\ result = "found"
  BY DEF CoverInv, Inside, Scanned, BoundsTypeOK
<1>2. Transfers(code[pc]) => Slot(pc) \subseteq visited
  BY <1>1 DEF CoverInv, Sees
<1> QED BY <1>1, <1>2 DEF CoverInv, Starts

(* The size found reaches every word the CPU executes, and its delay slot, *)
(* if the body is one the walk is meant for.                               *)
THEOREM WalkCovers == AllCoverable => (BoundsSpec => []Covered)
<1> SUFFICES ASSUME AllCoverable PROVE BoundsSpec => []Covered
  OBVIOUS
<1>1. CoverInv /\ [BoundsNext]_boundsVars => CoverInv'
  BY CoverStep
<1> QED BY <1>1, CoverInit, CoverImplies, PTL DEF BoundsSpec
-----------------------------------------------------------------------------
(* Words control can get to from the entry, and their slots.               *)
ClosedUnder(S) == entry \in S /\ \A a \in S : Successors(a) \cap Words \subseteq S
PartOf(S, a)   == a \in S \/ (a - 1 \in S /\ Transfers(code[a - 1]))

(* The walk is inside every set of words closed under control flow.        *)
WalkWithin ==
  \A S \in SUBSET Words : ClosedUnder(S) =>
    /\ \A i \in 1..Len(worklist) : worklist[i] \in S
    /\ cursor \in Words => cursor \in S
    /\ \A a \in visited : PartOf(S, a)

ElseInv == BoundsTypeOK /\ code \in Codes /\ Sent /\ WalkWithin

(* The successors a step of the walk uses.                                 *)
LEMMA SuccessorsAre ==
  ASSUME BoundsTypeOK, Sent, Conditional(code), NEW S \in SUBSET Words, ClosedUnder(S), NEW a \in S
  PROVE  /\ ~Transfers(code[a]) /\ a + 1 \in Words => a + 1 \in S
         /\ code[a].op \in {"branch", "jal"} /\ a + 2 \in Words => a + 2 \in S
         /\ code[a].op = "branch" /\ code[a].target \in Words => code[a].target \in S
         /\ code[a].op = "jr" => \A i \in 1..Len(table) : table[i] \in Words => table[i] \in S
<1>1. Successors(a) \cap Words \subseteq S /\ a \in Words
  BY DEF ClosedUnder
<1>2. ~Transfers(code[a]) => Successors(a) = {a + 1}
  BY DEF Successors, Transfers
<1>3. code[a].op = "jal" => Successors(a) = {a + 2}
  BY DEF Successors
<1>4. code[a].op = "branch" => Successors(a) = {code[a].target, a + 2}
  BY <1>1 DEF Successors, Conditional
<1>5. ASSUME code[a].op = "jr", NEW i \in 1..Len(table) PROVE table[i] \in Successors(a)
  <2>1. table # <<>>
    BY <1>5
  <2>2. table \in Tables
    BY <2>1 DEF Sent, Held, Tables
  <2>3. table[i] \in {table[k] : k \in 1..Len(table)}
    BY <1>5
  <2>4. {table[k] : k \in 1..Len(table)} \in {{t[k] : k \in 1..Len(t)} : t \in Tables}
    BY <2>2, Zenon
  <2>5. table[i] \in Arms
    BY <2>3, <2>4, Zenon DEF Arms
  <2>6. Successors(a) = Arms
    BY <1>5 DEF Successors
  <2> QED BY <2>5, <2>6, Zenon
<1> QED BY <1>1, <1>2, <1>3, <1>4, <1>5

LEMMA DecodedPart ==
  ASSUME BoundsTypeOK, NEW S \in SUBSET Words, cursor \in Words => cursor \in S,
         \A a \in visited : PartOf(S, a), NEW op, Decode(op), code' = code
  PROVE  cursor \in S /\ code[cursor].op = op /\ \A a \in visited' : PartOf(S, a)
<1>1. /\ visited' = visited \cup Seen(code, cursor) /\ cursor \in Words /\ cursor \in Nat
      /\ code[cursor].op = op
  BY DecodeIs, CodeFacts DEF BoundsTypeOK
<1>2. ASSUME NEW a \in Seen(code, cursor) PROVE PartOf(S, a)
  <2>1. CASE a = cursor
    BY <1>1, <2>1 DEF PartOf
  <2>2. CASE a # cursor
    <3>1. a = cursor + 1 /\ Transfers(code[cursor])
      BY <2>2 DEF Seen, Slot
    <3>2. a - 1 = cursor
      BY <1>1, <3>1
    <3> QED BY <1>1, <3>1, <3>2 DEF PartOf
  <2> QED BY <2>1, <2>2
<1> QED BY <1>1, <1>2

LEMMA WithinStep ==
  ASSUME BoundsTypeOK, Sent, Conditional(code), WalkWithin, BoundsNext
  PROVE  WalkWithin'
<1>1. code' = code /\ entry' = entry
  BY Fixed
<1>2. \A a : Successors(a)' = Successors(a)
  BY <1>1 DEF Successors, Arms, Tables
<1> SUFFICES ASSUME NEW S \in SUBSET Words, ClosedUnder(S)
             PROVE  /\ \A i \in 1..Len(worklist') : worklist'[i] \in S
                    /\ cursor' \in Words => cursor' \in S
                    /\ \A a \in visited' : PartOf(S, a)
  BY <1>1, <1>2 DEF WalkWithin, ClosedUnder, PartOf
<1>3. /\ \A i \in 1..Len(worklist) : worklist[i] \in S
      /\ cursor \in Words => cursor \in S
      /\ \A a \in visited : PartOf(S, a)
  BY DEF WalkWithin
<1>4. \A op : Decode(op) => cursor \in S /\ code[cursor].op = op /\ \A a \in visited' : PartOf(S, a)
  BY <1>1, <1>3, DecodedPart
<1>5. Nowhere \notin Words
  BY DEF Words, Nowhere
<1>6. CASE StartScan
  <2>1. worklist[Len(worklist)] \in S
    BY <1>3, <1>6, StartSplits DEF Stacks
  <2>2. cursor' \in {cursor, worklist[Len(worklist)]} /\ visited' = visited
    BY <1>6 DEF StartScan
  <2>3. \A i \in 1..Len(worklist') : worklist'[i] \in S
    BY <1>3, <1>6, StartSplits
  <2> QED BY <1>3, <2>1, <2>2, <2>3
<1>7. CASE StopScan \/ Rejected \/ Found
  BY <1>3, <1>5, <1>7 DEF StopScan, Rejected, Found, EndOfScan
<1>8. CASE Ordinary
  <2>1. PICK op \in {"plain", "wipe", "load"} : Decode(op)
    BY <1>8 DEF Ordinary
  <2>2. cursor \in S /\ ~Transfers(code[cursor]) /\ cursor' = cursor + 1 /\ worklist' = worklist
    BY <1>4, <1>8, <2>1 DEF Ordinary, GoOn, Transfers
  <2> QED BY <1>3, <1>4, <2>1, <2>2, SuccessorsAre
<1>9. CASE Return \/ TailJump
  BY <1>3, <1>4, <1>5, <1>9 DEF Return, TailJump, EndOfScan
<1>10. CASE Call
  <2>1. cursor \in S /\ code[cursor].op = "jal" /\ cursor' = cursor + 2 /\ worklist' = worklist
    BY <1>4, <1>10 DEF Call, GoOn
  <2> QED BY <1>3, <1>4, <1>10, <2>1, SuccessorsAre DEF Call
<1>11. CASE TakeBranch
  <2>1. cursor \in S /\ code[cursor].op = "branch" /\ cursor' = cursor + 2
        /\ Push(<<code[cursor].target>>)
    BY <1>4, <1>11 DEF TakeBranch, GoOn
  <2> DEFINE t == <<code[cursor].target>>
  <2>2. t \in Seq(Targets) /\ \A k \in 1..Len(t) : t[k] = code[cursor].target
    BY <2>1, PushedTargets
  <2> HIDE DEF t
  <2>3. worklist' \in Seq(Words)
    BY <2>1, <2>2, PushTypes DEF t
  <2>4. ASSUME NEW i \in 1..Len(worklist') PROVE worklist'[i] \in S
    <3>1. worklist'[i] \in Words
      BY <2>3
    <3>2. \/ \E k \in 1..Len(worklist) : worklist'[i] = worklist[k]
          \/ worklist'[i] = code[cursor].target
      BY <2>1, <2>2, PushSplits DEF t
    <3> QED BY <1>3, <2>1, <3>1, <3>2, SuccessorsAre
  <2> QED BY <1>4, <1>11, <2>1, <2>4, SuccessorsAre DEF TakeBranch
<1>12. CASE JumpRegister
  <2>1. cursor \in S /\ code[cursor].op = "jr" /\ cursor' = Nowhere /\ \A a \in visited' : PartOf(S, a)
    BY <1>4, <1>12 DEF JumpRegister, EndOfScan
  <2>2. CASE UNCHANGED worklist
    BY <1>3, <1>5, <2>1, <2>2
  <2>3. CASE Push(Entries(table))
    <3>1. worklist' \in Seq(Words)
      BY <2>3, PushTypes, PushedTargets
    <3>2. table \in Seq(Targets) /\ Len(table) \in Nat
      BY DEF BoundsTypeOK
    <3>3. PICK n \in 0..Len(table) : /\ Len(Entries(table)) = n
                                     /\ \A i \in 1..n : Entries(table)[i] = table[i]
      BY <3>2, EntriesAre
    <3>4. ASSUME NEW i \in 1..Len(worklist') PROVE worklist'[i] \in S
      <4>1. worklist'[i] \in Words
        BY <3>1
      <4>2. \/ \E k \in 1..Len(worklist) : worklist'[i] = worklist[k]
            \/ \E k \in 1..Len(Entries(table)) : worklist'[i] = Entries(table)[k]
        BY <2>3, PushSplits, PushedTargets
      <4>3. ASSUME NEW k \in 1..Len(Entries(table)), worklist'[i] = Entries(table)[k]
            PROVE  worklist'[i] \in S
        <5>1. k \in 1..Len(table) /\ worklist'[i] = table[k]
          BY <3>2, <3>3, <4>3
        <5> QED BY <2>1, <4>1, <5>1, SuccessorsAre
      <4> QED BY <1>3, <4>2, <4>3
    <3> QED BY <1>5, <2>1, <3>4
  <2> QED BY <1>12, <2>2, <2>3 DEF JumpRegister
<1>13. CASE Run
  BY <1>3, <1>13, RunTypes DEF walk
<1> QED BY <1>6, <1>7, <1>8, <1>9, <1>10, <1>11, <1>12, <1>13 DEF BoundsNext, Discover

LEMMA ElseStep == ASSUME AllConditional PROVE ElseInv /\ [BoundsNext]_boundsVars => ElseInv'
<1> SUFFICES ASSUME ElseInv, [BoundsNext]_boundsVars PROVE ElseInv'
  OBVIOUS
<1>1. CASE BoundsNext
  <2>1. Conditional(code) /\ code' = code
    BY <1>1, Fixed DEF ElseInv, AllConditional
  <2> QED BY <1>1, <2>1, BoundsTypesStep, SentStep, WithinStep DEF ElseInv
<1>2. CASE UNCHANGED boundsVars
  <2>1. \A a : Successors(a)' = Successors(a)
    BY <1>2 DEF boundsVars, Successors, Arms, Tables
  <2>2. WalkWithin'
    BY <1>2, <2>1 DEF boundsVars, walk, ElseInv, WalkWithin, ClosedUnder, PartOf
  <2>3. Sent'
    BY <1>2 DEF boundsVars, walk, cpu, ElseInv, Sent
  <2> QED BY <1>2, <2>2, <2>3, BoundsTypesStep DEF boundsVars, ElseInv
<1> QED BY <1>1, <1>2

(* Whatever the walk takes in, control can get to from the entry, if no    *)
(* branch is unconditional.                                                *)
THEOREM WalkTakesNothingElse == AllConditional => (BoundsSpec => []NothingElse)
<1> SUFFICES ASSUME AllConditional PROVE BoundsSpec => []NothingElse
  OBVIOUS
<1>1. BoundsInit => ElseInv
  BY CoverInit DEF CoverInv, ElseInv, BoundsInit, WalkWithin, ClosedUnder, Words, Nowhere
<1>2. ElseInv /\ [BoundsNext]_boundsVars => ElseInv'
  BY ElseStep
<1>3. ElseInv => NothingElse
  BY DEF ElseInv, WalkWithin, NothingElse, ClosedUnder, PartOf
<1> QED BY <1>1, <1>2, <1>3, PTL DEF BoundsSpec
=============================================================================
