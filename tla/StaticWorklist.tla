--------------------------- MODULE StaticWorklist ---------------------------
(***************************************************************************)
(* What the recompiler emits (main.cpp): every known function, then,       *)
(* section by section, the "static" functions that translated code asked   *)
(* for at addresses without a symbol, which may ask for more.  Every name  *)
(* the emitted C uses has to be defined in it exactly once.                *)
(***************************************************************************)
EXTENDS Naturals

CONSTANTS
  Places,    (* addresses of the executable sections                        *)
  Last,      (* sections are 1..Last, in the order of context.sections      *)
  Section,   (* the one section that contains a place                       *)
  Programs   (* the inputs considered                                       *)

(* An input: functions with words, reimplemented symbols without; for the  *)
(* code at a place, the targets of its calls and tail branches, and the    *)
(* addresses after its calls; the function a place lies inside of, or the  *)
(* place; places that only hold relocated data; code that does not         *)
(* translate; the places asked for before any code is translated; whether  *)
(* every function gets a file of its own (functions_per_output_file = 1).  *)
Inputs ==
  [bodies : SUBSET Places, natives : SUBSET Places,
   calls : [Places -> SUBSET Places], links : [Places -> SUBSET Places],
   owner : [Places -> Places], data : SUBSET Places, fails : SUBSET Places,
   seeds : SUBSET Places, ownFiles : BOOLEAN]

Known(p) == p.bodies \cup p.natives
WellFormed(p) ==
  /\ p.bodies \cap p.natives = {}
  /\ \A a \in Places :
       /\ p.owner[a] # a => p.owner[a] \in p.bodies /\ a \notin Known(p)
       /\ Section[p.owner[a]] = Section[a]
       /\ \A b \in p.links[a] : Section[b] = Section[a]
       /\ p.calls[a] \cap p.data = {}

ASSUME WorklistAssumption ==
  /\ Last \in Nat
  /\ Section \in [Places -> 1..Last]
  /\ Programs \subseteq Inputs
  /\ \A p \in Programs : WellFormed(p)

VARIABLES
  program,    (* the input                                                  *)
  section,    (* 0: the known functions; then the section; Last + 1: done   *)
  translated, (* the known functions emitted                                *)
  requested,  (* static_funcs_by_section                                    *)
  handled,    (* section_statics before static_func_index                   *)
  synthetic,  (* the statics appended to context.functions                  *)
  copies,     (* how often a name is defined in the output (2: more)        *)
  named,      (* the names the output uses                                  *)
  open,       (* current_output_file is open                                *)
  failed      (* the recompiler has exited                                  *)

vars == <<program, section, translated, requested, handled, synthetic,
          copies, named, open, failed>>

Fn(a)     == [kind |-> "function", at |-> a]
Static(a) == [kind |-> "static", at |-> a]
Names     == [kind : {"function", "static"}, at : Places]

Define(n) == copies' = [copies EXCEPT ![n] = IF @ = 0 THEN 1 ELSE 2]

-----------------------------------------------------------------------------
(* resolve_jal, for a target one section contains: a function with words,  *)
(* and from elsewhere a reimplemented symbol, is called by its name.       *)
Matches(a, from) ==
  \/ a \in program.bodies \cup synthetic
  \/ a \in program.natives /\ Section[a] # from
NameOf(a, from) == IF Matches(a, from) /\ a \notin synthetic THEN Fn(a) ELSE Static(a)

(* Faulty variant: a call to another section asks for nothing.             *)
FaultyCreated(unit) ==
  {a \in program.calls[unit] : ~Matches(a, Section[unit]) /\ Section[a] = Section[unit]}

Called(unit)  == {NameOf(a, Section[unit]) : a \in program.calls[unit]}
Created(unit) == {a \in program.calls[unit] : ~Matches(a, Section[unit])}
Asked(unit)   == Created(unit) \cup program.links[unit]

(* recompile_function: the code of unit under the name n.                  *)
Translate(unit, n) ==
  /\ unit \notin program.fails
  /\ requested' = requested \cup Asked(unit)
  /\ named' = named \cup Called(unit)
  /\ Define(n)
  /\ UNCHANGED failed

(* It gives up half way: what has been asked for stays asked for; a stub   *)
(* takes the place of the code, or the recompiler exits.                   *)
GiveUp(unit, n) ==
  /\ unit \in program.fails
  /\ \E some \in SUBSET Asked(unit) : requested' = requested \cup some
  /\ IF program.ownFiles THEN failed' = TRUE /\ UNCHANGED copies
                         ELSE Define(n) /\ UNCHANGED failed
  /\ UNCHANGED named

Recompile(unit, n) == Translate(unit, n) \/ GiveUp(unit, n)

-----------------------------------------------------------------------------
Init ==
  /\ program \in Programs
  /\ section = 0
  /\ translated = {}
  /\ requested = program.seeds
  /\ handled = {}
  /\ synthetic = {}
  /\ copies = [n \in Names |-> IF \E a \in program.natives : n = Fn(a) THEN 1 ELSE 0]
  /\ named = {}
  /\ open = ~program.ownFiles
  /\ failed = FALSE

KnownFunction ==
  /\ section = 0 /\ ~failed
  /\ \E f \in program.bodies \ translated :
       /\ Recompile(f, Fn(f))
       /\ translated' = translated \cup {f}
  /\ UNCHANGED <<program, section, handled, synthetic, open>>

(* The statics of the section that are still to be done.                   *)
Todo == {a \in requested \ handled : Section[a] = section}

(* At a known function: the static's name calls it.  The file may not be   *)
(* open yet when every function has its own.                               *)
Alias ==
  /\ ~failed
  /\ \E a \in Todo \cap Known(program) :
       /\ handled' = handled \cup {a}
       /\ IF open THEN Define(Static(a)) /\ named' = named \cup {Fn(a)}
                  ELSE UNCHANGED <<copies, named>>
  /\ open' = TRUE
  /\ UNCHANGED <<program, section, translated, requested, synthetic, failed>>

(* Nothing but relocated data: dropped.                                    *)
DropData ==
  /\ ~failed
  /\ \E a \in (Todo \cap program.data) \ Known(program) : handled' = handled \cup {a}
  /\ UNCHANGED <<program, section, translated, requested, synthetic, copies, named, open, failed>>

(* Faulty variant: an address that was asked for again is done again.      *)
FaultyStaticFunction ==
  /\ ~failed
  /\ \E a \in Todo \ (Known(program) \cup program.data) :
       /\ synthetic' = synthetic \cup {a}
       /\ Recompile(program.owner[a], Static(a))
       /\ handled' = (handled \cup {a}) \ Asked(program.owner[a])
  /\ UNCHANGED <<program, section, translated, open>>

StaticFunction ==
  /\ ~failed
  /\ \E a \in Todo \ (Known(program) \cup program.data) :
       /\ synthetic' = synthetic \cup {a}
       /\ Recompile(program.owner[a], Static(a))
       /\ handled' = handled \cup {a}
  /\ UNCHANGED <<program, section, translated, open>>

NextSection ==
  /\ ~failed /\ section <= Last
  /\ IF section = 0 THEN translated = program.bodies ELSE Todo = {}
  /\ section' = section + 1
  /\ UNCHANGED <<program, translated, requested, handled, synthetic, copies, named, open, failed>>

Next == KnownFunction \/ Alias \/ DropData \/ StaticFunction \/ NextSection
Spec == Init /\ [][Next]_vars
(* The recompiler runs until it is done.                                   *)
FairSpec == Spec /\ WF_vars(Next)

-----------------------------------------------------------------------------
(* Places stay within the program's, and a static is appended to the       *)
(* context only once it has been asked for.                                *)
TypeOK ==
  /\ program \in Programs
  /\ section \in 0..Last + 1
  /\ translated \subseteq program.bodies
  /\ requested \subseteq Places
  /\ synthetic \subseteq handled /\ handled \subseteq requested
  /\ copies \in [Names -> 0..2]
  /\ named \subseteq Names
  /\ open \in BOOLEAN /\ failed \in BOOLEAN

(* The function table lists the known functions and the new statics.       *)
Table == {Fn(a) : a \in program.bodies} \cup {Static(a) : a \in synthetic}

(* When the recompiler is done, every name in the emitted C and in the     *)
(* function table has a definition, so the output links.                   *)
NothingMissing ==
  section = Last + 1 => \A n \in named \cup Table : copies[n] > 0

(* No name is defined twice, so the output compiles.                       *)
DefinedOnce == \A n \in Names : copies[n] <= 1

(* The recompiler ends: statics that ask for statics do not keep it going. *)
Finishes == <>(failed \/ section = Last + 1)

(* Inputs whose statics do not ask for places of sections already done,    *)
(* and, with a file for every function, do not need an alias.              *)
Forward(p) ==
  /\ \A a \in Places : a \notin Known(p) /\ p.owner[a] = a =>
       \A b \in p.calls[a] : b \in Known(p) \/ Section[b] >= Section[a]
  /\ p.ownFiles => \A a \in Places : \A b \in p.calls[a] \cap p.natives : Section[a] # Section[b]
=============================================================================
