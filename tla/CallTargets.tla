---------------------------- MODULE CallTargets ----------------------------
(***************************************************************************)
(* Which C function the recompiler puts at a call, decided once from the   *)
(* sections and their symbols (resolve_jal), and the calls that are then   *)
(* made while the game loads sections over each other.  A C function is    *)
(* named by the code it was recompiled from.                               *)
(***************************************************************************)
EXTENDS LinkedProgram, FiniteSetsExt

CONSTANT MaxDepth   (* bound: functions running                             *)

ASSUME DepthAssumption == MaxDepth \in Nat \ {0}

VARIABLES
  prog,
  at,        (* section_addresses: where the runtime has each section       *)
  running,   (* the C functions on the host's stack                         *)
  stopped    (* recomp_unhandled_call, or a lookup without an entry         *)

vars == <<prog, at, running, stopped>>

-----------------------------------------------------------------------------
(* infer_recomp_section_encoded_vram_base: where the section's functions   *)
(* say it was linked, if they agree.                                       *)
Bases(p, s) ==
  {f.vram - f.off : f \in {g \in {p.symbols[i] : i \in DOMAIN p.symbols} :
     g.section = s /\ g.kind \in {"code", "reimplemented"} /\ g.off < p.sections[s].size}}
Base(p, s) ==
  IF Cardinality(Bases(p, s)) = 1 THEN CHOOSE b \in Bases(p, s) : TRUE ELSE p.sections[s].ram
InSection(p, s, a) == Covers(Base(p, s), p.sections[s].size, a) \/ RamAt(p, s, a)

Match(i)   == [by |-> "match", symbol |-> i]
Static(s)  == [by |-> "static", section |-> s]
Ambiguous  == [by |-> "lookup"]
NoMatch    == [by |-> "none"]

Usable(f)  == f.kind \in {"code", "manual"}
Own(p, s, a)   == {i \in DOMAIN p.symbols : p.symbols[i].vram = a /\ p.symbols[i].section = s}
Named(p, s, a) == {i \in Own(p, s, a) : Usable(p.symbols[i])}
Exact(p, s, a) == {i \in Own(p, s, a) : p.symbols[i].kind # "empty"}
FixedHere(p, a) ==
  {i \in DOMAIN p.symbols :
     LET f == p.symbols[i] IN f.vram = a /\ Usable(f) /\ ~p.sections[f.section].relocatable}
Candidates(p, s, a) == IF Named(p, s, a) # {} THEN {Min(Named(p, s, a))} ELSE FixedHere(p, a)
Holders(p, a)       == {s \in Indices(p) : InSection(p, s, a)}

(* Faulty variant: the first of several candidates is taken.               *)
Faulty_resolve_jal(p, s, a) ==
  CASE p.always                     -> Ambiguous
    [] Candidates(p, s, a) # {}     -> Match(Min(Candidates(p, s, a)))
    [] InSection(p, s, a)           -> Static(s)
    [] Cardinality(Holders(p, a)) # 1 -> IF Holders(p, a) = {} THEN NoMatch ELSE Ambiguous
    [] OTHER -> LET r == CHOOSE r \in Holders(p, a) : TRUE IN
         IF Exact(p, r, a) # {} THEN Match(Min(Exact(p, r, a))) ELSE Static(r)

(* Own code by its own symbol or a static function; elsewhere the only     *)
(* symbol at the address, and if there is none the only section.           *)
resolve_jal(p, s, a) ==
  CASE p.always -> Ambiguous
    [] ~p.always /\ InSection(p, s, a) ->
         IF Named(p, s, a) # {} THEN Match(Min(Named(p, s, a))) ELSE Static(s)
    [] ~p.always /\ ~InSection(p, s, a) /\ Candidates(p, s, a) # {} ->
         IF Cardinality(Candidates(p, s, a)) = 1 THEN Match(Min(Candidates(p, s, a))) ELSE Ambiguous
    [] OTHER ->
         IF Holders(p, a) = {} THEN NoMatch
         ELSE IF Cardinality(Holders(p, a)) > 1 THEN Ambiguous
         ELSE LET r == Min(Holders(p, a)) IN
              IF Exact(p, r, a) # {} THEN Match(Min(Exact(p, r, a))) ELSE Static(r)

-----------------------------------------------------------------------------
(* A symbol's function, and the one made for a static: an alias of a       *)
(* symbol, a part of a longer function, or the code at the address.        *)
Function(f) == <<f.section, f.off>>
Inside(f, a) == f.kind = "code" /\ f.vram < a /\ a < f.vram + f.size
Containing(p, s, a) == {i \in DOMAIN p.symbols : p.symbols[i].section = s /\ Inside(p.symbols[i], a)}
(* Faulty variant: only the section's own address counts.                  *)
FaultyDecodeBase(p, s, a) == p.sections[s].ram

(* The encoded window is taken one word too long.                          *)
DecodeBase(p, s, a) ==
  IF a \in Base(p, s)..Base(p, s) + p.sections[s].size THEN Base(p, s) ELSE p.sections[s].ram
StaticFunction(p, s, a) ==
  CASE Exact(p, s, a) # {} -> Function(p.symbols[Min(Exact(p, s, a))])
    [] Exact(p, s, a) = {} /\ Containing(p, s, a) # {} ->
         LET f == p.symbols[Min(Containing(p, s, a))] IN <<s, f.off + (a - f.vram)>>
    [] OTHER -> <<s, a - DecodeBase(p, s, a)>>

(* emit_call_by_address takes the section of a relocation, a branch out of *)
(* its function its own.                                                   *)
TargetSection(site) ==
  IF site.form = "jal" /\ site.reloc # 0 THEN site.reloc ELSE site.section
Resolved(p, i) ==
  IF p.sites[i].form = "pointer" THEN Ambiguous
  ELSE resolve_jal(p, TargetSection(p.sites[i]), p.sites[i].vram)

(* The static functions the sites up to i have asked for.  A branch asks   *)
(* for one inside of a known function, at one already asked for, or in a   *)
(* relocatable section.                                                    *)
Requested(p) ==
  LET r[i \in 0..Len(p.sites)] ==
        IF i = 0 THEN {}
        ELSE LET way == Resolved(p, i)
                 a   == p.sites[i].vram
             IN  r[i - 1] \cup
                   {<<s, a>> : s \in {t \in Indices(p) :
                      /\ way = Static(t)
                      /\ \/ p.sites[i].form = "jal" \/ <<t, a>> \in r[i - 1]
                         \/ Containing(p, t, a) # {} \/ p.sections[t].relocatable}}
  IN  r
Statics(p) == Requested(p)[Len(p.sites)]

(* The sections' FuncEntry tables: offsets from where they are loaded.     *)
(* Faulty variant: a static inside of a function is entered at its start.  *)
FaultyEntries(p) ==
  {Function(p.symbols[i]) : i \in {j \in DOMAIN p.symbols : p.symbols[j].kind \in {"code", "reimplemented"}}}
    \cup {StaticFunction(p, e[1], e[2]) :
            e \in {d \in Statics(p) : Exact(p, d[1], d[2]) = {} /\ Containing(p, d[1], d[2]) = {}}}

Entries(p) ==
  {Function(p.symbols[i]) : i \in {j \in DOMAIN p.symbols : p.symbols[j].kind \in {"code", "reimplemented"}}}
    \cup {StaticFunction(p, e[1], e[2]) : e \in {d \in Statics(p) : Exact(p, d[1], d[2]) = {}}}

-----------------------------------------------------------------------------
Init ==
  /\ prog \in Programs
  /\ at = [s \in Indices(prog) |-> IF s = 1 THEN 0 ELSE Nowhere]
  /\ running = << <<1, 0>> >>
  /\ stopped = FALSE

Guest == INSTANCE GuestLoader

Load(s, b) == Guest!GLoad(s, b)
Calls(i)   == Guest!Calls(i) /\ (prog.sites[i].form # "branch" => Len(running) < MaxDepth)

Enter(i, code) ==
  /\ running' = IF prog.sites[i].form = "branch" THEN [running EXCEPT ![Len(running)] = code]
                                                 ELSE Append(running, code)
  /\ UNCHANGED stopped

(* A call by name, whatever is loaded.                                     *)
CallSymbol(i) ==
  /\ Calls(i) /\ Resolved(prog, i).by = "match"
  /\ Enter(i, Function(prog.symbols[Resolved(prog, i).symbol]))

(* A branch whose static is not asked for stops: recomp_unhandled_branch.  *)
CallStatic(i) ==
  /\ Calls(i) /\ Resolved(prog, i).by = "static"
  /\ LET s == Resolved(prog, i).section
         a == prog.sites[i].vram
     IN  IF <<s, a>> \in Requested(prog)[i] THEN Enter(i, StaticFunction(prog, s, a))
                                            ELSE stopped' = TRUE /\ UNCHANGED running

(* LOOKUP_FUNC, of the address as linked or of the register's value.       *)
CallLookup(i) ==
  /\ Calls(i) /\ Resolved(prog, i).by = "lookup"
  /\ LET a == IF prog.sites[i].form = "pointer" THEN Guest!Address(prog.sites[i]) ELSE prog.sites[i].vram
         found == CodeAt(prog, at, a) \cap Entries(prog)
     IN  IF found = {} THEN stopped' = TRUE /\ UNCHANGED running
                       ELSE \E code \in found : Enter(i, code)

(* recomp_unhandled_call *)
CallNothing(i) ==
  /\ Calls(i) /\ Resolved(prog, i).by = "none"
  /\ stopped' = TRUE
  /\ UNCHANGED running

(* A C function returns to its C caller.                                   *)
Return == Guest!GReturn

Next ==
  \/ \E s \in Indices(prog) : \E b \in prog.sections[s].homes : Load(s, b)
  \/ \E i \in DOMAIN prog.sites : CallSymbol(i)
  \/ \E i \in DOMAIN prog.sites : CallStatic(i)
  \/ \E i \in DOMAIN prog.sites : CallLookup(i)
  \/ \E i \in DOMAIN prog.sites : CallNothing(i)
  \/ Return

Spec == Init /\ [][Next]_vars

-----------------------------------------------------------------------------
(* Programs whose sections are linked where their symbols say, and whose   *)
(* functions end with them; whose fixed sections are loaded there; ...     *)
Consistent(p) ==
  /\ \A s \in Indices(p) :
       /\ Base(p, s) = p.sections[s].linked
       /\ ~RamAt(p, s, Base(p, s) + p.sections[s].size)
       /\ ~p.sections[s].relocatable =>
            p.sections[s].homes = {p.sections[s].ram} /\ Base(p, s) = p.sections[s].ram
  /\ \A i \in DOMAIN p.symbols :
       LET f == p.symbols[i]
           n == p.sections[f.section].size
       IN  f.off < n /\ f.off + f.size <= n /\ f.vram - f.off = Base(p, f.section)

(* The sections that can be in memory at an address.                       *)
Loadable(p, a) == {s \in Indices(p) : \E b \in p.sections[s].homes : Covers(b, p.sections[s].size, a)}

(* ... whose calls into a relocatable section have relocations, and        *)
(* whose calls without one go to sections that never move; and where an    *)
(* address that several fixed sections share has a symbol in none or in    *)
(* two of them.                                                            *)
Unambiguous(p, i) ==
  LET site == p.sites[i]
      a    == site.vram
      s    == TargetSection(site)
  IN  CASE site.reloc # 0 /\ site.form # "branch" ->
             InSection(p, site.reloc, a) /\ (site.form = "jal" => ~p.always)
        [] site.reloc # 0 /\ site.form = "branch" ->
             ~p.always /\ site.reloc = s /\ InSection(p, s, a)
        [] OTHER -> Holders(p, a) = {} \/
             /\ \A r \in Loadable(p, a) : ~p.sections[r].relocatable
             /\ InSection(p, s, a) => Loadable(p, a) = {s} \/ ~p.sections[s].relocatable
             /\ ~InSection(p, s, a) /\ Cardinality(Loadable(p, a)) > 1 => Cardinality(FixedHere(p, a)) # 1
Linked(p) == Consistent(p) /\ \A i \in DOMAIN p.sites : Unambiguous(p, i)

TypeOK ==
  /\ prog \in ProgramRecords
  /\ at \in [Indices(prog) -> Memory \cup {Nowhere}]
  /\ Len(running) \in 1..MaxDepth
  /\ \A k \in DOMAIN running :
       /\ running[k][1] \in Indices(prog)
       /\ running[k][2] \in 0..prog.sections[running[k][1]].size - 1
  /\ stopped \in BOOLEAN

(* In whatever order the game loads its sections, a call runs the code     *)
(* that is in memory at its address, though it was bound to a name before  *)
(* (if every program is Linked).                                           *)
FollowsLoader == Guest!GSpec

(* And it is found: the host stops only where nothing is linked, at a      *)
(* branch into code that no call has asked for, or where one of the        *)
(* sections at the address has neither a function nor a static there.      *)
InTable(p, s, a) ==
  \/ \E i \in Own(p, s, a) : p.symbols[i].kind \in {"code", "reimplemented"}
  \/ <<s, a>> \in Statics(p) /\ Exact(p, s, a) = {}
Listed(p, i) ==
  LET way  == Resolved(p, i)
      site == p.sites[i]
  IN  /\ way.by # "none"
      /\ way.by = "static" => <<way.section, site.vram>> \in Requested(p)[i]
      /\ way.by = "lookup" => Holders(p, site.vram) # {} /\
           \A s \in Indices(p) : InSection(p, s, site.vram) /\ site.reloc \in {0, s} =>
             InTable(p, s, site.vram)
AlwaysFound ==
  Linked(prog) /\ (\A i \in DOMAIN prog.sites : Listed(prog, i)) => ~stopped
=============================================================================
