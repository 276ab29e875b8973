---------------------------- MODULE GuestLoader ----------------------------
(***************************************************************************)
(* The game on the console: sections are loaded over each other, but not   *)
(* over one that has a function running; a call runs what is in memory.    *)
(***************************************************************************)
EXTENDS LinkedProgram

VARIABLES
  prog,
  at,       (* where each section is loaded                                 *)
  running,  (* the code of the functions entered and not left, the inner    *)
            (* one last                                                     *)
  stopped

gvars == <<prog, at, running, stopped>>

GInit ==
  /\ prog \in ProgramRecords
  /\ at = [s \in Indices(prog) |-> IF s = 1 THEN 0 ELSE Nowhere]
  /\ running = << <<1, 0>> >>
  /\ stopped = FALSE

Inner == running[Len(running)]

GLoad(s, b) ==
  /\ ~stopped /\ b \in prog.sections[s].homes
  /\ \A k \in DOMAIN running :
       running[k][1] \notin {s} \cup Overlapping(prog, at, s, b)
  /\ at' = [r \in Indices(prog) |-> IF r = s THEN b
                                    ELSE IF r \in Overlapping(prog, at, s, b) THEN Nowhere ELSE at[r]]
  /\ UNCHANGED <<prog, running, stopped>>

(* A relocated address is where the section of its relocation is now.      *)
Address(site) ==
  IF site.reloc = 0 THEN site.vram
  ELSE at[site.reloc] + Meant(prog, site.reloc, site.vram)
Present(site) ==
  /\ site.reloc # 0 => at[site.reloc] # Nowhere
  /\ CodeAt(prog, at, Address(site)) # {}

(* Only calls of code that is there: others are the game's own errors.     *)
Calls(i) ==
  /\ ~stopped /\ prog.sites[i].section = Inner[1] /\ Present(prog.sites[i])
  /\ UNCHANGED <<prog, at>>
GCall(i) ==
  /\ Calls(i) /\ UNCHANGED stopped
  /\ \E code \in CodeAt(prog, at, Address(prog.sites[i])) :
       running' = IF prog.sites[i].form = "branch"
                    THEN [running EXCEPT ![Len(running)] = code]
                    ELSE Append(running, code)

GReturn ==
  /\ ~stopped /\ Len(running) > 1
  /\ running' = SubSeq(running, 1, Len(running) - 1)
  /\ UNCHANGED <<prog, at, stopped>>

(* The host may stop with a message instead.                               *)
GStop ==
  /\ ~stopped /\ stopped' = TRUE
  /\ UNCHANGED <<prog, at, running>>

GNext ==
  \/ \E s \in Indices(prog) : \E b \in prog.sections[s].homes : GLoad(s, b)
  \/ \E i \in DOMAIN prog.sites : GCall(i)
  \/ GReturn \/ GStop
GSpec == GInit /\ [][GNext]_gvars
=============================================================================
