--------------------------- MODULE LinkedProgram ---------------------------
(***************************************************************************)
(* A program of sections that the game loads and overlays: what it is      *)
(* linked as, the symbols the recompiler is given, and the calls between   *)
(* sections.  An address is a number, a place in the code a section and an *)
(* offset in it.                                                           *)
(***************************************************************************)
EXTENDS Naturals, Sequences, FiniteSets

CONSTANTS
  Programs,   (* the programs considered                                    *)
  Room        (* memory is 0..Room - 1                                      *)

Memory  == 0..Room - 1
Nowhere == Room

(* ram: ram_addr; linked: where the section's own code was linked; homes:  *)
(* where the game loads it.                                                *)
Sections ==
  [ram : Memory, linked : Memory, size : Nat \ {0}, relocatable : BOOLEAN, homes : SUBSET Memory]
(* A symbol with words, without, without but reimplemented by the host, or *)
(* without but patched by hand.                                            *)
Kinds    == {"code", "empty", "reimplemented", "manual"}
Symbols  == [section : Nat, vram : Memory, off : Nat, size : Nat, kind : Kinds]
(* A jal, a jump or branch out of its function, or a jalr through a        *)
(* pointer; reloc is the section its relocation names, 0 if it has none.   *)
Sites    == [section : Nat, form : {"jal", "branch", "pointer"}, vram : Memory, reloc : Nat]
ProgramRecords ==
  [sections : Seq(Sections), symbols : Seq(Symbols), sites : Seq(Sites), always : BOOLEAN]

ASSUME ProgramAssumption ==
  /\ Room \in Nat
  /\ Programs \subseteq ProgramRecords
  /\ \A p \in Programs :
       /\ p.sections # <<>> /\ 0 \in p.sections[1].homes
       /\ \A s \in DOMAIN p.sections : \A b \in p.sections[s].homes \cup {p.sections[s].ram} :
            b + p.sections[s].size <= Room
       /\ \A i \in DOMAIN p.symbols : p.symbols[i].section \in DOMAIN p.sections
       /\ \A i \in DOMAIN p.sites :
            /\ p.sites[i].section \in DOMAIN p.sections
            /\ p.sites[i].reloc \in {0} \cup DOMAIN p.sections
            /\ p.sites[i].form = "pointer" => p.sites[i].reloc # 0

-----------------------------------------------------------------------------
Covers(base, size, a)  == a \in base..base + size - 1
Indices(p)             == DOMAIN p.sections
LinkedAt(p, s, a)      == Covers(p.sections[s].linked, p.sections[s].size, a)
RamAt(p, s, a)         == Covers(p.sections[s].ram, p.sections[s].size, a)

(* Which offset the linker means by an address in a section.               *)
Meant(p, s, a) == IF LinkedAt(p, s, a) THEN a - p.sections[s].linked ELSE a - p.sections[s].ram

(* The sections whose memory a section loaded at b takes.                  *)
Overlapping(p, at, s, b) ==
  {r \in Indices(p) \ {s} : at[r] # Nowhere
     /\ b < at[r] + p.sections[r].size /\ at[r] < b + p.sections[s].size}
CodeAt(p, at, a) ==
  {<<s, a - at[s]>> : s \in {r \in Indices(p) : at[r] # Nowhere /\ Covers(at[r], p.sections[r].size, a)}}
=============================================================================
