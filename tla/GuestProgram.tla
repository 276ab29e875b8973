---------------------------- MODULE GuestProgram ----------------------------
(***************************************************************************)
(* The part of a MIPS program the calling convention depends on: its       *)
(* functions, the call sites in their bodies, and which function each call *)
(* and each jump out of a body may reach.  A call site is identified with  *)
(* its return address, the address of the instruction after its delay slot.*)
(***************************************************************************)
EXTENDS Naturals, Sequences

CONSTANTS
  Funcs,     (* recompiled functions, each standing for its entry address   *)
  Sites,     (* call sites, each standing for its return address            *)
  Owner,     (* the function whose body contains a call site                *)
  Calls,     (* <<site, callee>>: the functions a call site may call        *)
  Tails,     (* <<caller, target>>: the jumps out of a function's body      *)
  Entry,     (* the function the thread starts in                           *)
  Root,      (* the return address the thread starts with                   *)
  MaxDepth   (* bound: live activations                                     *)

ASSUME ProgramAssumption ==
  /\ Owner \in [Sites -> Funcs]
  /\ Calls \subseteq Sites \X Funcs
  /\ Tails \subseteq Funcs \X Funcs
  /\ Entry \in Funcs
  /\ Sites \cap Funcs = {}
  /\ Root \notin Funcs \cup Sites
  /\ MaxDepth \in Nat \ {0}

Addrs == Funcs \cup Sites \cup {Root}

(* The function whose code lies at an address; Root is outside the program. *)
Home(a) == IF a \in Sites THEN Owner[a] ELSE a

LastOf(q)  == q[Len(q)]
ButLast(q) == SubSeq(q, 1, Len(q) - 1)
=============================================================================
