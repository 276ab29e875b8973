----------------------------- MODULE GuestCalls -----------------------------
(***************************************************************************)
(* What a MIPS program means by calling, tail-jumping and returning, with  *)
(* no host in sight: the return addresses of the live activations form a   *)
(* stack, and exactly one function's code is executing.  The generated C   *)
(* code (HostCalls) has to behave like this whatever its host stack does.  *)
(***************************************************************************)
EXTENDS GuestProgram

VARIABLES
  at,       (* the function executing, or Root once the thread returned     *)
  returns   (* return addresses of the live activations, oldest first       *)

gvars == <<at, returns>>

GInit == at = Entry /\ returns = <<Root>>

GCall(s, f) ==
  /\ at = Owner[s]
  /\ Len(returns) < MaxDepth
  /\ returns' = Append(returns, s)
  /\ at' = f

GTailJump(f) ==
  /\ <<at, f>> \in Tails
  /\ at' = f
  /\ UNCHANGED returns

GReturn ==
  /\ at # Root
  /\ at' = Home(LastOf(returns))
  /\ returns' = ButLast(returns)

GNext ==
  \/ \E c \in Calls : GCall(c[1], c[2])
  \/ \E f \in Funcs : GTailJump(f)
  \/ GReturn

GSpec == GInit /\ [][GNext]_gvars
=============================================================================
