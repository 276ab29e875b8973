---------------------------- MODULE MipsFunction ----------------------------
(***************************************************************************)
(* What the guest's CPU does with a function: the VR4300 fetches at pc,    *)
(* a control transfer takes effect after its delay slot, a branch that is  *)
(* likely and not taken nullifies it.  Code elsewhere, once it has been    *)
(* reached, may come back to the address in $ra.                           *)
(***************************************************************************)
EXTENDS MipsCode

VARIABLES
  code,     (* the function                                                 *)
  pc,       (* the address of the instruction to execute                    *)
  pending,  (* in a delay slot: where control goes after it                 *)
  regs      (* $ra and t                                                    *)

mvars == <<code, pc, pending, regs>>

MInit ==
  /\ code \in Bodies
  /\ pc \in Local
  /\ pending = NoAddress
  /\ regs \in Registers

MPlain ==
  /\ pc \in Local /\ code[pc].op = "plain"
  /\ regs' \in Effects(code[pc], regs)
  /\ pc' = IF pending = NoAddress THEN pc + 1 ELSE pending
  /\ pending' = NoAddress
  /\ UNCHANGED code

JumpTargets(ins) ==
  CASE ins.op \in {"branch", "jal"} -> {ins.target}
    [] ins.op = "jr"                -> {regs[ins.reg]}
    [] ins.op = "jalr"              -> {regs.t}
    [] OTHER                        -> ins.entries

(* The transfer is decided before the delay slot is executed. *)
MTransfer ==
  /\ pc \in Local /\ pending = NoAddress /\ Transfers(code[pc])
  /\ pending' \in JumpTargets(code[pc])
  /\ pc' = pc + 1
  /\ regs' = Linked(code[pc], pc, regs)
  /\ UNCHANGED code

MNotTaken ==
  /\ pc \in Local /\ pending = NoAddress
  /\ code[pc].op = "branch" /\ code[pc].cond
  /\ pc' = IF code[pc].likely THEN pc + 2 ELSE pc + 1
  /\ regs' = Linked(code[pc], pc, regs)
  /\ UNCHANGED <<code, pending>>

MComesBack ==
  /\ pc \notin Local /\ regs.ra \in Local \cup {After}
  /\ pc' = regs.ra
  /\ regs' \in {[regs EXCEPT !.t = v] : v \in TValues}
  /\ UNCHANGED <<code, pending>>

MNext == MPlain \/ MTransfer \/ MNotTaken \/ MComesBack
MSpec == MInit /\ [][MNext]_mvars
=============================================================================
