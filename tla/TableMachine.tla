---------------------------- MODULE TableMachine ----------------------------
(***************************************************************************)
(* The CPU running a function's words from a place where control arrives   *)
(* to the jr where it leaves.                                              *)
(***************************************************************************)
EXTENDS TableCode

VARIABLES
  func, running, pc, mem,
  left   (* where the jr has gone                                           *)

tvars == <<func, running, pc, mem, left>>

TInit ==
  /\ func \in FunctionRecords
  /\ running = FALSE
  /\ pc = 0 /\ left = Elsewhere
  /\ mem \in [Places -> Int]

TStart ==
  /\ ~running /\ pc = 0
  /\ running' = TRUE
  /\ pc' \in Starts(func) /\ mem' \in [Places -> Int] /\ mem'[0] = 0
  /\ UNCHANGED <<func, left>>

At(ops) == running /\ pc \in DOMAIN func.code /\ func.code[pc].op \in ops
TWrite(v) ==
  /\ mem' = [mem EXCEPT ![func.code[pc].d] = v]
  /\ pc' = pc + 1
  /\ UNCHANGED <<func, running, left>>

TStraight == At(Straight) /\ TWrite(Result(func, func.code[pc], mem))
TOther    == At({"other", "unseen"}) /\ mem'[func.code[pc].d] \in Int /\ TWrite(mem'[func.code[pc].d])

(* Out of the function: the host may stop with a message.                  *)
TJr ==
  /\ At({"jr"})
  /\ running' = FALSE
  /\ \/ left' = mem[func.code[pc].s]
     \/ ~Within(func, mem[func.code[pc].s]) /\ left' = Elsewhere
  /\ UNCHANGED <<func, pc, mem>>

TNext == TStart \/ TStraight \/ TOther \/ TJr
TSpec == TInit /\ [][TNext]_tvars
=============================================================================
