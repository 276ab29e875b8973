----------------------------- MODULE RspMachine -----------------------------
(***************************************************************************)
(* What the RSP does with a microcode: it fetches from IMEM, a transfer    *)
(* takes effect after its delay slot, a linking branch links whether or    *)
(* not it is taken, and a DMA into IMEM replaces the code being run.  The  *)
(* DMA takes no time, as in the recompiler's model of the RSP.             *)
(***************************************************************************)
EXTENDS RspCode

VARIABLES
  ucode,    (* the microcode of the task                                    *)
  imem,     (* the text part of IMEM                                        *)
  pc,
  pending,  (* in a delay slot: where control goes after it                 *)
  regs,
  halted

mvars == <<ucode, imem, pc, pending, regs, halted>>

MInit ==
  /\ ucode \in Microcodes
  /\ imem = ucode.text
  /\ pc = 0
  /\ pending = NoAddress
  /\ regs \in Registers
  /\ halted = FALSE

At(op) == ~halted /\ pc \in Text /\ imem[pc].op \in op
Advance ==
  /\ pc' = IF pending = NoAddress THEN pc + 1 ELSE pending
  /\ pending' = NoAddress

MPlain ==
  /\ At({"plain", "li", "name", "dma"}) /\ ~Swaps(imem[pc], regs)
  /\ regs' = Effect(imem[pc], regs)
  /\ Advance
  /\ UNCHANGED <<ucode, imem, halted>>

MSwap ==
  /\ At({"dma"}) /\ Swaps(imem[pc], regs)
  /\ imem' = Loaded(ucode, imem, regs.dma[1], regs.dma[2])
  /\ Advance
  /\ UNCHANGED <<ucode, regs, halted>>

MTransfer ==
  /\ At({"branch", "jr", "jalr"}) /\ pending = NoAddress
  /\ pending' = IF imem[pc].op = "branch" THEN imem[pc].target ELSE regs[imem[pc].reg]
  /\ pc' = pc + 1
  /\ regs' = Linked(imem[pc], pc, regs)
  /\ UNCHANGED <<ucode, imem, halted>>

MNotTaken ==
  /\ At({"branch"}) /\ pending = NoAddress /\ imem[pc].cond
  /\ pc' = pc + 1
  /\ regs' = Linked(imem[pc], pc, regs)
  /\ UNCHANGED <<ucode, imem, pending, halted>>

(* At a break, or when the host gives up, it stops until the next task.    *)
MHalt ==
  /\ ~halted /\ halted' = TRUE
  /\ UNCHANGED <<ucode, imem, pc, pending, regs>>

(* The CPU starts the next task: rspboot loads the text again.             *)
MBoot ==
  /\ halted
  /\ imem' = ucode.text
  /\ pc' = 0 /\ pending' = NoAddress
  /\ halted' = FALSE
  /\ UNCHANGED <<ucode, regs>>

MNext == MPlain \/ MSwap \/ MTransfer \/ MNotTaken \/ MHalt \/ MBoot
MSpec == MInit /\ [][MNext]_mvars
=============================================================================
