----------------------------- MODULE HostCalls ------------------------------
(***************************************************************************)
(* The calling convention of the generated C code.  Every recompiled MIPS  *)
(* function is a C function taking the shared recomp_context.  A call site *)
(* saves host_return_target, points it at its own return address and calls *)
(* the callee on the host stack; a jump out of a function records a        *)
(* pending tail call in the context and returns; whichever call site it    *)
(* returns to resolves the pending target, drains it in a nested           *)
(* trampoline (recomp_handle_tailcalls), or, DepthLimit trampolines deep,  *)
(* bubbles it up by returning too and abandoning its own frame.  A guest   *)
(* return compares $ra with host_return_target to decide whether it is a   *)
(* host return at all.                                                     *)
(*                                                                         *)
(* Abstracted: instructions other than calls, jumps and returns; the       *)
(* rebasing of $ra for a relocated section; tailcall_func, which only      *)
(* caches the lookup of tailcall_target.  The stack pointer is the number  *)
(* of live activations: a function that calls has a frame of its own.      *)
(* recomp_handle_tailcalls is the runtime's, outside this repository: it   *)
(* is modelled by what the code after each call to it relies on.           *)
(***************************************************************************)
EXTENDS GuestProgram, FiniteSets

CONSTANTS
  RegSites,      (* sites whose callee is in a register (jalr)              *)
  RegReturners,  (* functions that return with jr through another register  *)
  LocalLabels,   (* return addresses also known as local tail-call labels   *)
  DepthLimit     (* nested trampolines before tail calls are bubbled up     *)

VARIABLES
  returns,       (* guest: saved return addresses; the last is $ra          *)
  frames,        (* host stack, outermost first                             *)
  running,       (* TRUE: the top frame executes guest code;                *)
                 (* FALSE: a callee has just returned to the top frame      *)
  pending,       (* ctx->tailcall_pending                                   *)
  target,        (* ctx->tailcall_target                                    *)
  hostReturn,    (* ctx->host_return_target                                 *)
  dispatching,   (* ctx->tailcall_dispatching                               *)
  mismatch       (* a call site has found $sp changed and given up          *)

vars == <<returns, frames, running, pending, target, hostReturn, dispatching,
          mismatch>>

ASSUME HostAssumption ==
  /\ RegSites \subseteq Sites
  /\ RegReturners \subseteq Funcs
  /\ LocalLabels \subseteq Sites
  /\ DepthLimit \in Nat

-----------------------------------------------------------------------------
(* Host frames.  A body frame that waits in a call holds the call site's   *)
(* locals: recomp_call_host_return (its own return address, in site),      *)
(* recomp_prev_host_return (in prev) and recomp_call_sp (in sp).           *)

Body(f)  == [kind |-> "body", fn |-> f, site |-> Root, prev |-> Root, sp |-> 0]
Trampoline(h) ==
  [kind |-> "trampoline", fn |-> Root, site |-> h, prev |-> h, sp |-> 0]

Top == frames[Len(frames)]
sp  == Len(returns)
ra  == LastOf(returns)

Push(f)   == frames' = Append(frames, f)
SetTop(f) == frames' = [frames EXCEPT ![Len(frames)] = f]
Pop       == frames' = SubSeq(frames, 1, Len(frames) - 1)

(* The call prologue: save in the caller's locals, enter the callee's body. *)
Waiting(s)     == [Top EXCEPT !.site = s, !.prev = hostReturn, !.sp = sp]
PushCall(s, f) ==
  frames' = Append([frames EXCEPT ![Len(frames)] = Waiting(s)], Body(f))

(* The top body of function f executes guest code. *)
Executing(f) == running /\ Top.kind = "body" /\ Top.fn = f

(* jr $ra is first matched against the labels of the C function it is in,  *)
(* and the return address of every call in the body is such a label.       *)
IsLabelIn(a, f) == a \in Sites /\ Owner[a] = f

-----------------------------------------------------------------------------
Init ==
  /\ returns = <<Root>>
  /\ frames = <<Trampoline(Root), Body(Entry)>>
  /\ running = TRUE
  /\ pending = FALSE
  /\ target = Root
  /\ hostReturn = Root
  /\ dispatching = 0
  /\ mismatch = FALSE

(* jal into the function's own body: $ra is written and control moves by a *)
(* goto, with no host call.                                                *)
LocalCall(s, f) ==
  /\ Executing(Owner[s])
  /\ <<s, f>> \in Calls /\ f = Owner[s] /\ s \notin RegSites
  /\ Len(returns) < MaxDepth
  /\ returns' = Append(returns, s)
  /\ UNCHANGED <<frames, running, pending, target, hostReturn, dispatching, mismatch>>

(* jal to another function, or jalr $ra: link, delay slot, then the call   *)
(* prologue and the C call.                                                *)
HostCall(s, f) ==
  /\ Executing(Owner[s])
  /\ <<s, f>> \in Calls /\ (f # Owner[s] \/ s \in RegSites)
  /\ Len(returns) < MaxDepth
  /\ returns' = Append(returns, s)
  /\ PushCall(s, f)
  /\ hostReturn' = s
  /\ UNCHANGED <<running, pending, target, dispatching, mismatch>>

(* recomp_request_tailcall followed by return. *)
RequestTailcall(a) ==
  /\ pending' = TRUE
  /\ target' = a
  /\ running' = FALSE
  /\ Pop

(* Faulty variant: a jump out of the function is an ordinary C call.       *)
FaultyTailJump(f) ==
  /\ running /\ <<Top.fn, f>> \in Tails /\ f # Top.fn
  /\ PushCall(hostReturn, f)
  /\ UNCHANGED <<returns, running, pending, target, hostReturn, dispatching, mismatch>>

(* j, a branch or a fall-through out of the function.  A target equal to   *)
(* host_return_target would be a plain return; function entries never are. *)
TailJump(f) ==
  /\ running /\ <<Top.fn, f>> \in Tails /\ f # Top.fn
  /\ RequestTailcall(f)
  /\ UNCHANGED <<returns, hostReturn, dispatching, mismatch>>

(* jr $ra, in the order the emitted code tests: a label of this function,  *)
(* then host_return_target, then a tail call to wherever $ra points.       *)
ReturnToLabel ==
  /\ running /\ IsLabelIn(ra, Top.fn)
  /\ returns' = ButLast(returns)
  /\ UNCHANGED <<frames, running, pending, target, hostReturn, dispatching, mismatch>>

ReturnToHost ==
  /\ running /\ ~IsLabelIn(ra, Top.fn) /\ ra = hostReturn
  /\ returns' = ButLast(returns)
  /\ running' = FALSE
  /\ Pop
  /\ UNCHANGED <<pending, target, hostReturn, dispatching, mismatch>>

ReturnElsewhere ==
  /\ running /\ ~IsLabelIn(ra, Top.fn) /\ ra # hostReturn
  /\ returns' = ButLast(returns)
  /\ RequestTailcall(ra)
  /\ UNCHANGED <<hostReturn, dispatching, mismatch>>

(* jr through a register other than $ra that holds the return address: an  *)
(* indirect tail call, which compares the target with nothing.             *)
ReturnByRegister ==
  /\ running /\ Top.fn \in RegReturners
  /\ returns' = ButLast(returns)
  /\ RequestTailcall(ra)
  /\ UNCHANGED <<hostReturn, dispatching, mismatch>>

-----------------------------------------------------------------------------
(* The code after a C call, in the frame that made it. *)

CallReturned == ~running /\ Top.kind = "body"

(* Restore host_return_target and resume, unless $sp is not what it was:   *)
(* then the C function returns on the spot.                                *)
RestoreAndResume ==
  /\ hostReturn' = Top.prev
  /\ IF sp = Top.sp
       THEN /\ running' = TRUE
            /\ SetTop(Body(Top.fn))
            /\ UNCHANGED mismatch
       ELSE /\ mismatch' = TRUE
            /\ Pop
            /\ UNCHANGED running

(* Faulty variant: whatever is pending is taken to be for this call site.  *)
FaultyResolvedHere == TRUE

ResolvedHere == target = Top.site \/ (target \in LocalLabels /\ Owner[target] = Top.fn)

CallDone ==
  /\ CallReturned /\ ~pending
  /\ RestoreAndResume
  /\ UNCHANGED <<returns, pending, target, dispatching>>

(* Faulty variant: the copy of this code for the call's own return address *)
(* forgets tailcall_pending; the copy for local labels does not.           *)
FaultyResolvePending ==
  /\ CallReturned /\ pending /\ ResolvedHere
  /\ pending' = (target = Top.site)
  /\ target' = Root
  /\ RestoreAndResume
  /\ UNCHANGED <<returns, dispatching>>

ResolvePending ==
  /\ CallReturned /\ pending /\ ResolvedHere
  /\ pending' = FALSE
  /\ target' = Root
  /\ RestoreAndResume
  /\ UNCHANGED <<returns, dispatching>>

(* Faulty variant: host_return_target is not restored.                     *)
FaultyBubble ==
  /\ CallReturned /\ pending /\ ~ResolvedHere
  /\ dispatching >= DepthLimit
  /\ Pop
  /\ UNCHANGED <<returns, running, pending, target, hostReturn, dispatching, mismatch>>

Bubble ==
  /\ CallReturned /\ pending /\ ~ResolvedHere
  /\ dispatching >= DepthLimit
  /\ hostReturn' = Top.prev
  /\ Pop
  /\ UNCHANGED <<returns, running, pending, target, dispatching, mismatch>>

(* Faulty variant: entering a trampoline is not counted.                   *)
FaultyDrain ==
  /\ CallReturned /\ pending /\ ~ResolvedHere
  /\ dispatching < DepthLimit
  /\ Push(Trampoline(hostReturn))
  /\ UNCHANGED <<returns, running, pending, target, hostReturn, dispatching, mismatch>>

Drain ==
  /\ CallReturned /\ pending /\ ~ResolvedHere
  /\ dispatching < DepthLimit
  /\ Push(Trampoline(hostReturn))
  /\ dispatching' = dispatching + 1
  /\ UNCHANGED <<returns, running, pending, target, hostReturn, mismatch>>

-----------------------------------------------------------------------------
(* The runtime's trampoline: look the pending target up and call it, until *)
(* nothing is pending or the target is where the trampoline's caller       *)
(* resumes anyway.  An address inside a function is found too: the linking *)
(* instructions queue every return address as a static function, which is  *)
(* the same body entered at that address.                                  *)

InTrampoline == ~running /\ Top.kind = "trampoline"

Dispatch ==
  /\ InTrampoline /\ pending /\ target \notin {hostReturn, Root}
  /\ pending' = FALSE
  /\ target' = Root
  /\ Push(Body(Home(target)))
  /\ running' = TRUE
  /\ UNCHANGED <<returns, hostReturn, dispatching, mismatch>>

LeaveTrampoline ==
  /\ InTrampoline /\ Len(frames) > 1
  /\ pending => target = hostReturn
  /\ pending' = FALSE
  /\ target' = Root
  /\ Pop
  /\ dispatching' = dispatching - 1
  /\ UNCHANGED <<returns, running, hostReturn, mismatch>>

(* The thread's outermost loop is left: guest execution is over. *)
Finished == InTrampoline /\ Len(frames) = 1 /\ (pending => target = Root)
Done     == Finished /\ UNCHANGED vars

HostStep ==
  CallDone \/ ResolvePending \/ Bubble \/ Drain \/ Dispatch \/ LeaveTrampoline

GuestStep ==
  \/ \E c \in Calls : LocalCall(c[1], c[2]) \/ HostCall(c[1], c[2])
  \/ \E f \in Funcs : TailJump(f)
  \/ ReturnToLabel \/ ReturnToHost \/ ReturnElsewhere \/ ReturnByRegister

Next == GuestStep \/ HostStep \/ Done

Spec == Init /\ [][Next]_vars

(* The host runs the generated C code without stopping. *)
FairSpec == Spec /\ WF_vars(HostStep)

-----------------------------------------------------------------------------
FrameRecords ==
  [kind : {"body", "trampoline"}, fn : Funcs \cup {Root},
   site : Sites \cup {Root}, prev : Sites \cup {Root}, sp : 0..MaxDepth]

(* The context and the host stack hold values of their C types.            *)
TypeOK ==
  /\ returns \in Seq(Sites \cup {Root})
  /\ Len(returns) <= MaxDepth
  /\ frames \in Seq(FrameRecords)
  /\ Len(frames) > 0
  /\ running \in BOOLEAN
  /\ pending \in BOOLEAN
  /\ target \in Addrs
  /\ hostReturn \in Sites \cup {Root}
  /\ dispatching \in Nat
  /\ mismatch \in BOOLEAN

Suspended(i) == ~(running /\ i = Len(frames))

(* Whatever the guest does - recursion, tail-call loops, abandoned frames  *)
(* - host_return_target is the return address of the innermost call still  *)
(* waiting on the host stack, and every waiting call site has saved the    *)
(* value it must put back (cgenerator.cpp, call prologue and epilogue).    *)
HostReturnChain ==
  /\ \A i \in 2..Len(frames) :
       Suspended(i) => frames[i].prev = frames[i - 1].site
  /\ hostReturn = frames[IF running THEN Len(frames) - 1 ELSE Len(frames)].site

(* ctx->tailcall_dispatching counts the nested trampolines, so the test    *)
(* against the limit measures the host stack and not history.              *)
Nested == {i \in 2..Len(frames) : frames[i].kind = "trampoline"}
DepthCounted == dispatching = Cardinality(Nested) /\ dispatching <= DepthLimit

(* No call site finds that its callee left $sp changed: the guest is never *)
(* dropped half way up its call chain (call epilogue, call-sp-mismatch).   *)
NoMismatch == ~mismatch

(* Tail calls cost no host stack: however many are made, there is at most  *)
(* one C frame of generated code for each live guest activation, besides   *)
(* the trampolines, whose number the nesting limit bounds.                 *)
HostStackBounded == Len(frames) <= Len(returns) + 1 + Cardinality(Nested)

(* Where the generated code takes the guest: the body on top of the host   *)
(* stack, the pending target, or the call site control is on its way to.   *)
GuestAt ==
  CASE running              -> Top.fn
    [] ~running /\ pending  -> Home(target)
    [] ~running /\ ~pending -> Home(hostReturn)

(* The generated code calls, tail-jumps and returns as the MIPS program    *)
(* does: control is where the guest's own return addresses say.            *)
Guest == INSTANCE GuestCalls WITH at <- GuestAt
FollowsGuest == Guest!GSpec

(* A requested tail call is carried out: draining and bubbling end.        *)
Settles == pending ~> (running \/ Finished)
=============================================================================
