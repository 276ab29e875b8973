---------------------------- MODULE MCHostCalls -----------------------------
(* Two small programs for HostCalls: one whose functions never call back   *)
(* into a caller, and one that recurses through a tail call.               *)
EXTENDS HostCalls

CONSTANTS main, f, g, h, leaf, m1, m2, f1, f2, g1, h1

AllFuncs == {main, f, g, h, leaf}
AllSites == {m1, m2, f1, f2, g1, h1}

SiteOwner ==
  [s \in Sites |-> CASE s \in {m1, m2} -> main [] s \in {f1, f2} -> f
                     [] s = g1 -> g          [] s = h1 -> h]

(* f2 is a jal to f's own start: a local goto. *)
NestedCalls ==
  {<<m1, f>>, <<m2, g>>, <<f1, g>>, <<f1, h>>, <<f2, f>>, <<g1, h>>, <<h1, leaf>>}
NestedTails == {<<f, g>>, <<g, h>>, <<f, h>>, <<h, leaf>>}

(* main calls f, which tail-jumps to g, which calls main again. *)
RecursiveCalls == {<<m1, f>>, <<f1, h>>, <<g1, main>>, <<g1, h>>}
RecursiveTails == {<<f, g>>, <<f, h>>, <<h, leaf>>, <<main, leaf>>, <<g, h>>}

(* g, called by f, jumps back into f: a return to f's own call site is then *)
(* a local goto, and the frame that made the call is left waiting.         *)
ReentrantCalls == {<<m1, f>>, <<m2, g>>, <<f1, g>>, <<g1, leaf>>}
ReentrantTails == {<<g, f>>, <<f, leaf>>}
=============================================================================
