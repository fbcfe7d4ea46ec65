---------------------------- MODULE MCWriteGuard ----------------------------
(* WriteGuard for TLC.  Calls, pods and argument digests are interchangeable. *)
EXTENDS WriteGuard, TLC

Symmetry == Permutations(Calls) \cup Permutations(Pods) \cup Permutations(Args)

=============================================================================
