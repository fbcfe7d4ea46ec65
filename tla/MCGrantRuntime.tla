--------------------------- MODULE MCGrantRuntime ---------------------------
(* GrantRuntime for TLC.  Calls and pods are interchangeable.              *)
EXTENDS GrantRuntime, TLC

Symmetry == Permutations(Calls) \cup Permutations(Pods)

=============================================================================
