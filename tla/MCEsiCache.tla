----------------------------- MODULE MCEsiCache -----------------------------
(* EsiCache for TLC.  Walks and characters are interchangeable.             *)
EXTENDS EsiCache

Symmetry == Permutations(Walks) \cup Permutations(Users)

=============================================================================
