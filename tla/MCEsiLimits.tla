----------------------------- MODULE MCEsiLimits -----------------------------
(* EsiLimits for TLC.  Calls are interchangeable; so are characters.        *)
EXTENDS EsiLimits, TLC

Symmetry == Permutations(Calls) \cup Permutations(Users)

=============================================================================
