------------------------------ MODULE MCSignIn ------------------------------
(* Small instances of SignIn for TLC.                                       *)
EXTENDS SignIn, TLC

(* Safety only: requests, and handshakes, are interchangeable.               *)
Symmetry == Permutations(Requests) \cup Permutations(Logins)

=============================================================================
