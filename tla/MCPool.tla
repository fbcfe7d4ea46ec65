------------------------------- MODULE MCPool -------------------------------
(* Pool for TLC.  The two mails are interchangeable, but a liveness         *)
(* property is checked here, so no symmetry is declared.                    *)
EXTENDS Pool

=============================================================================
