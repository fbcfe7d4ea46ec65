------------------------------- MODULE MCTools -------------------------------
(* Tools for TLC: no role, each of them, and the pairs.                     *)
EXTENDS Tools

Roles == {"Director", "Accountant", "Junior_Accountant", "Factory_Manager",
          "Trader", "Station_Manager"}

MCRoleSets == {r \in SUBSET Roles : Cardinality(r) <= 2}

=============================================================================
