----------------------------- MODULE Connection -----------------------------
(***************************************************************************)
(* What the sign-in subsystem promises, without its database, its locks or *)
(* EVE's SSO: a character has at most one connection at a time, a new      *)
(* sign-in replaces the old connection in ONE step (there is no instant    *)
(* with two and none in between), a connection that has ended never comes  *)
(* back, and the ids of a character's connections only grow, so a token    *)
(* that names an older id never outlives a newer sign-in.                  *)
(***************************************************************************)
EXTENDS Naturals

CONSTANTS Characters,   \* EVE characters
          Ids           \* session ids (sid), numbers

VARIABLES open,         \* open[c]: the connections of c that have not ended
          used          \* used[c]: every connection c ever had

vars == <<open, used>>

TypeOK ==
    /\ open \in [Characters -> SUBSET Ids]
    /\ used \in [Characters -> SUBSET Ids]

Init ==
    /\ open = [c \in Characters |-> {}]
    /\ used = [c \in Characters |-> {}]

(* A sign-in: the new connection is newer than every earlier one of the     *)
(* same character and replaces whatever was open.                           *)
Connect(c, s) ==
    /\ \A u \in used[c] : u < s
    /\ open' = [open EXCEPT ![c] = {s}]
    /\ used' = [used EXCEPT ![c] = @ \cup {s}]

(* The connections in S end: logout, scope drift, dead grant, owner change, *)
(* or the sweep, which may end connections of several characters at once.   *)
End(S) ==
    /\ open' = [c \in Characters |-> open[c] \ S]
    /\ UNCHANGED used

Next ==
    \/ \E c \in Characters, s \in Ids : Connect(c, s)
    \/ \E S \in SUBSET Ids : End(S)

Spec == Init /\ [][Next]_vars

-----------------------------------------------------------------------------

(* At most one connection per character, and it is the newest one it had.   *)
NewestOnly ==
    \A c \in Characters :
        /\ open[c] \subseteq used[c]
        /\ \A s \in open[c], u \in used[c] : u <= s

=============================================================================
