-------------------------------- MODULE Pool --------------------------------
(***************************************************************************)
(* Who waits for whom inside one replica: its pgx pool of connections, the *)
(* mail-cap advisory lock of a character and the row lock of a session.    *)
(* The pool hands out a connection as soon as one is free and lets a       *)
(* request wait for it without limit otherwise.                            *)
(*                                                                         *)
(* A confirmed mail keeps a connection from HoldMailCap to Record and runs *)
(* its other statements on the pool meanwhile, as does the sweep while it  *)
(* holds its lock; a refresh keeps one while it waits for the session's    *)
(* row and for CCP.  A statement outside a transaction takes a connection  *)
(* and gives it back in one step, and so does a transaction that has got   *)
(* all it will wait for.                                                   *)
(*                                                                         *)
(* Abstractions.  What statements read and write is the other modules'     *)
(* matter (WriteGuard, GrantRuntime, SignIn).  A character has one session.*)
(* The sign-in exchange runs in one transaction and waits for nothing that *)
(* a refresh does not.                                                     *)
(***************************************************************************)
EXTENDS Naturals, FiniteSets

CONSTANTS Mails,   \* confirmed calls of eve_mail_send
          Others,  \* other calls: a token, and perhaps a count of the mails
          Sweeps,  \* rounds of the sweep
          Chars,   \* characters
          None,    \* no character
          Conns    \* pool_max_conns

ASSUME PoolAssumption ==
    /\ None \notin Chars
    /\ Mails \cap Others = {} /\ Sweeps \cap (Mails \cup Others) = {}
    /\ IsFiniteSet(Mails \cup Others \cup Sweeps)
    /\ Conns \in Nat \ {0}

VARIABLES pc,    \* pc[r]: where request r stands
          who,   \* who[r]: the character it is of
          hold   \* mails whose HoldMailCap transaction is open

vars == <<pc, who, hold>>

Requests == Mails \cup Others \cup Sweeps

PCs == {"new", "live", "access", "peek", "refresh", "row", "ccp", "begin",
        "lock", "consume", "write", "put", "rules", "done"}

Init ==
    /\ pc = [r \in Requests |-> "new"]
    /\ who = [r \in Requests |-> None]
    /\ hold = {}

-----------------------------------------------------------------------------
(* Connections and locks                                                    *)

(* A transaction that counts mails is open: a hold, or one waiting to count.*)
InMailTx(r) == r \in hold \/ pc[r] = "lock"

Refreshing(r) == pc[r] \in {"row", "ccp"}

Sweeping(r) == pc[r] = "rules"

(* The connections kept between steps.                                      *)
InUse ==
    Cardinality({r \in Requests : InMailTx(r)})
    + Cardinality({r \in Requests : Refreshing(r)})
    + Cardinality({r \in Requests : Sweeping(r)})

Free == InUse < Conns

MailLocked(ch) == \E r \in hold : who[r] = ch

RowLocked(ch) == \E r \in Requests : who[r] = ch /\ pc[r] = "ccp"

Goto(r, l) == pc' = [pc EXCEPT ![r] = l] /\ UNCHANGED <<who, hold>>

(* The request is over; its hold, if it has one, commits or rolls back.     *)
Finish(r) ==
    /\ pc' = [pc EXCEPT ![r] = "done"]
    /\ hold' = hold \ {r}
    /\ UNCHANGED who

-----------------------------------------------------------------------------
(* The steps of a request                                                   *)

(* A tool call reaches the replica.                                         *)
Arrive(r, ch) ==
    /\ r \notin Sweeps /\ pc[r] = "new"
    /\ pc' = [pc EXCEPT ![r] = "live"]
    /\ who' = [who EXCEPT ![r] = ch]
    /\ UNCHANGED hold

(* The bearer check and Session.Character: statements on the pool.          *)
CheckLive(r) ==
    /\ pc[r] = "live" /\ Free
    /\ Goto(r, "access") \/ Finish(r)

(* What follows once there is an access token.  A mail asks for one twice:  *)
(* to price it before the hold, and to send it.                             *)
WithAccess(r) ==
    \/ Goto(r, IF r \in hold THEN "write" ELSE "begin")
    \/ r \in Others /\ Finish(r)

(* eveAccess: the access token in memory is good, or there is a refresh     *)
(* token, or not even that.                                                 *)
Access(r) ==
    /\ pc[r] = "access"
    /\ WithAccess(r) \/ Goto(r, "refresh") \/ Goto(r, "peek")

(* LiveByID reads the session's row, on the pool.                           *)
PeekRow(r) ==
    /\ pc[r] = "peek" /\ Free
    /\ Goto(r, "refresh")

(* LockForRefresh: begin a transaction, then wait for the row.              *)
LockForRefresh(r) ==
    /\ pc[r] = "refresh" /\ Free
    /\ Goto(r, "row")

LockRow(r) ==
    /\ pc[r] = "row" /\ ~RowLocked(who[r])
    /\ Goto(r, "ccp")

(* CCP grants, or refuses, or times out; the transaction ends.  A mail in   *)
(* its hold goes on to record the failure.                                  *)
EndRefresh(r) ==
    /\ pc[r] = "ccp"
    /\ \/ WithAccess(r)
       \/ r \notin hold /\ Finish(r)

(* HoldMailCap and CountMailCap begin, then wait for the advisory lock.     *)
Begin(r) ==
    /\ pc[r] = "begin" /\ Free
    /\ Goto(r, "lock")

(* The count under the lock.  Only a confirmed mail under the cap keeps it; *)
(* a preview goes on to store its token, eve_auth_status is answered.       *)
LockMailCap(r) ==
    /\ pc[r] = "lock" /\ ~MailLocked(who[r])
    /\ \/ /\ r \in Mails
          /\ hold' = hold \cup {r}
          /\ pc' = [pc EXCEPT ![r] = "consume"]
          /\ UNCHANGED who
       \/ r \in Others /\ Goto(r, "put")
       \/ Finish(r)

(* PutConfirm, on the pool.                                                 *)
PutConfirm(r) ==
    /\ pc[r] = "put" /\ Free
    /\ Finish(r)

(* Bug: a refused call forgets its hold.                                    *)
BugRefusalKeepsHold(r) ==
    /\ pc[r] = "consume" /\ Free
    /\ Goto(r, "access") \/ Goto(r, "done")

(* GetConfirm and DeleteConfirm run on the pool while the hold is open.     *)
ConsumeConfirm(r) ==
    /\ pc[r] = "consume" /\ Free
    /\ Goto(r, "access") \/ Finish(r)

(* ESI answers; Record inserts on the hold's own connection and ends it.    *)
WriteAndRecord(r) ==
    /\ pc[r] = "write"
    /\ Finish(r)

(* Try takes a connection for as long as the round lasts, unless another    *)
(* replica has the lock.                                                    *)
TryLock(r) ==
    /\ r \in Sweeps /\ pc[r] = "new" /\ Free
    /\ Goto(r, "rules") \/ Finish(r)

(* The rules run on the pool; then the lock is given back.                  *)
Rules(r) ==
    /\ pc[r] = "rules" /\ Free
    /\ Finish(r)

(* A client hangs up and cancels the context its request waits with.  The   *)
(* wait for a hold's lock is not cancelled with it: HoldMailCap runs        *)
(* WithoutCancel.  The sweep waits with the process's context.              *)
HangUp(r) ==
    /\ \/ pc[r] \in {"live", "access", "peek", "refresh", "row"}
       \/ pc[r] \in {"begin", "consume", "put"}
       \/ r \in Others /\ pc[r] = "lock"
    /\ Finish(r)

Step(r) ==
    \/ CheckLive(r) \/ Access(r) \/ PeekRow(r)
    \/ LockForRefresh(r) \/ LockRow(r) \/ EndRefresh(r)
    \/ Begin(r) \/ LockMailCap(r) \/ PutConfirm(r) \/ ConsumeConfirm(r)
    \/ WriteAndRecord(r) \/ TryLock(r) \/ Rules(r)

Next == \E r \in Requests : Step(r) \/ HangUp(r) \/ \E ch \in Chars : Arrive(r, ch)

(* The pool and the database serve those who wait; CCP and ESI answer or    *)
(* the client's timeout does.  Nobody is made to hang up.                   *)
Fairness == \A r \in Requests : WF_vars(Step(r))

Spec == Init /\ [][Next]_vars /\ Fairness

-----------------------------------------------------------------------------
(* Properties                                                               *)

(* Types; only a confirmed mail keeps a hold.                               *)
TypeOK ==
    /\ pc \in [Requests -> PCs]
    /\ who \in [Requests -> Chars \cup {None}]
    /\ hold \subseteq Mails

(* As many connections as the pool has are kept by requests under way that  *)
(* may ask for a second one (holds, a sweep) or wait for one that does.     *)
Crowded ==
    Cardinality({r \in Requests : /\ pc[r] # "done"
                                  /\ InMailTx(r) \/ Sweeping(r)}) >= Conns

(* Between its arrival and its answer.                                      *)
UnderWay(r) == pc[r] \notin {"new", "done"}

(* What a request waits for: a connection, the mail-cap lock, the row lock. *)
Blocked(r) ==
    \/ ~Free /\ pc[r] \in {"live", "peek", "refresh", "begin"}
    \/ ~Free /\ pc[r] \in {"consume", "put", "rules"}
    \/ pc[r] = "lock" /\ MailLocked(who[r])
    \/ pc[r] = "row" /\ RowLocked(who[r])

(* The requests under way are never all waiting for one another unless the  *)
(* pool is Crowded: LockForRefresh takes the row after HoldMailCap has      *)
(* taken the mail-cap lock, and whoever has the row asks for nothing more.  *)
StuckOnlyWhenCrowded ==
    (\E r \in Requests : UnderWay(r)) /\ ~Crowded =>
        \E r \in Requests : UnderWay(r) /\ ~Blocked(r)

(* Waiting for one connection while keeping another (HoldMailCap's          *)
(* transaction across consumeConfirm and eveAccess, the sweep's lock across *)
(* its rules) can stop a replica for good, and it is the only thing that    *)
(* can: every request is answered unless holds, transactions waiting for    *)
(* their lock and the sweep have the whole pool.  Refreshes, which keep a   *)
(* connection over a call to CCP, never stop it, however many there are.    *)
AnsweredUnlessCrowded ==
    \A r \in Requests : pc[r] # "new" ~> pc[r] = "done" \/ Crowded

=============================================================================
