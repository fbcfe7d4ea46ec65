----------------------------- MODULE WriteGuard -----------------------------
(***************************************************************************)
(* How a change in the game is authorised, executed and recorded: the      *)
(* write Guard's confirm cycle, its mail cap and the audit log, for one    *)
(* character whose tool calls run on several pods over one database.       *)
(*                                                                         *)
(* A pod keeps ONE Guard per character (SessionFor), which its concurrent  *)
(* calls share without a lock, and rebuilds it when a call of another      *)
(* session arrives.  The Guard's mailHold is an open transaction that      *)
(* holds the character's mail-cap advisory lock from HoldMailCap until     *)
(* Release.  One step is one SQL statement, one commit, one call to ESI or *)
(* one access to a field of the Guard.                                     *)
(*                                                                         *)
(* Abstractions.  A call stands for its arguments' names as well: a Guard  *)
(* is named after the call that built it, a hold after the call that       *)
(* opened it, a confirm token after the call that previewed it, an audit   *)
(* row after the call it is about.  All mails fall into one rolling hour.  *)
(* Scopes are granted in full, as Session.Character has checked before.    *)
(***************************************************************************)
EXTENDS Naturals, FiniteSets

CONSTANTS Calls,       \* tool calls
          Pods,        \* replicas
          Tools,       \* the tools in play: eve_mail_send, and any other
          Args,        \* argument digests
          None,        \* no call
          MailCap,     \* mails per rolling hour (5 in the code)
          MaxSession,  \* bound: sign-ins
          MaxFaults    \* bound: crashes and failed statements

ASSUME ConstantsAssumption ==
    /\ None \notin Calls
    /\ Tools \subseteq {"mail", "other"}
    /\ {MailCap, MaxSession, MaxFaults} \subseteq Nat /\ MaxSession >= 1

VARIABLES
    session,   \* the character's live session (sessions)
    guard,     \* guard[p]: the Guard in pod p's Session
    hold,      \* hold[g]: g.mailHold
    tx,        \* tx[c]: the transaction of c's hold; its end is nil past "open"
    buf,       \* buf[c]: audit rows inserted in that transaction
    confirm,   \* confirm_tokens rows
    log,       \* committed rows of mutations
    call,      \* what every call is doing
    faults,    \* faults so far
    lost,      \* calls whose audit row a fault lost (history, not in the code)
    shared     \* calls that had company on their pod (history, not in the code)

vars == <<session, guard, hold, tx, buf, confirm, log, call, faults, lost, shared>>

PCs == {"new", "runtime", "character", "authorize", "gate", "consume", "discard",
        "delete", "put", "esi", "record", "rel", "relTx", "relClear", "done"}

NewCall == [pc |-> "new", pod |-> None, sid |-> 0, tool |-> "other", args |-> None,
            token |-> None, g |-> None, h |-> None, ret |-> "done",
            err |-> FALSE, esi |-> "none"]

Call == [pc : PCs, pod : Pods \cup {None}, sid : 0 .. MaxSession,
         tool : {"mail", "other"}, args : Args \cup {None},
         token : Calls \cup {None}, g : Calls \cup {None}, h : Calls \cup {None},
         ret : {"gate", "done"}, err : BOOLEAN, esi : {"none", "ok", "error", "unanswered"}]

TypeOK ==
    /\ session \in 1 .. MaxSession
    /\ guard \in [Pods -> Calls \cup {None}]
    /\ hold \in [Calls -> Calls \cup {None}]
    /\ tx \in [Calls -> {"none", "open", "ending", "ended"}]
    /\ buf \in [Calls -> SUBSET Calls]
    /\ confirm \in [Calls -> [state : {"none", "live", "expired", "gone"},
                              sid : 0 .. MaxSession]]
    /\ log \subseteq Calls
    /\ call \in [Calls -> Call]
    /\ faults \in 0 .. MaxFaults
    /\ lost \subseteq Calls
    /\ shared \subseteq Calls

Init ==
    /\ session = 1
    /\ guard = [p \in Pods |-> None]
    /\ hold = [c \in Calls |-> None]
    /\ tx = [c \in Calls |-> "none"]
    /\ buf = [c \in Calls |-> {}]
    /\ confirm = [c \in Calls |-> [state |-> "none", sid |-> 0]]
    /\ log = {}
    /\ call = [c \in Calls |-> NewCall]
    /\ faults = 0
    /\ lost = {}
    /\ shared = {}

-----------------------------------------------------------------------------

UnderWay(c) == call[c].pc \notin {"new", "done"}

(* A Guard serves the session of the call that built it.                    *)
GuardSid(g) == call[g].sid

(* The mail-cap advisory lock is held by the transaction of a hold.         *)
LockFree == \A c \in Calls : tx[c] \notin {"open", "ending"}

(* countMailCapSQL: successful sends in the log.                            *)
MailCount == Cardinality({c \in log : call[c].tool = "mail" /\ call[c].esi = "ok"})

(* A call that is over keeps what it did, not where it was.                 *)
Over(r) == [r EXCEPT !.pc = "done", !.g = None, !.h = None, !.ret = "done", !.err = FALSE]

Goto(c, l) ==
    call' = [call EXCEPT ![c] = IF l = "done" THEN Over(@) ELSE [@ EXCEPT !.pc = l]]

(* Call releaseMailHold(err) on Guard g, then go on at l.                   *)
ReleaseThen(c, g, e, l) ==
    call' = [call EXCEPT ![c].pc = "rel", ![c].g = g, ![c].err = e, ![c].ret = l]

-----------------------------------------------------------------------------
(* A call reaches its Guard                                                 *)

(* The bearer check: the call's session is live at this instant.  `shared`  *)
(* notes the calls that run on one pod at the same time.                    *)
BearerCheck(c, p, tool, args, token) ==
    LET company == {d \in Calls : UnderWay(d) /\ call[d].pod = p} IN
    /\ call[c].pc = "new"
    /\ token # None => confirm[token].state # "none"
    /\ call' = [call EXCEPT ![c] = [@ EXCEPT !.pc = "runtime", !.pod = p,
                   !.sid = session, !.tool = tool, !.args = args, !.token = token]]
    /\ shared' = IF company = {} THEN shared ELSE shared \cup company \cup {c}
    /\ UNCHANGED <<session, guard, hold, tx, buf, confirm, log, faults, lost>>

(* SessionFor: a call of another session rebuilds the pod's Guard.          *)
SessionFor(c) ==
    LET p == call[c].pod IN
    /\ call[c].pc = "runtime"
    /\ guard' = IF guard[p] = None \/ GuardSid(guard[p]) # call[c].sid
                THEN [guard EXCEPT ![p] = c] ELSE guard
    /\ Goto(c, "character")
    /\ UNCHANGED <<session, hold, tx, buf, confirm, log, faults, lost, shared>>

(* Session.Character: the session the pod now serves must be live.          *)
Character(c) ==
    /\ call[c].pc = "character"
    /\ Goto(c, IF GuardSid(guard[call[c].pod]) = session THEN "authorize" ELSE "done")
    /\ UNCHANGED <<session, guard, hold, tx, buf, confirm, log, faults, lost, shared>>

-----------------------------------------------------------------------------
(* Guard.Authorize                                                          *)

(* A hold that is still there is taken for abandoned.                       *)
Authorize(c) ==
    /\ call[c].pc = "authorize"
    /\ ReleaseThen(c, guard[call[c].pod], TRUE, "gate")
    /\ UNCHANGED <<session, guard, hold, tx, buf, confirm, log, faults, lost, shared>>

(* Bug: the count is taken before the lock.                                 *)
BugCapUnlocked(c) ==
    LET full == MailCount >= MailCap IN
    /\ call[c].pc = "gate"
    /\ IF call[c].token # None /\ call[c].tool = "mail"
       THEN /\ tx' = [tx EXCEPT ![c] = IF full THEN "ended" ELSE "open"]
            /\ hold' = IF full THEN hold ELSE [hold EXCEPT ![call[c].g] = c]
       ELSE UNCHANGED <<tx, hold>>
    /\ Goto(c, IF call[c].tool = "mail" /\ full THEN "done"
               ELSE IF call[c].token # None THEN "consume" ELSE "put")
    /\ UNCHANGED <<session, guard, buf, confirm, log, faults, lost, shared>>

(* gateMailCap: a confirmed mail keeps the lock it counts under (the hold), *)
(* a preview counts and lets it go.                                         *)
GateMailCap(c) ==
    LET full == MailCount >= MailCap IN
    /\ call[c].pc = "gate"
    /\ call[c].tool = "mail" => LockFree
    /\ IF call[c].token # None /\ call[c].tool = "mail"
       THEN /\ tx' = [tx EXCEPT ![c] = IF full THEN "ended" ELSE "open"]
            /\ hold' = IF full THEN hold ELSE [hold EXCEPT ![call[c].g] = c]
       ELSE UNCHANGED <<tx, hold>>
    /\ Goto(c, IF call[c].tool = "mail" /\ full THEN "done"
               ELSE IF call[c].token # None THEN "consume" ELSE "put")
    /\ UNCHANGED <<session, guard, buf, confirm, log, faults, lost, shared>>

(* previewWrite: a fresh token, bound to the Guard's session.               *)
PutConfirm(c) ==
    /\ call[c].pc = "put"
    /\ confirm' = [confirm EXCEPT ![c] = [state |-> "live", sid |-> GuardSid(call[c].g)]]
    /\ Goto(c, "done")
    /\ UNCHANGED <<session, guard, hold, tx, buf, log, faults, lost, shared>>

(* Bug: the tool is not compared.                                           *)
BugToolNotCompared(c) ==
    LET t == call[c].token
        known == /\ confirm[t].state \in {"live", "expired"}
                 /\ confirm[t].sid = GuardSid(call[c].g)
        fresh == known /\ confirm[t].state = "live"
    IN CASE known /\ ~fresh -> "discard"
         [] fresh /\ call[t].args # call[c].args -> "discard"
         [] fresh /\ call[t].args = call[c].args -> "delete"
         [] OTHER -> "refuse"

(* Bug: the session is not compared.                                        *)
BugSessionNotCompared(c) ==
    LET t == call[c].token
        known == confirm[t].state \in {"live", "expired"}
        fresh == known /\ confirm[t].state = "live"
    IN CASE known /\ ~fresh -> "discard"
         [] fresh /\ call[t].tool = call[c].tool /\ call[t].args # call[c].args
              -> "discard"
         [] fresh /\ call[t].tool = call[c].tool /\ call[t].args = call[c].args
              -> "delete"
         [] OTHER -> "refuse"

(* What consumeConfirm makes of the row GetConfirm returned: a token that   *)
(* is unknown, another session's or another tool's is refused and kept, one *)
(* that is too old or of other arguments is discarded.                      *)
Verdict(c) ==
    LET t == call[c].token
        known == /\ confirm[t].state \in {"live", "expired"}
                 /\ confirm[t].sid = GuardSid(call[c].g)
        fresh == known /\ confirm[t].state = "live"
    IN CASE known /\ ~fresh -> "discard"
         [] fresh /\ call[t].tool = call[c].tool /\ call[t].args # call[c].args
              -> "discard"
         [] fresh /\ call[t].tool = call[c].tool /\ call[t].args = call[c].args
              -> "delete"
         [] OTHER -> "refuse"

(* Bug: the error of consumeConfirm is not looked at.                       *)
BugRefusalFallsThrough(c) ==
    /\ call[c].pc = "consume"
    /\ Goto(c, Verdict(c))
    /\ UNCHANGED <<session, guard, hold, tx, buf, confirm, log, faults, lost, shared>>

(* Bug: a refusal is recorded like a failed write.                          *)
BugRefusalRecorded(c) ==
    /\ call[c].pc = "consume"
    /\ Goto(c, IF Verdict(c) = "refuse" THEN "record" ELSE Verdict(c))
    /\ UNCHANGED <<session, guard, hold, tx, buf, confirm, log, faults, lost, shared>>

ConsumeConfirm(c) ==
    /\ call[c].pc = "consume"
    /\ IF Verdict(c) = "refuse" THEN ReleaseThen(c, call[c].g, TRUE, "done")
       ELSE Goto(c, Verdict(c))
    /\ UNCHANGED <<session, guard, hold, tx, buf, confirm, log, faults, lost, shared>>

(* Bug: the token is left to the sweep.                                     *)
BugTokenKept(c) ==
    /\ call[c].pc \in {"discard", "delete"}
    /\ IF call[c].pc = "discard" THEN ReleaseThen(c, call[c].g, TRUE, "done")
       ELSE Goto(c, "esi")
    /\ UNCHANGED <<session, guard, hold, tx, buf, confirm, log, faults, lost, shared>>

(* DeleteConfirm does not say whether there was a row to delete.            *)
DeleteConfirm(c) ==
    /\ call[c].pc \in {"discard", "delete"}
    /\ confirm' = [confirm EXCEPT ![call[c].token].state = "gone"]
    /\ IF call[c].pc = "discard" THEN ReleaseThen(c, call[c].g, TRUE, "done")
       ELSE Goto(c, "esi")
    /\ UNCHANGED <<session, guard, hold, tx, buf, log, faults, lost, shared>>

-----------------------------------------------------------------------------
(* The change, its record and the end of the hold                           *)

(* ESI's answer to the change.  The handler sees an error both when ESI     *)
(* refused the change and when EVE carried it out and the answer was lost.  *)
ESIWrite(c) ==
    /\ call[c].pc = "esi"
    /\ \E r \in {"ok", "error", "unanswered"} :
          call' = [call EXCEPT ![c].esi = r, ![c].pc = "record"]
    /\ UNCHANGED <<session, guard, hold, tx, buf, confirm, log, faults, lost, shared>>

(* Guard.Record on the Guard the pod has NOW: the row goes into the hold's  *)
(* transaction when there is one, else into one of its own, which needs the *)
(* lock for a mail that was sent.  A transaction that has ended refuses it. *)
Record(c) ==
    LET g == guard[call[c].pod]
        h == hold[g]
        sent == call[c].tool = "mail" /\ call[c].esi = "ok"
    IN
    /\ call[c].pc = "record"
    /\ \/ /\ h # None
          /\ buf' = IF tx[h] = "open" THEN [buf EXCEPT ![h] = @ \cup {c}] ELSE buf
          /\ ReleaseThen(c, g, tx[h] # "open", "done")
          /\ UNCHANGED log
       \/ /\ h = None
          /\ sent => LockFree
          /\ log' = log \cup {c}
          /\ ReleaseThen(c, g, FALSE, "done")
          /\ UNCHANGED buf
    /\ UNCHANGED <<session, guard, hold, tx, confirm, faults, lost, shared>>

(* releaseMailHold, in three steps: Release takes h.end (a nil one panics), *)
(* the transaction ends, the field is cleared.                              *)
TakeEnd(c) ==
    LET h == hold[call[c].g] IN
    /\ call[c].pc = "rel"
    /\ \/ h = None /\ Goto(c, call[c].ret) /\ UNCHANGED tx
       \/ /\ h # None /\ tx[h] = "open"
          /\ tx' = [tx EXCEPT ![h] = "ending"]
          /\ call' = [call EXCEPT ![c].h = h, ![c].pc = "relTx"]
       \/ h # None /\ tx[h] # "open" /\ Goto(c, "done") /\ UNCHANGED tx
    /\ UNCHANGED <<session, guard, hold, buf, confirm, log, faults, lost, shared>>

(* Bug: Release rolls back whatever it is told.                             *)
BugAlwaysRollback(c) ==
    LET h == call[c].h IN
    /\ call[c].pc = "relTx"
    /\ tx' = [tx EXCEPT ![h] = "ended"]
    /\ UNCHANGED log
    /\ buf' = [buf EXCEPT ![h] = {}]
    /\ Goto(c, "relClear")
    /\ UNCHANGED <<session, guard, hold, confirm, faults, lost, shared>>

(* Bug: a refused call forgets to end the transaction.                      *)
BugRefusalKeepsTx(c) ==
    LET h == call[c].h IN
    /\ call[c].pc = "relTx"
    /\ tx' = IF call[c].err THEN tx ELSE [tx EXCEPT ![h] = "ended"]
    /\ log' = IF call[c].err THEN log ELSE log \cup buf[h]
    /\ buf' = [buf EXCEPT ![h] = {}]
    /\ Goto(c, "relClear")
    /\ UNCHANGED <<session, guard, hold, confirm, faults, lost, shared>>

EndTx(c) ==
    LET h == call[c].h IN
    /\ call[c].pc = "relTx"
    /\ tx' = [tx EXCEPT ![h] = "ended"]
    /\ log' = IF call[c].err THEN log ELSE log \cup buf[h]
    /\ buf' = [buf EXCEPT ![h] = {}]
    /\ Goto(c, "relClear")
    /\ UNCHANGED <<session, guard, hold, confirm, faults, lost, shared>>

ClearHold(c) ==
    /\ call[c].pc = "relClear"
    /\ hold' = [hold EXCEPT ![call[c].g] = None]
    /\ Goto(c, call[c].ret)
    /\ UNCHANGED <<session, guard, tx, buf, confirm, log, faults, lost, shared>>

-----------------------------------------------------------------------------
(* Time, sign-ins and faults                                                *)

TokenExpires(c) ==
    /\ confirm[c].state = "live"
    /\ confirm' = [confirm EXCEPT ![c].state = "expired"]
    /\ UNCHANGED <<session, guard, hold, tx, buf, log, call, faults, lost, shared>>

(* The sweep's confirm rule, DeleteExpired.                                 *)
SweepConfirms ==
    /\ \E c \in Calls : confirm[c].state = "expired"
    /\ confirm' = [c \in Calls |-> IF confirm[c].state = "expired"
                                   THEN [confirm[c] EXCEPT !.state = "gone"]
                                   ELSE confirm[c]]
    /\ UNCHANGED <<session, guard, hold, tx, buf, log, call, faults, lost, shared>>

(* The player signs in again: the session is replaced (module SignIn).      *)
SignInAgain ==
    /\ session < MaxSession
    /\ session' = session + 1
    /\ UNCHANGED <<guard, hold, tx, buf, confirm, log, call, faults, lost, shared>>

(* A statement fails: the database errs, or the client has hung up and      *)
(* cancelled the context (a hold's transaction is not cancelled with it).   *)
(* A commit that fails in Release loses the rows the hold has buffered.     *)
StatementFails(c) ==
    LET g == guard[call[c].pod] IN
    /\ faults < MaxFaults
    /\ faults' = faults + 1
    /\ \/ call[c].pc \in {"character", "gate", "put"} /\ Goto(c, "done")
          /\ UNCHANGED lost
       \/ call[c].pc \in {"consume", "discard", "delete"}
          /\ ReleaseThen(c, call[c].g, TRUE, "done")
          /\ UNCHANGED lost
       \/ call[c].pc = "record"
          /\ ReleaseThen(c, g, TRUE, "done")
          /\ lost' = lost \cup {c}
       \/ call[c].pc = "relTx" /\ ~call[c].err
          /\ call' = [call EXCEPT ![c].err = TRUE]
          /\ lost' = lost \cup buf[call[c].h]
    /\ UNCHANGED <<session, guard, hold, tx, buf, confirm, log, shared>>

(* A pod dies: its calls stop and its transactions roll back.               *)
Crash(p) ==
    LET mine == {c \in Calls : call[c].pod = p}
        stopped == {c \in mine : UnderWay(c)}
    IN
    /\ faults < MaxFaults
    /\ faults' = faults + 1
    /\ stopped # {}
    /\ guard' = [guard EXCEPT ![p] = None]
    /\ hold' = [c \in Calls |-> IF c \in mine THEN None ELSE hold[c]]
    /\ tx' = [c \in Calls |-> IF c \in mine /\ tx[c] # "none" THEN "ended" ELSE tx[c]]
    /\ buf' = [c \in Calls |-> IF c \in mine THEN {} ELSE buf[c]]
    /\ call' = [c \in Calls |-> IF c \in stopped THEN Over(call[c]) ELSE call[c]]
    /\ lost' = lost \cup {c \in stopped : call[c].esi # "none" /\ c \notin log}
                    \cup UNION {buf[c] : c \in mine}
    /\ UNCHANGED <<session, confirm, log, shared>>

-----------------------------------------------------------------------------

Step(c) ==
    \/ SessionFor(c) \/ Character(c) \/ Authorize(c) \/ GateMailCap(c)
    \/ PutConfirm(c) \/ ConsumeConfirm(c) \/ DeleteConfirm(c) \/ ESIWrite(c)
    \/ Record(c) \/ TakeEnd(c) \/ EndTx(c) \/ ClearHold(c)

Start(c) ==
    \E p \in Pods, tool \in Tools, args \in Args, token \in Calls \cup {None} :
        BearerCheck(c, p, tool, args, token)

Next ==
    \/ \E c \in Calls : Start(c) \/ Step(c) \/ StatementFails(c) \/ TokenExpires(c)
    \/ \E p \in Pods : Crash(p)
    \/ SweepConfirms
    \/ SignInAgain

Spec == Init /\ [][Next]_vars

-----------------------------------------------------------------------------
(* Properties                                                               *)

Executed(c) == call[c].esi # "none"
Mailed == {c \in Calls : call[c].tool = "mail" /\ call[c].esi = "ok"}

(* Mails that went out: the confirmed ones, and those whose answer was lost. *)
MailsOut == {c \in Calls : call[c].tool = "mail" /\ call[c].esi \in {"ok", "unanswered"}}

(* The mail cap is exact for the mails ESI confirmed (SPEC 5.4: "Only       *)
(* successful sends count"): however many calls run at once on however many *)
(* pods, at most MailCap mails of calls that had their Guard to themselves  *)
(* and whose row no fault lost are confirmed.  It says nothing of a mail    *)
(* whose answer was lost: MailsOutCapped is about those.                    *)
MailCapExact == Cardinality(Mailed \ (lost \cup shared)) <= MailCap

(* SPEC 5.4, "counted exactly", read for every call: the confirmed mails    *)
(* stay within the cap also when calls share a Guard.  The code breaks it:  *)
(* the second Authorize takes the first call's hold for an abandoned one.   *)
ConfirmedMailsCapped == Cardinality(Mailed \ lost) <= MailCap

(* SPEC 5.4, "5 outgoing mails per rolling hour", read for every mail that  *)
(* reached EVE, by calls that share nothing and lose no row.  The code      *)
(* breaks it: a mail whose answer was lost is recorded as an error, which   *)
(* the cap's query does not count.                                          *)
MailsOutCapped == Cardinality(MailsOut \ (lost \cup shared)) <= MailCap

(* The audit log has a row for every change the server attempted, refused,  *)
(* confirmed or unanswered, once the call is over, unless a fault lost it   *)
(* or the call shared its Guard.                                            *)
EveryAttemptRecorded ==
    \A c \in Calls : call[c].pc = "done" /\ Executed(c) => c \in log \cup lost \cup shared

(* SPEC 8, "one append-only row per in-game change the server attempted",   *)
(* for every call: only a fault may lose a row.  The code breaks it when    *)
(* calls share a Guard: the first one's row goes into a transaction the     *)
(* other one rolls back.                                                    *)
EveryChangeRecorded ==
    \A c \in Calls : call[c].pc = "done" /\ Executed(c) => c \in log \cup lost

(* ... and for nothing else: a call refused before ESI leaves no row, not   *)
(* even through the transaction of another call's hold.                     *)
OnlyAttemptsRecorded ==
    \A c \in log \cup UNION {buf[d] : d \in Calls} : Executed(c)

(* What was executed is what was previewed: same tool, same arguments.      *)
ConsentMatches ==
    \A c \in Calls : Executed(c) =>
        /\ call[c].token # None
        /\ call[call[c].token].tool = call[c].tool
        /\ call[call[c].token].args = call[c].args

(* SPEC 4.1: a confirm token is bound to the session that asked; consent    *)
(* dies with the session.  A call that had its Guard to itself executes     *)
(* only what its own session previewed.                                     *)
ConsentDiesWithSession ==
    \A c \in Calls \ shared : Executed(c) => confirm[call[c].token].sid = call[c].sid

(* SPEC 4.1, "a sign-in that replaces the session voids every pending       *)
(* confirmation", for every call.  The code breaks it: a late call of the   *)
(* old session gives the pod a Guard of that session again, under a call of *)
(* the new one that has yet to read it.                                     *)
EverySignInVoidsConsent ==
    \A c \in Calls : Executed(c) => confirm[call[c].token].sid = call[c].sid

(* SPEC 4.1: a confirm token is single use.                                 *)
ConfirmSingleUse ==
    \A c, d \in Calls : Executed(c) /\ Executed(d) /\ c # d =>
        call[c].token # call[d].token

(* A mail's confirm token is single use although Get and Delete are two     *)
(* statements: the hold keeps a second pod from reading it in between.      *)
MailConfirmedOnce ==
    \A c, d \in Calls \ shared :
        Executed(c) /\ Executed(d) /\ c # d /\ call[c].tool = "mail" =>
            call[c].token # call[d].token

(* The mail-cap lock of a call that had its Guard to itself is held only    *)
(* while the call is under way: no hold outlives it and locks the           *)
(* character's mail for good.                                               *)
NoStrandedHold ==
    \A c \in Calls \ shared : tx[c] \in {"open", "ending"} => UnderWay(c)

=============================================================================
