------------------------------ MODULE EsiLimits ------------------------------
(***************************************************************************)
(* The requests one pod sends to EVE's API (ESI) and what limits them.     *)
(* Every character has a client of its own (ForUser): a token bucket of    *)
(* requests, a budget of errors, the remainder of ESI's error limit it     *)
(* last heard of, and a semaphore.  A call is a goroutine in cachedGet or  *)
(* write; calls of one character run side by side (its tools, and          *)
(* GetAllPages, which fetches its pages at once).                          *)
(*                                                                         *)
(* One step is one critical section of a mutex or one exchange with ESI.   *)
(* The error budget is read and compared under two mutexes, the request is *)
(* sent later, and its error is charged when the answer arrives: steps of  *)
(* a call between which the others go on.                                  *)
(*                                                                         *)
(* Abstractions.  The response cache is not here: a GET that gets this far *)
(* found no fresh entry, and may have a stale one to revalidate.  Time is  *)
(* the actions that refill a bucket, let an error leave its window and let *)
(* ESI's window end; a reset announced in window w comes due at some time  *)
(* after w.  Back-off sleeps are the time a call may spend before its next *)
(* step.                                                                   *)
(***************************************************************************)
EXTENDS Integers, FiniteSets

CONSTANTS Users,            \* characters served by the pod
          Calls,            \* goroutines that call ESI
          None,             \* no character, no header
          Capacity,         \* UserBucketCapacity
          ErrorLimitBudget, \* errors ESI grants per window (errorLimitBudget)
          ErrorFloor,       \* errorFloor
          ErrorBudgetCap,   \* errorBudgetCap
          ErrorBudgetShare, \* errorBudgetShare
          ServerRetries,    \* attempts after a first failed one (2)
          ThrottleRetries,  \* attempts after a first throttled one (1)
          MaxConcurrency,   \* requests of one character in flight
          MaxWindows,       \* bound: ESI's error windows
          MaxRefills        \* bound: tokens refilled to one bucket

ASSUME EsiAssumption ==
    /\ None \notin Users \cup Int
    /\ IsFiniteSet(Calls)
    /\ {Capacity, ErrorLimitBudget, ErrorFloor, ServerRetries, ThrottleRetries,
        MaxConcurrency, MaxRefills} \subseteq Nat
    /\ {ErrorBudgetCap, ErrorBudgetShare, MaxWindows} \subseteq Nat \ {0}
    /\ ThrottleRetries <= ServerRetries

VARIABLES
    bucket,     \* userBucket.tokens
    remain,     \* Client.errorRemain
    reset,      \* Client.errorResetAt: the window announced, 0 when it is past
    stamps,     \* errorBudget.stamps: errors charged in the last 60 seconds
    call,       \* what every goroutine is doing
    esi,        \* ESI: its current error window and the errors left in it
    net,        \* requests sent, less revalidations (history, not in the code)
    refills     \* tokens refilled (history, not in the code)

limits  == <<bucket, remain, reset, stamps>>
history == <<net, refills>>
vars    == <<limits, call, esi, history>>

(* Answers that count as errors, and those that end a request unanswered.   *)
Errors    == {"denied", "fault", "throttled", "limited"}
NetErrors == {"netError", "netLost"}
Statuses  == {"ok", "notModified"} \cup Errors \cup NetErrors

PCs == {"idle", "remain", "check", "request", "send", "answered", "finish"}

NoAnswer == [status |-> "none", left |-> None, window |-> 0]
Answer == [status : Statuses \cup {"none"}, left : 0 .. ErrorLimitBudget \cup {None},
           window : 0 .. MaxWindows]

(* applied: how often a write has changed the game.                         *)
NoCall == [pc |-> "idle", user |-> None, kind |-> "get",
           seen |-> 0, attempt |-> 0, resp |-> NoAnswer, applied |-> 0]
Call == [pc : PCs, user : Users \cup {None}, kind : {"get", "write"},
         seen : 0 .. ErrorLimitBudget, attempt : 0 .. ServerRetries,
         resp : Answer, applied : 0 .. ServerRetries + 1]

TypeOK ==
    /\ bucket \in [Users -> 0 .. Capacity]
    /\ remain \in [Users -> 0 .. ErrorLimitBudget]
    /\ reset \in [Users -> 0 .. MaxWindows]
    /\ stamps \in [Users -> Nat]
    /\ call \in [Calls -> Call]
    /\ esi \in [window : 1 .. MaxWindows, left : 0 .. ErrorLimitBudget]
    /\ net \in [Users -> Nat]
    /\ refills \in [Users -> 0 .. MaxRefills]

Init ==
    /\ bucket = [u \in Users |-> Capacity]
    /\ remain = [u \in Users |-> ErrorLimitBudget]
    /\ reset = [u \in Users |-> 0]
    /\ stamps = [u \in Users |-> 0]
    /\ call = [i \in Calls |-> NoCall]
    /\ esi = [window |-> 1, left |-> ErrorLimitBudget]
    /\ net = [u \in Users |-> 0]
    /\ refills = [u \in Users |-> 0]

-----------------------------------------------------------------------------
(* The error budget and the bucket                                          *)

(* errorBudgetLimit: the lesser of the cap and a share of the remainder.    *)
ErrorLimit(left) ==
    IF left \div ErrorBudgetShare < ErrorBudgetCap
    THEN left \div ErrorBudgetShare ELSE ErrorBudgetCap

(* currentRemain: what checkErrorBudget takes for the shared remainder.     *)
CurrentRemain(u) == remain[u]

(* awaitErrorBudget: the last remainder is under the floor, its window not  *)
(* over...                                                                  *)
FailFast(u) == remain[u] < ErrorFloor /\ reset[u] # 0

(* ... or over: errors are taken to be granted anew.                        *)
Forget(u) == remain' = [remain EXCEPT ![u] = IF @ < ErrorFloor THEN ErrorLimitBudget ELSE @]

(* userBucket.take; with less than one token it refuses.                    *)
Take(u) == bucket[u] > 0 /\ bucket' = [bucket EXCEPT ![u] = @ - 1]

(* Bug: the refund is not capped.                                           *)
BugRefundUncapped(u) == bucket' = [bucket EXCEPT ![u] = @ + 1]

(* userBucket.refund, capped.                                               *)
Refund(u) ==
    bucket' = [bucket EXCEPT ![u] = IF @ < Capacity THEN @ + 1 ELSE @]

End(i)     == call' = [call EXCEPT ![i] = NoCall]
Goto(i, l) == call' = [call EXCEPT ![i].pc = l, ![i].seen = 0]

-----------------------------------------------------------------------------
(* A call up to its first request                                           *)

(* cachedGet without a fresh entry, or write: Post, Put, Delete.            *)
Start(i, u, kind) ==
    /\ call[i].pc = "idle"
    /\ call' = [call EXCEPT ![i] = [NoCall EXCEPT !.pc = "remain", !.user = u,
                                                  !.kind = kind]]
    /\ UNCHANGED <<limits, esi, history>>

(* checkErrorBudget reads the remainder under errorMu...                    *)
ReadRemain(i) ==
    /\ call[i].pc = "remain"
    /\ call' = [call EXCEPT ![i].pc = "check",
                            ![i].seen = CurrentRemain(call[i].user)]
    /\ UNCHANGED <<limits, esi, history>>

(* Bug: off by one, the limit itself still passes.                          *)
BugOneMore(i) ==
    /\ call[i].pc = "check"
    /\ IF stamps[call[i].user] <= ErrorLimit(call[i].seen)
       THEN Goto(i, "request") ELSE End(i)
    /\ UNCHANGED <<limits, esi, history>>

(* ... and compares it with the errors charged under the budget's own.      *)
CheckBudget(i) ==
    /\ call[i].pc = "check"
    /\ IF stamps[call[i].user] < ErrorLimit(call[i].seen)
       THEN Goto(i, "request") ELSE End(i)
    /\ UNCHANGED <<limits, esi, history>>

(* headers: without an access token nothing is sent.                        *)
NoToken(i) ==
    /\ call[i].pc = "request" /\ call[i].attempt = 0
    /\ End(i)
    /\ UNCHANGED <<limits, esi, history>>

(* Bug: a retry does not take a token of its own.                           *)
BugRetryFree(i) ==
    /\ call[i].pc = "request"
    /\ Goto(i, "send")
    /\ bucket' = [bucket EXCEPT ![call[i].user] =
                     IF call[i].attempt = 0 /\ @ > 0 THEN @ - 1 ELSE @]
    /\ UNCHANGED <<remain, reset, stamps, esi, history>>

(* request: awaitErrorBudget (which forgets a remainder whose window is     *)
(* past), then bucket.take; they touch different state, so that what runs   *)
(* between them could as well run before.  Every attempt comes through here.*)
Admit(i) ==
    LET u == call[i].user IN
    /\ call[i].pc = "request"
    /\ \/ FailFast(u) /\ End(i) /\ UNCHANGED <<bucket, remain>>
       \/ ~FailFast(u) /\ Forget(u) /\ Take(u) /\ Goto(i, "send")
       \/ ~FailFast(u) /\ Forget(u) /\ bucket[u] = 0 /\ End(i) /\ UNCHANGED bucket
    /\ UNCHANGED <<reset, stamps, esi, history>>

-----------------------------------------------------------------------------
(* ESI                                                                      *)

InFlight(u) == Cardinality({i \in Calls : call[i].user = u /\ call[i].pc = "answered"})

(* What ESI may answer a call: a conditional GET may be not modified; once  *)
(* its window's errors are spent, ESI answers nothing but 420.  Which of    *)
(* its net errors a GET meets makes no difference.                          *)
Answers(c) ==
    {"netError"} \cup (IF c.kind = "write" THEN {"netLost"} ELSE {}) \cup
    IF esi.left = 0 THEN {"limited"}
    ELSE {"denied", "fault", "throttled"} \cup
         {"ok"} \cup IF c.kind = "get" THEN {"notModified"} ELSE {}

(* The request takes the semaphore and reaches ESI, or the network fails it *)
(* before or after ESI carries it out: "netError" is a net.OpError (refused,*)
(* reset), "netLost" any other.  A gateway's answer may lack the headers of *)
(* the error limit.                                                         *)
Send(i) ==
    LET c == call[i] IN
    /\ c.pc = "send"
    /\ InFlight(c.user) < MaxConcurrency
    /\ \E s \in Answers(c), reached, headers \in BOOLEAN :
          LET left == IF s \in Errors /\ esi.left > 0 THEN esi.left - 1 ELSE esi.left
          IN /\ s \notin NetErrors \/ c.kind = "get" => reached
             /\ s # "fault" => headers
             /\ esi' = [esi EXCEPT !.left = left]
             /\ call' = [call EXCEPT
                   ![i].pc = "answered",
                   ![i].applied = IF c.kind = "write" /\ reached /\ s \notin Errors
                                  THEN @ + 1 ELSE @,
                   ![i].resp = [status |-> s,
                                left |-> IF headers /\ s \notin NetErrors THEN left
                                         ELSE None,
                                window |-> esi.window]]
    /\ net' = [net EXCEPT ![c.user] = @ + 1]
    /\ UNCHANGED <<limits, refills>>

-----------------------------------------------------------------------------
(* The answer                                                               *)

(* noteErrorHeaders: an answer without the header is neither noted nor      *)
(* charged; a late one overwrites a newer one.                              *)
NoteErrorHeaders(i) ==
    LET r == call[i].resp
        u == call[i].user
    IN IF r.left = None THEN UNCHANGED <<remain, reset, stamps>>
       ELSE /\ remain' = [remain EXCEPT ![u] = r.left]
            /\ reset' = [reset EXCEPT ![u] = r.window]
            /\ stamps' = IF r.status \in Errors
                         THEN [stamps EXCEPT ![u] = @ + 1] ELSE stamps

(* throttleOrLimit: one short retry, of a write too.                        *)
ThrottleRetry(c) == c.resp.status = "throttled" /\ c.attempt < ThrottleRetries

(* serverRetry: a GET after a 5xx.                                          *)
ServerRetry(c) ==
    c.resp.status = "fault" /\ c.attempt < ServerRetries /\ c.kind = "get"

(* safeToRetry: a GET always, a write after any net.OpError.                *)
SafeToRetry(c) == c.kind = "get" \/ c.resp.status = "netError"

(* retryOrNetErr.                                                           *)
NetRetry(c) ==
    c.resp.status \in NetErrors /\ c.attempt < ServerRetries /\ SafeToRetry(c)

(* request after Do: the semaphore is given back, the headers are noted and *)
(* the request is tried again, ends, or goes to finishGet or write.         *)
Receive(i) ==
    LET c == call[i] IN
    /\ c.pc = "answered"
    /\ NoteErrorHeaders(i)
    /\ IF ThrottleRetry(c) \/ ServerRetry(c) \/ NetRetry(c)
       THEN call' = [call EXCEPT ![i].pc = "request", ![i].attempt = @ + 1,
                                 ![i].resp = NoAnswer]
       ELSE IF c.resp.status \in {"throttled", "limited"} \cup NetErrors THEN End(i)
       ELSE call' = [call EXCEPT ![i].pc = "finish",
                                 ![i].resp = [NoAnswer EXCEPT !.status = c.resp.status]]
    /\ UNCHANGED <<bucket, esi, history>>

(* finishGet on 304: the token of this request comes back.                  *)
NotModified(i) ==
    LET c == call[i] IN
    /\ c.pc = "finish" /\ c.resp.status = "notModified"
    /\ Refund(c.user)
    /\ End(i)
    /\ net' = [net EXCEPT ![c.user] = @ - 1]
    /\ UNCHANGED <<remain, reset, stamps, esi, refills>>

(* The call ends with an answer that changes no limit: a body, an error,    *)
(* after a 5xx perhaps the stale entry, a write's answer, or a body that    *)
(* cannot be read to its end.                                               *)
Finish(i) ==
    /\ call[i].pc = "finish"
    /\ End(i)
    /\ UNCHANGED <<limits, esi, history>>

-----------------------------------------------------------------------------
(* Time and the world                                                       *)

(* refillLocked: time passes for a bucket; one that is full stays full.     *)
Refill(u) ==
    /\ bucket[u] < Capacity /\ refills[u] < MaxRefills
    /\ bucket' = [bucket EXCEPT ![u] = @ + 1]
    /\ refills' = [refills EXCEPT ![u] = @ + 1]
    /\ UNCHANGED <<remain, reset, stamps, call, esi, net>>

(* pruneLocked: an error is older than the window.                          *)
StampExpires(u) ==
    /\ stamps[u] > 0
    /\ stamps' = [stamps EXCEPT ![u] = @ - 1]
    /\ UNCHANGED <<bucket, remain, reset, call, esi, history>>

(* errorResetAt is past: never before the window it was announced in.       *)
ResetDue(u) ==
    /\ reset[u] # 0 /\ reset[u] < esi.window
    /\ reset' = [reset EXCEPT ![u] = 0]
    /\ UNCHANGED <<bucket, remain, stamps, call, esi, history>>

(* Another pod's request, from the same address, fails.                     *)
OtherPodErrs ==
    /\ esi.left > 0
    /\ esi' = [esi EXCEPT !.left = @ - 1]
    /\ UNCHANGED <<limits, call, history>>

WindowEnds ==
    /\ esi.window < MaxWindows
    /\ esi' = [window |-> esi.window + 1, left |-> ErrorLimitBudget]
    /\ UNCHANGED <<limits, call, history>>

-----------------------------------------------------------------------------

Step(i) ==
    \/ ReadRemain(i) \/ CheckBudget(i) \/ NoToken(i) \/ Admit(i) \/ Send(i)
    \/ Receive(i) \/ NotModified(i) \/ Finish(i)

Next ==
    \/ \E i \in Calls, u \in Users, kind \in {"get", "write"} : Start(i, u, kind)
    \/ \E i \in Calls : Step(i)
    \/ \E u \in Users : Refill(u) \/ StampExpires(u) \/ ResetDue(u)
    \/ OtherPodErrs \/ WindowEnds

Spec == Init /\ [][Next]_vars

-----------------------------------------------------------------------------
(* Properties                                                               *)

(* SPEC 5.2: every request on the wire has been paid for, a retry like a    *)
(* first attempt, and only an answer that served from cache is free: a      *)
(* character sends no more than its capacity and what was refilled.         *)
AllowanceExact ==
    \A u \in Users :
        bucket[u] + net[u] + Cardinality({i \in Calls : call[i].user = u
                                                        /\ call[i].pc = "send"})
            <= Capacity + refills[u]

(* SPEC 5.3, as far as it holds: calls that passed the check side by side,  *)
(* and their retries, which are not checked again, may overshoot the        *)
(* character's error budget, by at most an error for each of their attempts.*)
OvershootBounded ==
    \A u \in Users :
        stamps[u] <= ErrorBudgetCap - 1 + (ServerRetries + 1) * Cardinality(Calls)

(* SPEC 5.3: over budget, "retry_at at the end of the window".  A call made *)
(* when no error of its character is in the window and the remainder it     *)
(* heard of is out of date finds room in the budget.                        *)
RefusalEnds ==
    \A i \in Calls : LET u == call[i].user IN
        call[i].pc = "remain" /\ stamps[u] = 0 /\ reset[u] = 0 =>
            ErrorLimit(CurrentRemain(u)) > 0

(* One call of Post, Put or Delete changes the game once at most: as the    *)
(* client's own message has it, "repeating it could apply the change        *)
(* twice", and the audit log has one row for it.                            *)
WriteAppliedOnce == \A i \in Calls : call[i].applied <= 1

=============================================================================
