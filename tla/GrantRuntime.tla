---------------------------- MODULE GrantRuntime ----------------------------
(***************************************************************************)
(* The part of a pod's memory that belongs to a sign-in: the runtime the   *)
(* bearer check hands a request (SessionFor), the EVE grant it caches, and *)
(* the SSO client's access-token cache and refresh locks below it.  One    *)
(* character, several sign-ins one after the other, several pods.          *)
(*                                                                         *)
(* A runtime is shared by all requests of the character on its pod and     *)
(* records the sid it was built from; a request that carries another one   *)
(* rebuilds it under requests that are still running.  A runtime is named  *)
(* after the call that built it.  One step is one critical section of      *)
(* grantMu, one SQL statement, one commit, or one call to CCP.             *)
(*                                                                         *)
(* A refresh token is a pair of its sign-in and a version; an access token *)
(* is named after the refresh token it came with, which is what both       *)
(* caches file it under.  A new sign-in is one step here (SignIn has its   *)
(* statements); CCP is external.                                           *)
(***************************************************************************)
EXTENDS Naturals, FiniteSets

CONSTANTS Calls,      \* requests to /mcp
          Pods,       \* replicas
          None,       \* no runtime, no token
          MaxSid,     \* bound: sign-ins
          MaxVer,     \* bound: versions of a sign-in's refresh token
          MaxFaults,  \* bound: lost answers, failed commits, withdrawals
          MaxExpiries \* bound: access tokens that run out

ASSUME ConstantsAssumption ==
    /\ None \notin Calls /\ None \notin Pods
    /\ {MaxSid, MaxVer, MaxFaults, MaxExpiries} \subseteq Nat
    /\ MaxSid >= 1 /\ MaxVer >= 1

VARIABLES
    sess,      \* sess[s]: state and refresh token version of session row s
    ccp,       \* ccp[s]: the version CCP accepts, 0 when the grant is gone
    store,     \* store[p]: Server.sessions of pod p, for this character
    runtime,   \* runtime[c]: sid, cached refresh and access token of a runtime
    access,    \* access[p]: the refresh tokens with a live access token in accessCache
    call,      \* what every request is doing; call[c].ended is history, the
               \* sessions that had ended when c was let in
    faults, expiries,
    lost,      \* history: sign-ins whose stored token a fault left behind
    charged    \* history: verdicts, by the sid of the request and the sid revoked

vars == <<sess, ccp, store, runtime, access, call, faults, expiries, lost, charged>>

Sids == 1 .. MaxSid
Tokens == Sids \X (1 .. MaxVer)
Maybe(S) == S \cup {None}

PCs == {"new", "load", "rebuild", "store", "character", "access", "peek", "lock",
        "closure", "ask", "commit", "verdict", "esi", "done"}

NewCall == [pc |-> "new", pod |-> None, claim |-> 0, rt |-> None, sid |-> 0,
            expected |-> None, row |-> None, next |-> None, got |-> None, ended |-> {}]
Over == [NewCall EXCEPT !.pc = "done"]
Call == [pc : PCs, pod : Maybe(Pods), claim : 0 .. MaxSid, rt : Maybe(Calls),
         sid : 0 .. MaxSid, expected : Maybe(Tokens), row : Maybe(Tokens),
         next : Maybe(Tokens), got : Maybe(Tokens), ended : SUBSET Sids]

Unbuilt == [sid |-> 0, refresh |-> None, access |-> None]
Runtime == [sid : 0 .. MaxSid, refresh : Maybe(Tokens), access : Maybe(Tokens)]

TypeOK ==
    /\ sess \in [Sids -> [state : {"none", "open", "revoked"}, ver : 0 .. MaxVer]]
    /\ ccp \in [Sids -> 0 .. MaxVer]
    /\ store \in [Pods -> Maybe(Calls)]
    /\ runtime \in [Calls -> Runtime]
    /\ access \in [Pods -> SUBSET Tokens]
    /\ call \in [Calls -> Call]
    /\ faults \in 0 .. MaxFaults /\ expiries \in 0 .. MaxExpiries
    /\ lost \subseteq Sids
    /\ charged \subseteq (0 .. MaxSid) \X Sids

Init ==
    /\ sess = [s \in Sids |-> IF s = 1 THEN [state |-> "open", ver |-> 1]
                                        ELSE [state |-> "none", ver |-> 0]]
    /\ ccp = [s \in Sids |-> IF s = 1 THEN 1 ELSE 0]
    /\ store = [p \in Pods |-> None]
    /\ runtime = [c \in Calls |-> Unbuilt]
    /\ access = [p \in Pods |-> {}]
    /\ call = [c \in Calls |-> NewCall]
    /\ faults = 0 /\ expiries = 0
    /\ lost = {} /\ charged = {}

-----------------------------------------------------------------------------

UnderWay(c) == call[c].pc \notin {"new", "done"}
Live(s) == s \in Sids /\ sess[s].state = "open"
Stored(s) == <<s, sess[s].ver>>

(* Mutant: the session is revoked from inside LockForRefresh's closure.      *)
BugRevokeInside(c) == call[c].pc \in {"closure", "ask", "commit", "verdict"}

(* Between the SELECT FOR UPDATE and the end of its transaction.            *)
HoldsRow(c) == call[c].pc \in {"closure", "ask", "commit"}

RowFree(s) == \A c \in Calls : ~(HoldsRow(c) /\ call[c].sid = s)

(* The closure of eveAccess keeps grantMu while it asks the SSO client.     *)
HoldsMu(c) == call[c].pc = "ask"
MuFree(rt) == \A c \in Calls : ~(HoldsMu(c) /\ call[c].rt = rt)

Goto(c, l) ==
    call' = [call EXCEPT ![c] = IF l = "done" THEN Over ELSE [@ EXCEPT !.pc = l]]

History == <<lost, charged>>
Clock == <<faults, expiries>>

-----------------------------------------------------------------------------
(* The bearer check and SessionFor.                                         *)

(* requireLive: the session the JWT names is live in the table.             *)
RequireLive(c) == \E p \in Pods, s \in Sids :
    /\ call[c].pc = "new"
    /\ Live(s)
    /\ call' = [call EXCEPT ![c] = 
         [@ EXCEPT !.pc = "load", !.pod = p, !.claim = s,
                   !.ended = {t \in Sids : sess[t].state = "revoked"}]]
    /\ UNCHANGED <<sess, ccp, store, runtime, access, Clock, History>>

(* sessions.Load, and the comparison of the runtime's sid.                  *)
LoadRuntime(c) ==
    LET rt == store[call[c].pod]
    IN  /\ call[c].pc = "load"
        /\ call' = [call EXCEPT ![c] =
             [@ EXCEPT !.rt = rt,
                       !.pc = IF rt = None THEN "store"
                              ELSE IF runtime[rt].sid # call[c].claim THEN "rebuild"
                              ELSE "character"]]
        /\ UNCHANGED <<sess, ccp, store, runtime, access, Clock, History>>

(* ForCharacter and sessions.Store: the last one stored wins.               *)
StoreRuntime(c) ==
    /\ call[c].pc = "store"
    /\ runtime' = [runtime EXCEPT ![c] = [Unbuilt EXCEPT !.sid = call[c].claim]]
    /\ store' = [store EXCEPT ![call[c].pod] = c]
    /\ call' = [call EXCEPT ![c] = [@ EXCEPT !.rt = c, !.pc = "character"]]
    /\ UNCHANGED <<sess, ccp, access, Clock, History>>

(* Mutant: RebuildGrant writes the sid and keeps the cached grant.           *)
BugRebuildKeeps(c) ==
    /\ call[c].pc = "rebuild" /\ MuFree(call[c].rt)
    /\ runtime' = [runtime EXCEPT ![call[c].rt].sid = call[c].claim]
    /\ Goto(c, "character")
    /\ UNCHANGED <<sess, ccp, store, access, Clock, History>>

(* RebuildGrant: the sid of the request, and an empty grant.                *)
RebuildGrant(c) ==
    /\ call[c].pc = "rebuild" /\ MuFree(call[c].rt)
    /\ runtime' = [runtime EXCEPT ![call[c].rt] = [Unbuilt EXCEPT !.sid = call[c].claim]]
    /\ Goto(c, "character")
    /\ UNCHANGED <<sess, ccp, store, access, Clock, History>>

(* Session.Character: the session the RUNTIME names is live.                *)
Character(c) ==
    /\ call[c].pc = "character"
    /\ Goto(c, IF Live(runtime[call[c].rt].sid) THEN "access" ELSE "done")
    /\ UNCHANGED <<sess, ccp, store, runtime, access, Clock, History>>

-----------------------------------------------------------------------------
(* eveAccess.                                                               *)

(* The first section of grantMu: the sid, and the cached access token.      *)
BeginAccess(c) ==
    LET g == runtime[call[c].rt]
    IN  /\ call[c].pc = "access" /\ MuFree(call[c].rt)
        /\ call' = [call EXCEPT ![c] =
             IF g.access # None
               THEN [@ EXCEPT !.sid = g.sid, !.got = g.access, !.pc = "esi"]
               ELSE [@ EXCEPT !.sid = g.sid, !.expected = g.refresh,
                              !.pc = IF g.refresh = None THEN "peek" ELSE "lock"]]
        /\ UNCHANGED <<sess, ccp, store, runtime, access, Clock, History>>

PeekRow(c) ==
    /\ call[c].pc = "peek"
    /\ call' = [call EXCEPT ![c] =
         [@ EXCEPT !.pc = "lock",
                   !.expected = IF Live(call[c].sid) THEN Stored(call[c].sid) ELSE None]]
    /\ UNCHANGED <<sess, ccp, store, runtime, access, Clock, History>>

(* LockForRefresh: no row, no refresh.                                      *)
LockRow(c) ==
    /\ call[c].pc = "lock" /\ RowFree(call[c].sid)
    /\ IF Live(call[c].sid)
         THEN call' = [call EXCEPT ![c] = [@ EXCEPT !.pc = "closure", !.row = Stored(call[c].sid)]]
         ELSE Goto(c, "done")
    /\ UNCHANGED <<sess, ccp, store, runtime, access, Clock, History>>

(* grant.set on the runtime of c, whatever sid it has by now.               *)
SetGrant(c, refresh, acc) ==
    runtime' = [runtime EXCEPT ![call[c].rt] = [@ EXCEPT !.refresh = refresh, !.access = acc]]

(* The closure up to AccessToken: the row was rotated under us and somebody *)
(* else's access token serves, or the SSO client has one cached, or CCP has *)
(* to be asked.                                                             *)
EnterClosure(c) ==
    LET k == call[c]
        g == runtime[k.rt]
        rotated == k.expected # None /\ k.row # k.expected
    IN  /\ k.pc = "closure" /\ MuFree(k.rt)
        /\ \/ /\ rotated /\ g.access # None
              /\ SetGrant(c, k.row, g.access)
              /\ call' = [call EXCEPT ![c] =
                   [@ EXCEPT !.pc = "commit", !.next = k.row, !.got = g.access]]
           \/ /\ ~(rotated /\ g.access # None)
              /\ k.row \in access[k.pod]
              /\ SetGrant(c, k.row, k.row)
              /\ call' = [call EXCEPT ![c] =
                   [@ EXCEPT !.pc = "commit", !.next = k.row, !.got = k.row]]
           \/ /\ ~(rotated /\ g.access # None)
              /\ k.row \notin access[k.pod]
              /\ runtime' = [runtime EXCEPT ![k.rt].refresh = IF rotated THEN k.row ELSE @]
              /\ Goto(c, "ask")
        /\ UNCHANGED <<sess, ccp, store, access, Clock, History>>

(* refreshLocks: one refresh of a token at a time on a pod, and a second    *)
(* look at the cache under the lock.  tokenRequest and tokenFromPayload:    *)
(* CCP gives the stream's holder a new access token, with the same refresh  *)
(* token or a rotated one, and turns everybody else away.                   *)
RefreshGranted(c) == \E v \in 1 .. MaxVer :
    LET k == call[c]
        new == <<k.sid, v>>
    IN  /\ k.pc = "ask"
        /\ ccp[k.sid] = k.row[2]
        /\ v \in {k.row[2], k.row[2] + 1}
        /\ ccp' = [ccp EXCEPT ![k.sid] = v]
        /\ access' = [access EXCEPT ![k.pod] = (@ \ {k.row}) \cup {new}]
        /\ SetGrant(c, new, new)
        /\ call' = [call EXCEPT ![c] =
             [@ EXCEPT !.pc = "commit", !.next = new, !.got = new]]
        /\ UNCHANGED <<sess, store, Clock, History>>

(* Mutant: a stale token's refusal is taken for no answer.                   *)
BugOnlyWithdrawnRefused(c) ==
    LET k == call[c]
    IN  /\ k.pc = "ask" /\ ccp[k.sid] = 0
        /\ access' = [access EXCEPT ![k.pod] = @ \ {k.row}]
        /\ Goto(c, "verdict")
        /\ UNCHANGED <<sess, ccp, store, runtime, Clock, History>>

RefreshRefused(c) ==
    LET k == call[c]
    IN  /\ k.pc = "ask"
        /\ ccp[k.sid] # k.row[2]
        /\ access' = [access EXCEPT ![k.pod] = @ \ {k.row}]
        /\ Goto(c, "verdict")
        /\ UNCHANGED <<sess, ccp, store, runtime, Clock, History>>

(* The request fails on the way, or its answer cannot be used: CCP may have *)
(* rotated the token all the same.                                          *)
RefreshFails(c) == \E rotates \in BOOLEAN :
    LET k == call[c]
        took == rotates /\ ccp[k.sid] = k.row[2] /\ k.row[2] < MaxVer
    IN  /\ k.pc = "ask" /\ faults < MaxFaults
        /\ faults' = faults + 1
        /\ ccp' = [ccp EXCEPT ![k.sid] = IF took THEN @ + 1 ELSE @]
        /\ lost' = IF took THEN lost \cup {k.sid} ELSE lost
        /\ Goto(c, "done")
        /\ UNCHANGED <<sess, store, runtime, access, expiries, charged>>

(* Mutant: the new token's version is counted, not read from CCP's answer.   *)
BugCommitCounts(c) ==
    LET k == call[c]
    IN  /\ k.pc = "commit"
        /\ sess' = [sess EXCEPT ![k.sid].ver = @ + 1]
        /\ Goto(c, "esi")
        /\ UNCHANGED <<ccp, store, runtime, access, Clock, History>>

(* writeRefreshSQL and COMMIT, which may fail after CCP has rotated.        *)
CommitRefresh(c) ==
    LET k == call[c]
    IN  /\ k.pc = "commit"
        /\ \/ /\ sess' = [sess EXCEPT ![k.sid].ver = k.next[2]]
              /\ Goto(c, "esi")
              /\ UNCHANGED <<faults, lost>>
           \/ /\ faults < MaxFaults /\ faults' = faults + 1
              /\ lost' = IF k.next # Stored(k.sid) THEN lost \cup {k.sid} ELSE lost
              /\ Goto(c, "done")
              /\ UNCHANGED sess
        /\ UNCHANGED <<ccp, store, runtime, access, expiries, charged>>

(* Mutant: the verdict is charged to the sid the runtime has now.            *)
BugVerdictNow(c) ==
    LET k == call[c]
        s == runtime[k.rt].sid
    IN  /\ k.pc = "verdict" /\ RowFree(s)
        /\ sess' = [sess EXCEPT ![s].state = "revoked"]
        /\ charged' = IF Live(s) THEN charged \cup {<<k.claim, s>>} ELSE charged
        /\ Goto(c, "done")
        /\ UNCHANGED <<ccp, store, runtime, access, Clock, lost>>

(* The transaction is rolled back; then the session eveAccess began with is *)
(* revoked.                                                                 *)
Verdict(c) ==
    LET k == call[c]
    IN  /\ k.pc = "verdict" /\ RowFree(k.sid)
        /\ sess' = [sess EXCEPT ![k.sid].state = "revoked"]
        /\ charged' = IF Live(k.sid) THEN charged \cup {<<k.claim, k.sid>>} ELSE charged
        /\ Goto(c, "done")
        /\ UNCHANGED <<ccp, store, runtime, access, Clock, lost>>

(* The ESI request with the access token eveAccess returned.                *)
CallESI(c) ==
    /\ call[c].pc = "esi"
    /\ Goto(c, "done")
    /\ UNCHANGED <<sess, ccp, store, runtime, access, Clock, History>>

-----------------------------------------------------------------------------
(* What happens around them.                                                *)

(* A sign-in exchanges its code: the predecessor's row is revoked, and its  *)
(* token comes back for RevokeAtCCP.                                        *)
SignIn == \E s \in Sids \ {1} :
    /\ sess[s].state = "none" /\ sess[s - 1].state # "none"
    /\ \A t \in Sids : Live(t) => RowFree(t)
    /\ sess' = [t \in Sids |->
         IF t = s THEN [state |-> "open", ver |-> 1]
         ELSE IF Live(t) THEN [sess[t] EXCEPT !.state = "revoked"] ELSE sess[t]]
    /\ ccp' = [ccp EXCEPT ![s] = 1]
    /\ UNCHANGED <<store, runtime, access, call, Clock, History>>

(* Client.Revoke after the commit, on the pod that ran the exchange.        *)
RevokeAtCCP == \E p \in Pods, s \in Sids :
    /\ sess[s].state = "revoked" /\ ccp[s] # 0
    /\ ccp' = [ccp EXCEPT ![s] = 0]
    /\ access' = [access EXCEPT ![p] = @ \ {Stored(s)}]
    /\ UNCHANGED <<sess, store, runtime, call, Clock, History>>

(* The player withdraws the application, or CCP drops the stream.           *)
Withdraw == \E s \in Sids :
    /\ ccp[s] # 0 /\ Live(s) /\ faults < MaxFaults
    /\ ccp' = [ccp EXCEPT ![s] = 0]
    /\ lost' = lost \cup {s}
    /\ faults' = faults + 1
    /\ UNCHANGED <<sess, store, runtime, access, call, expiries, charged>>

(* A copy of an access token comes within refreshMargin of its expiry, in   *)
(* the SSO client's cache or in a runtime; either may be looked at first.   *)
ExpireCached == \E p \in Pods : \E t \in access[p] :
    /\ expiries < MaxExpiries /\ expiries' = expiries + 1
    /\ access' = [access EXCEPT ![p] = @ \ {t}]
    /\ UNCHANGED <<sess, ccp, store, runtime, call, faults, History>>

ExpireGrant == \E c \in Calls :
    /\ runtime[c].access # None
    /\ expiries < MaxExpiries /\ expiries' = expiries + 1
    /\ runtime' = [runtime EXCEPT ![c].access = None]
    /\ UNCHANGED <<sess, ccp, store, access, call, faults, History>>

Step(c) ==
    \/ LoadRuntime(c) \/ StoreRuntime(c) \/ RebuildGrant(c) \/ Character(c)
    \/ BeginAccess(c) \/ PeekRow(c) \/ LockRow(c) \/ EnterClosure(c)
    \/ RefreshGranted(c) \/ RefreshRefused(c) \/ RefreshFails(c)
    \/ CommitRefresh(c) \/ Verdict(c) \/ CallESI(c)

Next ==
    \/ \E c \in Calls : RequireLive(c) \/ Step(c)
    \/ SignIn \/ RevokeAtCCP \/ Withdraw \/ ExpireCached \/ ExpireGrant

Spec == Init /\ [][Next]_vars

-----------------------------------------------------------------------------
(* Properties.                                                              *)

(* docs/SPEC.md 3.4: "Skipping that is how a successful sign-in kills       *)
(* itself".  eveAccess revokes a session only when the grant that session   *)
(* stores is really gone at CCP: a fault lost it, or the player withdrew it; *)
(* never because another sign-in's token was presented.                     *)
NoSelfKill == \A v \in charged : v[2] \in lost

(* A request is never served with the grant of a session that had ended     *)
(* when the bearer check let it in: neither from the runtime it found, nor  *)
(* from the SSO client's cache, nor after others rebuilt the runtime.       *)
NotServedByDeadGrant ==
    \A c \in Calls : call[c].pc = "esi" => call[c].got[1] \notin call[c].ended

(* What a request waits for: SELECT ... FOR UPDATE, or the runtime's mutex. *)
WaitsForRow(c) == call[c].pc \in {"lock", "verdict"} /\ ~RowFree(call[c].sid)
WaitsForMu(c) ==
    call[c].pc \in {"rebuild", "access", "closure"} /\ ~MuFree(call[c].rt)
Waits(c) == WaitsForRow(c) \/ WaitsForMu(c)

(* While a request is under way, some request under way waits for nobody:   *)
(* the row lock and grantMu, which the closure takes inside the row lock,   *)
(* are never waited for in a circle, and a verdict does not wait for the    *)
(* row its own transaction held.                                            *)
NoCircularWait ==
    (\E c \in Calls : UnderWay(c)) => \E c \in Calls : UnderWay(c) /\ ~Waits(c)

(* A request that waits for nobody has a step to take: whatever the         *)
(* runtime, the caches and CCP's answer are, the code has a way on.  A      *)
(* request has finitely many steps, so with NoCircularWait every one is     *)
(* answered.                                                                *)
WaitsOnlyForLocks == \A c \in Calls : UnderWay(c) /\ ~Waits(c) => ENABLED Step(c)

(* docs/SPEC.md 3.4: "an authorization verdict is charged to the sid of the *)
(* request that produced it, read from the verified JWT, never to "the      *)
(* character's live session"".                                              *)
VerdictOfItsRequest == \A v \in charged : v[1] = v[2]
=============================================================================
