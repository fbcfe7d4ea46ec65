------------------------------- MODULE SignIn -------------------------------
(***************************************************************************)
(* How a player's sign-in becomes a session, keeps its EVE grant fresh and *)
(* ends: the OAuth callback, the code exchange (Redeem), the bearer check, *)
(* tool calls that refresh the grant (eveAccess / LockForRefresh), logout  *)
(* and the periodic sweep, as they interleave on several pods over one     *)
(* PostgreSQL database and EVE's SSO ("CCP").                              *)
(*                                                                         *)
(* One step is one SQL statement, one commit or one call to CCP.  A        *)
(* transaction's writes are buffered in its process and applied at commit; *)
(* the locks a process holds (advisory character lock, session row, code   *)
(* row, character row) are those its program counter implies, so that a    *)
(* crash releases them.  Statements run at READ COMMITTED: a statement     *)
(* chooses its rows from its own snapshot, waits for the locked ones and   *)
(* then re-checks its condition on the row it waited for.                  *)
(*                                                                         *)
(* Abstractions.  A sign-in handshake l stands for its state parameter,    *)
(* its authorization code and the refresh-token stream CCP issues for it;  *)
(* a refresh token is a version number of its stream.  The scopes of a     *)
(* grant are the number of the build that asked for them; a later build    *)
(* asks for more.  Time is the actions that let a code, a handshake or a   *)
(* session expire.  Which pod serves a request is not modelled here.       *)
(***************************************************************************)
EXTENDS Naturals, FiniteSets

CONSTANTS Characters,     \* EVE characters
          Owners,         \* owner hashes
          Logins,         \* sign-in handshakes
          Requests,       \* concurrent HTTP requests, on any pod
          Sweepers,       \* the sweep runners, one per pod
          None,           \* no handshake
          MaxSessions,    \* bound: session ids the sequence hands out
          MaxVer,         \* bound: rotations of one refresh token
          MaxBuild,       \* bound: deployments that ask for more scopes
          MaxFaults,      \* bound: crashes, cancelled contexts, failed calls
          RevokeCeiling   \* rows one sweep statement takes (revokeCeiling)

ASSUME ConstantsAssumption ==
    /\ None \notin Logins
    /\ Requests \cap Sweepers = {}
    /\ {MaxSessions, MaxVer, MaxBuild, MaxFaults, RevokeCeiling} \subseteq Nat
    /\ MaxVer >= 1 /\ MaxBuild >= 1

VARIABLES
    login,      \* login_states: the handshake row
    code,       \* auth_codes: the parked code row
    grant,      \* what the SSO answered for a handshake
    ccp,        \* the refresh-token stream at CCP: live?, current version
    character,  \* characters rows
    sess,       \* sessions rows
    nextSid,    \* the identity sequence of sessions
    req,        \* what every process is doing
    build,      \* the build in production
    faults,     \* faults so far
    lost        \* streams dropped by a fault (history, not in the code)

rows  == <<login, code, grant, character, sess, nextSid>>
world == <<ccp, build, faults, lost>>
vars  == <<rows, req, world>>

Procs == Requests \cup Sweepers
Sids  == 1 .. MaxSessions
Vers  == 0 .. MaxVer

RequestPCs == {"cbExchange", "cbOwner", "cbSnap", "cbDoom", "cbCCP", "cbUpsert",
               "cbPut", "exLock", "exTake", "exSnap", "exDoom", "exCreate",
               "exCommit", "exCCP", "tool", "drift", "loLock", "loRevoke",
               "loDelete", "loCommit", "loCCP", "rfLock", "rfCall", "rfWrite",
               "rfRevoke"}
SweepPCs   == {"swLogins", "swCodes", "swCodesCCP", "swSess", "swSessCCP",
               "swPurge"}

(* A process at rest.                                                       *)
Idle == [pc |-> "idle", login |-> None, sid |-> 0, seen |-> {}, doomed |-> {},
         toks |-> {}, ver |-> 0]

Job == [pc : {"idle"} \cup RequestPCs \cup SweepPCs,
        login : Logins \cup {None}, sid : 0 .. MaxSessions,
        seen : SUBSET Sids, doomed : SUBSET Sids,
        toks : SUBSET (Logins \X Vers), ver : Vers]

Row == [state : {"none", "open", "revoked", "purged"},
        login : Logins \cup {None}, ver : Vers, expired : BOOLEAN]
NoSession == [state |-> "none", login |-> None, ver |-> 0, expired |-> FALSE]

TypeOK ==
    /\ login \in [Logins -> {"new", "pending", "stale", "gone"}]
    /\ code \in [Logins -> {"none", "parked", "expired", "gone"}]
    /\ grant \in [Logins -> [char : Characters \cup {None},
                             owner : Owners \cup {None}, scopes : 0 .. MaxBuild]]
    /\ ccp \in [Logins -> [live : BOOLEAN, ver : Vers]]
    /\ character \in [Characters -> [row : BOOLEAN, owner : Owners \cup {None},
                                     deleted : BOOLEAN]]
    /\ sess \in [Sids -> Row]
    /\ nextSid \in 1 .. MaxSessions + 1
    /\ req \in [Procs -> Job]
    /\ build \in 1 .. MaxBuild
    /\ faults \in 0 .. MaxFaults
    /\ lost \subseteq Logins

Init ==
    /\ login = [l \in Logins |-> "new"]
    /\ code = [l \in Logins |-> "none"]
    /\ grant = [l \in Logins |-> [char |-> None, owner |-> None, scopes |-> 0]]
    /\ ccp = [l \in Logins |-> [live |-> FALSE, ver |-> 0]]
    /\ character = [c \in Characters |->
                       [row |-> FALSE, owner |-> None, deleted |-> FALSE]]
    /\ sess = [s \in Sids |-> NoSession]
    /\ nextSid = 1
    /\ req = [p \in Procs |-> Idle]
    /\ build = 1
    /\ faults = 0
    /\ lost = {}

-----------------------------------------------------------------------------
(* Rows and locks                                                           *)

SidChar(s) == grant[sess[s].login].char

Open(s) == sess[s].state = "open"                 \* revoked_at IS NULL
Live(s) == Open(s) /\ ~sess[s].expired            \* ... AND now() < valid_til

OpenOf(c) == {s \in Sids : Open(s) /\ SidChar(s) = c}

(* write.MissingScopes of a row: the build asks for more than was granted.  *)
ScopesFallShort(l) == grant[l].scopes < build

(* The character a job is for.                                              *)
CharOf(j) == IF j.login # None THEN grant[j.login].char ELSE SidChar(j.sid)

(* pg_advisory_xact_lock(character), held from LockCharacter to the end of  *)
(* the transaction.                                                         *)
CharLockPCs == {"exTake", "exSnap", "exDoom", "exCreate", "exCommit",
                "loRevoke", "loDelete", "loCommit"}
CharLocked(c) == \E p \in Procs : req[p].pc \in CharLockPCs /\ CharOf(req[p]) = c

(* Bug: lockRefreshSQL without FOR UPDATE.                                  *)
BugRefreshHoldsNoRow(j, s) ==
    j.pc \in {"exCreate", "exCommit", "loDelete", "loCommit"}
    /\ s \in j.doomed

(* Bug: Logout revokes its session before it locks the character.           *)
BugLogoutLocksRowFirst(j, s) ==
    \/ j.pc \in {"exCreate", "exCommit", "loLock", "loDelete", "loCommit"}
       /\ s \in j.doomed \cup {j.sid}
    \/ j.pc \in {"rfCall", "rfWrite"} /\ s = j.sid

(* FOR UPDATE locks on session rows: those a transaction has doomed, and    *)
(* the one LockForRefresh holds while it talks to CCP.                      *)
HoldsRow(j, s) ==
    \/ j.pc \in {"exCreate", "exCommit", "loDelete", "loCommit"}
       /\ s \in j.doomed
    \/ j.pc \in {"rfCall", "rfWrite"} /\ s = j.sid

RowsFree(S) == \A p \in Procs, s \in S : ~HoldsRow(req[p], s)

(* Bug: Take selects the code row without locking it.                       *)
BugCodeNeverLocked(l) == FALSE

(* The code row DELETEd by Take inside Redeem's transaction.                *)
CodeLocked(l) ==
    \E p \in Procs : req[p].pc \in {"exSnap", "exDoom", "exCreate", "exCommit"}
                     /\ req[p].login = l

(* The characters row UPDATEd by Delete inside Logout's transaction.        *)
CharRowLocked(c) == \E p \in Procs : req[p].pc = "loCommit" /\ CharOf(req[p]) = c

(* Bug: refresh_token is cleared but revoked_at is not set.                 *)
BugOnlyTokenCleared(row) == [row EXCEPT !.ver = 0]

Revoked(row) == [row EXCEPT !.state = "revoked", !.ver = 0]

(* SET revoked_at = now(), refresh_token = NULL on the rows in S.           *)
RevokeRows(S) == [s \in Sids |-> IF s \in S THEN Revoked(sess[s]) ELSE sess[s]]

(* Bug: RETURNING reads refresh_token after the UPDATE, when it is NULL.    *)
BugNoTokens(S) == {}

(* The refresh tokens the statement returns.                                *)
TokensOf(S) == {<<sess[s].login, sess[s].ver>> : s \in {t \in S : sess[t].ver # 0}}

Goto(p, l) == req' = [req EXCEPT ![p].pc = l]
Finish(p)  == req' = [req EXCEPT ![p] = Idle]

(* Where a process goes when it has no tokens left to revoke at CCP.        *)
Then == [cbCCP |-> "cbUpsert", exCCP |-> "idle", loCCP |-> "idle",
         swCodesCCP |-> "swSess", swSessCCP |-> "swPurge"]
AfterRevoke(p, w, toks) ==
    LET next == IF toks = {} THEN Then[w] ELSE w
    IN IF next = "idle" THEN Idle
       ELSE [req[p] EXCEPT !.pc = next, !.seen = {}, !.doomed = {},
                           !.toks = toks]

-----------------------------------------------------------------------------
(* The OAuth callback                                                       *)

(* GET /authorize parks a handshake; the SSO is asked for this build's      *)
(* scopes.                                                                  *)
Authorize(l) ==
    /\ login[l] = "new"
    /\ login' = [login EXCEPT ![l] = "pending"]
    /\ grant' = [grant EXCEPT ![l].scopes = build]
    /\ UNCHANGED <<code, character, sess, nextSid, req, world>>

(* CompleteCallback: Take deletes the handshake row; a stale one is deleted *)
(* too and then reported as unknown.                                        *)
StartCallback(r, l) ==
    /\ req[r].pc = "idle"
    /\ login[l] \in {"pending", "stale"}
    /\ login' = [login EXCEPT ![l] = "gone"]
    /\ req' = IF login[l] = "pending"
              THEN [req EXCEPT ![r] = [Idle EXCEPT !.pc = "cbExchange", !.login = l]]
              ELSE req
    /\ UNCHANGED <<code, grant, character, sess, nextSid, world>>

(* login.ExchangeCode: CCP issues a refresh-token stream for a character.   *)
(* finishMCP drops it again when the build has come to want more scopes.    *)
ExchangeAtCCP(r) ==
    LET l == req[r].login IN
    /\ req[r].pc = "cbExchange"
    /\ \E c \in Characters, o \in Owners :
          grant' = [grant EXCEPT ![l].char = c, ![l].owner = o]
    /\ ccp' = [ccp EXCEPT ![l] = [live |-> TRUE, ver |-> 1]]
    /\ IF ScopesFallShort(l) THEN Finish(r) ELSE Goto(r, "cbOwner")
    /\ UNCHANGED <<login, code, character, sess, nextSid, build, faults, lost>>

(* revokeOnOwnerHashChange reads the character.                             *)
CheckOwner(r) ==
    LET l == req[r].login
        row == character[grant[l].char]
    IN
    /\ req[r].pc = "cbOwner"
    /\ Goto(r, IF row.row /\ row.owner # grant[l].owner THEN "cbSnap"
               ELSE "cbUpsert")
    /\ UNCHANGED <<rows, world>>

(* Bug: revokeAllSQL looks for live sessions, not for unrevoked ones.       *)
BugSnapLiveOnly(r) ==
    /\ req[r].pc \in {"cbSnap", "exSnap"}
    /\ req' = [req EXCEPT ![r].seen = {s \in OpenOf(CharOf(req[r])) : Live(s)},
                          ![r].pc = IF @ = "cbSnap" THEN "cbDoom" ELSE "exDoom"]
    /\ UNCHANGED <<rows, world>>

(* RevokeAllForCharacter, the snapshot of its CTE: in the callback it is a  *)
(* statement of its own, in Redeem it is part of the transaction.           *)
SnapPredecessors(r) ==
    /\ req[r].pc \in {"cbSnap", "exSnap"}
    /\ req' = [req EXCEPT ![r].seen = OpenOf(CharOf(req[r])),
                          ![r].pc = IF @ = "cbSnap" THEN "cbDoom" ELSE "exDoom"]
    /\ UNCHANGED <<rows, world>>

(* The rows of the snapshot that are still open once they can be locked.    *)
StillOpen(r) == {s \in req[r].seen : Open(s)}

(* ... its UPDATE, autocommitted: no character lock is taken here.          *)
RevokeOnOwnerChange(r) ==
    /\ req[r].pc = "cbDoom"
    /\ RowsFree(req[r].seen)
    /\ sess' = RevokeRows(StillOpen(r))
    /\ req' = [req EXCEPT ![r] = AfterRevoke(r, "cbCCP", TokensOf(StillOpen(r)))]
    /\ UNCHANGED <<login, code, grant, character, nextSid, world>>

(* Characters.Upsert: the row is (again) present, undeleted, of this owner. *)
UpsertCharacter(r) ==
    LET c == grant[req[r].login].char IN
    /\ req[r].pc = "cbUpsert"
    /\ ~CharRowLocked(c)
    /\ character' = [character EXCEPT ![c] =
           [row |-> TRUE, owner |-> grant[req[r].login].owner, deleted |-> FALSE]]
    /\ Goto(r, "cbPut")
    /\ UNCHANGED <<login, code, grant, sess, nextSid, world>>

(* codes.Put: the grant is parked under a fresh authorization code.         *)
ParkCode(r) ==
    /\ req[r].pc = "cbPut"
    /\ code' = [code EXCEPT ![req[r].login] = "parked"]
    /\ Finish(r)
    /\ UNCHANGED <<login, grant, character, sess, nextSid, world>>

-----------------------------------------------------------------------------
(* The code exchange: exchangeCode and Redeem's transaction                 *)

StartExchange(r, l) ==
    /\ req[r].pc = "idle"
    /\ code[l] = "parked"
    /\ req' = [req EXCEPT ![r] = [Idle EXCEPT !.pc = "exLock", !.login = l]]
    /\ UNCHANGED <<rows, world>>

(* Bug: the advisory lock is tried, not waited for.                         *)
BugLockNotAwaited(r) ==
    /\ req[r].pc \in {"exLock", "loLock"}
    /\ Goto(r, IF req[r].pc = "exLock" THEN "exTake" ELSE "loRevoke")
    /\ UNCHANGED <<rows, world>>

(* Sessions.LockCharacter, first in Redeem and in Logout.                   *)
LockCharacter(r) ==
    /\ req[r].pc \in {"exLock", "loLock"}
    /\ ~CharLocked(CharOf(req[r]))
    /\ Goto(r, IF req[r].pc = "exLock" THEN "exTake" ELSE "loRevoke")
    /\ UNCHANGED <<rows, world>>

(* Bug: Redeem relies on the handler having read the code.                  *)
BugCodeNotTaken(r) ==
    /\ req[r].pc = "exTake"
    /\ Goto(r, "exSnap")
    /\ UNCHANGED <<rows, world>>

(* Bug: no rollback when there is no code to take.                          *)
BugNoCodeNoRollback(r) ==
    /\ req[r].pc = "exTake" /\ ~CodeLocked(req[r].login)
    /\ code[req[r].login] = "parked" /\ Goto(r, "exSnap")
    /\ UNCHANGED <<rows, world>>

(* Codes.Take: DELETE ... RETURNING; a code that is gone or has expired     *)
(* rolls the transaction back.                                              *)
TakeCode(r) ==
    /\ req[r].pc = "exTake"
    /\ ~CodeLocked(req[r].login)
    /\ IF code[req[r].login] = "parked" THEN Goto(r, "exSnap") ELSE Finish(r)
    /\ UNCHANGED <<rows, world>>

(* RevokeAllForCharacter inside Redeem: the rows are locked and revoked,    *)
(* visible to others at commit.                                             *)
DoomPredecessors(r) ==
    /\ req[r].pc = "exDoom"
    /\ RowsFree(req[r].seen)
    /\ req' = [req EXCEPT ![r].pc = "exCreate", ![r].seen = {},
                          ![r].doomed = StillOpen(r)]
    /\ UNCHANGED <<rows, world>>

(* What the unique index sessions_one_live would refuse.                    *)
Collides(r) == OpenOf(CharOf(req[r])) \ req[r].doomed # {}

(* Bug: an exhausted sequence goes unnoticed.                               *)
BugCreateUnbounded(r) ==
    /\ req[r].pc = "exCreate"
    /\ nextSid' = nextSid + 1
    /\ req' = [req EXCEPT ![r].pc = "exCommit", ![r].sid = nextSid]
    /\ UNCHANGED <<login, code, grant, character, sess, world>>

(* Sessions.Create: an id from the sequence, which no rollback gives back.  *)
(* The INSERT waits for an uncommitted one with the same key; a unique      *)
(* violation, or a sequence that has no more ids, rolls back.               *)
CreateSession(r) ==
    /\ req[r].pc = "exCreate"
    /\ \A q \in Requests \ {r} :
          req[q].pc = "exCommit" => CharOf(req[q]) # CharOf(req[r])
    /\ IF nextSid > MaxSessions
       THEN Finish(r) /\ UNCHANGED nextSid
       ELSE /\ nextSid' = nextSid + 1
            /\ IF Collides(r) THEN Finish(r)
               ELSE req' = [req EXCEPT ![r].pc = "exCommit", ![r].sid = nextSid]
    /\ UNCHANGED <<login, code, grant, character, sess, world>>

(* The commit: code gone, predecessors revoked, the new session open.       *)
CommitExchange(r) ==
    LET l == req[r].login IN
    /\ req[r].pc = "exCommit"
    /\ code' = [code EXCEPT ![l] = "gone"]
    /\ sess' = [RevokeRows(req[r].doomed) EXCEPT ![req[r].sid] =
                   [state |-> "open", login |-> l, ver |-> 1, expired |-> FALSE]]
    /\ req' = [req EXCEPT ![r] = AfterRevoke(r, "exCCP", TokensOf(req[r].doomed))]
    /\ UNCHANGED <<login, grant, character, nextSid, world>>

-----------------------------------------------------------------------------
(* Bearer calls, tools and logout                                           *)

(* requireLive: a live session whose scopes suffice is let through, one     *)
(* that falls short is about to be revoked; all others are refused.         *)
BearerCall(r, s) ==
    /\ req[r].pc = "idle"
    /\ Live(s)
    /\ req' = [req EXCEPT ![r] = [Idle EXCEPT !.sid = s,
                  !.pc = IF ScopesFallShort(sess[s].login) THEN "drift" ELSE "tool"]]
    /\ UNCHANGED <<rows, world>>

(* Session.Character, first in every tool but logout: the session and its   *)
(* character must be live, the scopes must suffice.  The tool then wants an *)
(* EVE access token.                                                        *)
CallTool(r) ==
    LET s == req[r].sid
        usable == Live(s) /\ ~character[SidChar(s)].deleted
    IN
    /\ req[r].pc = "tool"
    /\ \/ ~usable /\ Finish(r)
       \/ usable /\ Goto(r, IF ScopesFallShort(sess[s].login) THEN "drift"
                            ELSE "rfLock")
    /\ UNCHANGED <<rows, world>>

(* eve_auth_logout: Logout reads the character row and begins.              *)
CallLogout(r) ==
    /\ req[r].pc = "tool"
    /\ Goto(r, "loLock")
    /\ UNCHANGED <<rows, world>>

(* Sessions.Revoke outside a transaction, after scope drift (requireLive,   *)
(* revokeIfScopesFallShort) and after invalid_grant (eveAccess).  The       *)
(* tokens it returns are dropped.                                           *)
RevokeOwnSession(r) ==
    LET s == req[r].sid IN
    /\ req[r].pc \in {"drift", "rfRevoke"}
    /\ RowsFree({s})
    /\ sess' = RevokeRows({t \in {s} : Open(t)})
    /\ Finish(r)
    /\ UNCHANGED <<login, code, grant, character, nextSid, world>>

(* Logout's Revoke, inside its transaction.                                 *)
LogoutRevoke(r) ==
    LET s == req[r].sid IN
    /\ req[r].pc = "loRevoke"
    /\ RowsFree({s})
    /\ req' = [req EXCEPT ![r].pc = "loDelete",
                          ![r].doomed = {t \in {s} : Open(t)}]
    /\ UNCHANGED <<rows, world>>

(* Characters.Delete: no live row to delete is an error, which rolls the    *)
(* revocation back as well.                                                 *)
LogoutDelete(r) ==
    LET c == CharOf(req[r]) IN
    /\ req[r].pc = "loDelete"
    /\ ~CharRowLocked(c)
    /\ IF character[c].row /\ ~character[c].deleted THEN Goto(r, "loCommit")
       ELSE Finish(r)
    /\ UNCHANGED <<rows, world>>

CommitLogout(r) ==
    /\ req[r].pc = "loCommit"
    /\ sess' = RevokeRows(req[r].doomed)
    /\ character' = [character EXCEPT ![CharOf(req[r])].deleted = TRUE]
    /\ req' = [req EXCEPT ![r] = AfterRevoke(r, "loCCP", TokensOf(req[r].doomed))]
    /\ UNCHANGED <<login, code, grant, nextSid, world>>

-----------------------------------------------------------------------------
(* eveAccess: the refresh under the session's row lock                      *)

(* lockRefreshSQL.  now() is the start of the transaction: a row that       *)
(* expires during the wait may be found either way.                         *)
LockForRefresh(r) ==
    LET s == req[r].sid IN
    /\ req[r].pc = "rfLock"
    /\ RowsFree({s})
    /\ \/ Open(s) /\ req' = [req EXCEPT ![r].pc = "rfCall", ![r].ver = sess[s].ver]
       \/ ~Live(s) /\ Finish(r)
    /\ UNCHANGED <<rows, world>>

(* SSO.AccessToken with the row's token: CCP may answer with the same       *)
(* token or rotate it; a token that is not the stream's current one, or a   *)
(* dead stream, is invalid_grant.  An access token still cached for this    *)
(* refresh token, or a failed call, changes nothing.                        *)
RefreshAtCCP(r) ==
    LET s == req[r].sid
        l == sess[s].login
        valid == ccp[l].live /\ ccp[l].ver = req[r].ver
    IN
    /\ req[r].pc = "rfCall"
    /\ \/ /\ Finish(r)
          /\ UNCHANGED ccp
       \/ /\ valid /\ ccp[l].ver < MaxVer
          /\ ccp' = [ccp EXCEPT ![l].ver = @ + 1]
          /\ req' = [req EXCEPT ![r].pc = "rfWrite", ![r].ver = @ + 1]
       \/ /\ ~valid
          /\ Goto(r, "rfRevoke")
          /\ UNCHANGED ccp
    /\ UNCHANGED <<rows, build, faults, lost>>

(* Bug: the rotated token is kept in memory only.                           *)
BugRotationNotStored(r) ==
    /\ req[r].pc = "rfWrite"
    /\ Finish(r)
    /\ UNCHANGED <<rows, world>>

(* writeRefreshSQL and the commit: by id alone, whatever the row has become.*)
WriteRefresh(r) ==
    /\ req[r].pc = "rfWrite"
    /\ sess' = [sess EXCEPT ![req[r].sid].ver = req[r].ver]
    /\ Finish(r)
    /\ UNCHANGED <<login, code, grant, character, nextSid, world>>

-----------------------------------------------------------------------------
(* Revocation at CCP, after a commit                                        *)

CCPRevokePCs == {"cbCCP", "exCCP", "loCCP", "swCodesCCP", "swSessCCP"}

(* SSO.Revoke is best effort: a failure is logged and the token forgotten.  *)
RevokeAtCCP(p) ==
    /\ req[p].pc \in CCPRevokePCs
    /\ \E t \in req[p].toks :
          /\ req' = [req EXCEPT ![p] = AfterRevoke(p, @.pc, @.toks \ {t})]
          /\ \/ /\ ccp' = [ccp EXCEPT ![t[1]].live = @ /\ ccp[t[1]].ver # t[2]]
                /\ UNCHANGED <<faults, lost>>
             \/ /\ faults < MaxFaults
                /\ faults' = faults + 1
                /\ lost' = lost \cup {t[1]}
                /\ UNCHANGED ccp
    /\ UNCHANGED <<rows, build>>

-----------------------------------------------------------------------------
(* The sweep: Runner.Once, one pod at a time under a try-lock               *)

StartSweep(w) ==
    /\ \A v \in Sweepers : req[v].pc = "idle"
    /\ Goto(w, "swLogins")
    /\ UNCHANGED <<rows, world>>

SweepLogins(w) ==
    /\ req[w].pc = "swLogins"
    /\ login' = [l \in Logins |-> IF login[l] = "stale" THEN "gone" ELSE login[l]]
    /\ Goto(w, "swCodes")
    /\ UNCHANGED <<code, grant, character, sess, nextSid, world>>

(* A statement with LIMIT revokeCeiling takes all rows or that many.        *)
Batch(all, b) ==
    /\ b \subseteq all
    /\ b = all \/ Cardinality(b) = RevokeCeiling
    /\ Cardinality(b) <= RevokeCeiling

ExpiredCodes == {l \in Logins : code[l] = "expired"}

SweepCodes(w) ==
    /\ req[w].pc = "swCodes"
    /\ \E b \in SUBSET ExpiredCodes :
          /\ Batch(ExpiredCodes, b)
          /\ \A l \in b : ~CodeLocked(l)
          /\ code' = [l \in Logins |-> IF l \in b THEN "gone" ELSE code[l]]
          /\ req' = [req EXCEPT ![w] = AfterRevoke(w, "swCodesCCP", b \X {1})]
    /\ UNCHANGED <<login, grant, character, sess, nextSid, world>>

(* Bug: the comparison with valid_til is the wrong way round.               *)
BugExpiredIsLive == {s \in Sids : Live(s) /\ sess[s].expired}

ExpiredSessions == {s \in Sids : Open(s) /\ sess[s].expired}

SweepSessions(w) ==
    /\ req[w].pc = "swSess"
    /\ \E b \in SUBSET ExpiredSessions :
          /\ Batch(ExpiredSessions, b)
          /\ RowsFree(b)
          /\ sess' = RevokeRows(b)
          /\ req' = [req EXCEPT ![w] = AfterRevoke(w, "swSessCCP", TokensOf(b))]
    /\ UNCHANGED <<login, code, grant, character, nextSid, world>>

(* PurgeRevoked: the rows revoked long enough ago.  The sweep's last rules  *)
(* (mutations, oauth clients) touch no row of this module.                  *)
SweepPurge(w) ==
    /\ req[w].pc = "swPurge"
    /\ \E old \in SUBSET {s \in Sids : sess[s].state = "revoked"} :
          sess' = [s \in Sids |->
                     IF s \in old THEN [sess[s] EXCEPT !.state = "purged"] ELSE sess[s]]
    /\ Finish(w)
    /\ UNCHANGED <<login, code, grant, character, nextSid, world>>

(* A rule whose statement fails is logged and the next rule runs.           *)
SweepRuleFails(w) ==
    /\ faults < MaxFaults
    /\ faults' = faults + 1
    /\ \/ req[w].pc = "swLogins" /\ Goto(w, "swCodes")
       \/ req[w].pc = "swCodes" /\ Goto(w, "swSess")
       \/ req[w].pc = "swSess" /\ Goto(w, "swPurge")
       \/ req[w].pc = "swPurge" /\ Finish(w)
    /\ UNCHANGED <<rows, ccp, build, lost>>

-----------------------------------------------------------------------------
(* Time, CCP, deployments and faults                                        *)

LoginGoesStale(l) ==
    /\ login[l] = "pending"
    /\ login' = [login EXCEPT ![l] = "stale"]
    /\ UNCHANGED <<code, grant, character, sess, nextSid, req, world>>

CodeExpires(l) ==
    /\ code[l] = "parked"
    /\ code' = [code EXCEPT ![l] = "expired"]
    /\ UNCHANGED <<login, grant, character, sess, nextSid, req, world>>

SessionExpires(s) ==
    /\ Live(s)
    /\ sess' = [sess EXCEPT ![s].expired = TRUE]
    /\ UNCHANGED <<login, code, grant, character, nextSid, req, world>>

(* The player withdraws the grant on CCP's third-party-apps page.           *)
PlayerWithdraws(l) ==
    /\ ccp[l].live
    /\ ccp' = [ccp EXCEPT ![l].live = FALSE]
    /\ UNCHANGED <<rows, req, build, faults, lost>>

Deploy ==
    /\ build < MaxBuild
    /\ build' = build + 1
    /\ UNCHANGED <<rows, ccp, req, faults, lost>>

(* The streams only this process still refers to: a grant between CCP and   *)
(* the code row, tokens on their way to CCP, a rotated token not yet stored.*)
Carried(p) ==
    {l \in Logins :
        \/ req[p].pc \in {"cbOwner", "cbSnap", "cbDoom", "cbCCP", "cbUpsert",
                          "cbPut"} /\ l = req[p].login
        \/ \E t \in req[p].toks : l = t[1]
        \/ req[p].pc = "rfWrite" /\ l = sess[req[p].sid].login}

(* A process stops anywhere: the pod dies, the database errs, the client    *)
(* hangs up and cancels the context, or (cbExchange) the SSO refuses.       *)
(* WithinTx rolls back, so nothing buffered becomes visible.                *)
Abort(p) ==
    /\ req[p].pc # "idle"
    /\ faults < MaxFaults
    /\ faults' = faults + 1
    /\ lost' = lost \cup Carried(p)
    /\ Finish(p)
    /\ UNCHANGED <<rows, ccp, build>>

-----------------------------------------------------------------------------

(* The next step of a request that is under way.                            *)
Step(r) ==
    \/ ExchangeAtCCP(r) \/ CheckOwner(r) \/ SnapPredecessors(r)
    \/ RevokeOnOwnerChange(r) \/ UpsertCharacter(r) \/ ParkCode(r)
    \/ LockCharacter(r) \/ TakeCode(r) \/ DoomPredecessors(r)
    \/ CreateSession(r) \/ CommitExchange(r)
    \/ CallTool(r) \/ RevokeOwnSession(r)
    \/ LogoutRevoke(r) \/ LogoutDelete(r) \/ CommitLogout(r)
    \/ LockForRefresh(r) \/ RefreshAtCCP(r) \/ WriteRefresh(r)
    \/ RevokeAtCCP(r)

SweepStep(w) ==
    \/ StartSweep(w) \/ SweepLogins(w) \/ SweepCodes(w) \/ SweepSessions(w)
    \/ SweepPurge(w) \/ RevokeAtCCP(w)

Start(r) ==
    \/ \E l \in Logins : StartCallback(r, l) \/ StartExchange(r, l)
    \/ \E s \in Sids : BearerCall(r, s)
    \/ CallLogout(r)

Environment ==
    \/ \E l \in Logins : \/ Authorize(l) \/ LoginGoesStale(l) \/ CodeExpires(l)
                         \/ PlayerWithdraws(l)
    \/ \E s \in Sids : SessionExpires(s)
    \/ Deploy

Next ==
    \/ \E r \in Requests : Start(r) \/ Step(r)
    \/ \E w \in Sweepers : SweepStep(w) \/ SweepRuleFails(w)
    \/ \E p \in Procs : Abort(p)
    \/ Environment

Spec == Init /\ [][Next]_vars

(* A request under way goes on: its handler runs to its end, and PostgreSQL *)
(* grants a contended lock to its waiters in turn (hence strong fairness).  *)
(* The sweep ticks every five minutes (Interval).                           *)
Fairness ==
    /\ \A r \in Requests : SF_vars(Step(r))
    /\ \A w \in Sweepers : SF_vars(SweepStep(w))

FairSpec == Spec /\ Fairness

-----------------------------------------------------------------------------
(* Properties                                                               *)

(* Redeem never meets the unique index: when it inserts, every unrevoked    *)
(* session of its character has been revoked by its own transaction, an     *)
(* expired one the sweep has not reached included, whatever logouts,        *)
(* refreshes, owner changes and other exchanges run beside it.              *)
ExchangeNeverCollides ==
    \A r \in Requests : req[r].pc = "exCreate" => ~Collides(r)

(* An ended session keeps no refresh token, although LockForRefresh writes  *)
(* its token back by id alone, after a call to CCP, while revocations run.  *)
RevokedHoldsNoToken ==
    \A s \in Sids : (sess[s].ver = 0) = ~Open(s)

(* An authorization code buys one session, however often and on however     *)
(* many pods it is presented, and is gone once it has.                      *)
CodeSingleUse ==
    \A s \in Sids : sess[s].state # "none" =>
        /\ code[sess[s].login] = "gone"
        /\ \A t \in Sids \ {s} : sess[t].login # sess[s].login

(* The stored refresh token of an unrevoked session is the one CCP would    *)
(* accept: concurrent refreshes never strand a session on a rotated token.  *)
(* Excused: the instant between rotation and write, and a fault there.      *)
RotationSafe ==
    \A s \in Sids : Open(s) =>
        \/ sess[s].ver = ccp[sess[s].login].ver
        \/ sess[s].login \in lost
        \/ \E r \in Requests : req[r].pc = "rfWrite" /\ req[r].sid = s

(* Who can still use or revoke the stream of handshake l.                   *)
Accounted(l) ==
    \/ code[l] \in {"parked", "expired"}
    \/ \E s \in Sids : Open(s) /\ sess[s].login = l
    \/ \E p \in Procs : l \in Carried(p)

(* No grant is forgotten: a stream alive at CCP is in a code row, in an     *)
(* unrevoked session, or on its way into one or to CCP's revocation, unless *)
(* a fault lost it or a build that wants more scopes has dropped it.        *)
GrantAccounted ==
    \A l \in Logins :
        ccp[l].live => Accounted(l) \/ l \in lost \/ ScopesFallShort(l)

(* Nothing still in use is revoked at CCP: a token on its way there belongs *)
(* to no parked code and no unrevoked session, though the sweep takes       *)
(* expired codes and sessions while exchanges and refreshes hold them.      *)
NoUsedGrantRevoked ==
    \A p \in Procs : \A t \in req[p].toks :
        /\ code[t[1]] = "gone"
        /\ \A s \in Sids : Open(s) => sess[s].login # t[1]

(* The sign-in subsystem implements the abstract connection.                *)
Conn == INSTANCE Connection WITH
            Ids  <- Sids,
            open <- [c \in Characters |-> OpenOf(c)],
            used <- [c \in Characters |->
                       {s \in Sids : sess[s].state # "none" /\ SidChar(s) = c}]

ImplementsConnection == Conn!Spec

(* A character has at most one unrevoked session, the newest it ever had:   *)
(* a bearer token that names an older session id stays dead.                *)
OnlyNewestOpen == Conn!NewestOnly

(* What a request waits for: pg_advisory_xact_lock, session rows, a code    *)
(* row, a characters row, or an uncommitted INSERT of the same key.         *)
UnderWay(r) == req[r].pc # "idle"
Inserting(r) ==
    \E q \in Requests \ {r} : req[q].pc = "exCommit" /\ CharOf(req[q]) = CharOf(req[r])

Waits(r) ==
    LET j == req[r] IN
    \/ j.pc \in {"exLock", "loLock"} /\ CharLocked(CharOf(j))
    \/ j.pc = "exTake" /\ CodeLocked(j.login)
    \/ j.pc \in {"cbDoom", "exDoom"} /\ ~RowsFree(j.seen)
    \/ j.pc \in {"drift", "rfLock", "rfRevoke", "loRevoke"} /\ ~RowsFree({j.sid})
    \/ j.pc \in {"cbUpsert", "loDelete"} /\ CharRowLocked(CharOf(j))
    \/ j.pc = "exCreate" /\ Inserting(r)

(* Nobody waits in a circle: while requests are under way, one of them      *)
(* waits for nobody, although exchange and logout take the advisory lock    *)
(* and then session rows, the owner change takes rows without it, and a     *)
(* refresh holds a row over a call to CCP.                                  *)
NoCircularWait ==
    (\E r \in Requests : UnderWay(r)) => \E r \in Requests : UnderWay(r) /\ ~Waits(r)

(* A request that waits for nobody has a step to take, whatever rows and    *)
(* tokens it has found: no transaction is left open with nothing to do.     *)
WaitsOnlyForLocks ==
    \A r \in Requests : UnderWay(r) /\ ~Waits(r) => ENABLED Step(r)

(* What has expired ends: a session past its validity is revoked, a code is *)
(* deleted, by some sweep, although a sweep takes at most RevokeCeiling rows *)
(* of each and exchanges and refreshes hold some of them.                   *)
ExpiredGrantsEnd ==
    /\ \A s \in Sids : Open(s) /\ sess[s].expired ~> ~Open(s)
    /\ \A l \in Logins : code[l] = "expired" ~> code[l] # "expired"

(* SPEC 3.5: an unusable session is a dead session, or the connection       *)
(* hangs.  A live session of a deleted character passes the bearer check    *)
(* but fails in every tool, logout included.                                *)
NoHungConnection ==
    \A s \in Sids : Live(s) => ~character[SidChar(s)].deleted

(* AUTH.md: a session's refresh token is revoked at CCP when it ends.       *)
GrantDiesWithSession ==
    \A s \in Sids : sess[s].state \in {"revoked", "purged"} =>
        LET l == sess[s].login IN ~ccp[l].live \/ l \in lost \/ Accounted(l)

-----------------------------------------------------------------------------
(* The inductive invariant behind the theorems of SignInProofs              *)

CallbackPCs == {"cbExchange", "cbOwner", "cbSnap", "cbDoom", "cbCCP", "cbUpsert",
                "cbPut"}
ExchangePCs == {"exLock", "exTake", "exSnap", "exDoom", "exCreate", "exCommit"}
OwnPCs      == {"tool", "drift", "loLock", "loRevoke", "loDelete", "loCommit",
                "rfLock", "rfCall", "rfWrite", "rfRevoke"}

Existed(s) == sess[s].state # "none"

(* Handshake, code and session rows: the character is fixed before the code *)
(* exists, the code precedes the session and buys no second one.            *)
RowInv ==
    /\ \A l \in Logins : code[l] # "none" =>
          login[l] = "gone" /\ grant[l].char \in Characters
    /\ \A s \in Sids : Existed(s) =>
          s < nextSid /\ sess[s].login \in Logins /\ code[sess[s].login] = "gone"
    /\ \A s, t \in Sids : Existed(s) /\ Existed(t)
                          /\ sess[s].login = sess[t].login => s = t
    /\ \A s \in Sids : ~Existed(s) => sess[s].login = None
    /\ RevokedHoldsNoToken

(* What a job has taken or seen is still so: its handshake, its code, the   *)
(* sessions of the character it has locked, the rows it has locked.         *)
Fits(j) ==
    /\ j.pc \in CallbackPCs =>
          j.login \in Logins /\ login[j.login] = "gone" /\ code[j.login] = "none"
    /\ j.pc \in CallbackPCs \ {"cbExchange"} => grant[j.login].char \in Characters
    /\ j.pc \in ExchangePCs => j.login \in Logins /\ code[j.login] # "none"
    /\ j.pc \in OwnPCs => j.login = None /\ j.sid \in Sids /\ Existed(j.sid)
    /\ j.pc \in {"exSnap", "exDoom", "exCreate", "exCommit"} =>
          code[j.login] \in {"parked", "expired"}
    /\ j.pc = "exDoom" =>
          /\ OpenOf(CharOf(j)) \subseteq j.seen
          /\ \A s \in j.seen : Existed(s) /\ SidChar(s) = CharOf(j)
    /\ j.pc \in {"exCreate", "exCommit"} => OpenOf(CharOf(j)) = j.doomed
    /\ j.pc = "exCommit" =>
          /\ j.sid \in Sids /\ j.sid < nextSid /\ ~Existed(j.sid)
          /\ \A u \in Sids : Existed(u) /\ SidChar(u) = CharOf(j) => u < j.sid
    /\ j.pc \in {"rfCall", "rfWrite"} => j.ver # 0
    /\ \A s \in Sids : HoldsRow(j, s) => Open(s)

(* Two jobs never hold the same handshake, lock or new session id.          *)
Apart(i, j) ==
    /\ i.pc \in CallbackPCs /\ j.pc \in CallbackPCs => i.login # j.login
    /\ i.pc \in CharLockPCs /\ j.pc \in CharLockPCs => CharOf(i) # CharOf(j)
    /\ \A s \in Sids : ~(HoldsRow(i, s) /\ HoldsRow(j, s))
    /\ i.pc = "exCommit" /\ j.pc = "exCommit" => i.sid # j.sid

JobInv ==
    /\ \A p \in Procs : Fits(req[p])
    /\ \A p, q \in Procs : p # q => Apart(req[p], req[q])

IInv == TypeOK /\ RowInv /\ JobInv

=============================================================================
