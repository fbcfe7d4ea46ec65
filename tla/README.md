# TLA+ model of eve-online-mcp

`eve-online-mcp` is a Go server that lets an MCP client act for an EVE Online
character. It is an OAuth authorization server towards the client, an OAuth
client of EVE's SSO ("CCP"), keeps its state in one PostgreSQL database, runs as
several identical replicas ("pods"), and exposes tools that read EVE's API (ESI)
and, after an explicit confirmation, change things in the game.

This directory holds the specifications of that program, the configurations
that model-check them with TLC, and proofs checked by TLAPS. Paths below are
relative to the repository root.

## 1. Inventory

### Components, their state and how they interact

| Component | Code | State | Operations |
|---|---|---|---|
| OAuth front | `internal/usecase/oauth/oauth.go`, `token.go` | `login_states`, `oauth_clients` rows | authorize, register, token; mint and parse JWTs that name a session id (`sid`) |
| Callback, exchange | `usecase/oauth/callback.go`, `exchange.go` | `auth_codes`, `characters`, `sessions` rows; the grant at CCP | CompleteCallback, finishMCP, revokeOnOwnerHashChange, exchangeCode / Redeem |
| Bearer check | `usecase/oauth/protect.go` | per pod: `sessions` map of runtimes | requireLive, SessionFor, ProtectMCP |
| Session runtime | `usecase/session` | per pod and character: session id, cached grant, Guard | Character, eveAccess, RebuildGrant, Redeem, Logout |
| Repositories | `domain/*/pgx` | the tables | one SQL statement each; Redeem, Logout, LockForRefresh and the mail hold are transactions |
| Sweep | `usecase/sweep` | advisory try-lock | expire handshakes, codes, confirm tokens, sessions; purge; revoke at CCP |
| Write Guard | `domain/write` | per runtime: `mailHold`; tables `confirm_tokens`, `mutations` | Authorize (preview, confirm, mail cap), Record |
| SSO client | `adapter/sso/http` | access-token cache, refresh locks, JWKS cache | ExchangeCode, AccessToken, Revoke |
| ESI client | `adapter/esi/http` | token bucket, error budget, shared remainder, response cache | Get, Post, pages, resolver |
| HTTP service | `service/http` | per-address limiter window, listeners | routing, public limiter, shutdown |
| Tools | `usecase/eve` | none of their own | 52 tools: Character, then ESI reads; writes through the Guard |

The pods share nothing but the database, EVE's SSO and ESI. Inside a pod,
requests of one character share one runtime. The sign-in path writes the rows
the bearer check reads; the bearer check picks the runtime whose Guard and grant
the tools use; the sweep ends what nobody comes back for.

### What is hard

* two sign-ins, a logout, a refresh, an owner change and the sweep of one
  character, on different pods, over row locks and an advisory lock at READ
  COMMITTED isolation;
* a refresh token that CCP rotates while the row that stores it is locked, and
  revocations at CCP that must follow a commit and never precede it;
* crashes, cancelled contexts and failed statements between any two steps;
* a Guard shared without a lock, whose transaction outlives one call;
* a count and an insert that must be one step over two statements and a call to
  ESI;
* shared budgets read before a request and charged after it;
* the program's own promises about these: `docs/SPEC.md` §3-§5, `docs/DB.md`,
  `docs/AUTH.md`.

### What makes each component correct

* sign-in: at most one unrevoked session per character, the newest; a code buys
  one session; no grant is forgotten at CCP, none still in use is revoked;
* refresh: the stored token is the one CCP accepts; a revoked row holds none;
* sweep: what is expired ends; nothing in use is taken;
* Guard: no change without consent to exactly that change by that session; the
  mail cap is exact; every attempt is in the audit log and nothing else is;
* ESI limits: every request is paid for; a character's errors stay within its budget
  but for the calls already past the check, and a refusal ends with its window;
* pod memory: a call is served with the grant of a session that is alive, and a
  verdict about a grant ends no session whose grant is good;
* cache: an answer is what was asked for, by whoever asked, and no older than it
  says; a list is whole or an error;
* tools: nothing is asked of CCP that it must refuse, an answer is no younger than
  what the code dates it by, a change is made only after consent and is recorded
  or its lost row logged;
* pool: no request waits for good.

`PROJECT.json` lists the hazards with their lines and the properties aimed at
them.

## 2. Modules

| Module | Models | Status |
|---|---|---|
| `Connection` | what sign-in promises, abstractly | done |
| `SignIn` | callback, exchange, bearer check, refresh, logout, sweep over the database and CCP | done |
| `MCSignIn` | instances of `SignIn` | done |
| `SignInProofs` | theorems about `SignIn`: sessions, codes, the refinement | done |
| `SignInGrantProofs` | theorems about `SignIn`: the EVE grants | done |
| `WriteGuard` | confirm cycle, mail hold, audit log, per-pod Guards | done |
| `MCWriteGuard` | instances of `WriteGuard` | done |
| `WriteGuardProofs` | theorems about `WriteGuard` | done |
| `EsiLimits` | request allowance, error budget, shared remainder and retries of the ESI clients | done |
| `MCEsiLimits` | instances of `EsiLimits` | done |
| `EsiLimitsProofs` | theorems about `EsiLimits` | done |
| `GrantRuntime` | a pod's runtime map, its cached grants, `eveAccess` and the SSO client's access cache | done |
| `MCGrantRuntime` | instances of `GrantRuntime` | done |
| `GrantRuntimeProofs` | theorems about `GrantRuntime` | done |
| `EsiCache` | the response cache, conditional requests and `GetAllPages` | done but for `GetCursorPages` |
| `MCEsiCache` | instances of `EsiCache` | done |
| `EsiCacheProofs` | theorems about `EsiCache` | done |
| `ToolSteps` | the steps tool handlers are made of | done |
| `CharacterTools`, `CorporationTools`, `WriteTools` | every tool's handler as a sequence of steps | done |
| `Tools` | runs the handlers over ESI's failures, ages and roles, beside what CCP asks of a request | done |
| `MCTools` | role sets for `Tools` | done |
| `ToolsProofs` | theorems about `Tools` and every handler it runs | done |
| `Pool` | who keeps and who waits for a connection of a replica's pool | done |
| `MCPool` | instances of `Pool` | done |
| `PoolProofs` | theorems about `Pool` | done |

### SignIn

One step is one SQL statement, one commit, or one call to CCP. `req[p]` is the
local state of a request or of a pod's sweep runner: a program counter, the
handshake or session it works on, the rows its statement has chosen (`seen`),
the rows its transaction has revoked but not committed (`doomed`), and the
refresh tokens it still has to revoke at CCP (`toks`). The tables are `login`
(`login_states`), `code` (`auth_codes`), `character` and `sess`; `ccp` is the
refresh-token stream at CCP.

A transaction's writes are buffered in the process and appear at commit, so
every other process sees the committed rows only. Locks are not stored: which
advisory lock, session row, code row or character row a process holds follows
from its program counter (`CharLocked`, `HoldsRow`, `CodeLocked`,
`CharRowLocked`), and a crash (`Abort`) therefore releases them. A revoking
statement is two steps because PostgreSQL makes it two: it chooses rows by its
snapshot (`SnapPredecessors`), waits for their locks, and re-checks the
condition on the rows it waited for (`StillOpen`).

| Code | Actions |
|---|---|
| `ServeAuthorize` | `Authorize` |
| `CompleteCallback`, `finishMCP`, `revokeOnOwnerHashChange` | `StartCallback`, `ExchangeAtCCP`, `CheckOwner`, `SnapPredecessors`, `RevokeOnOwnerChange`, `RevokeAtCCP`, `UpsertCharacter`, `ParkCode` |
| `exchangeCode`, `Redeem` | `StartExchange`, `LockCharacter`, `TakeCode`, `SnapPredecessors`, `DoomPredecessors`, `CreateSession`, `CommitExchange`, `RevokeAtCCP` |
| `requireLive`, `Session.Character` | `BearerCall`, `CallTool`, `RevokeOwnSession` |
| `eveAccess`, `LockForRefresh` | `LockForRefresh`, `RefreshAtCCP`, `WriteRefresh`, `RevokeOwnSession` |
| `Logout` | `CallLogout`, `LockCharacter`, `LogoutRevoke`, `LogoutDelete`, `CommitLogout`, `RevokeAtCCP` |
| `Runner.Once` | `StartSweep`, `SweepLogins`, `SweepCodes`, `SweepSessions`, `SweepPurge`, `SweepRuleFails`, `RevokeAtCCP` |

A refresh token is a version number of its handshake's stream. Scopes are the
number of the build that asked for them. Time is the actions that let a
handshake, a code or a session expire. CCP is external: it may rotate a token,
return the same one, refuse a stale one (`invalid_grant`), or lose a stream
because the player withdrew it. `lost` is a history variable: the streams a
fault (and nothing else) has dropped.

### WriteGuard

One character, whose tool calls run on several pods. A call goes through the
bearer check, `SessionFor`, `Session.Character`, `Guard.Authorize`, the ESI
write and `Guard.Record`. Names are reused to keep the state small: a Guard is
named after the call that built it, a hold after the call that opened it, a
confirm token after the call that previewed it, an audit row after the call it
is about. `hold[g]` is the field `mailHold`; `tx[h]` the hold's transaction, from
"open" over "ending" (its `end` function taken and set to nil) to "ended".
`Release` is three steps (`TakeEnd`, `EndTx`, `ClearHold`), because the field is
cleared only after the commit. Calling a nil `end` panics, which ends the call.

A pod may serve any number of calls of the character at once, on one Guard, as in
the code. `shared` is a history variable: the calls that ran on their pod beside
another call of the character. Nothing depends on it but properties. Some hold of
every call (`OnlyAttemptsRecorded`, `ConsentMatches`); others only of the calls
outside `shared`, while calls that share Guards run beside them on the same pods
before and after and on other pods at once. Each of the latter is broken by sharing
calls: §3 says how, in `GuardMailCap` and the table of false statements.

`ESIWrite` has three outcomes: confirmed, refused, and *unanswered*, a change that
EVE carried out (or not) and whose answer was lost. The code cannot tell the last two
apart (`request.go:237`): both are recorded as errors, which the mail cap does not
count.

### EsiLimits

The clients of one pod (`ForUser` makes one per character) and ESI, which grants
every window a number of errors to the whole address. A call reads the remainder
(`ReadRemain`), compares it with the errors charged (`CheckBudget`), is admitted
(`Admit`: `awaitErrorBudget`, then `bucket.take`), waits for the semaphore and is
answered (`Send`), and notes the answer (`Receive`), which sends it back to `Admit`
for a retry or on to its end (`NotModified`, `Finish`). Each of these is one
critical section, so other calls of the character run in between.

ESI is external: it may answer, refuse, fail, throttle, answer a conditional GET
with 304, lose the connection before or after carrying the request out, and leave
the error-limit headers out of a gateway's error. Answers arrive in any order. The
remainder's reset comes due at some time after the window it was announced in.
`net` and `refills` are history variables, for `AllowanceExact`.

### GrantRuntime

What a pod keeps in memory for a character, which `SignIn` leaves out and which
several pods keep at once. `store[p]` is the entry of `Server.sessions`,
`runtime` the `Session` it points to (named after the call that built it), with
its sid and the grant's refresh and access token, `access[p]` the SSO client's
`accessCache`. `SessionFor` is `LoadRuntime`, `StoreRuntime` and `RebuildGrant`,
three steps between which other calls run. `eveAccess` is `BeginAccess` (first
section under `grantMu`), `PeekRow` (`LiveByID`), `LockRow` (`LockForRefresh`),
`EnterClosure` (under the row lock and `grantMu`; a cached access token ends it),
the three answers of CCP, `CommitRefresh` and `Verdict` (`Sessions.Revoke` after
`invalid_grant`). A new sign-in is one step, since `SignIn` has its statements.

`charged` and `lost` are history: the sid of the request and the sid it revoked
for every verdict, and the sign-ins whose stored token a fault or the player made
useless.

### EsiCache

A walk is one call of `GetAllPages`; with one page it is a `Get`. A fetch is one
`cachedGet`: `Lookup` reads the cache under its lock (and answers a fresh entry),
`Serve` is ESI answering (200, 304 to the ETag the fetch has seen, an error),
`FinishGet` stores, touches or drops what came back and delivers the page.
Between those, other fetches change the cache. Bodies are versions of a resource,
a version's size is its number, keys name the resource and, for private
resources, the character. `Change` is the game, `Tick` the clock; a fetch takes at
most `MaxFlight` of it, retries included.

### Tools

A tool's handler is a sequence of steps in the order of its code: gates (argument
checks, `Session.Character`, scope, NPC corporation, role), reads whose failure
ends the call or is passed over, sections whose error becomes a note,
alternatives decided by arguments and data, and for writes `Authorize`, the
mutation and `recordWrite`. A mutation may be carried out although its answer is an
error, and the row of `recordWrite` may fail to be written, which it only logs.
`CharacterTools`, `CorporationTools` and `WriteTools`
say for each handler which steps it has, under the handler's own name; helpers
keep theirs too. `Tools` runs any of them, once after the other. All reads may
fail and may be of any age. `CCPScope` and `CCPRoles` are external: what ESI
documents for the request, kept apart from the scopes and roles the code asks for,
so that the two can disagree.

Handlers with names resolved by `Resolver` contain `Names`, `ResolveNames` or
`ReferencePrices` as one read each.

### Pool

A request keeps no, one or two connections, by where it stands: the transaction
of `HoldMailCap` (from `Begin` to `Record`), that of `LockForRefresh`, the
connection of the sweep's lock. `Free` guards every step that takes another one.
The mail-cap lock and the session's row lock are waited for with the connection
kept. `HangUp` is a client that goes away; a mail waiting for the mail-cap lock
does not notice, because `HoldMailCap` runs `WithoutCancel`.

## 3. Runs

| Run | Expect | Question |
|---|---|---|
| `SignInSafety` | pass | do the safety properties hold, do the locks never wait in a circle, and has whoever waits for none a step to take, for two sign-ins, two requests, a sweep, rotation and one fault? |
| `SignInDrift` | pass | does the database implement `Connection` when the owner changes and a deployment wants more scopes? |
| `SignInLive` | pass | does the sweep end every expired session and code, one row at a time? |
| `GuardFaults` | pass | for a call that has its Guard to itself, is the attempt recorded, the cap kept, consent its session's, a mail token consumed once and the hold ended with it, through crashes, failed statements, lost answers, new sign-ins and calls that share Guards beside it? And is of no call anything recorded that was not attempted, or sent that was not previewed? |
| `GuardMailCap` | violation | is the cap exact for the mails ESI confirmed when calls share a Guard? |
| `EsiLimits` | pass | is every request paid for, and by how much can a character overshoot its error budget? |
| `EsiLockout` | violation | does a refusal over the error budget end with the window? |
| `GrantRuntime` | pass | over two sign-ins and two pods, can a call be served by, or a verdict fall on, the wrong session, or wait for ever for a row lock or a runtime's mutex? |
| `EsiReads` | pass | are answers from the cache the right ones, honestly dated, and lists whole? |
| `Tools` | pass | does every handler ask only for what it may, date its answer by the reads it dates answers by, account for its mutations, and ask for consent at the right place? |
| `ToolsAges` | violation | is an answer dated by the oldest of all the reads it is made of? |
| `PoolWaits` | pass | what does it take for a request to wait for good? |

### Bounds

* Two handshakes and two requests suffice for every pairwise race of sign-in,
  exchange, refresh, logout and revocation; the sweep is a third process. One
  character is enough where locks and the unique index are per character;
  `SignInLive` has two, because there rows of several characters compete for one
  statement.
* `MaxSessions = 2` gives each handshake its session; the sequence running out is
  modelled as a failing INSERT, so the bound adds no behaviour the code lacks.
* `MaxVer = 2` lets a token be rotated once after it was stored, which is what
  makes a stale copy possible.
* One fault: it may strike any process at any step, after which the rest runs on.
  Two faults only combine what one leaves behind.
* `MailCap = 1` instead of 5: two sends already compete for the last place.
  Three calls are a preview and two confirmations of it, on one pod or two, which
  compete for that place and for the token, or two previews and a confirmation, of
  the same tool or of another one. All have the same arguments: changed ones take the
  path of an expired token (`Verdict`), and `NoChangeUnseen` (§4) proves
  `ConsentMatches` for any number of them. `GuardMailCap` has four calls, two previews
  and their confirmations.
* `EsiLimits` has one character, whose client shares nothing with another's but
  ESI's window, which `OtherPodErrs` may spend at any time. Two calls with one retry
  each, an error budget of 1 and 3 errors in each of two windows reach the
  overshoot's bound; 5 tokens and one refill pay for the requests that takes. The
  numbers 400, 100, 20, 15 and 5 of the code are constants of the module.
* `GrantRuntime`: two sign-ins (the old and the new), two pods, three requests: two
  meet in one runtime while the third works elsewhere. One fault, one expiry.
* `EsiReads`: two walks of two pages by two characters over a cache with room for
  two entries, so that every store evicts; two versions; `MaxTime = 3` outlives an
  entry (`TTL = 1`) and a flight. `TotalPages = 3` over `MaxPages = 2` is the capped walk.
* `Tools`: ages 0 and 1 with `Minute = 1`, so that one response is over the minute
  `miningLedgerAge` looks for; role sets of at most two of the six roles that any
  gate names, as a gate asks for one of at most three. Calls follow one another
  without limit; the state of one does not reach into the next.
* `PoolWaits`: a pool of two. A request keeps at most two connections, so a pool of
  two already has the three cases (none, one, all kept by requests that may want
  another); two characters, so that mails wait for each other's lock or not.
* Symmetry is used only in safety runs, over constants that no action compares
  (requests, handshakes, calls, pods, argument digests, walks, users).
* `CHECK_DEADLOCK FALSE` is set where the instance uses up its handshakes or calls;
  the instances with a sweep never stop.

### Fairness

`SF_vars(Step(r))` for every request: a handler that has begun runs to its end in
Go unless it is cancelled (a fault), and a step that waits for a PostgreSQL lock
is enabled whenever the lock is free; PostgreSQL queues waiters, so one that
waits is served in its turn, which weak fairness would not give when others take
and release the lock. The same holds for the sweep, whose ticker starts it every
five minutes. Nothing is assumed of clients, of CCP, of time or of faults, and
starting a request is never fair.

`Pool` has `WF_vars(Step(r))`: its requests run once, so nobody can be overtaken for
ever, and a client never has to hang up.

### What the violations show

* `GuardMailCap`: `Authorize` treats any hold on the shared Guard as
  abandoned and rolls it back, so another call's send is no longer counted under
  its lock, and its audit row is refused by a transaction that has ended.
* `ToolsAges`: TLC's trace is a skill queue younger than the skills it is shown
  with. `Withheld` of `Tools` is the whole list of such reads with the tools that use
  them; without any one of its pairs `AgeIsOldest` is violated (but for the tools whose
  answer has no `data_age`). What every tool of the corporation leaves out is the
  character's sheet, the corporation and the roles; the overview answers from them
  directly (`corp.go:272-287`), and `eve_corp_members` puts the roles roster in its rows
  (`corp_members.go:53-61`).
* `EsiLockout`: a remainder under 5 makes the character's error budget 0, and
  `checkErrorBudget` refuses every call before `awaitErrorBudget`, which alone would
  forget the remainder once its window is over. Only an answer still in flight, or a
  new client, brings the character back.

The statements below are false too. Each is a definition of its module; the
instance that shows it is a configuration of this directory with the constants
named and the statement in place of its properties.

| Statement | Instance | What happens |
|---|---|---|
| `SignIn!NoHungConnection`: a live session is usable (SPEC §3.5 "or the connection hangs") | `SignInSafety.cfg`, no sweeper, no faults | after a callback has upserted the character and parked the code, a logout of the older session deletes the character (`grant.go:111`); the exchange then opens a session of a deleted character. `requireLive` accepts it, every tool refuses it, and logout rolls back |
| `SignIn!GrantDiesWithSession`: an ended session's grant ends at CCP (AUTH.md:37) | `SignInDrift.cfg`, one owner, handshake and request, no sweeper | scope drift clears the row and drops the token `Sessions.Revoke` returns (`protect.go:108`, `grant.go:201`) |
| `WriteGuard!MailsOutCapped`: "5 outgoing mails per rolling hour", and "exact" (SPEC.md:626,630), of the mails that reached EVE | `GuardMailCap.cfg` | the first mail reaches EVE and its answer is lost (`request.go:237`). Its row says `error` (`record.go:20`), and `countMailCapSQL` counts rows that say `ok`, so the next confirmed mail finds room, with every row in place and no Guard shared. `MailCapExact` is about the mails ESI confirmed |
| `WriteGuard!EveryChangeRecorded`: "one append-only row per in-game change the server attempted" (SPEC.md:769), for calls that share a Guard, too | `GuardMailCap.cfg`, three calls | a confirmed mail has its hold ended by another call's `Authorize` (`guard.go:115`), or appends its row through that call's transaction, which then rolls back. The change is in the game and not in the log |
| `WriteGuard!EverySignInVoidsConsent`: "a sign-in that replaces the session voids every pending confirmation" (SPEC.md:435) | `GuardMailCap.cfg`, three calls, `MaxSession` 2 | a call of the old session passes the bearer check; a sign-in replaces the session; a call of the new one gets the `Session` with its Guard; the old call's `SessionFor` puts a Guard of the old session in again (`protect.go:31`), and the new call's `Authorize` accepts a token the old session was given |
| `WriteGuard!ConfirmSingleUse`: a confirm token is single use (SPEC.md:434) | `GuardFaults.cfg`, no faults | `GetConfirm` and `DeleteConfirm` are two statements and the number of deleted rows is not looked at (`guard.go:306`); `Repo.Take` exists and is not used. A mail's hold closes the gap (`MailConfirmedOnce`) |
| `EsiLimits!WriteAppliedOnce`: a write is carried out once | `EsiLimits.cfg`, one call, `ErrorLimitBudget` and `ErrorFloor` 2 | a connection reset while a write's answer is read is a `net.OpError`, which `safeToRetry` takes for one that never reached ESI (`request.go:231`) |
| `GrantRuntime!VerdictOfItsRequest`: a verdict is charged to the `sid` of its request (SPEC.md:302-305) | `GrantRuntime.cfg` | `eveAccess` charges the runtime's `SessionID`, which another request's `RebuildGrant` has changed (`grant.go:148`). `NoSelfKill` shows that the session charged is still one whose grant is gone |
| `Tools!LedgerAgeIsOldest`: a fused result reports its oldest part (SPEC.md:391) | `Tools.cfg` | from a minute on, `miningLedgerAge` reports the age of the list of observers (`corp_industry.go:214`) |
| `Tools!RoleVerdictIsRead`: "This character does not hold the corporation role ESI requires" (`errors.go:20`) is said of roles that were read | `Tools.cfg` | a failed read of the roles counts as no roles (`session.go:300`) |
| `Pool`: every request is answered | `PoolWaits.cfg`, `AnsweredUnlessCrowded` without `Crowded` | a sweep and one confirmed mail, or two confirmed mails, each keep one of two connections and wait for the other. Only a client that hangs up ends it, and not when the mail waits for the mail-cap lock. pgxpool's default is four connections, or one per CPU |

Smaller disagreements of code and documents, met while translating the handlers
and not run: `eve_mail_list` with `unread_only` answers "nothing" without
`next_cursor` when a full page had no unread mail (`social_mail.go:41`, SPEC §4);
hotspots always report `truncated: false`; killmails, items, routes and the
corporation's empty answers carry no `data_age`;
`eve_corp_wallet` checks its arguments after its requests; a hop of a route that
could not be read counts as null security, and names in `avoid` that are not known
are ignored; `eve_calendar_list` fetches detail for rows the page then drops.

## 4. Proofs

A theorem of this section holds for all values of the constants that meet the
module's `ASSUME`; the runs show the same properties on their instances. `TypeCorrect`
of each module is `Spec => []TypeOK` and is not repeated below.

### Sessions, codes and the refinement (`SignInProofs`)

`SignInProofs` proves about `SignIn`, for all values of its constants that meet
`ConstantsAssumption` (sets of requests and sweepers disjoint, bounds natural
numbers):

| Theorem | Says |
|---|---|
| `Inductive` | `Spec => []IInv` |
| `NeverCollides` | `Spec => []ExchangeNeverCollides` |
| `TokensCleared` | `Spec => []RevokedHoldsNoToken` |
| `SingleUse` | `Spec => []CodeSingleUse` |
| `NewestOpen` | `Spec => []OnlyNewestOpen` |
| `Refinement` | `Spec => ImplementsConnection` |
| `LocksNeverCircular` | `Spec => []NoCircularWait` |

None of these is inductive. What carries them is `IInv`, three layers:

* `RowInv`: a handshake's character is fixed before its code exists; a code
  precedes its session and is gone once there is one; a session row has a token
  exactly while it is unrevoked.
* `Fits(j)`, what a process has established and relies on until it acts: an
  exchange that holds the advisory lock has chosen *all* unrevoked sessions of
  its character, keeps them locked once doomed, and its new id is greater than
  every id the character has had; a refresh holds a row that is open.
* `Apart(i, j)`: two processes never hold the same advisory lock, the same
  session row, the same callback or the same new id.

The argument for `ExchangeNeverCollides`: sessions of a character are created
only under its advisory lock, so between an exchange's snapshot and its insert
the set of unrevoked sessions can only shrink, and the ones still open when the
locks are granted are then held by the exchange itself. The refinement needs the
same fact at the commit, where `Connection`'s `Connect` replaces the old
connection by a newer one in one step; ids grow because the identity sequence
does and no two processes hold one id. `OnlyNewestOpen` follows from the refinement,
which `SignInDrift` runs; it is not run on its own. Each theorem about a step has one proof step
per action of `Next`, grouped by what the action changes.

`NoCircularWait` says who waits for whom without `ENABLED`: `Waits(r)` is the
condition under which PostgreSQL holds a request's statement back. The argument is a
ladder. Take any request under way that waits. If it waits for an advisory lock, its
holder is further on in an exchange or a logout; if for a code's row, the holder is
an exchange that has taken it; if for session rows, the holder is an exchange, a
logout or a refresh past its own row locks; if for the characters row or the unique
index, a logout or an exchange about to commit. Each rung's holder waits only for
something on a later rung, and the last one commits, or is at CCP, and waits for
nobody. All of them are requests, because a sweeper only ever takes the steps of a
sweep (`SweepersOnlySweep`), none of which keeps a row from one step to the next. The
other half, that a request that waits for nobody can move (`WaitsOnlyForLocks`), is
`ENABLED` and stays with TLC.

### The EVE grants (`SignInGrantProofs`)

| Theorem | Says |
|---|---|
| `GrantInvariant` | `Spec => [](IInv /\ GrantInv)` |
| `RotationIsSafe` | `Spec => []RotationSafe` |
| `GrantsAreAccounted` | `Spec => []GrantAccounted` |
| `UsedGrantsAreKept` | `Spec => []NoUsedGrantRevoked` |

`GrantInv` stands on `IInv`, since who holds which row decides who may move a grant.
It follows each refresh-token stream. Its version: what a code, an unrevoked session
or a refresh about to write knows is what CCP accepts, but for the one refresh that
has rotated the token and not committed it, which holds the row lock, and but for
streams a fault dropped. Its place (`Kept`): a live stream is in a code, in an
unrevoked session, or with a process that will put it there or revoke it. And a token
on its way to CCP's revocation (`Spent`) is of a stream no code and no unrevoked
session has; this needs that codes are single use and that ended sessions stay ended.

### The write Guard (`WriteGuardProofs`)

| Theorem | Says |
|---|---|
| `BaseInvariant` | `Spec => []BaseInv` |
| `LogHasOnlyAttempts` | `Spec => []OnlyAttemptsRecorded` |
| `NoChangeUnseen` | `Spec => []ConsentMatches` |
| `AloneInvariant` | `Spec => [](BaseInv /\ AloneInv)` |
| `LogHasEveryAttempt` | `Spec => []EveryAttemptRecorded` |
| `ConsentOfTheSession` | `Spec => []ConsentDiesWithSession` |
| `HoldEndsWithCall` | `Spec => []NoStrandedHold` |
| `MailTokenOnce` | `Spec => []MailConfirmedOnce` |
| `MailCapHolds` | `Spec => []MailCapExact` |

All of these are about every behaviour of `Spec`, calls that share Guards included;
no scheduling is assumed. `BaseInv` is what holds of any call: which fields mean
something at which step, that a call past `consumeConfirm` has shown a token of a
preview equal to itself, that rows are of executed calls.

The last five are about calls outside `shared`, which had their pod to themselves so
far, while the pods serve other calls together, crash and fail. What has to be shown
is that the sharing calls cannot reach into a call that keeps to itself, and
`AloneInv` says why in parts:

* `GuardInv`: which call of the character a pod is serving, and that a call outside
  `shared` is the only one under way there, on a Guard of its own session
  (`OwnGuard`).
* `HoldInv`: a hold that is being ended is one the ending call may end (`EndsOwn`);
  one open transaction holds the mail-cap lock (`OneLock`); and the step of a call
  outside `shared` says what its own transaction is (`OwnHold`): open from
  `HoldMailCap` to `Record`, ended with the call.
* `RowInv`: a transaction buffers, of the calls outside `shared`, no row but its own
  call's, so what a sharing call rolls back is never a row of theirs; `OwnRow` says
  when a call's row is buffered, and when committed.
* `CapKept`: the committed rows of confirmed mails outside `shared` are at most
  `MailCap`, and fewer while such a call holds the lock, whose own row is then not
  committed yet. The lock is what makes its count of the log true until it ends:
  nobody else's mail of that kind is committed meanwhile.
* `TokenInv`: between a mail's `GetConfirm` and `DeleteConfirm` the lock keeps every
  other mail with a hold out.

`MailCapExact` is about the mails ESI confirmed; a mail whose answer was lost is
recorded (`LogHasEveryAttempt`) and not counted, so more than `MailCap` mails may reach EVE (`MailsOutCapped`, §3).

### Allowance and error budget (`EsiLimitsProofs`)

| Theorem | Says |
|---|---|
| `CountsInvariant` | `Spec => []EInv` |
| `NothingSentUnpaid` | `Spec => []AllowanceExact` |
| `ErrorsStayBounded` | `Spec => []OvershootBounded` |

The invariant counts. What a call may still do is an element of a finite set: a
token taken for a request not yet sent (`Sending`), an answer from cache whose token
is still to come back (`Unmodified`), an attempt whose error may still be charged
(`Debts`, pairs of a call and an attempt). Each step moves an element from one side
of an inequality to the other, so the sums of cardinalities are kept; `Calls` must be
finite for that, which `EsiAssumption` says. A window has calls past the check of
former windows, too, so the bound is over all calls.

### Runtimes and caches of a pod (`GrantRuntimeProofs`)

| Theorem | Says |
|---|---|
| `RuntimeInvariant` | `Spec => []GInv` |
| `SignInsDoNotKillThemselves` | `Spec => []NoSelfKill` |
| `ServedByLiveGrant` | `Spec => []NotServedByDeadGrant` |
| `LocksNeverCircular` | `Spec => []NoCircularWait` |

Two arguments in one invariant. Sign-ins of a character come in order and only the
last can be open; what a lock holder writes into a runtime is therefore never older
than the session any request on it was let in for, while everything that had ended by
then is older (`LetIn`, `ServedFresh`). And a row's lock excludes: while nobody is
about to commit a rotated token, the stored token of an open session is the one CCP accepts,
unless a fault parted the two; a verdict therefore falls on a session that has ended
meanwhile, or whose token a fault or the player had made useless.

`LocksNeverCircular` needs no invariant: a row lock is held by a request that at most
waits for `grantMu`, and whoever has `grantMu` is asking CCP and waits for nobody, so
every wait ends after two links.

### Cache and pages (`EsiCacheProofs`)

| Theorem | Says |
|---|---|
| `CacheInvariant` | `Spec => []CInv` |
| `CacheStaysBounded` | `Spec => []CacheBounded` |
| `AnswersAreForTheAsker` | `Spec => []AnswersWhatWasAsked` |
| `AgesAreHonest` | `Spec => []AgeHonest` |
| `ConfirmedBodyIsServed` | `Spec => []ConfirmedIsServed` |
| `ListsAreWhole` | `Spec => []WholeOrNothing` |

`evictLocked` goes by the sum of the bodies, a recursive function over the cache's
list, so the module first shows what the sum is of a list cut in two, of two lists
joined and of a list without one of its items. The induction behind these is
`SetInduction`: a set of naturals with 0 and every successor is `Nat`, since the
least number missing would have a predecessor in it; each sum lemma applies it to
the set of lengths for which it holds. Then each critical section of the cache
(`Place`, `Put`, `Touch`, `Get`, `Drop`) keeps the bounds, one item per key, and only
items that were there or are new.

The honesty of ages is the subtle part. A 304 stamps the item under the key *now*,
and that item may have been replaced since the fetch looked. `ItemsHonest` lets an
item's stamp be two flights ahead of the last moment ESI had the body. `FetchFits`
says why two are enough: a fetch whose answer is a 304 knows a body ESI had during
its flight, and whatever is under its key by then is that body, or one that ESI
still had a flight before the fetch began. `WalkFits` says of a list of pages that
each is gathered once or still out, and by counting that a walk with nothing out
has them all.

### Who waits for whom (`PoolProofs`)

`PoolProofs` proves about `Pool`, for any number of requests, characters and
connections that meets `PoolAssumption` (finitely many requests, the three kinds
disjoint, at least one connection):

| Theorem | Says |
|---|---|
| `NoStandstill` | `Spec => []StuckOnlyWhenCrowded`: requests never all wait for one another unless the pool is `Crowded` |

The inductive invariant adds to the types, by which only a confirmed mail keeps a
hold, where a request with an open hold may stand (`HoldPlaced`). If no connection
is free and the pool is not `Crowded`, a count of the connections shows that a
refresh keeps one; a refresh waits for CCP, or for one that does. If a connection is free, only a lock is waited for, and its
holder goes on, because the mail-cap lock is taken before the row lock and never
after it. `StuckOnlyWhenCrowded` is the part of `AnsweredUnlessCrowded` that needs
no fairness; it was also checked on the instance of `PoolWaits`.

### The tools (`ToolsProofs`)

For all sets of roles and of ages that meet `AgesAssumption`:

| Theorem | Says |
|---|---|
| `TInvHolds` | `Spec => []TInv` |
| `NeverDoomed` | `Spec => []NoDoomedRequest` |
| `VerdictsExact` | `Spec => []RoleVerdictsExact` |
| `OldestAge` | `Spec => []AgeIsOldest` |
| `Accounted` | `Spec => []WritesAccounted` |
| `ConsentReaches` | `Spec => []ConsentReachesESI` |

What is inductive here is about what is *left* of a handler. `Shape(t, r, n, F, p)`
says of the steps `p` left to tool `t`, in a corporation that grants `r` and is or is
not an NPC one, which steps a call may still meet:

* first steps that cannot go wrong (`Good`): each read is one that CCP grants
  (`Grants`) and has its age among the reads `F` the answer fuses, or is one of those
  the tool leaves out (`Undated`: what never ages, and what `Withheld` lists for it);
  each gate is passed or refuses for a reason of its own; the steps inside sections,
  alternatives and conditions are of the same kind;
* then one step that ends or turns the call (`Turns`): an answer over `F`, the
  overview's list and its answer, a gate that refuses in this world and then only
  what CCP would (`Stops`), or `Authorize` with a chain of mutations behind it
  (`After`): each followed by its record and its check, and they by another mutation
  or the answer;
* or an alternative, each branch of which has a shape again, with more reads to fuse.

Steps contain steps, and the prover has no induction over them. `Good` and `Shape`
are therefore greatest fixed points: *there is* a set of steps (of remainders) closed
under everything a call can reach in one step, and this one is in it. Such sets are
closed under union and under concatenation of their sequences, which is all a
handler's proof needs; `Unfold` is the one lemma that looks inside, and says what
each step of a call leaves. `Handlers` then goes through `register.go`: for every
tool of `Programs` and each world the call may be made in, the handler has a shape.
The tools of the corporation rest on `RolesServe`, which compares `corpRole` with CCP's table role by role: with the
implicit Director, each gate admits exactly whom ESI serves.

`TInv` adds the state. While a call asks, nothing is confirmed or written, and some
`F` covers the reads in use and gives `todo` a shape; once it writes, `todo` is a
chain and each mutation of the log was accepted and has its row, or the log line of
a lost one, but for what the next step is about (`Logged`); and when it has ended, the verdicts, the log and the consent are
accounted for. The role gates are passed by the roles the call *read*, which are the
character's or none, so a passed gate is passed rightly, while a refusal is claimed
to be right only where the roles were read. `TInv` is not run in TLC, which cannot
enumerate the sets `Shape` quantifies over; the six properties it implies are.

### What is only model-checked

* `WaitsOnlyForLocks` of `SignIn` and of `GrantRuntime`, stated with `ENABLED`, which
  the prover does not expand. With the proved `NoCircularWait` it says that requests
  never come to a standstill.
* `ExpiredGrantsEnd` and `AnsweredUnlessCrowded`, which need fairness.
* The violation runs and the table of false statements: behaviours of the code that
  a document excludes.

## 5. What the models leave out

* Formatting, logging, HTTP framing, PKCE and redirect comparison (refusals that
  change nothing), JWT cryptography and CCP's key set.
* A second delivery of one callback finds no handshake row, as in the code; client
  retries of the exchange are further requests.
* `SignIn` does not distinguish pods: what a pod remembers is `GrantRuntime`.
  `SessionFor` is one step in `WriteGuard`, which is about the Guard.
* `CheckScope` cannot fail after `Session.Character` has checked the full scope
  set, and is constant.
* All mails of `WriteGuard` fall into one hour, the case in which the cap binds.
* `Tools` has which steps a handler takes, not what the rows of an answer say:
  folding, sorting, paging and wording. `GetCursorPages` is one read.
* `Resolver`'s bisection and its name and price caches; the entries of the SSO
  client's `refreshLocks`, which are never removed.
* The mutation and client rules of the sweep; soft deletion of OAuth clients.
* The public limiter (`service/http/limit.go`) and the shutdown of the listeners.
* Generated code (`service/http/api.gen.go`, mocks), command wiring,
  configuration parsing, logging and metrics.

## 6. Plan

1. `Paging`: `pageByCursor`, `pageByOffset`, `GetCursorPages` and `mergeCursorRows` over
   a list that grows between pages: no row twice, none skipped.
2. `NameResolver`: bisection of a refused chunk and the name cache.
3. `PublicLimiter` and the client rules of the sweep against a registration.
