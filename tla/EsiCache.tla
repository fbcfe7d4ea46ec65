------------------------------ MODULE EsiCache ------------------------------
(***************************************************************************)
(* The response cache every character's ESI client of a pod shares, and    *)
(* GetAllPages above it.  A walk is one call of GetAllPages, or of Get,    *)
(* which is a walk of one page (MaxPages = 1); the first page is fetched   *)
(* by the caller, the others by a goroutine each, whose results the walk   *)
(* takes in any order (its channel has room for all of them, so a goroutine *)
(* ends with its fetch).  A fetch is one cachedGet: it looks the key up,   *)
(* asks ESI without any lock, and stores, touches or drops what came back. *)
(*                                                                         *)
(* A body is the version of its resource; time is a counter, and a fetch   *)
(* takes at most MaxFlight of it, its retries included (EsiLimits has      *)
(* those, and the budgets that refuse a fetch).  ESI is external.          *)
(***************************************************************************)
EXTENDS Naturals, SequencesExt

CONSTANTS Walks,        \* calls of GetAllPages, or of Get
          Users,        \* characters
          Endpoints,
          Private,      \* those asked for with a character's token
          TotalPages,   \* X-Pages, where a walk looks for it
          MaxPages,     \* the cap the tool passes
          MaxEntries,   \* maxCacheEntries
          MaxBytes,     \* maxCacheBytes
          MaxCachedBody,
          TTL,          \* what ESI's Expires grants
          MaxFlight,    \* the longest a fetch takes
          None,         \* no user, no entry, no answer
          MaxVer,       \* bound: versions of a resource
          MaxChanges,   \* bound: changes in the game
          MaxTime       \* bound: the clock

ASSUME ConstantsAssumption ==
    /\ {TotalPages, MaxPages, MaxEntries, MaxBytes, MaxCachedBody, TTL, MaxFlight,
        MaxVer, MaxChanges, MaxTime} \subseteq Nat
    /\ MaxPages >= 1 /\ TotalPages >= 1 /\ MaxVer >= 1
    /\ Private \subseteq Endpoints
    /\ None \notin Users

VARIABLES
    now, changes,
    esi,      \* esi[r]: the current version of a resource, and when the
              \* earlier ones were replaced (the latter is history)
    cache,    \* items, most recently used first, and the sum of their sizes
    walk,     \* what every walk is doing and has gathered
    fetch     \* fetch[w][n]: the cachedGet of page n of walk w

vars == <<now, changes, esi, cache, walk, fetch>>

-----------------------------------------------------------------------------
(* Resources and keys.                                                      *)

Capped == IF TotalPages < MaxPages THEN TotalPages ELSE MaxPages
PageNumbers == 1 .. Capped

(* Who a call of Get names as characterID.                                  *)
Askers(name) == IF name \in Private THEN Users ELSE {None}

Resource(name, user, n) == <<name, user, n>>
Resources == UNION {{Resource(name, user, n) : user \in Askers(name), n \in PageNumbers} :
                      name \in Endpoints}

(* Mutant: the character is left out of the key.                            *)
BugKeyOfRoute(name, user, n) == <<name, None, n>>

CacheKey(name, user, n) == Resource(name, user, n)

Size(ver) == ver

Versions == 1 .. MaxVer
Times == 0 .. MaxTime

Fresh(e) == now < e.expires
Current(r) == esi[r].ver

(* The last moment at which ver was what ESI had to say.                    *)
LastCurrent(r, ver) == IF ver = Current(r) THEN now ELSE esi[r].until[ver]

Idle == [pc |-> "idle", begun |-> 0, snap |-> None, status |-> None, ver |-> 0]
NoWalk == [pc |-> "new", name |-> None, user |-> None, got |-> {}, oldest |-> 0]

Init ==
    /\ now = 0 /\ changes = 0
    /\ esi = [r \in Resources |-> [ver |-> 1, until |-> [v \in Versions |-> 0]]]
    /\ cache = [items |-> <<>>, bytes |-> 0]
    /\ walk = [w \in Walks |-> NoWalk]
    /\ fetch = [w \in Walks |-> [n \in PageNumbers |-> Idle]]

-----------------------------------------------------------------------------
(* The cache: one critical section each.                                    *)

(* Where the items map has the key, which is once; 0 if it has not.         *)
Place(key) ==
    LET places == {i \in 1 .. Len(cache.items) : cache.items[i].key = key}
    IN  IF places = {} THEN 0 ELSE CHOOSE i \in places : TRUE

Cached(key) == IF Place(key) = 0 THEN None ELSE cache.items[Place(key)]
Others(key) == IF Place(key) = 0 THEN cache.items ELSE RemoveAt(cache.items, Place(key))
Held(key) == IF Place(key) = 0 THEN 0 ELSE Size(Cached(key).ver)

Bytes(items) ==
    LET sum[n \in 0 .. Len(items)] ==
            IF n = 0 THEN 0 ELSE sum[n - 1] + Size(items[n].ver)
    IN  sum[Len(items)]

(* evictLocked: from the back, until both bounds hold.                      *)
Left(c, n) == c.bytes - Bytes(SubSeq(c.items, n + 1, Len(c.items)))
Fitting(c) == {n \in 0 .. Len(c.items) : n <= MaxEntries /\ Left(c, n) <= MaxBytes}
Evict(c) ==
    LET keep == IF Fitting(c) = {} THEN 0 ELSE Max(Fitting(c))
    IN  [items |-> SubSeq(c.items, 1, keep), bytes |-> Left(c, keep)]

(* Mutant: the body that is replaced is not taken off the sum.              *)
BugReplaceAdds(e) ==
    IF Size(e.ver) > MaxCachedBody THEN cache
    ELSE Evict([items |-> <<e>> \o Others(e.key), bytes |-> cache.bytes + Size(e.ver)])

Put(e) ==
    IF Size(e.ver) > MaxCachedBody THEN cache
    ELSE Evict([items |-> <<e>> \o Others(e.key),
                bytes |-> (cache.bytes - Held(e.key)) + Size(e.ver)])

(* Mutant: touch stores an empty item for a key that was evicted.           *)
BugTouchCreates(key, expires) ==
    LET e == IF Place(key) = 0 THEN [key |-> key, of |-> key, ver |-> 0] ELSE Cached(key)
    IN  [cache EXCEPT !.items = <<[key |-> key, of |-> e.of, ver |-> e.ver, stored |-> now,
                                   expires |-> expires]>> \o Others(key)]

Touch(key, expires) ==
    IF Place(key) = 0 THEN cache
    ELSE [cache EXCEPT !.items =
            <<[Cached(key) EXCEPT !.expires = expires, !.stored = now]>> \o Others(key)]

MoveToFront(key) ==
    IF Place(key) = 0 THEN cache
    ELSE [cache EXCEPT !.items = <<Cached(key)>> \o Others(key)]

-----------------------------------------------------------------------------
(* cachedGet.                                                               *)

KeyOf(w, n) == CacheKey(walk[w].name, walk[w].user, n)
About(w, n) == Resource(walk[w].name, walk[w].user, n)

(* A result: the body and what it is about, the moment it claims to be of   *)
(* (now less AgeSeconds), how it came about, and the version ESI had when   *)
(* it was asked.                                                            *)
Result(of, ver, stored, how, asked) ==
    [of |-> of, ver |-> ver, stored |-> stored, how |-> how, asked |-> asked]
Failed == Result(None, 0, 0, "error", 0)

(* Mutant: a failure ends the walk with what it has.                        *)
BugAnswerPart(k, n, b) ==
    LET got == k.got \cup {<<n, b.stored>>}
    IN  IF b.how = "error" THEN [k EXCEPT !.pc = "done"]
        ELSE [k EXCEPT !.got = got,
                       !.oldest = IF n = 1 \/ b.stored < @ THEN b.stored ELSE @,
                       !.pc = IF Cardinality(got) = Capped THEN "done" ELSE "fan"]

(* GetAllPages takes one more result; the first failure ends the walk and   *)
(* leaves the goroutines still out to themselves.                           *)
Gather(k, n, b) ==
    LET got == k.got \cup {<<n, b.stored>>}
    IN  IF b.how = "error" THEN [k EXCEPT !.pc = "failed", !.got = {}, !.oldest = 0]
        ELSE [k EXCEPT !.got = got,
                       !.oldest = IF n = 1 \/ b.stored < @ THEN b.stored ELSE @,
                       !.pc = IF Cardinality(got) = Capped THEN "done" ELSE "fan"]

(* The first page says how many there are; then the others are fetched.     *)
Deliver(w, n, b) ==
    /\ walk' = [walk EXCEPT ![w] = IF @.pc = "failed" THEN @ ELSE Gather(@, n, b)]
    /\ fetch' = [fetch EXCEPT ![w] =
         [m \in PageNumbers |->
            IF m = n THEN Idle
            ELSE IF n = 1 /\ walk'[w].pc = "fan" THEN [Idle EXCEPT !.pc = "get"]
            ELSE fetch[w][m]]]

(* GetAllPages, or Get of one page; a name is used again once its           *)
(* goroutines have ended.                                                   *)
Begin(w) == \E name \in Endpoints : \E user \in Askers(name) :
    /\ walk[w].pc \in {"new", "done", "failed"}
    /\ \A n \in PageNumbers : fetch[w][n].pc = "idle"
    /\ walk' = [walk EXCEPT ![w] = [NoWalk EXCEPT !.pc = "first", !.name = name, !.user = user]]
    /\ fetch' = [fetch EXCEPT ![w] =
         [n \in PageNumbers |-> IF n = 1 THEN [Idle EXCEPT !.pc = "get"] ELSE Idle]]
    /\ UNCHANGED <<now, changes, esi, cache>>

Hit(w, n) == LET hit == Cached(KeyOf(w, n))
             IN  Result(hit.of, hit.ver, hit.stored, "fresh", 0)

(* cache.get, and a hit that is fresh.                                      *)
Lookup(w, n) ==
    LET hit == Cached(KeyOf(w, n))
    IN  /\ fetch[w][n].pc = "get"
        /\ cache' = MoveToFront(KeyOf(w, n))
        /\ IF hit # None /\ Fresh(hit)
             THEN Deliver(w, n, Hit(w, n))
             ELSE /\ fetch' = [fetch EXCEPT ![w][n] =
                         [@ EXCEPT !.pc = "ask", !.begun = now, !.snap = hit]]
                  /\ UNCHANGED walk
        /\ UNCHANGED <<now, changes, esi>>

(* ESI answers, or the request fails for good: 304 only to the ETag of the  *)
(* body the lookup found; a server error with nothing to fall back on is an *)
(* error like others.                                                       *)
Serve(w, n) == \E status \in {"ok", "notModified", "serverError", "error"} :
    LET f == fetch[w][n]
        ver == Current(About(w, n))
        answered == [f EXCEPT !.pc = "finish", !.status = status,
                              !.snap = IF status \in {"notModified", "serverError"}
                                         THEN f.snap ELSE None,
                              !.ver = IF status \in {"ok", "notModified"} THEN ver ELSE 0]
    IN  /\ f.pc = "ask"
        /\ status = "notModified" => f.snap # None /\ f.snap.ver = ver
        /\ status = "serverError" => f.snap # None
        /\ fetch' = [fetch EXCEPT ![w][n] = answered]
        /\ UNCHANGED <<now, changes, esi, cache, walk>>

Item(w, n) == [key |-> KeyOf(w, n), of |-> About(w, n), ver |-> fetch[w][n].ver,
               stored |-> now, expires |-> now + TTL]

(* Mutant: serving a stale body counts as having confirmed it.              *)
BugStaleTouches(w, n) ==
    CASE fetch[w][n].status \in {"notModified", "serverError"} -> Touch(KeyOf(w, n), now + TTL)
      [] fetch[w][n].status = "ok"                            -> Put(Item(w, n))
      [] OTHER                                                -> cache

(* What finishGet does to the cache.                                        *)
Remember(w, n) ==
    CASE fetch[w][n].status = "notModified" -> Touch(KeyOf(w, n), now + TTL)
      [] fetch[w][n].status = "ok"          -> Put(Item(w, n))
      [] OTHER                              -> cache

(* Mutant: on 304 the body is read from the cache again.                    *)
BugAnswerReread(w, n) ==
    LET f == fetch[w][n]
        hit == Cached(KeyOf(w, n))
    IN  CASE f.status = "ok" -> Result(About(w, n), f.ver, now, "new", f.ver)
          [] f.status = "notModified" /\ hit # None ->
                 Result(hit.of, hit.ver, now, "confirmed", f.ver)
          [] f.status = "serverError" ->
                 Result(f.snap.of, f.snap.ver, f.snap.stored, "stale", f.ver)
          [] OTHER -> Failed

(* What finishGet answers: a body that was confirmed, or that a server      *)
(* error leaves us with, is the one the lookup found.                       *)
Answer(w, n) ==
    LET f == fetch[w][n]
    IN  CASE f.status = "ok" -> Result(About(w, n), f.ver, now, "new", f.ver)
          [] f.status = "notModified" ->
                 Result(f.snap.of, f.snap.ver, now, "confirmed", f.ver)
          [] f.status = "serverError" ->
                 Result(f.snap.of, f.snap.ver, f.snap.stored, "stale", f.ver)
          [] OTHER -> Failed

FinishGet(w, n) ==
    /\ fetch[w][n].pc = "finish"
    /\ cache' = Remember(w, n)
    /\ Deliver(w, n, Answer(w, n))
    /\ UNCHANGED <<now, changes, esi>>

-----------------------------------------------------------------------------

(* Something changes in the game.                                           *)
Change == \E r \in Resources :
    /\ Current(r) < MaxVer /\ changes < MaxChanges
    /\ changes' = changes + 1
    /\ esi' = [esi EXCEPT ![r] = [ver |-> @.ver + 1, until |-> [@.until EXCEPT ![esi[r].ver] = now]]]
    /\ UNCHANGED <<now, cache, walk, fetch>>

Tick ==
    /\ now < MaxTime
    /\ \A w \in Walks, n \in PageNumbers :
         fetch[w][n].pc \in {"ask", "finish"} => now - fetch[w][n].begun < MaxFlight
    /\ now' = now + 1
    /\ UNCHANGED <<changes, esi, cache, walk, fetch>>

Next ==
    \/ \E w \in Walks :
         \/ Begin(w)
         \/ \E n \in PageNumbers : Lookup(w, n) \/ Serve(w, n) \/ FinishGet(w, n)
    \/ Change \/ Tick

Spec == Init /\ [][Next]_vars

-----------------------------------------------------------------------------
(* Properties.                                                              *)

CacheItems == [key : Resources, of : Resources, ver : Versions, stored : Times,
               expires : 0 .. (MaxTime + TTL)]
Walk == [pc : {"new", "first", "fan", "done", "failed"}, name : Endpoints \cup {None},
         user : Users \cup {None}, got : SUBSET (PageNumbers \X Times), oldest : Times]
Fetch == [pc : {"idle", "get", "ask", "finish"}, begun : Times,
          snap : CacheItems \cup {None},
          status : {None, "ok", "notModified", "serverError", "error"}, ver : 0 .. MaxVer]
TypeOK ==
    /\ now \in Times /\ changes \in 0 .. MaxChanges
    /\ esi \in [Resources -> [ver : Versions, until : [Versions -> Times]]]
    /\ cache \in [items : Seq(CacheItems), bytes : Nat]
    /\ walk \in [Walks -> Walk]
    /\ fetch \in [Walks -> [PageNumbers -> Fetch]]

(* docs/SPEC.md 5.1: the cache is bounded by entries and by bytes, whichever *)
(* binds first; the sum evictLocked goes by is that of the bodies it keeps, *)
(* one per key, none over maxCachedBody.                                    *)
CacheBounded ==
    /\ Len(cache.items) <= MaxEntries
    /\ cache.bytes = Bytes(cache.items) /\ cache.bytes <= MaxBytes
    /\ \A i, k \in 1 .. Len(cache.items) :
         cache.items[i].key = cache.items[k].key => i = k
    /\ \A i \in 1 .. Len(cache.items) : Size(cache.items[i].ver) <= MaxCachedBody

(* What the next step of a fetch answers.                                   *)
Answers(w, n) ==
    CASE fetch[w][n].pc = "finish" -> {Answer(w, n)} \ {Failed}
      [] fetch[w][n].pc = "get" /\ Cached(KeyOf(w, n)) # None /\ Fresh(Cached(KeyOf(w, n))) ->
             {Hit(w, n)}
      [] OTHER -> {}

(* No character is ever served what another one's token fetched, though all *)
(* share one cache.                                                         *)
AnswersWhatWasAsked ==
    \A w \in Walks, n \in PageNumbers : \A b \in Answers(w, n) : b.of = About(w, n)

(* docs/SPEC.md 4: data_age is the age of the underlying response.  What an *)
(* answer claims to be of was still ESI's at that moment, but for the       *)
(* flight of two requests: the one that brought the body, and one whose 304 *)
(* to the body before it stamps the item anew.                              *)
AgeHonest ==
    \A w \in Walks, n \in PageNumbers : \A b \in Answers(w, n) :
        b.stored <= LastCurrent(b.of, b.ver) + 2 * MaxFlight

(* A body answered on the strength of a 304 is the one ESI confirmed, also  *)
(* when another fetch has replaced or evicted the item in the meantime.     *)
ConfirmedIsServed ==
    \A w \in Walks, n \in PageNumbers : \A b \in Answers(w, n) :
        b.how = "confirmed" => b.ver = b.asked

(* GetAllPages answers with every page up to the cap or not at all, and     *)
(* reports the age of the oldest.                                           *)
WholeOrNothing ==
    \A w \in Walks : walk[w].pc = "done" =>
        LET got == walk[w].got
        IN  /\ {b[1] : b \in got} = PageNumbers
            /\ \A b \in got : walk[w].oldest <= b[2]
            /\ \E b \in got : walk[w].oldest = b[2]
=============================================================================
