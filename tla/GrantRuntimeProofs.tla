------------------------- MODULE GrantRuntimeProofs -------------------------
(***************************************************************************)
(* Theorems about GrantRuntime, for any number of requests, pods, sign-ins *)
(* and token versions.                                                     *)
(*                                                                         *)
(* Two arguments, one invariant.  Sign-ins of a character come in order    *)
(* and only the last can be open, so what a lock holder writes into a      *)
(* runtime is never older than the session any request was let in for.     *)
(* And a row's lock excludes: while nobody is about to commit a new token, *)
(* the stored token of an open session is the one CCP accepts, unless a    *)
(* fault parted the two.                                                   *)
(***************************************************************************)
EXTENDS GrantRuntime, TLAPS

-----------------------------------------------------------------------------
(* The invariant                                                            *)

(* A session that has been signed in, open or not.                          *)
Known(s) == sess[s].state # "none"

(* Sign-ins come one after the other, and only the last can be open.        *)
InOrder ==
    /\ \A s, t \in Sids : t < s /\ Known(s) => Known(t)
    /\ \A s, t \in Sids : Live(s) /\ Known(t) => t <= s
    /\ \A s \in Sids : Live(s) => sess[s].ver \in 1 .. MaxVer

(* A runtime's access token is no older than the sign-in it was built for.  *)
FreshRuntimes ==
    \A r \in Calls :
        /\ runtime[r].sid \in Sids => Known(runtime[r].sid)
        /\ runtime[r].access # None => runtime[r].access[1] >= runtime[r].sid

(* A request that has its runtime.                                          *)
HasRuntime == {"character", "access", "peek", "lock", "closure", "ask", "commit",
               "verdict", "esi"}

(* The session a request was let in for, and what had ended by then.        *)
LetIn(c) ==
    call[c].pc \notin {"new", "done"} =>
        /\ call[c].pod \in Pods /\ call[c].claim \in Sids /\ Known(call[c].claim)
        /\ \A t \in call[c].ended : t < call[c].claim

(* What a request meets in its runtime, or got, is no older than its claim. *)
ServedFresh(c) ==
    /\ call[c].pc \in HasRuntime \cup {"rebuild"} => call[c].rt \in Calls
    /\ call[c].pc \in HasRuntime /\ runtime[call[c].rt].access # None
           => runtime[call[c].rt].access[1] >= call[c].claim
    /\ call[c].pc \in {"commit", "esi"} =>
           call[c].got \in Tokens /\ call[c].got[1] >= call[c].claim

(* What the holder of a row, or of a verdict, knows about it.               *)
Holding(c) ==
    /\ HoldsRow(c) => Live(call[c].sid)
    /\ call[c].pc \in {"closure", "ask"} => call[c].row = Stored(call[c].sid)
    /\ call[c].pc = "commit" =>
           /\ call[c].next \in Tokens /\ call[c].next[1] = call[c].sid
           /\ call[c].sid \notin lost => ccp[call[c].sid] = call[c].next[2]
    /\ call[c].pc = "verdict" =>
           /\ call[c].sid \in Sids /\ Known(call[c].sid)
           /\ Live(call[c].sid) => call[c].sid \in lost

Placed(c) == LetIn(c) /\ ServedFresh(c) /\ Holding(c)

(* One holder of a row.                                                     *)
Exclusive ==
    \A c, d \in Calls :
        HoldsRow(c) /\ HoldsRow(d) /\ call[c].sid = call[d].sid => c = d

(* A token on its way into the table.                                       *)
Committing(s) == \E c \in Calls : call[c].pc = "commit" /\ call[c].sid = s

InSync == \A s \in Sids :
    Live(s) /\ s \notin lost /\ ~Committing(s) => ccp[s] = sess[s].ver

GInv ==
    /\ TypeOK
    /\ InOrder /\ FreshRuntimes /\ Exclusive /\ InSync
    /\ \A c \in Calls : Placed(c)
    /\ NoSelfKill

-----------------------------------------------------------------------------
(* What the steps have in common                                            *)

LEMMA ConstantsType ==
    /\ MaxSid \in Nat /\ MaxVer \in Nat /\ MaxFaults \in Nat /\ MaxExpiries \in Nat
    /\ MaxSid >= 1 /\ MaxVer >= 1
    /\ 1 \in Sids /\ Sids \subseteq Nat
BY ConstantsAssumption DEF Sids

(* The calls that a step does not move.                                     *)
Rest(c) == \A d \in Calls \ {c} : call'[d] = call[d]

LEMMA OverType == NewCall \in Call /\ Over \in Call /\ Over.pc = "done" /\ NewCall.pc = "new"
BY ConstantsType DEF NewCall, Over, Call, PCs, Maybe

LEMMA UnbuiltType ==
    ASSUME NEW s \in Sids
    PROVE  /\ [Unbuilt EXCEPT !.sid = s] \in Runtime
           /\ [Unbuilt EXCEPT !.sid = s].sid = s /\ [Unbuilt EXCEPT !.sid = s].access = None
BY ConstantsType DEF Unbuilt, Runtime, Maybe, Sids

LEMMA Moves ==
    ASSUME TypeOK, NEW c \in Calls, NEW new \in Call, call' = [call EXCEPT ![c] = new]
    PROVE  call' \in [Calls -> Call] /\ call'[c] = new /\ Rest(c)
BY DEF TypeOK, Rest

LEMMA GotoMoves ==
    ASSUME TypeOK, NEW c \in Calls, NEW l \in PCs, Goto(c, l)
    PROVE  \E new \in Call :
               /\ call' = [call EXCEPT ![c] = new] /\ new.pc = l
               /\ l # "done" => /\ new.pod = call[c].pod /\ new.claim = call[c].claim
                                /\ new.rt = call[c].rt /\ new.sid = call[c].sid
                                /\ new.expected = call[c].expected /\ new.row = call[c].row
                                /\ new.next = call[c].next /\ new.got = call[c].got
                                /\ new.ended = call[c].ended
<1>1. call[c] \in Call
    BY DEF TypeOK
<1>2. CASE l = "done"
    BY <1>2, OverType DEF Goto
<1>3. CASE l # "done"
    <2>1. PICK new : new = [call[c] EXCEPT !.pc = l]
        OBVIOUS
    <2>2. call' = [call EXCEPT ![c] = new]
        BY <1>3, <2>1 DEF Goto
    <2>3. /\ new \in Call /\ new.pc = l
          /\ new.pod = call[c].pod /\ new.claim = call[c].claim
          /\ new.rt = call[c].rt /\ new.sid = call[c].sid
          /\ new.expected = call[c].expected /\ new.row = call[c].row
          /\ new.next = call[c].next /\ new.got = call[c].got
          /\ new.ended = call[c].ended
        BY <1>1, <2>1 DEF Call
    <2>4. QED
        BY <2>2, <2>3
<1>4. QED
    BY <1>2, <1>3

(* The session of a held row is the last one signed in.                     *)
LEMMA HeldIsLast ==
    ASSUME GInv, NEW c \in Calls, HoldsRow(c)
    PROVE  /\ call[c].sid \in Sids /\ sess[call[c].sid].state = "open"
           /\ \A s \in Sids : Known(s) => s <= call[c].sid
<1>1. Live(call[c].sid)
    BY DEF GInv, Placed, Holding
<1>2. QED
    BY <1>1 DEF GInv, InOrder, Live

(* The calls D that a step leaves alone stay placed, if sessions only move  *)
(* forward, what is new in a runtime is of the last session, and what a     *)
(* holder knows of its row stays true.                                      *)
LEMMA OthersPlaced ==
    ASSUME GInv, NEW D \in SUBSET Calls, \A d \in D : call'[d] = call[d],
           \A s \in Sids : sess[s].state # "none" =>
               /\ sess'[s].state # "none"
               /\ sess'[s].state = "open" => sess[s].state = "open",
           \A r \in Calls : \/ runtime'[r].access \in {runtime[r].access, None}
                            \/ \A s \in Sids : Known(s) => runtime'[r].access[1] >= s,
           \A d \in D : HoldsRow(d) =>
               /\ sess'[call[d].sid] = sess[call[d].sid]
               /\ ccp'[call[d].sid] = ccp[call[d].sid] \/ call[d].sid \in lost',
           lost \subseteq lost'
    PROVE  \A d \in D : Placed(d)'
<1>1. SUFFICES ASSUME NEW d \in D
               PROVE  LetIn(d)' /\ ServedFresh(d)' /\ Holding(d)'
    BY DEF Placed
<1>2. d \in Calls /\ call'[d] = call[d] /\ LetIn(d) /\ ServedFresh(d) /\ Holding(d)
    BY DEF GInv, Placed
<1>3. LetIn(d)'
    BY <1>2 DEF LetIn, Known
<1>4. ServedFresh(d)'
    <2>1. CASE call[d].pc \in HasRuntime
        <3>1. /\ call[d].rt \in Calls /\ call[d].claim \in Sids /\ Known(call[d].claim)
            BY <1>2, <2>1 DEF LetIn, ServedFresh, HasRuntime
        <3>2. runtime'[call[d].rt].access # None
                  => runtime'[call[d].rt].access[1] >= call[d].claim
            BY <1>2, <2>1, <3>1 DEF ServedFresh
        <3>3. QED
            BY <1>2, <3>1, <3>2 DEF ServedFresh
    <2>2. CASE call[d].pc \notin HasRuntime
        BY <1>2, <2>2 DEF ServedFresh, HasRuntime
    <2>3. QED
        BY <2>1, <2>2
<1>5. Holding(d)'
    <2>1. CASE HoldsRow(d)
        <3>1. /\ sess'[call[d].sid] = sess[call[d].sid]
              /\ ccp'[call[d].sid] = ccp[call[d].sid] \/ call[d].sid \in lost'
              /\ call[d].pc \in {"closure", "ask", "commit"}
            BY <2>1 DEF HoldsRow
        <3>2. HoldsRow(d)' => Live(call[d].sid)'
            BY <1>2, <2>1, <3>1 DEF Holding, Live
        <3>3. call[d].pc \in {"closure", "ask"} => call[d].row = Stored(call[d].sid)'
            BY <1>2, <3>1 DEF Holding, Stored
        <3>4. call[d].pc = "commit" =>
                  /\ call[d].next \in Tokens /\ call[d].next[1] = call[d].sid
                  /\ call[d].sid \notin lost' => ccp'[call[d].sid] = call[d].next[2]
            BY <1>2, <3>1 DEF Holding
        <3>5. QED
            BY <1>2, <3>1, <3>2, <3>3, <3>4 DEF Holding
    <2>2. CASE ~HoldsRow(d)
        BY <1>2, <2>2 DEF Holding, HoldsRow, Live, Known
    <2>3. QED
        BY <2>1, <2>2
<1>6. QED
    BY <1>3, <1>4, <1>5

(* A row is taken only when it is free.                                     *)
LEMMA StaysExclusive ==
    ASSUME GInv, NEW c \in Calls, Rest(c),
           call'[c].pc \in {"closure", "ask", "commit"} =>
               \/ HoldsRow(c) /\ call'[c].sid = call[c].sid
               \/ RowFree(call'[c].sid)
    PROVE  Exclusive'
<1>1. SUFFICES ASSUME NEW d \in Calls, NEW e \in Calls, HoldsRow(d)', HoldsRow(e)',
                      call'[d].sid = call'[e].sid
               PROVE  d = e
    BY DEF Exclusive
<1>2. Exclusive
    BY DEF GInv
<1>3. ASSUME NEW x \in Calls, NEW y \in Calls, x # c, y # c, HoldsRow(x)', HoldsRow(y)',
             call'[x].sid = call'[y].sid
      PROVE  x = y
    BY <1>2, <1>3 DEF Exclusive, HoldsRow, Rest
<1>4. ASSUME NEW x \in Calls, x # c, HoldsRow(x)', HoldsRow(c)', call'[x].sid = call'[c].sid
      PROVE  FALSE
    <2>1. HoldsRow(x) /\ call[x].sid = call'[c].sid
        BY <1>4 DEF HoldsRow, Rest
    <2>2. ~RowFree(call'[c].sid)
        BY <2>1 DEF RowFree
    <2>3. HoldsRow(c) /\ call'[c].sid = call[c].sid
        BY <1>4, <2>2 DEF HoldsRow
    <2>4. QED
        BY <1>2, <1>4, <2>1, <2>3 DEF Exclusive
<1>5. QED
    BY <1>1, <1>3, <1>4

(* A step of a call that writes to nothing but itself, and neither begins   *)
(* nor ends a commit.                                                       *)
LEMMA CallStep ==
    ASSUME GInv, NEW c \in Calls, NEW new \in Call, call' = [call EXCEPT ![c] = new],
           UNCHANGED <<sess, ccp, store, runtime, access, faults, expiries, lost, charged>>,
           Placed(c)', call[c].pc # "commit", new.pc # "commit",
           new.pc \in {"closure", "ask"} =>
               (HoldsRow(c) /\ new.sid = call[c].sid) \/ RowFree(new.sid)
    PROVE  GInv'
<1>1. TypeOK
    BY DEF GInv
<1>2. call' \in [Calls -> Call] /\ call'[c] = new /\ Rest(c)
    BY <1>1, Moves
<1>3. TypeOK'
    BY <1>1, <1>2 DEF TypeOK
<1>4. InOrder' /\ FreshRuntimes' /\ NoSelfKill'
    BY DEF GInv, InOrder, FreshRuntimes, NoSelfKill, Live, Known
<1>5. Exclusive'
    BY <1>2, StaysExclusive
<1>6. InSync'
    <2>1. ASSUME NEW s \in Sids
          PROVE  Committing(s)' = Committing(s)
        BY <1>2 DEF Committing, Rest
    <2>2. QED
        BY <2>1 DEF GInv, InSync, Live
<1>7. \A d \in Calls \ {c} : Placed(d)'
    BY <1>2, OthersPlaced DEF Rest
<1>8. QED
    BY <1>3, <1>4, <1>5, <1>6, <1>7 DEF GInv

-----------------------------------------------------------------------------
(* The bearer check and the runtime                                         *)

(* Whoever is let in finds an open session, the last; all that have ended   *)
(* came before it.                                                          *)
LEMMA RequireLiveKeeps ==
    ASSUME GInv, NEW c \in Calls, RequireLive(c)
    PROVE  GInv'
<1>1. PICK p \in Pods, s \in Sids :
          /\ call[c].pc = "new"
          /\ Live(s)
          /\ call' = [call EXCEPT ![c] =
               [@ EXCEPT !.pc = "load", !.pod = p, !.claim = s,
                         !.ended = {t \in Sids : sess[t].state = "revoked"}]]
          /\ UNCHANGED <<sess, ccp, store, runtime, access, Clock, History>>
    BY Zenon DEF RequireLive
<1>2. PICK E : E = {t \in Sids : sess[t].state = "revoked"}
    OBVIOUS
<1>3. E \subseteq Sids /\ \A t \in E : t < s
    <2>1. \A t \in E : t <= s /\ t # s
        BY <1>1, <1>2 DEF GInv, InOrder, Live, Known
    <2>2. QED
        BY <1>2, <2>1, ConstantsType
<1>4. PICK new : new = [call[c] EXCEPT !.pc = "load", !.pod = p, !.claim = s, !.ended = E]
    OBVIOUS
<1>5. TypeOK /\ call[c] \in Call
    BY DEF GInv, TypeOK
<1>6. s \in 0 .. MaxSid
    BY DEF Sids
<1>7. /\ new \in Call /\ new.pc = "load" /\ new.pod = p /\ new.claim = s /\ new.ended = E
    BY <1>3, <1>4, <1>5, <1>6 DEF Call, PCs, Maybe
<1>8. call' = [call EXCEPT ![c] = new]
    BY <1>1, <1>2, <1>4
<1>9. call'[c] = new
    BY <1>5, <1>7, <1>8, Moves
<1>10. UNCHANGED <<sess, ccp, store, runtime, access, faults, expiries, lost, charged>>
    BY <1>1 DEF Clock, History
<1>11. Placed(c)'
    <2>1. LetIn(c)'
        BY <1>1, <1>3, <1>7, <1>9, <1>10 DEF LetIn, Known, Live
    <2>2. ServedFresh(c)' /\ Holding(c)'
        BY <1>7, <1>9 DEF ServedFresh, Holding, HoldsRow, HasRuntime
    <2>3. QED
        BY <2>1, <2>2 DEF Placed
<1>12. QED
    BY <1>1, <1>7, <1>8, <1>10, <1>11, CallStep

LEMMA LoadRuntimeKeeps ==
    ASSUME GInv, NEW c \in Calls, LoadRuntime(c)
    PROVE  GInv'
<1>1. TypeOK /\ call[c] \in Call /\ call[c].pc = "load" /\ LetIn(c)
    BY DEF GInv, TypeOK, LoadRuntime, Placed
<1>2. PICK rt : rt = store[call[c].pod]
    OBVIOUS
<1>3. rt \in Maybe(Calls)
    BY <1>1, <1>2 DEF TypeOK, LetIn
<1>4. PICK l \in {"store", "rebuild", "character"} :
          l = IF rt = None THEN "store"
              ELSE IF runtime[rt].sid # call[c].claim THEN "rebuild" ELSE "character"
    OBVIOUS
<1>5. PICK new : new = [call[c] EXCEPT !.rt = rt, !.pc = l]
    OBVIOUS
<1>6. /\ new \in Call /\ new.pc = l /\ new.rt = rt /\ new.pod = call[c].pod
      /\ new.claim = call[c].claim /\ new.ended = call[c].ended
    BY <1>1, <1>3, <1>5 DEF Call, PCs
<1>7. /\ call' = [call EXCEPT ![c] = new]
      /\ UNCHANGED <<sess, ccp, store, runtime, access, faults, expiries, lost, charged>>
    BY <1>2, <1>4, <1>5 DEF LoadRuntime, Clock, History
<1>8. call'[c] = new
    BY <1>1, <1>6, <1>7, Moves
<1>9. LetIn(c)'
    BY <1>1, <1>6, <1>7, <1>8 DEF LetIn, Known
<1>10. ServedFresh(c)'
    <2>1. l # "store" => rt \in Calls
        BY <1>3, <1>4 DEF Maybe
    <2>2. l = "character" => runtime[rt].sid = call[c].claim
        BY <1>4
    <2>3. l = "character" /\ runtime[rt].access # None
              => runtime[rt].access[1] >= call[c].claim
        BY <2>1, <2>2 DEF GInv, FreshRuntimes
    <2>4. QED
        BY <1>6, <1>7, <1>8, <2>1, <2>3 DEF ServedFresh, HasRuntime
<1>11. Holding(c)'
    BY <1>6, <1>8 DEF Holding, HoldsRow
<1>12. QED
    BY <1>1, <1>6, <1>7, <1>9, <1>10, <1>11, CallStep DEF Placed

(* A runtime that is built anew has no token.                               *)
LEMMA BuildKeeps ==
    ASSUME GInv, NEW c \in Calls, NEW r \in Calls, NEW new \in Call,
           call[c].pc \in {"rebuild", "store"},
           runtime' = [runtime EXCEPT ![r] = [Unbuilt EXCEPT !.sid = call[c].claim]],
           call' = [call EXCEPT ![c] = new],
           new.pc = "character", new.rt = r, new.pod = call[c].pod,
           new.claim = call[c].claim, new.ended = call[c].ended,
           store' \in [Pods -> Maybe(Calls)],
           UNCHANGED <<sess, ccp, access, faults, expiries, lost, charged>>
    PROVE  GInv'
<1>1. TypeOK /\ LetIn(c)
    BY DEF GInv, Placed
<1>2. call[c].claim \in Sids /\ Known(call[c].claim)
    BY <1>1 DEF LetIn
<1>3. PICK b \in Runtime : /\ b = [Unbuilt EXCEPT !.sid = call[c].claim]
                           /\ b.sid = call[c].claim /\ b.access = None
    BY <1>2, UnbuiltType
<1>4. /\ runtime' \in [Calls -> Runtime] /\ runtime'[r] = b
      /\ \A q \in Calls \ {r} : runtime'[q] = runtime[q]
    BY <1>1, <1>3 DEF TypeOK
<1>5. call' \in [Calls -> Call] /\ call'[c] = new /\ Rest(c)
    BY <1>1, Moves
<1>6. TypeOK'
    BY <1>1, <1>4, <1>5 DEF TypeOK
<1>7. InOrder' /\ NoSelfKill'
    BY DEF GInv, InOrder, NoSelfKill, Live, Known
<1>8. FreshRuntimes'
    BY <1>2, <1>3, <1>4 DEF GInv, FreshRuntimes, Known
<1>9. Exclusive'
    BY <1>5, StaysExclusive
<1>10. InSync'
    <2>1. ASSUME NEW s \in Sids
          PROVE  Committing(s)' = Committing(s)
        BY <1>5 DEF Committing, Rest
    <2>2. QED
        BY <2>1 DEF GInv, InSync, Live
<1>11. \A d \in Calls \ {c} : Placed(d)'
    BY <1>3, <1>4, <1>5, OthersPlaced DEF Rest
<1>12. Placed(c)'
    <2>1. LetIn(c)'
        BY <1>1, <1>5 DEF LetIn, Known
    <2>2. ServedFresh(c)' /\ Holding(c)'
        BY <1>3, <1>4, <1>5 DEF ServedFresh, Holding, HoldsRow, HasRuntime
    <2>3. QED
        BY <2>1, <2>2 DEF Placed
<1>13. QED
    BY <1>6, <1>7, <1>8, <1>9, <1>10, <1>11, <1>12 DEF GInv

LEMMA StoreRuntimeKeeps ==
    ASSUME GInv, NEW c \in Calls, StoreRuntime(c)
    PROVE  GInv'
<1>1. TypeOK /\ call[c] \in Call /\ call[c].pc = "store"
    BY DEF GInv, TypeOK, StoreRuntime
<1>2. PICK new : new = [call[c] EXCEPT !.rt = c, !.pc = "character"]
    OBVIOUS
<1>3. /\ new \in Call /\ new.pc = "character" /\ new.rt = c /\ new.pod = call[c].pod
      /\ new.claim = call[c].claim /\ new.ended = call[c].ended
    BY <1>1, <1>2 DEF Call, PCs, Maybe
<1>4. /\ call' = [call EXCEPT ![c] = new]
      /\ runtime' = [runtime EXCEPT ![c] = [Unbuilt EXCEPT !.sid = call[c].claim]]
      /\ store' = [store EXCEPT ![call[c].pod] = c]
      /\ UNCHANGED <<sess, ccp, access, faults, expiries, lost, charged>>
    BY <1>2 DEF StoreRuntime, Clock, History
<1>5. store' \in [Pods -> Maybe(Calls)]
    BY <1>1, <1>4 DEF TypeOK, Maybe
<1>6. QED
    BY <1>1, <1>3, <1>4, <1>5, BuildKeeps

LEMMA RebuildGrantKeeps ==
    ASSUME GInv, NEW c \in Calls, RebuildGrant(c)
    PROVE  GInv'
<1>1. TypeOK /\ call[c].pc = "rebuild" /\ call[c].rt \in Calls
    BY DEF GInv, RebuildGrant, Placed, ServedFresh
<1>2. PICK new \in Call :
          /\ call' = [call EXCEPT ![c] = new] /\ new.pc = "character" /\ new.rt = call[c].rt
          /\ new.pod = call[c].pod /\ new.claim = call[c].claim /\ new.ended = call[c].ended
    BY <1>1, GotoMoves DEF RebuildGrant, PCs
<1>3. /\ runtime' = [runtime EXCEPT ![call[c].rt] = [Unbuilt EXCEPT !.sid = call[c].claim]]
      /\ UNCHANGED <<sess, ccp, store, access, faults, expiries, lost, charged>>
    BY DEF RebuildGrant, Clock, History
<1>4. store' \in [Pods -> Maybe(Calls)]
    BY <1>1, <1>3 DEF TypeOK
<1>5. QED
    BY <1>1, <1>2, <1>3, <1>4, BuildKeeps

-----------------------------------------------------------------------------
(* The steps up to the closure                                              *)

(* A request moves on with what it has, or ends.                            *)
LEMMA MovesOn ==
    ASSUME GInv, NEW c \in Calls, NEW new \in Call, call' = [call EXCEPT ![c] = new],
           UNCHANGED <<sess, ccp, store, runtime, access, faults, expiries, lost, charged>>,
           call[c].pc \in {"character", "access", "peek", "lock"},
           new.pc \in {"access", "peek", "lock"},
           new.pod = call[c].pod, new.claim = call[c].claim, new.ended = call[c].ended,
           new.rt = call[c].rt
    PROVE  GInv'
<1>1. TypeOK /\ LetIn(c) /\ ServedFresh(c)
    BY DEF GInv, Placed
<1>2. call'[c] = new
    BY <1>1, Moves
<1>3. LetIn(c)' /\ ServedFresh(c)' /\ Holding(c)'
    BY <1>1, <1>2 DEF LetIn, ServedFresh, Holding, HoldsRow, HasRuntime, Known
<1>4. QED
    BY <1>3, CallStep DEF Placed

LEMMA Ends ==
    ASSUME GInv, NEW c \in Calls, Goto(c, "done"), call[c].pc # "commit",
           UNCHANGED <<sess, ccp, store, runtime, access, faults, expiries, lost, charged>>
    PROVE  GInv'
<1>1. TypeOK
    BY DEF GInv
<1>2. PICK new \in Call : call' = [call EXCEPT ![c] = new] /\ new.pc = "done"
    BY <1>1, GotoMoves DEF PCs
<1>3. call'[c] = new
    BY <1>1, <1>2, Moves
<1>4. Placed(c)'
    BY <1>2, <1>3 DEF Placed, LetIn, ServedFresh, Holding, HoldsRow, HasRuntime
<1>5. QED
    BY <1>2, <1>4, CallStep

LEMMA CharacterKeeps ==
    ASSUME GInv, NEW c \in Calls, Character(c)
    PROVE  GInv'
<1>1. /\ TypeOK /\ call[c].pc = "character"
      /\ UNCHANGED <<sess, ccp, store, runtime, access, faults, expiries, lost, charged>>
    BY DEF GInv, Character, Clock, History
<1>2. CASE Live(runtime[call[c].rt].sid)
    <2>1. Goto(c, "access")
        BY <1>2 DEF Character
    <2>2. PICK new \in Call :
              /\ call' = [call EXCEPT ![c] = new] /\ new.pc = "access" /\ new.rt = call[c].rt
              /\ new.pod = call[c].pod /\ new.claim = call[c].claim /\ new.ended = call[c].ended
        BY <1>1, <2>1, GotoMoves DEF PCs
    <2>3. QED
        BY <1>1, <2>2, MovesOn
<1>3. CASE ~Live(runtime[call[c].rt].sid)
    BY <1>1, <1>3, Ends DEF Character
<1>4. QED
    BY <1>2, <1>3

LEMMA BeginAccessKeeps ==
    ASSUME GInv, NEW c \in Calls, BeginAccess(c)
    PROVE  GInv'
<1>1. /\ TypeOK /\ call[c] \in Call /\ call[c].pc = "access" /\ call[c].rt \in Calls
      /\ LetIn(c) /\ ServedFresh(c)
      /\ UNCHANGED <<sess, ccp, store, runtime, access, faults, expiries, lost, charged>>
    BY DEF GInv, TypeOK, BeginAccess, Placed, ServedFresh, HasRuntime, Clock, History
<1>2. PICK g : g = runtime[call[c].rt]
    OBVIOUS
<1>3. g \in Runtime
    BY <1>1, <1>2 DEF TypeOK
<1>4. CASE g.access # None
    <2>1. PICK new : new = [call[c] EXCEPT !.sid = g.sid, !.got = g.access, !.pc = "esi"]
        OBVIOUS
    <2>2. call' = [call EXCEPT ![c] = new]
        BY <1>2, <1>4, <2>1 DEF BeginAccess
    <2>3. /\ new \in Call /\ new.pc = "esi" /\ new.rt = call[c].rt /\ new.got = g.access
          /\ new.pod = call[c].pod /\ new.claim = call[c].claim /\ new.ended = call[c].ended
        BY <1>1, <1>3, <2>1 DEF Call, Runtime, PCs
    <2>4. call'[c] = new
        BY <1>1, <2>2, <2>3, Moves
    <2>5. g.access \in Tokens /\ g.access[1] >= call[c].claim
        BY <1>1, <1>2, <1>3, <1>4 DEF Runtime, Maybe, ServedFresh, HasRuntime
    <2>6. LetIn(c)' /\ ServedFresh(c)' /\ Holding(c)'
        BY <1>1, <2>3, <2>4, <2>5 DEF LetIn, ServedFresh, Holding, HoldsRow, HasRuntime, Known
    <2>7. QED
        BY <1>1, <2>2, <2>3, <2>6, CallStep DEF Placed
<1>5. CASE g.access = None
    <2>1. PICK l \in {"peek", "lock"} : l = IF g.refresh = None THEN "peek" ELSE "lock"
        OBVIOUS
    <2>2. PICK new : new = [call[c] EXCEPT !.sid = g.sid, !.expected = g.refresh, !.pc = l]
        OBVIOUS
    <2>3. call' = [call EXCEPT ![c] = new]
        BY <1>2, <1>5, <2>1, <2>2 DEF BeginAccess
    <2>4. /\ new \in Call /\ new.pc = l /\ new.rt = call[c].rt
          /\ new.pod = call[c].pod /\ new.claim = call[c].claim /\ new.ended = call[c].ended
        BY <1>1, <1>3, <2>2 DEF Call, Runtime, PCs
    <2>5. QED
        BY <1>1, <2>3, <2>4, MovesOn
<1>6. QED
    BY <1>4, <1>5

LEMMA StoredType ==
    ASSUME GInv, NEW s, Live(s)
    PROVE  Stored(s) \in Tokens /\ Stored(s)[1] = s /\ Stored(s)[2] = sess[s].ver
<1>1. s \in Sids /\ sess[s].ver \in 1 .. MaxVer
    BY DEF GInv, InOrder, Live
<1>2. QED
    BY <1>1 DEF Stored, Tokens

LEMMA PeekRowKeeps ==
    ASSUME GInv, NEW c \in Calls, PeekRow(c)
    PROVE  GInv'
<1>1. /\ TypeOK /\ call[c] \in Call /\ call[c].pc = "peek"
      /\ UNCHANGED <<sess, ccp, store, runtime, access, faults, expiries, lost, charged>>
    BY DEF GInv, TypeOK, PeekRow, Clock, History
<1>2. PICK x \in Maybe(Tokens) : x = IF Live(call[c].sid) THEN Stored(call[c].sid) ELSE None
    BY StoredType DEF Maybe
<1>3. PICK new : new = [call[c] EXCEPT !.pc = "lock", !.expected = x]
    OBVIOUS
<1>4. call' = [call EXCEPT ![c] = new]
    BY <1>2, <1>3 DEF PeekRow
<1>5. /\ new \in Call /\ new.pc = "lock" /\ new.rt = call[c].rt
      /\ new.pod = call[c].pod /\ new.claim = call[c].claim /\ new.ended = call[c].ended
    BY <1>1, <1>3 DEF Call, PCs
<1>6. QED
    BY <1>1, <1>4, <1>5, MovesOn

LEMMA LockRowKeeps ==
    ASSUME GInv, NEW c \in Calls, LockRow(c)
    PROVE  GInv'
<1>1. /\ TypeOK /\ call[c] \in Call /\ call[c].pc = "lock" /\ RowFree(call[c].sid)
      /\ LetIn(c) /\ ServedFresh(c)
      /\ UNCHANGED <<sess, ccp, store, runtime, access, faults, expiries, lost, charged>>
    BY DEF GInv, TypeOK, LockRow, Placed, Clock, History
<1>2. CASE ~Live(call[c].sid)
    BY <1>1, <1>2, Ends DEF LockRow
<1>3. CASE Live(call[c].sid)
    <2>1. PICK x \in Tokens : x = Stored(call[c].sid)
        BY <1>3, StoredType
    <2>2. PICK new : new = [call[c] EXCEPT !.pc = "closure", !.row = x]
        OBVIOUS
    <2>3. call' = [call EXCEPT ![c] = new]
        BY <1>3, <2>1, <2>2 DEF LockRow
    <2>4. /\ new \in Call /\ new.pc = "closure" /\ new.rt = call[c].rt /\ new.row = x
          /\ new.sid = call[c].sid
          /\ new.pod = call[c].pod /\ new.claim = call[c].claim /\ new.ended = call[c].ended
        BY <1>1, <2>2 DEF Call, PCs, Maybe
    <2>5. call'[c] = new
        BY <1>1, <2>3, <2>4, Moves
    <2>6. LetIn(c)' /\ ServedFresh(c)'
        BY <1>1, <2>4, <2>5 DEF LetIn, ServedFresh, HasRuntime, Known
    <2>7. Holding(c)'
        BY <1>1, <1>3, <2>1, <2>4, <2>5 DEF Holding, HoldsRow, Live, Stored
    <2>8. QED
        BY <1>1, <2>3, <2>4, <2>6, <2>7, CallStep DEF Placed
<1>4. QED
    BY <1>2, <1>3

LEMMA CallESIKeeps ==
    ASSUME GInv, NEW c \in Calls, CallESI(c)
    PROVE  GInv'
<1>1. /\ call[c].pc = "esi" /\ Goto(c, "done")
      /\ UNCHANGED <<sess, ccp, store, runtime, access, faults, expiries, lost, charged>>
    BY DEF CallESI, Clock, History
<1>2. QED
    BY <1>1, Ends

-----------------------------------------------------------------------------
(* Under the row's lock                                                     *)

(* While a holder has not asked CCP yet, the stored token is the accepted   *)
(* one, unless a fault parted the two.                                      *)
LEMMA HolderInSync ==
    ASSUME GInv, NEW c \in Calls, call[c].pc \in {"closure", "ask"}
    PROVE  /\ HoldsRow(c) /\ Live(call[c].sid)
           /\ call[c].row \in Tokens /\ call[c].row[1] = call[c].sid
           /\ call[c].row[2] = sess[call[c].sid].ver
           /\ call[c].sid \notin lost => ccp[call[c].sid] = call[c].row[2]
<1>1. /\ HoldsRow(c) /\ Live(call[c].sid) /\ call[c].row = Stored(call[c].sid)
    BY DEF GInv, Placed, Holding, HoldsRow
<1>2. call[c].row \in Tokens /\ call[c].row[1] = call[c].sid
      /\ call[c].row[2] = sess[call[c].sid].ver
    BY <1>1, StoredType
<1>3. ~Committing(call[c].sid)
    BY <1>1 DEF GInv, Exclusive, Committing, HoldsRow
<1>4. QED
    BY <1>1, <1>2, <1>3 DEF GInv, InSync, Live

(* A holder has a token, from CCP or from a cache, and will commit it.      *)
LEMMA GrantKeeps ==
    ASSUME GInv, NEW c \in Calls, NEW new \in Call, NEW t \in Tokens, NEW got \in Tokens,
           call[c].pc \in {"closure", "ask"}, call' = [call EXCEPT ![c] = new],
           new.pc = "commit", new.next = t, new.got = got,
           new.pod = call[c].pod, new.claim = call[c].claim, new.ended = call[c].ended,
           new.rt = call[c].rt, new.sid = call[c].sid, t[1] = call[c].sid,
           got[1] = call[c].sid \/ (got = runtime[call[c].rt].access /\ got # None),
           SetGrant(c, t, got),
           ccp' \in [Sids -> 0 .. MaxVer], access' \in [Pods -> SUBSET Tokens],
           \A s \in Sids \ {call[c].sid} : ccp'[s] = ccp[s],
           call[c].sid \notin lost => ccp'[call[c].sid] = t[2],
           UNCHANGED <<sess, store, faults, expiries, lost, charged>>
    PROVE  GInv'
<1>1. /\ TypeOK /\ LetIn(c) /\ ServedFresh(c) /\ HoldsRow(c) /\ Live(call[c].sid)
      /\ call[c].rt \in Calls
    BY HolderInSync DEF GInv, Placed, ServedFresh, HasRuntime
<1>2. call' \in [Calls -> Call] /\ call'[c] = new /\ Rest(c)
    BY <1>1, Moves
<1>3. PICK r \in Calls : r = call[c].rt
    BY <1>1
<1>4. runtime[r] \in Runtime
    BY <1>1 DEF TypeOK
<1>5. PICK b : b = [runtime[r] EXCEPT !.refresh = t, !.access = got]
    OBVIOUS
<1>6. b \in Runtime /\ b.sid = runtime[r].sid /\ b.access = got
    BY <1>4, <1>5 DEF Runtime, Maybe
<1>7. runtime' = [runtime EXCEPT ![r] = b]
    BY <1>3, <1>5 DEF SetGrant
<1>8. /\ runtime' \in [Calls -> Runtime] /\ runtime'[r] = b
      /\ \A q \in Calls \ {r} : runtime'[q] = runtime[q]
    BY <1>1, <1>6, <1>7 DEF TypeOK
<1>9. TypeOK'
    BY <1>1, <1>2, <1>8 DEF TypeOK
<1>10. InOrder' /\ NoSelfKill'
    BY DEF GInv, InOrder, NoSelfKill, Live, Known
<1>11. /\ \A s \in Sids : Known(s) => s <= call[c].sid
       /\ call[c].sid \in Sids
    BY <1>1, HeldIsLast
<1>12. got = runtime[r].access \/ \A s \in Sids : Known(s) => got[1] >= s
    BY <1>3, <1>11
<1>13. FreshRuntimes'
    <2>1. ASSUME NEW q \in Calls
          PROVE  /\ runtime'[q].sid \in Sids => sess'[runtime'[q].sid].state # "none"
                 /\ runtime'[q].access # None => runtime'[q].access[1] >= runtime'[q].sid
        <3>1. CASE q # r
            BY <1>8, <3>1 DEF GInv, FreshRuntimes, Known
        <3>2. CASE q = r
            <4>1. runtime'[q].sid = runtime[r].sid /\ runtime'[q].access = got
                BY <1>6, <1>8, <3>2
            <4>2. /\ runtime[r].sid \in Sids => Known(runtime[r].sid)
                  /\ runtime[r].access # None => runtime[r].access[1] >= runtime[r].sid
                BY DEF GInv, FreshRuntimes
            <4>3. CASE got = runtime[r].access
                BY <4>1, <4>2, <4>3 DEF Known
            <4>4. CASE got[1] = call[c].sid
                <5>1. runtime[r].sid \in 0 .. MaxSid
                    BY <1>4 DEF Runtime
                <5>2. runtime[r].sid = 0 \/ runtime[r].sid \in Sids
                    BY <5>1, ConstantsType DEF Sids
                <5>3. call[c].sid >= runtime[r].sid
                    BY <1>11, <4>2, <5>2, ConstantsType
                <5>4. QED
                    BY <4>1, <4>2, <4>4, <5>3 DEF Known
            <4>5. QED
                BY <1>3, <4>3, <4>4
        <3>3. QED
            BY <3>1, <3>2
    <2>2. QED
        BY <2>1 DEF FreshRuntimes, Known
<1>14. Exclusive'
    BY <1>1, <1>2, StaysExclusive
<1>15. InSync'
    <2>1. ASSUME NEW s \in Sids, s # call[c].sid
          PROVE  (Committing(s)' <=> Committing(s)) /\ ccp'[s] = ccp[s]
        BY <1>1, <1>2, <2>1 DEF Committing, Rest
    <2>2. Committing(call[c].sid)'
        BY <1>2 DEF Committing
    <2>3. QED
        BY <2>1, <2>2 DEF GInv, InSync, Live
<1>16. \A d \in Calls \ {c} : Placed(d)'
    <2>1. \A q \in Calls : \/ runtime'[q].access \in {runtime[q].access, None}
                           \/ \A s \in Sids : Known(s) => runtime'[q].access[1] >= s
        BY <1>6, <1>8, <1>12
    <2>2. \A d \in Calls \ {c} : HoldsRow(d) => ccp'[call[d].sid] = ccp[call[d].sid]
        <3>1. ASSUME NEW d \in Calls \ {c}, HoldsRow(d)
              PROVE  ccp'[call[d].sid] = ccp[call[d].sid]
            <4>1. call[d].sid # call[c].sid
                BY <1>1, <3>1 DEF GInv, Exclusive
            <4>2. call[d].sid \in Sids
                BY <3>1, HeldIsLast
            <4>3. QED
                BY <4>1, <4>2
        <3>2. QED
            BY <3>1
    <2>3. QED
        BY <1>2, <2>1, <2>2, OthersPlaced DEF Rest
<1>17. Placed(c)'
    <2>1. LetIn(c)'
        BY <1>1, <1>2 DEF LetIn, Known
    <2>2. got[1] >= call[c].claim
        <3>1. call[c].claim \in Sids /\ Known(call[c].claim)
            BY <1>1 DEF LetIn
        <3>2. CASE got[1] = call[c].sid
            BY <1>11, <3>1, <3>2
        <3>3. CASE got = runtime[r].access /\ got # None
            <4>1. runtime[r].access # None => runtime[r].access[1] >= call[c].claim
                BY <1>1, <1>3 DEF ServedFresh, HasRuntime
            <4>2. QED
                BY <3>3, <4>1
        <3>4. QED
            BY <1>3, <3>2, <3>3
    <2>3. ServedFresh(c)'
        BY <1>1, <1>2, <1>3, <1>6, <1>8, <2>2 DEF ServedFresh
    <2>4. Holding(c)'
        BY <1>1, <1>2 DEF Holding, HoldsRow, Live
    <2>5. QED
        BY <2>1, <2>3, <2>4 DEF Placed
<1>18. QED
    BY <1>9, <1>10, <1>13, <1>14, <1>15, <1>16, <1>17 DEF GInv

LEMMA EnterClosureKeeps ==
    ASSUME GInv, NEW c \in Calls, EnterClosure(c)
    PROVE  GInv'
<1>1. /\ TypeOK /\ call[c] \in Call /\ call[c].pc = "closure"
      /\ LetIn(c) /\ ServedFresh(c) /\ Holding(c) /\ call[c].rt \in Calls
      /\ UNCHANGED <<sess, ccp, store, access, faults, expiries, lost, charged>>
    BY DEF GInv, TypeOK, EnterClosure, Placed, ServedFresh, HasRuntime, Clock, History
<1>2. /\ HoldsRow(c) /\ Live(call[c].sid)
      /\ call[c].row \in Tokens /\ call[c].row[1] = call[c].sid
      /\ call[c].sid \notin lost => ccp[call[c].sid] = call[c].row[2]
    BY <1>1, HolderInSync
<1>3. PICK g : g = runtime[call[c].rt]
    OBVIOUS
<1>4. g \in Runtime /\ ccp' \in [Sids -> 0 .. MaxVer] /\ access' \in [Pods -> SUBSET Tokens]
    BY <1>1, <1>3 DEF TypeOK
<1>5. PICK rotated \in BOOLEAN :
          rotated <=> (call[c].expected # None /\ call[c].row # call[c].expected)
    OBVIOUS
<1>6. CASE /\ rotated /\ g.access # None
           /\ SetGrant(c, call[c].row, g.access)
           /\ call' = [call EXCEPT ![c] =
                [call[c] EXCEPT !.pc = "commit", !.next = call[c].row, !.got = g.access]]
    <2>1. PICK new : new = [call[c] EXCEPT !.pc = "commit", !.next = call[c].row,
                                           !.got = g.access]
        OBVIOUS
    <2>2. g.access \in Tokens
        BY <1>4, <1>6 DEF Runtime, Maybe
    <2>3. /\ new \in Call /\ new.pc = "commit" /\ new.next = call[c].row /\ new.got = g.access
          /\ new.pod = call[c].pod /\ new.claim = call[c].claim /\ new.ended = call[c].ended
          /\ new.rt = call[c].rt /\ new.sid = call[c].sid
        BY <1>1, <1>2, <2>1, <2>2 DEF Call, PCs, Maybe
    <2>4. call' = [call EXCEPT ![c] = new]
        BY <1>6, <2>1
    <2>5. QED
        BY <1>1, <1>2, <1>3, <1>4, <1>6, <2>2, <2>3, <2>4, GrantKeeps
<1>7. CASE /\ SetGrant(c, call[c].row, call[c].row)
           /\ call' = [call EXCEPT ![c] =
                [call[c] EXCEPT !.pc = "commit", !.next = call[c].row, !.got = call[c].row]]
    <2>1. PICK new : new = [call[c] EXCEPT !.pc = "commit", !.next = call[c].row,
                                           !.got = call[c].row]
        OBVIOUS
    <2>2. /\ new \in Call /\ new.pc = "commit" /\ new.next = call[c].row
          /\ new.got = call[c].row
          /\ new.pod = call[c].pod /\ new.claim = call[c].claim /\ new.ended = call[c].ended
          /\ new.rt = call[c].rt /\ new.sid = call[c].sid
        BY <1>1, <1>2, <2>1 DEF Call, PCs, Maybe
    <2>3. call' = [call EXCEPT ![c] = new]
        BY <1>7, <2>1
    <2>4. QED
        BY <1>1, <1>2, <1>4, <1>7, <2>2, <2>3, GrantKeeps
<1>8. CASE /\ runtime' = [runtime EXCEPT ![call[c].rt].refresh = IF rotated THEN call[c].row
                                                                 ELSE @]
           /\ Goto(c, "ask")
    <2>1. PICK new \in Call :
              /\ call' = [call EXCEPT ![c] = new] /\ new.pc = "ask" /\ new.rt = call[c].rt
              /\ new.pod = call[c].pod /\ new.claim = call[c].claim /\ new.ended = call[c].ended
              /\ new.sid = call[c].sid /\ new.row = call[c].row
        BY <1>1, <1>8, GotoMoves DEF PCs
    <2>2. call' \in [Calls -> Call] /\ call'[c] = new /\ Rest(c)
        BY <1>1, <2>1, Moves
    <2>3. PICK x \in Maybe(Tokens) : x = IF rotated THEN call[c].row ELSE g.refresh
        BY <1>2, <1>4 DEF Runtime, Maybe
    <2>4. PICK b : b = [g EXCEPT !.refresh = x]
        OBVIOUS
    <2>5. b \in Runtime /\ b.sid = g.sid /\ b.access = g.access
        BY <1>4, <2>4 DEF Runtime
    <2>6. runtime' = [runtime EXCEPT ![call[c].rt] = b]
        BY <1>3, <1>8, <2>3, <2>4
    <2>7. /\ runtime' \in [Calls -> Runtime]
          /\ \A r \in Calls : /\ runtime'[r].sid = runtime[r].sid
                              /\ runtime'[r].access = runtime[r].access
        BY <1>1, <1>3, <2>5, <2>6 DEF TypeOK
    <2>8. TypeOK'
        BY <1>1, <2>2, <2>7 DEF TypeOK
    <2>9. InOrder' /\ NoSelfKill'
        BY <1>1 DEF GInv, InOrder, NoSelfKill, Live, Known
    <2>10. FreshRuntimes'
        BY <1>1, <2>7 DEF GInv, FreshRuntimes, Known
    <2>11. Exclusive'
        BY <1>2, <2>1, <2>2, StaysExclusive
    <2>12. InSync'
        <3>1. ASSUME NEW s \in Sids
              PROVE  Committing(s)' = Committing(s)
            BY <1>1, <2>1, <2>2 DEF Committing, Rest
        <3>2. QED
            BY <1>1, <3>1 DEF GInv, InSync, Live
    <2>13. \A d \in Calls \ {c} : Placed(d)'
        BY <1>1, <2>2, <2>7, OthersPlaced DEF Rest
    <2>14. Placed(c)'
        <3>1. LetIn(c)'
            BY <1>1, <2>1, <2>2 DEF LetIn, Known
        <3>2. ServedFresh(c)'
            BY <1>1, <2>1, <2>2, <2>7 DEF ServedFresh, HasRuntime
        <3>3. Holding(c)'
            BY <1>1, <1>2, <2>1, <2>2 DEF Holding, HoldsRow, Live, Stored
        <3>4. QED
            BY <3>1, <3>2, <3>3 DEF Placed
    <2>15. QED
        BY <2>8, <2>9, <2>10, <2>11, <2>12, <2>13, <2>14 DEF GInv
<1>9. QED
    BY <1>3, <1>5, <1>6, <1>7, <1>8 DEF EnterClosure

(* CCP's answer: the stream's new version, in the cache, in the runtime and *)
(* on its way into the table.                                               *)
LEMMA RefreshGrantedKeeps ==
    ASSUME GInv, NEW c \in Calls, RefreshGranted(c)
    PROVE  GInv'
<1>1. PICK v \in 1 .. MaxVer :
          LET k == call[c]
              nt == <<k.sid, v>>
          IN  /\ k.pc = "ask"
              /\ ccp' = [ccp EXCEPT ![k.sid] = v]
              /\ access' = [access EXCEPT ![k.pod] = (@ \ {k.row}) \cup {nt}]
              /\ SetGrant(c, nt, nt)
              /\ call' = [call EXCEPT ![c] =
                   [@ EXCEPT !.pc = "commit", !.next = nt, !.got = nt]]
              /\ UNCHANGED <<sess, store, Clock, History>>
    BY Zenon DEF RefreshGranted
<1>2. /\ TypeOK /\ call[c] \in Call /\ call[c].pc = "ask" /\ call[c].sid \in Sids
    BY <1>1, HolderInSync DEF GInv, TypeOK, Live
<1>3. PICK t \in Tokens : t = <<call[c].sid, v>>
    BY <1>2 DEF Tokens
<1>4. t[1] = call[c].sid /\ t[2] = v
    BY <1>3
<1>5. /\ ccp' = [ccp EXCEPT ![call[c].sid] = v]
      /\ access' = [access EXCEPT ![call[c].pod] = (@ \ {call[c].row}) \cup {t}]
      /\ SetGrant(c, t, t)
      /\ call' = [call EXCEPT ![c] = [call[c] EXCEPT !.pc = "commit", !.next = t, !.got = t]]
      /\ UNCHANGED <<sess, store, faults, expiries, lost, charged>>
    BY <1>1, <1>3 DEF Clock, History
<1>6. PICK new : new = [call[c] EXCEPT !.pc = "commit", !.next = t, !.got = t]
    OBVIOUS
<1>7. /\ new \in Call /\ new.pc = "commit" /\ new.next = t /\ new.got = t
      /\ new.pod = call[c].pod /\ new.claim = call[c].claim /\ new.ended = call[c].ended
      /\ new.rt = call[c].rt /\ new.sid = call[c].sid
    BY <1>2, <1>6 DEF Call, PCs, Maybe
<1>8. call' = [call EXCEPT ![c] = new]
    BY <1>5, <1>6
<1>9. v \in 0 .. MaxVer
    BY ConstantsType
<1>10. ccp' \in [Sids -> 0 .. MaxVer] /\ access' \in [Pods -> SUBSET Tokens]
    BY <1>2, <1>5, <1>9 DEF TypeOK
<1>11. ccp'[call[c].sid] = t[2] /\ \A s \in Sids \ {call[c].sid} : ccp'[s] = ccp[s]
    BY <1>2, <1>4, <1>5 DEF TypeOK
<1>12. QED
    BY <1>2, <1>4, <1>5, <1>7, <1>8, <1>10, <1>11, GrantKeeps

(* A row is let go with nothing written: what the table has is what CCP     *)
(* accepts, or the loss is on record.                                       *)
LEMMA ReleaseKeeps ==
    ASSUME GInv, NEW c \in Calls, NEW new \in Call, HoldsRow(c),
           call' = [call EXCEPT ![c] = new],
           new.pc = "done" \/ /\ new.pc = "verdict" /\ call[c].sid \in lost'
                              /\ new.pod = call[c].pod /\ new.claim = call[c].claim
                              /\ new.ended = call[c].ended /\ new.rt = call[c].rt
                              /\ new.sid = call[c].sid,
           access' \in [Pods -> SUBSET Tokens], ccp' \in [Sids -> 0 .. MaxVer],
           faults' \in 0 .. MaxFaults, lost \subseteq lost', lost' \subseteq Sids,
           \A s \in Sids \ {call[c].sid} : ccp'[s] = ccp[s],
           call[c].sid \notin lost' => ccp'[call[c].sid] = sess[call[c].sid].ver,
           UNCHANGED <<sess, store, runtime, expiries, charged>>
    PROVE  GInv'
<1>1. /\ TypeOK /\ LetIn(c) /\ ServedFresh(c) /\ Live(call[c].sid)
      /\ call[c].pc \in {"closure", "ask", "commit"}
    BY DEF GInv, Placed, Holding, HoldsRow
<1>2. call' \in [Calls -> Call] /\ call'[c] = new /\ Rest(c)
    BY <1>1, Moves
<1>3. TypeOK'
    BY <1>1, <1>2 DEF TypeOK
<1>4. InOrder' /\ FreshRuntimes' /\ NoSelfKill'
    BY DEF GInv, InOrder, FreshRuntimes, NoSelfKill, Live, Known
<1>5. Exclusive'
    BY <1>2, StaysExclusive
<1>6. InSync'
    <2>1. ASSUME NEW s \in Sids, s # call[c].sid
          PROVE  (Committing(s)' <=> Committing(s)) /\ ccp'[s] = ccp[s]
        BY <1>1, <1>2, <2>1 DEF Committing, Rest
    <2>2. QED
        BY <2>1 DEF GInv, InSync, Live
<1>7. \A d \in Calls \ {c} : Placed(d)'
    <2>1. ASSUME NEW d \in Calls \ {c}, HoldsRow(d)
          PROVE  ccp'[call[d].sid] = ccp[call[d].sid]
        <3>1. call[d].sid # call[c].sid
            BY <2>1 DEF GInv, Exclusive
        <3>2. call[d].sid \in Sids
            BY <2>1, HeldIsLast
        <3>3. QED
            BY <3>1, <3>2
    <2>2. QED
        BY <1>2, <2>1, OthersPlaced DEF Rest
<1>8. Placed(c)'
    <2>1. LetIn(c)' /\ ServedFresh(c)'
        BY <1>1, <1>2 DEF LetIn, ServedFresh, HasRuntime, Known
    <2>2. Holding(c)'
        BY <1>1, <1>2 DEF Holding, HoldsRow, Live, Known
    <2>3. QED
        BY <2>1, <2>2 DEF Placed
<1>9. QED
    BY <1>3, <1>4, <1>5, <1>6, <1>7, <1>8 DEF GInv

(* CCP turns a holder away: a fault parted the stored token from the one    *)
(* CCP accepts, for the row was locked all along.                           *)
LEMMA RefreshRefusedKeeps ==
    ASSUME GInv, NEW c \in Calls, RefreshRefused(c)
    PROVE  GInv'
<1>1. /\ TypeOK /\ call[c].pc = "ask" /\ ccp[call[c].sid] # call[c].row[2]
      /\ access' = [access EXCEPT ![call[c].pod] = @ \ {call[c].row}]
      /\ Goto(c, "verdict")
      /\ UNCHANGED <<sess, ccp, store, runtime, faults, expiries, lost, charged>>
    BY DEF GInv, RefreshRefused, Clock, History
<1>2. HoldsRow(c) /\ call[c].sid \in lost
    BY <1>1, HolderInSync
<1>3. PICK new \in Call :
          /\ call' = [call EXCEPT ![c] = new] /\ new.pc = "verdict" /\ new.rt = call[c].rt
          /\ new.pod = call[c].pod /\ new.claim = call[c].claim /\ new.ended = call[c].ended
          /\ new.sid = call[c].sid
    BY <1>1, GotoMoves DEF PCs
<1>4. /\ access' \in [Pods -> SUBSET Tokens] /\ ccp' \in [Sids -> 0 .. MaxVer]
      /\ faults' \in 0 .. MaxFaults /\ lost' \subseteq Sids
    BY <1>1 DEF TypeOK
<1>5. QED
    BY <1>1, <1>2, <1>3, <1>4, ReleaseKeeps

LEMMA RefreshFailsKeeps ==
    ASSUME GInv, NEW c \in Calls, RefreshFails(c)
    PROVE  GInv'
<1>1. PICK took \in BOOLEAN :
          /\ took => ccp[call[c].sid] = call[c].row[2] /\ call[c].row[2] < MaxVer
          /\ call[c].pc = "ask" /\ faults < MaxFaults
          /\ faults' = faults + 1
          /\ ccp' = [ccp EXCEPT ![call[c].sid] = IF took THEN @ + 1 ELSE @]
          /\ lost' = IF took THEN lost \cup {call[c].sid} ELSE lost
          /\ Goto(c, "done")
          /\ UNCHANGED <<sess, store, runtime, access, expiries, charged>>
    BY DEF RefreshFails
<1>2. TypeOK
    BY DEF GInv
<1>3. /\ HoldsRow(c) /\ call[c].sid \in Sids
      /\ call[c].row[2] = sess[call[c].sid].ver
      /\ call[c].sid \notin lost => ccp[call[c].sid] = call[c].row[2]
    BY <1>1, HolderInSync DEF Live
<1>4. PICK new \in Call : call' = [call EXCEPT ![c] = new] /\ new.pc = "done"
    BY <1>1, <1>2, GotoMoves DEF PCs
<1>5. ccp \in [Sids -> 0 .. MaxVer] /\ lost \subseteq Sids /\ faults \in 0 .. MaxFaults
    BY <1>2 DEF TypeOK
<1>6. ccp' \in [Sids -> 0 .. MaxVer] /\ \A s \in Sids \ {call[c].sid} : ccp'[s] = ccp[s]
    <2>1. ccp[call[c].sid] \in 0 .. MaxVer
        BY <1>3, <1>5
    <2>2. PICK n \in 0 .. MaxVer : n = IF took THEN ccp[call[c].sid] + 1 ELSE ccp[call[c].sid]
        BY <1>1, <2>1, ConstantsType
    <2>3. ccp' = [ccp EXCEPT ![call[c].sid] = n]
        BY <1>1, <2>2
    <2>4. QED
        BY <1>3, <1>5, <2>3
<1>7. access' \in [Pods -> SUBSET Tokens]
    BY <1>1, <1>2 DEF TypeOK
<1>8. faults' \in 0 .. MaxFaults /\ lost \subseteq lost' /\ lost' \subseteq Sids
    <2>1. faults' \in 0 .. MaxFaults
        BY <1>1, <1>5, ConstantsType
    <2>2. lost \subseteq lost' /\ lost' \subseteq Sids
        BY <1>1, <1>3, <1>5
    <2>3. QED
        BY <2>1, <2>2
<1>9. call[c].sid \notin lost' => ccp'[call[c].sid] = sess[call[c].sid].ver
    BY <1>1, <1>3, <1>5
<1>10. QED
    BY <1>1, <1>3, <1>4, <1>6, <1>7, <1>8, <1>9, ReleaseKeeps

(* The row gets the token CCP accepts, or the failed COMMIT is on record.   *)
LEMMA CommitRefreshKeeps ==
    ASSUME GInv, NEW c \in Calls, CommitRefresh(c)
    PROVE  GInv'
<1>1. /\ TypeOK /\ call[c].pc = "commit" /\ HoldsRow(c) /\ LetIn(c) /\ ServedFresh(c)
      /\ Live(call[c].sid) /\ call[c].sid \in Sids
      /\ call[c].next \in Tokens /\ call[c].next[1] = call[c].sid
      /\ call[c].sid \notin lost => ccp[call[c].sid] = call[c].next[2]
      /\ UNCHANGED <<ccp, store, runtime, access, expiries, charged>>
    BY DEF GInv, CommitRefresh, Placed, Holding, HoldsRow, Live
<1>2. PICK s \in Sids : s = call[c].sid
    BY <1>1
<1>3. call[c].next[2] \in 1 .. MaxVer /\ call[c].next = <<s, call[c].next[2]>>
    BY <1>1, <1>2 DEF Tokens
<1>4. CASE /\ sess' = [sess EXCEPT ![call[c].sid].ver = call[c].next[2]]
           /\ Goto(c, "esi")
           /\ UNCHANGED <<faults, lost>>
    <2>1. PICK new \in Call :
              /\ call' = [call EXCEPT ![c] = new] /\ new.pc = "esi" /\ new.rt = call[c].rt
              /\ new.pod = call[c].pod /\ new.claim = call[c].claim /\ new.ended = call[c].ended
              /\ new.got = call[c].got
        BY <1>1, <1>4, GotoMoves DEF PCs
    <2>2. call' \in [Calls -> Call] /\ call'[c] = new /\ Rest(c)
        BY <1>1, <2>1, Moves
    <2>3. sess \in [Sids -> [state : {"none", "open", "revoked"}, ver : 0 .. MaxVer]]
        BY <1>1 DEF TypeOK
    <2>4. call[c].next[2] \in 0 .. MaxVer
        BY <1>3, ConstantsType
    <2>5. /\ sess' \in [Sids -> [state : {"none", "open", "revoked"}, ver : 0 .. MaxVer]]
          /\ sess'[s].state = sess[s].state /\ sess'[s].ver = call[c].next[2]
          /\ \A t \in Sids \ {s} : sess'[t] = sess[t]
        BY <1>2, <1>4, <2>3, <2>4
    <2>6. TypeOK'
        BY <1>1, <1>4, <2>2, <2>5 DEF TypeOK
    <2>7. InOrder'
        <3>1. \A t \in Sids : sess'[t].state = sess[t].state
            BY <2>5
        <3>2. \A t \in Sids : Live(t) => sess'[t].ver \in 1 .. MaxVer
            BY <1>3, <2>5 DEF GInv, InOrder
        <3>3. QED
            BY <3>1, <3>2 DEF GInv, InOrder, Live, Known
    <2>8. FreshRuntimes' /\ NoSelfKill'
        BY <1>1, <1>4, <2>5 DEF GInv, FreshRuntimes, NoSelfKill, Known
    <2>9. Exclusive'
        BY <2>1, <2>2, StaysExclusive
    <2>10. InSync'
        <3>1. ASSUME NEW t \in Sids, t # s
              PROVE  Committing(t)' <=> Committing(t)
            BY <1>2, <2>1, <2>2, <3>1 DEF Committing, Rest
        <3>2. ASSUME NEW t \in Sids, Live(t)', t \notin lost', ~Committing(t)'
              PROVE  ccp'[t] = sess'[t].ver
            <4>1. CASE t = s
                BY <1>1, <1>2, <1>4, <2>5, <3>2, <4>1
            <4>2. CASE t # s
                <5>1. Live(t) /\ t \notin lost /\ ~Committing(t)
                    BY <1>4, <2>5, <3>1, <3>2, <4>2 DEF Live
                <5>2. QED
                    BY <1>1, <2>5, <4>2, <5>1 DEF GInv, InSync
            <4>3. QED
                BY <4>1, <4>2
        <3>3. QED
            BY <3>2 DEF InSync
    <2>11. \A d \in Calls \ {c} : Placed(d)'
        <3>1. ASSUME NEW d \in Calls \ {c}, HoldsRow(d)
              PROVE  sess'[call[d].sid] = sess[call[d].sid]
            <4>1. call[d].sid # call[c].sid
                BY <1>1, <3>1 DEF GInv, Exclusive
            <4>2. call[d].sid \in Sids
                BY <3>1, HeldIsLast
            <4>3. QED
                BY <1>2, <2>5, <4>1, <4>2
        <3>2. \A t \in Sids : sess'[t].state = sess[t].state
            BY <2>5
        <3>3. QED
            BY <1>1, <1>4, <2>2, <3>1, <3>2, OthersPlaced DEF Rest
    <2>12. Placed(c)'
        <3>1. LetIn(c)'
            BY <1>1, <2>1, <2>2, <2>5 DEF LetIn, Known
        <3>2. ServedFresh(c)' /\ Holding(c)'
            BY <1>1, <2>1, <2>2 DEF ServedFresh, Holding, HoldsRow, HasRuntime
        <3>3. QED
            BY <3>1, <3>2 DEF Placed
    <2>13. QED
        BY <2>6, <2>7, <2>8, <2>9, <2>10, <2>11, <2>12 DEF GInv
<1>5. CASE /\ faults < MaxFaults /\ faults' = faults + 1
           /\ lost' = IF call[c].next # Stored(call[c].sid) THEN lost \cup {call[c].sid}
                      ELSE lost
           /\ Goto(c, "done")
           /\ UNCHANGED sess
    <2>1. PICK new \in Call : call' = [call EXCEPT ![c] = new] /\ new.pc = "done"
        BY <1>1, <1>5, GotoMoves DEF PCs
    <2>2. /\ access' \in [Pods -> SUBSET Tokens] /\ ccp' \in [Sids -> 0 .. MaxVer]
          /\ faults \in 0 .. MaxFaults /\ lost \subseteq Sids
        BY <1>1 DEF TypeOK
    <2>3. faults' \in 0 .. MaxFaults /\ lost \subseteq lost' /\ lost' \subseteq Sids
        BY <1>1, <1>5, <2>2, ConstantsType
    <2>4. call[c].sid \notin lost' => ccp'[call[c].sid] = sess[call[c].sid].ver
        <3>1. SUFFICES ASSUME call[c].sid \notin lost'
                       PROVE  ccp'[call[c].sid] = sess[call[c].sid].ver
            OBVIOUS
        <3>2. call[c].next = <<call[c].sid, sess[call[c].sid].ver>> /\ call[c].sid \notin lost
            BY <1>5, <3>1 DEF Stored
        <3>3. call[c].next[2] = sess[call[c].sid].ver
            BY <3>2
        <3>4. QED
            BY <1>1, <3>2, <3>3
    <2>5. QED
        BY <1>1, <1>5, <2>1, <2>2, <2>3, <2>4, ReleaseKeeps
<1>6. QED
    BY <1>4, <1>5 DEF CommitRefresh

(* The session that is revoked had lost its grant.                          *)
LEMMA VerdictKeeps ==
    ASSUME GInv, NEW c \in Calls, Verdict(c)
    PROVE  GInv'
<1>1. /\ TypeOK /\ call[c].pc = "verdict" /\ RowFree(call[c].sid) /\ LetIn(c)
      /\ call[c].sid \in Sids /\ Known(call[c].sid)
      /\ Live(call[c].sid) => call[c].sid \in lost
      /\ sess' = [sess EXCEPT ![call[c].sid].state = "revoked"]
      /\ charged' = IF Live(call[c].sid) THEN charged \cup {<<call[c].claim, call[c].sid>>}
                    ELSE charged
      /\ Goto(c, "done")
      /\ UNCHANGED <<ccp, store, runtime, access, faults, expiries, lost>>
    BY DEF GInv, Verdict, Placed, Holding, Clock
<1>2. PICK new \in Call : call' = [call EXCEPT ![c] = new] /\ new.pc = "done"
    BY <1>1, GotoMoves DEF PCs
<1>3. call' \in [Calls -> Call] /\ call'[c] = new /\ Rest(c)
    BY <1>1, <1>2, Moves
<1>4. PICK s \in Sids : s = call[c].sid
    BY <1>1
<1>5. /\ sess \in [Sids -> [state : {"none", "open", "revoked"}, ver : 0 .. MaxVer]]
      /\ charged \subseteq (0 .. MaxSid) \X Sids
    BY <1>1 DEF TypeOK
<1>6. /\ sess' \in [Sids -> [state : {"none", "open", "revoked"}, ver : 0 .. MaxVer]]
      /\ sess'[s].state = "revoked"
      /\ \A t \in Sids \ {s} : sess'[t] = sess[t]
    BY <1>1, <1>4, <1>5
<1>7. call[c].claim \in 0 .. MaxSid
    BY <1>1 DEF LetIn, Sids
<1>8. charged' \subseteq (0 .. MaxSid) \X Sids
    BY <1>1, <1>5, <1>7
<1>9. TypeOK'
    BY <1>1, <1>3, <1>6, <1>8 DEF TypeOK
<1>10. \A t \in Sids : /\ sess'[t].state = "open" => sess[t].state = "open" /\ t # s
                       /\ sess'[t].state # "none" <=> sess[t].state # "none"
    BY <1>1, <1>4, <1>6 DEF Known
<1>11. InOrder'
    <2>1. \A t \in Sids : sess'[t].state = "open" => sess'[t].ver \in 1 .. MaxVer
        BY <1>6, <1>10 DEF GInv, InOrder, Live
    <2>2. QED
        BY <1>10, <2>1 DEF GInv, InOrder, Live, Known
<1>12. FreshRuntimes'
    BY <1>1, <1>10 DEF GInv, FreshRuntimes, Known
<1>13. NoSelfKill'
    <2>1. ASSUME NEW v \in charged'
          PROVE  v[2] \in lost'
        <3>1. CASE v \in charged
            BY <1>1, <3>1 DEF GInv, NoSelfKill
        <3>2. CASE v = <<call[c].claim, call[c].sid>> /\ Live(call[c].sid)
            BY <1>1, <3>2
        <3>3. QED
            BY <1>1, <2>1, <3>1, <3>2
    <2>2. QED
        BY <2>1 DEF NoSelfKill
<1>14. Exclusive'
    BY <1>2, <1>3, StaysExclusive
<1>15. InSync'
    <2>1. ASSUME NEW t \in Sids
          PROVE  Committing(t)' <=> Committing(t)
        BY <1>1, <1>2, <1>3 DEF Committing, Rest
    <2>2. QED
        BY <1>1, <1>6, <1>10, <2>1 DEF GInv, InSync, Live
<1>16. \A d \in Calls \ {c} : Placed(d)'
    <2>1. ASSUME NEW d \in Calls \ {c}, HoldsRow(d)
          PROVE  sess'[call[d].sid] = sess[call[d].sid]
        <3>1. call[d].sid # s
            BY <1>1, <1>4, <2>1 DEF RowFree
        <3>2. call[d].sid \in Sids
            BY <2>1, HeldIsLast
        <3>3. QED
            BY <1>6, <3>1, <3>2
    <2>2. QED
        BY <1>1, <1>3, <1>10, <2>1, OthersPlaced DEF Rest
<1>17. Placed(c)'
    BY <1>2, <1>3 DEF Placed, LetIn, ServedFresh, Holding, HoldsRow, HasRuntime
<1>18. QED
    BY <1>9, <1>11, <1>12, <1>13, <1>14, <1>15, <1>16, <1>17 DEF GInv

-----------------------------------------------------------------------------
(* What happens around the requests                                         *)

(* The new session is the last, and no row is held when its predecessor is  *)
(* revoked.                                                                 *)
LEMMA SignInKeeps ==
    ASSUME GInv, SignIn
    PROVE  GInv'
<1>1. PICK s \in Sids \ {1} :
          /\ sess[s].state = "none" /\ sess[s - 1].state # "none"
          /\ \A t \in Sids : Live(t) => RowFree(t)
          /\ sess' = [t \in Sids |->
               IF t = s THEN [state |-> "open", ver |-> 1]
               ELSE IF Live(t) THEN [sess[t] EXCEPT !.state = "revoked"] ELSE sess[t]]
          /\ ccp' = [ccp EXCEPT ![s] = 1]
          /\ UNCHANGED <<store, runtime, access, call, Clock, History>>
    BY DEF SignIn
<1>2. /\ TypeOK /\ UNCHANGED <<store, runtime, access, call, faults, expiries, lost, charged>>
    BY <1>1 DEF GInv, Clock, History
<1>3. /\ sess \in [Sids -> [state : {"none", "open", "revoked"}, ver : 0 .. MaxVer]]
      /\ ccp \in [Sids -> 0 .. MaxVer] /\ 1 \in 0 .. MaxVer
    BY <1>2, ConstantsType DEF TypeOK
<1>4. \A c \in Calls : ~HoldsRow(c)
    BY <1>1, HeldIsLast DEF Live, RowFree
<1>5. ASSUME NEW t \in Sids
      PROVE  /\ sess'[t] \in [state : {"none", "open", "revoked"}, ver : 0 .. MaxVer]
             /\ sess'[t].state = "open" => t = s /\ sess'[t].ver = 1
             /\ sess'[t].state # "none" <=> (sess[t].state # "none" \/ t = s)
    <2>1. CASE t = s
        BY <1>1, <1>3, <2>1
    <2>2. CASE t # s
        BY <1>1, <1>3, <2>2 DEF Live
    <2>3. QED
        BY <2>1, <2>2
<1>6. TypeOK'
    <2>1. sess' = [t \in Sids |-> sess'[t]]
        BY <1>1
    <2>2. sess' \in [Sids -> [state : {"none", "open", "revoked"}, ver : 0 .. MaxVer]]
        BY <1>5, <2>1
    <2>3. ccp' \in [Sids -> 0 .. MaxVer]
        BY <1>1, <1>3
    <2>4. QED
        BY <1>2, <2>2, <2>3 DEF TypeOK
<1>7. InOrder'
    <2>1. s - 1 \in Sids /\ s \in Nat
        BY ConstantsType DEF Sids
    <2>2. \A t \in Sids : Known(t) <=> t < s
        <3>1. ASSUME NEW t \in Sids, Known(t)
              PROVE  t < s
            <4>1. ~(s < t) /\ t # s
                BY <1>1, <3>1 DEF GInv, InOrder, Known
            <4>2. QED
                BY <2>1, <4>1, ConstantsType
        <3>2. ASSUME NEW t \in Sids, t < s
              PROVE  Known(t)
            <4>1. t = s - 1 \/ t < s - 1
                BY <2>1, <3>2, ConstantsType
            <4>2. QED
                BY <1>1, <2>1, <4>1 DEF GInv, InOrder, Known
        <3>3. QED
            BY <3>1, <3>2
    <2>3. \A t \in Sids : sess'[t].state # "none" <=> t <= s
        BY <1>5, <2>1, <2>2, ConstantsType DEF Known
    <2>4. \A t, u \in Sids : t < u /\ u <= s => t <= s
        BY <2>1, ConstantsType
    <2>5. \A t \in Sids : sess'[t].state = "open" => t = s /\ sess'[t].ver \in 1 .. MaxVer
        BY <1>5, ConstantsType
    <2>6. QED
        BY <2>3, <2>4, <2>5 DEF InOrder, Live, Known
<1>8. FreshRuntimes' /\ NoSelfKill'
    BY <1>2, <1>5 DEF GInv, FreshRuntimes, NoSelfKill, Known
<1>9. Exclusive'
    BY <1>2, <1>4 DEF Exclusive, HoldsRow
<1>10. InSync'
    <2>1. ccp'[s] = 1
        BY <1>1, <1>3
    <2>2. QED
        BY <1>5, <2>1 DEF InSync, Live
<1>11. \A c \in Calls : Placed(c)'
    BY <1>1, <1>2, <1>4, <1>5, OthersPlaced
<1>12. QED
    BY <1>6, <1>7, <1>8, <1>9, <1>10, <1>11 DEF GInv

(* CCP forgets a grant: of a session that is over, or on record as lost.    *)
LEMMA ForgottenKeeps ==
    ASSUME GInv, NEW s \in Sids, ~Live(s) \/ s \in lost',
           ccp' = [ccp EXCEPT ![s] = 0], access' \in [Pods -> SUBSET Tokens],
           lost \subseteq lost', lost' \subseteq Sids, faults' \in 0 .. MaxFaults,
           UNCHANGED <<sess, store, runtime, call, expiries, charged>>
    PROVE  GInv'
<1>1. TypeOK /\ ccp \in [Sids -> 0 .. MaxVer] /\ 0 \in 0 .. MaxVer
    BY ConstantsType DEF GInv, TypeOK
<1>2. ccp' \in [Sids -> 0 .. MaxVer] /\ \A t \in Sids \ {s} : ccp'[t] = ccp[t]
    BY <1>1
<1>3. TypeOK'
    BY <1>1, <1>2 DEF TypeOK
<1>4. InOrder' /\ FreshRuntimes' /\ Exclusive' /\ NoSelfKill'
    BY DEF GInv, InOrder, FreshRuntimes, Exclusive, NoSelfKill, Live, Known, HoldsRow
<1>5. InSync'
    <2>1. ASSUME NEW t \in Sids
          PROVE  Committing(t)' = Committing(t)
        BY DEF Committing
    <2>2. QED
        BY <1>2, <2>1 DEF GInv, InSync, Live
<1>6. \A c \in Calls : Placed(c)'
    <2>1. \A c \in Calls : HoldsRow(c) =>
              ccp'[call[c].sid] = ccp[call[c].sid] \/ call[c].sid \in lost'
        BY <1>2, HeldIsLast DEF Live
    <2>2. QED
        BY <2>1, OthersPlaced
<1>7. QED
    BY <1>3, <1>4, <1>5, <1>6 DEF GInv

LEMMA RevokeAtCCPKeeps ==
    ASSUME GInv, RevokeAtCCP
    PROVE  GInv'
<1>1. PICK p \in Pods, s \in Sids :
          /\ sess[s].state = "revoked" /\ ccp[s] # 0
          /\ ccp' = [ccp EXCEPT ![s] = 0]
          /\ access' = [access EXCEPT ![p] = @ \ {Stored(s)}]
          /\ UNCHANGED <<sess, store, runtime, call, Clock, History>>
    BY DEF RevokeAtCCP
<1>2. UNCHANGED <<sess, store, runtime, call, faults, expiries, lost, charged>>
    BY <1>1 DEF Clock, History
<1>3. /\ access' \in [Pods -> SUBSET Tokens] /\ lost' \subseteq Sids
      /\ faults' \in 0 .. MaxFaults /\ ~Live(s)
    BY <1>1, <1>2 DEF GInv, TypeOK, Live
<1>4. QED
    BY <1>1, <1>2, <1>3, ForgottenKeeps

LEMMA WithdrawKeeps ==
    ASSUME GInv, Withdraw
    PROVE  GInv'
<1>1. PICK s \in Sids :
          /\ ccp[s] # 0 /\ Live(s) /\ faults < MaxFaults
          /\ ccp' = [ccp EXCEPT ![s] = 0]
          /\ lost' = lost \cup {s}
          /\ faults' = faults + 1
          /\ UNCHANGED <<sess, store, runtime, access, call, expiries, charged>>
    BY DEF Withdraw
<1>2. /\ access \in [Pods -> SUBSET Tokens] /\ lost \subseteq Sids /\ faults \in 0 .. MaxFaults
    BY DEF GInv, TypeOK
<1>3. faults' \in 0 .. MaxFaults
    BY <1>1, <1>2, ConstantsType
<1>4. QED
    BY <1>1, <1>2, <1>3, ForgottenKeeps

(* A copy of an access token runs out, or nothing happens at all.           *)
LEMMA ExpiryKeeps ==
    ASSUME GInv, runtime' \in [Calls -> Runtime], access' \in [Pods -> SUBSET Tokens],
           expiries' \in 0 .. MaxExpiries,
           \A r \in Calls : /\ runtime'[r].sid = runtime[r].sid
                            /\ runtime'[r].access \in {runtime[r].access, None},
           UNCHANGED <<sess, ccp, store, call, faults, lost, charged>>
    PROVE  GInv'
<1>1. TypeOK'
    BY DEF GInv, TypeOK
<1>2. InOrder' /\ Exclusive' /\ NoSelfKill'
    BY DEF GInv, InOrder, Exclusive, NoSelfKill, Live, Known, HoldsRow
<1>3. FreshRuntimes'
    BY DEF GInv, FreshRuntimes, Known
<1>4. InSync'
    <2>1. ASSUME NEW t \in Sids
          PROVE  Committing(t)' = Committing(t)
        BY DEF Committing
    <2>2. QED
        BY <2>1 DEF GInv, InSync, Live
<1>5. \A c \in Calls : Placed(c)'
    BY OthersPlaced
<1>6. QED
    BY <1>1, <1>2, <1>3, <1>4, <1>5 DEF GInv

LEMMA ExpireCachedKeeps ==
    ASSUME GInv, ExpireCached
    PROVE  GInv'
<1>1. PICK p \in Pods : \E t \in access[p] :
          /\ expiries < MaxExpiries /\ expiries' = expiries + 1
          /\ access' = [access EXCEPT ![p] = @ \ {t}]
          /\ UNCHANGED <<sess, ccp, store, runtime, call, faults, History>>
    BY DEF ExpireCached
<1>2. /\ access \in [Pods -> SUBSET Tokens] /\ expiries \in 0 .. MaxExpiries
      /\ runtime \in [Calls -> Runtime]
    BY DEF GInv, TypeOK
<1>3. access' \in [Pods -> SUBSET Tokens] /\ expiries' \in 0 .. MaxExpiries
    BY <1>1, <1>2, ConstantsType
<1>4. UNCHANGED <<sess, ccp, store, runtime, call, faults, lost, charged>>
    BY <1>1 DEF History
<1>5. QED
    BY <1>2, <1>3, <1>4, ExpiryKeeps

LEMMA ExpireGrantKeeps ==
    ASSUME GInv, ExpireGrant
    PROVE  GInv'
<1>1. PICK c \in Calls :
          /\ expiries < MaxExpiries /\ expiries' = expiries + 1
          /\ runtime' = [runtime EXCEPT ![c].access = None]
          /\ UNCHANGED <<sess, ccp, store, access, call, faults, History>>
    BY DEF ExpireGrant
<1>2. /\ access \in [Pods -> SUBSET Tokens] /\ expiries \in 0 .. MaxExpiries
      /\ runtime \in [Calls -> Runtime]
    BY DEF GInv, TypeOK
<1>3. PICK b : b = [runtime[c] EXCEPT !.access = None]
    OBVIOUS
<1>4. b \in Runtime /\ b.sid = runtime[c].sid /\ b.access = None
    BY <1>2, <1>3 DEF Runtime, Maybe
<1>5. runtime' = [runtime EXCEPT ![c] = b]
    BY <1>1, <1>3
<1>6. /\ runtime' \in [Calls -> Runtime]
      /\ \A r \in Calls : /\ runtime'[r].sid = runtime[r].sid
                          /\ runtime'[r].access \in {runtime[r].access, None}
    BY <1>2, <1>4, <1>5
<1>7. expiries' \in 0 .. MaxExpiries
    BY <1>1, <1>2, ConstantsType
<1>8. UNCHANGED <<sess, ccp, store, access, call, faults, lost, charged>>
    BY <1>1 DEF History
<1>9. QED
    BY <1>2, <1>6, <1>7, <1>8, ExpiryKeeps

LEMMA UnchangedKeeps ==
    ASSUME GInv, UNCHANGED vars
    PROVE  GInv'
<1>1. /\ access \in [Pods -> SUBSET Tokens] /\ expiries \in 0 .. MaxExpiries
      /\ runtime \in [Calls -> Runtime]
    BY DEF GInv, TypeOK
<1>2. QED
    BY <1>1, ExpiryKeeps DEF vars

-----------------------------------------------------------------------------
(* The theorems                                                             *)

LEMMA InitGInv == Init => GInv
<1>1. SUFFICES ASSUME Init
               PROVE  GInv
    OBVIOUS
<1>2. /\ \A c \in Calls : call[c] = NewCall /\ runtime[c] = Unbuilt
      /\ \A s \in Sids : /\ sess[s].state \in {"none", "open"}
                         /\ sess[s].state # "none" => s = 1 /\ sess[s].ver = 1
                         /\ s = 1 => ccp[s] = 1
    BY <1>1, ConstantsType DEF Init
<1>3. NewCall.pc = "new" /\ Unbuilt.access = None /\ Unbuilt.sid = 0 /\ Unbuilt \in Runtime
    BY OverType, ConstantsType DEF Unbuilt, Runtime, Maybe
<1>4. TypeOK
    <2>1. call \in [Calls -> Call] /\ runtime \in [Calls -> Runtime]
        BY <1>1, <1>3, OverType DEF Init
    <2>2. /\ [state |-> "open", ver |-> 1] \in [state : {"none", "open", "revoked"},
                                                ver : 0 .. MaxVer]
          /\ [state |-> "none", ver |-> 0] \in [state : {"none", "open", "revoked"},
                                                ver : 0 .. MaxVer]
        BY ConstantsType
    <2>3. sess \in [Sids -> [state : {"none", "open", "revoked"}, ver : 0 .. MaxVer]]
        BY <1>1, <2>2 DEF Init
    <2>4. /\ ccp \in [Sids -> 0 .. MaxVer] /\ faults \in 0 .. MaxFaults
          /\ expiries \in 0 .. MaxExpiries
        BY <1>1, ConstantsType DEF Init
    <2>5. /\ store \in [Pods -> Maybe(Calls)] /\ access \in [Pods -> SUBSET Tokens]
          /\ lost \subseteq Sids /\ charged \subseteq (0 .. MaxSid) \X Sids
        BY <1>1 DEF Init, Maybe
    <2>6. QED
        BY <2>1, <2>3, <2>4, <2>5 DEF TypeOK
<1>5. InOrder
    <2>1. \A s, t \in Sids : ~(t < s /\ s = 1)
        BY ConstantsType DEF Sids
    <2>2. \A s \in Sids : Known(s) => s = 1
        BY <1>2 DEF Known
    <2>3. \A s, t \in Sids : s = 1 /\ t = 1 => t <= s
        OBVIOUS
    <2>4. \A s \in Sids : Live(s) => Known(s) /\ sess[s].ver \in 1 .. MaxVer
        BY <1>2, ConstantsType DEF Live, Known
    <2>5. QED
        BY <2>1, <2>2, <2>3, <2>4 DEF InOrder
<1>6. FreshRuntimes /\ Exclusive
    BY <1>2, <1>3 DEF FreshRuntimes, Exclusive, HoldsRow, Sids
<1>7. InSync
    BY <1>2 DEF InSync, Live
<1>8. \A c \in Calls : Placed(c)
    BY <1>2, <1>3 DEF Placed, LetIn, ServedFresh, Holding, HoldsRow, HasRuntime
<1>9. NoSelfKill
    BY <1>1 DEF Init, NoSelfKill
<1>10. QED
    BY <1>4, <1>5, <1>6, <1>7, <1>8, <1>9 DEF GInv

LEMMA StepKeeps ==
    ASSUME GInv, NEW c \in Calls, Step(c)
    PROVE  GInv'
<1>1. CASE LoadRuntime(c)
    BY <1>1, LoadRuntimeKeeps
<1>2. CASE StoreRuntime(c)
    BY <1>2, StoreRuntimeKeeps
<1>3. CASE RebuildGrant(c)
    BY <1>3, RebuildGrantKeeps
<1>4. CASE Character(c)
    BY <1>4, CharacterKeeps
<1>5. CASE BeginAccess(c)
    BY <1>5, BeginAccessKeeps
<1>6. CASE PeekRow(c)
    BY <1>6, PeekRowKeeps
<1>7. CASE LockRow(c)
    BY <1>7, LockRowKeeps
<1>8. CASE EnterClosure(c)
    BY <1>8, EnterClosureKeeps
<1>9. CASE RefreshGranted(c)
    BY <1>9, RefreshGrantedKeeps
<1>10. CASE RefreshRefused(c)
    BY <1>10, RefreshRefusedKeeps
<1>11. CASE RefreshFails(c)
    BY <1>11, RefreshFailsKeeps
<1>12. CASE CommitRefresh(c)
    BY <1>12, CommitRefreshKeeps
<1>13. CASE Verdict(c)
    BY <1>13, VerdictKeeps
<1>14. CASE CallESI(c)
    BY <1>14, CallESIKeeps
<1>15. QED
    BY <1>1, <1>2, <1>3, <1>4, <1>5, <1>6, <1>7, <1>8, <1>9, <1>10, <1>11, <1>12,
       <1>13, <1>14 DEF Step

(* Sign-ins in order, one holder of a row, and the stored token in step     *)
(* with CCP's: in every reachable state.                                    *)
THEOREM RuntimeInvariant == Spec => []GInv
<1>1. Init => GInv
    BY InitGInv
<1>2. GInv /\ [Next]_vars => GInv'
    <2>1. SUFFICES ASSUME GInv, [Next]_vars
                   PROVE  GInv'
        OBVIOUS
    <2>2. CASE \E c \in Calls : RequireLive(c) \/ Step(c)
        BY <2>1, <2>2, RequireLiveKeeps, StepKeeps
    <2>3. CASE SignIn
        BY <2>1, <2>3, SignInKeeps
    <2>4. CASE RevokeAtCCP
        BY <2>1, <2>4, RevokeAtCCPKeeps
    <2>5. CASE Withdraw
        BY <2>1, <2>5, WithdrawKeeps
    <2>6. CASE ExpireCached \/ ExpireGrant
        BY <2>1, <2>6, ExpireCachedKeeps, ExpireGrantKeeps
    <2>7. CASE UNCHANGED vars
        BY <2>1, <2>7, UnchangedKeeps
    <2>8. QED
        BY <2>1, <2>2, <2>3, <2>4, <2>5, <2>6, <2>7 DEF Next
<1>3. QED
    BY <1>1, <1>2, PTL DEF Spec

(* The session rows, the runtimes, the SSO client's caches and every request*)
(* keep their types.                                                        *)
THEOREM TypeCorrect == Spec => []TypeOK
<1>1. GInv => TypeOK
    BY DEF GInv
<1>2. QED
    BY <1>1, RuntimeInvariant, PTL

(* eveAccess revokes a session only when its grant is really gone at CCP,   *)
(* on however many pods and over however many sign-ins requests share and   *)
(* rebuild the runtimes.                                                    *)
THEOREM SignInsDoNotKillThemselves == Spec => []NoSelfKill
<1>1. GInv => NoSelfKill
    BY DEF GInv
<1>2. QED
    BY <1>1, RuntimeInvariant, PTL

(* No request is served with the grant of a session that had ended when the *)
(* bearer check let it in, from whatever cache its token came.              *)
THEOREM ServedByLiveGrant == Spec => []NotServedByDeadGrant
<1>1. GInv => NotServedByDeadGrant
    <2>1. SUFFICES ASSUME GInv, NEW c \in Calls, call[c].pc = "esi"
                   PROVE  call[c].got[1] \notin call[c].ended
        BY DEF NotServedByDeadGrant
    <2>2. /\ call[c].got \in Tokens /\ call[c].got[1] >= call[c].claim
          /\ \A t \in call[c].ended : t < call[c].claim
          /\ call[c].claim \in Sids
        BY <2>1 DEF GInv, Placed, ServedFresh, LetIn
    <2>3. call[c].got[1] \in Sids
        BY <2>2 DEF Tokens
    <2>4. PICK s \in Nat : s = call[c].got[1]
        BY <2>3, ConstantsType
    <2>5. PICK m \in Nat : m = call[c].claim
        BY <2>2, ConstantsType
    <2>6. s >= m /\ (s \in call[c].ended => s < m)
        BY <2>2, <2>4, <2>5
    <2>7. s \notin call[c].ended
        BY <2>6
    <2>8. QED
        BY <2>4, <2>7
<1>2. QED
    BY <1>1, RuntimeInvariant, PTL

(* LockForRefresh, its closure and grantMu: waits end after two links.  A   *)
(* row is held by a request that at most waits for grantMu, and who has     *)
(* grantMu asks CCP and waits for nobody.                                   *)
THEOREM LocksNeverCircular == Spec => []NoCircularWait
<1>1. ASSUME NEW c \in Calls, HoldsMu(c)
      PROVE  UnderWay(c) /\ ~Waits(c)
    BY <1>1 DEF HoldsMu, UnderWay, Waits, WaitsForRow, WaitsForMu
<1>2. ASSUME NEW c \in Calls, WaitsForMu(c)
      PROVE  \E d \in Calls : UnderWay(d) /\ ~Waits(d)
    BY <1>1, <1>2 DEF WaitsForMu, MuFree
<1>3. ASSUME NEW c \in Calls, HoldsRow(c)
      PROVE  \E d \in Calls : UnderWay(d) /\ ~Waits(d)
    <2>1. CASE WaitsForMu(c)
        BY <1>2, <2>1
    <2>2. CASE ~WaitsForMu(c)
        BY <1>3, <2>2 DEF HoldsRow, UnderWay, Waits, WaitsForRow
    <2>3. QED
        BY <2>1, <2>2
<1>4. ASSUME NEW c \in Calls, WaitsForRow(c)
      PROVE  \E d \in Calls : UnderWay(d) /\ ~Waits(d)
    BY <1>3, <1>4 DEF WaitsForRow, RowFree
<1>5. NoCircularWait
    BY <1>2, <1>4 DEF NoCircularWait, Waits
<1>6. QED
    BY <1>5, PTL
=============================================================================
