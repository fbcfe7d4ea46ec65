----------------------------- MODULE PoolProofs -----------------------------
(***************************************************************************)
(* Proofs about Pool, for every number of requests, characters and         *)
(* connections: the types, and that requests wait for one another in a     *)
(* circle only when the pool is Crowded.                                   *)
(***************************************************************************)
EXTENDS Pool, FiniteSetTheorems, TLAPS

(* Where a request with an open hold may stand.                             *)
HoldPCs == {"consume", "access", "peek", "refresh", "row", "ccp", "write"}

(* What has to be known of holds: LockMailCap alone opens one, and the      *)
(* request ends it before it does anything else.                            *)
HoldPlaced == \A r \in hold : pc[r] \in HoldPCs

IInv == TypeOK /\ HoldPlaced

-----------------------------------------------------------------------------
(* The two ways a step changes the state keep the invariant.                *)

LEMMA GotoKeeps ==
    ASSUME IInv, NEW r \in Requests, NEW l \in PCs, Goto(r, l),
           r \in hold => l \in HoldPCs
    PROVE  IInv'
  BY DEF IInv, TypeOK, HoldPlaced, Goto

LEMMA FinishKeeps ==
    ASSUME IInv, NEW r \in Requests, Finish(r)
    PROVE  IInv'
  BY DEF IInv, TypeOK, HoldPlaced, Finish, PCs

(* A request at a place no hold reaches has none.                           *)
LEMMA NotHeld ==
    ASSUME IInv, NEW r \in Requests, pc[r] \notin HoldPCs
    PROVE  r \notin hold
  BY DEF IInv, HoldPlaced

LEMMA Inductive == IInv /\ [Next]_vars => IInv'
<1> SUFFICES ASSUME IInv, [Next]_vars PROVE IInv'
  OBVIOUS
<1> USE GotoKeeps, FinishKeeps, NotHeld
<1>1. CASE UNCHANGED vars
  BY <1>1 DEF vars, IInv, TypeOK, HoldPlaced
<1>2. ASSUME NEW r \in Requests, Step(r) PROVE IInv'
  <2>1. ASSUME WithAccess(r) PROVE IInv'
    BY <2>1 DEF WithAccess, PCs, HoldPCs
  <2>2. CASE CheckLive(r)
    BY <2>2 DEF CheckLive, PCs, HoldPCs
  <2>3. CASE Access(r)
    BY <2>1, <2>3 DEF Access, PCs, HoldPCs
  <2>4. CASE PeekRow(r)
    BY <2>4 DEF PeekRow, PCs, HoldPCs
  <2>5. CASE LockForRefresh(r)
    BY <2>5 DEF LockForRefresh, PCs, HoldPCs
  <2>6. CASE LockRow(r)
    BY <2>6 DEF LockRow, PCs, HoldPCs
  <2>7. CASE EndRefresh(r)
    BY <2>1, <2>7 DEF EndRefresh
  <2>8. CASE Begin(r)
    BY <2>8 DEF Begin, PCs, HoldPCs
  <2>9. CASE LockMailCap(r)
    <3>1. CASE r \in Mails /\ hold' = hold \cup {r}
               /\ pc' = [pc EXCEPT ![r] = "consume"] /\ UNCHANGED who
      BY <3>1 DEF IInv, TypeOK, HoldPlaced, PCs, HoldPCs
    <3>2. CASE Goto(r, "put")
      BY <2>9, <3>2 DEF LockMailCap, PCs, HoldPCs
    <3>3. CASE Finish(r)
      BY <3>3
    <3>4. QED
      BY <2>9, <3>1, <3>2, <3>3 DEF LockMailCap
  <2>10. CASE PutConfirm(r)
    BY <2>10 DEF PutConfirm
  <2>11. CASE ConsumeConfirm(r)
    BY <2>11 DEF ConsumeConfirm, PCs, HoldPCs
  <2>12. CASE WriteAndRecord(r)
    BY <2>12 DEF WriteAndRecord
  <2>13. CASE TryLock(r)
    BY <2>13 DEF TryLock, PCs, HoldPCs
  <2>14. CASE Rules(r)
    BY <2>14 DEF Rules
  <2>15. QED
    BY <1>2, <2>2, <2>3, <2>4, <2>5, <2>6, <2>7, <2>8, <2>9, <2>10, <2>11,
       <2>12, <2>13, <2>14 DEF Step
<1>3. ASSUME NEW r \in Requests, HangUp(r) PROVE IInv'
  BY <1>3 DEF HangUp
<1>4. ASSUME NEW r \in Requests, NEW ch \in Chars, Arrive(r, ch) PROVE IInv'
  BY <1>4 DEF Arrive, IInv, TypeOK, HoldPlaced, PCs, HoldPCs
<1>5. QED
  BY <1>1, <1>2, <1>3, <1>4 DEF Next

LEMMA InvariantHolds == Spec => []IInv
<1>1. Init => IInv
  BY DEF Init, IInv, TypeOK, HoldPlaced, PCs
<1>2. QED
  BY <1>1, Inductive, PTL DEF Spec

(* The type invariant of Pool: a hold is a confirmed mail's.                *)
THEOREM TypeCorrect == Spec => []TypeOK
<1>1. IInv => TypeOK
  BY DEF IInv
<1>2. QED
  BY <1>1, InvariantHolds, PTL

-----------------------------------------------------------------------------
(* With no connection free and the pool not Crowded, a refresh has one.     *)

LEMMA RefreshHasOne ==
    ASSUME IInv, ~Free, ~Crowded
    PROVE  \E r \in Requests : Refreshing(r)
<1> DEFINE M == {r \in Requests : InMailTx(r)}
           R == {r \in Requests : Refreshing(r)}
           S == {r \in Requests : Sweeping(r)}
           C == {r \in Requests : pc[r] # "done" /\ (InMailTx(r) \/ Sweeping(r))}
<1> SUFFICES ASSUME R = {} PROVE FALSE
  OBVIOUS
<1>1. IsFiniteSet(Requests)
  BY PoolAssumption DEF Requests
<1>2. /\ IsFiniteSet(M) /\ IsFiniteSet(S) /\ IsFiniteSet(C)
      /\ M \in SUBSET Requests /\ S \in SUBSET Requests /\ C \in SUBSET Requests
  <2>1. M \in SUBSET Requests /\ S \in SUBSET Requests /\ C \in SUBSET Requests
    OBVIOUS
  <2>2. QED
    BY <1>1, <2>1, FS_Subset
<1>3. M \cap S = {}
  BY DEF InMailTx, Sweeping, IInv, HoldPlaced, HoldPCs
<1>4. C = M \cup S
  BY DEF InMailTx, Sweeping, IInv, HoldPlaced, HoldPCs
<1>5. Cardinality(C) = Cardinality(M) + Cardinality(S) - Cardinality({})
  <2>1. Cardinality(M \cup S)
          = Cardinality(M) + Cardinality(S) - Cardinality(M \cap S)
    BY <1>2, FS_Union
  <2>2. QED
    BY <2>1, <1>3, <1>4
<1>6. Cardinality({}) = 0 /\ Cardinality(R) = 0
  BY FS_EmptySet
<1>7. Cardinality(M) \in Nat /\ Cardinality(S) \in Nat /\ Cardinality(C) \in Nat
  BY <1>2, FS_CardinalityType
<1>8. InUse = Cardinality(M) + Cardinality(R) + Cardinality(S)
  BY DEF InUse
<1>9. Cardinality(C) = InUse
  BY <1>5, <1>6, <1>7, <1>8
<1>10. Cardinality(C) < Conns
  <2>1. ~(Cardinality(C) >= Conns)
    BY DEF Crowded
  <2>2. QED
    BY <2>1, <1>7, PoolAssumption
<1>11. QED
  BY <1>9, <1>10 DEF Free

(* The requests under way are never all waiting for one another unless the  *)
(* pool is Crowded.  A refresh that has its row waits for CCP alone, and    *)
(* one that waits for the row waits for such a refresh; short of that a     *)
(* connection is free, and then only the mail-cap lock is waited for, whose *)
(* holder can go on.                                                        *)
LEMMA NotStuck == IInv => StuckOnlyWhenCrowded
<1> SUFFICES ASSUME IInv, NEW r \in Requests, UnderWay(r), ~Crowded
             PROVE  \E q \in Requests : UnderWay(q) /\ ~Blocked(q)
  BY DEF StuckOnlyWhenCrowded
<1>1. ASSUME NEW q \in Requests, Refreshing(q)
      PROVE  \E p \in Requests : UnderWay(p) /\ ~Blocked(p)
  <2>1. CASE pc[q] = "ccp"
    BY <2>1 DEF UnderWay, Blocked
  <2>2. CASE pc[q] = "row" /\ RowLocked(who[q])
    BY <2>2 DEF RowLocked, UnderWay, Blocked
  <2>3. CASE pc[q] = "row" /\ ~RowLocked(who[q])
    BY <2>3 DEF UnderWay, Blocked
  <2>4. QED
    BY <1>1, <2>1, <2>2, <2>3 DEF Refreshing
<1>2. CASE ~Free
  BY <1>1, <1>2, RefreshHasOne
<1>3. CASE Free /\ Blocked(r) /\ pc[r] = "lock"
  <2>1. PICK q \in Requests : q \in hold
    BY <1>3 DEF Blocked, MailLocked, IInv, TypeOK, Requests
  <2>2. CASE pc[q] = "row"
    BY <1>1, <2>2 DEF Refreshing
  <2>3. CASE pc[q] # "row"
    BY <1>3, <2>1, <2>3 DEF UnderWay, Blocked, IInv, HoldPlaced, HoldPCs
  <2>4. QED
    BY <2>2, <2>3
<1>4. CASE Free /\ Blocked(r) /\ pc[r] # "lock"
  BY <1>1, <1>4 DEF Blocked, Refreshing
<1>5. QED
  BY <1>2, <1>3, <1>4

(* No circular wait: HoldMailCap's transaction, LockForRefresh and the      *)
(* sweep's lock keep connections and locks across other waits, and yet as   *)
(* long as those that may want a second connection, or wait for one that    *)
(* does, have not the whole pool, some request under way can take a step.   *)
THEOREM NoStandstill == Spec => []StuckOnlyWhenCrowded
  BY InvariantHolds, NotStuck, PTL

=============================================================================
