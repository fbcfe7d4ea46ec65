--------------------------- MODULE EsiLimitsProofs ---------------------------
(***************************************************************************)
(* Theorems about EsiLimits, for any number of characters and calls, any   *)
(* capacity, budget and number of retries.                                 *)
(*                                                                         *)
(* The invariant counts.  What a call has been allowed and has not used is *)
(* an element of a set: a token taken for a request not yet sent, an       *)
(* answer from cache whose token is still to come back, an attempt whose   *)
(* error is still to be charged.  Every step moves such an element from    *)
(* one side of an inequality to the other.                                 *)
(***************************************************************************)
EXTENDS EsiLimits, FiniteSetTheorems, TLAPS

-----------------------------------------------------------------------------
(* The invariant                                                            *)

(* Where a call is between the check and the charge of an attempt.          *)
AttemptPCs == {"request", "send", "answered"}

Placed(i) ==
    /\ call[i].pc # "idle" => call[i].user \in Users
    /\ call[i].pc \in {"idle", "remain", "check", "request", "send"} =>
           call[i].applied <= call[i].attempt
    /\ call[i].pc = "answered" => /\ call[i].applied <= call[i].attempt + 1
                                  /\ call[i].resp.status # "none"

(* Tokens taken for a request that is not sent yet.                         *)
Sending(u) == {i \in Calls : call[i].user = u /\ call[i].pc = "send"}

(* Answers from cache whose token is still to come back.                    *)
Unmodified(u) ==
    {i \in Calls : /\ call[i].user = u /\ call[i].pc \in {"answered", "finish"}
                   /\ call[i].resp.status = "notModified"}

(* Attempts whose error may still be charged, of calls past the check.      *)
Debts(u) ==
    {d \in Calls \X (0 .. ServerRetries) :
        /\ call[d[1]].user = u /\ call[d[1]].pc \in AttemptPCs
        /\ call[d[1]].attempt <= d[2]}

Ceiling == ErrorBudgetCap - 1 + (ServerRetries + 1) * Cardinality(Calls)

Paid(u)       == bucket[u] + net[u] + Cardinality(Sending(u)) <= Capacity + refills[u]
Refundable(u) == Cardinality(Unmodified(u)) <= net[u]
Bounded(u)    == stamps[u] + Cardinality(Debts(u)) <= Ceiling

Counts == \A u \in Users : Paid(u) /\ Refundable(u) /\ Bounded(u)

EInv ==
    /\ TypeOK
    /\ \A i \in Calls : Placed(i)
    /\ Counts

-----------------------------------------------------------------------------
(* Counting                                                                 *)

LEMMA ConstantsType ==
    /\ Capacity \in Nat /\ ErrorLimitBudget \in Nat /\ ServerRetries \in Nat
    /\ ThrottleRetries \in Nat /\ MaxRefills \in Nat /\ ThrottleRetries <= ServerRetries
    /\ ErrorBudgetCap \in Nat \ {0} /\ MaxWindows \in Nat \ {0}
    /\ ErrorBudgetShare \in Nat \ {0}
    /\ IsFiniteSet(Calls) /\ None \notin Users /\ None \notin Int
BY EsiAssumption

LEMMA CountKept ==
    ASSUME NEW S, NEW T, IsFiniteSet(S), T \subseteq S
    PROVE  /\ IsFiniteSet(T) /\ Cardinality(S) \in Nat /\ Cardinality(T) \in Nat
           /\ Cardinality(T) <= Cardinality(S)
BY FS_Subset, FS_CardinalityType

LEMMA CountGrows ==
    ASSUME NEW S, NEW T, NEW x, IsFiniteSet(S), T \subseteq S \cup {x}
    PROVE  /\ IsFiniteSet(T) /\ Cardinality(S) \in Nat /\ Cardinality(T) \in Nat
           /\ Cardinality(T) <= Cardinality(S) + 1
<1>1. /\ IsFiniteSet(S \cup {x}) /\ Cardinality(S) \in Nat
      /\ Cardinality(S \cup {x}) \in {Cardinality(S), Cardinality(S) + 1}
    BY FS_AddElement, FS_CardinalityType
<1>2. IsFiniteSet(T) /\ Cardinality(T) \in Nat /\ Cardinality(T) <= Cardinality(S \cup {x})
    BY <1>1, CountKept
<1>3. QED
    BY <1>1, <1>2

LEMMA CountDrops ==
    ASSUME NEW S, NEW T, NEW x \in S, IsFiniteSet(S), T \subseteq S \ {x}
    PROVE  /\ IsFiniteSet(T) /\ Cardinality(S) \in Nat /\ Cardinality(T) \in Nat
           /\ Cardinality(T) + 1 <= Cardinality(S)
<1>1. /\ IsFiniteSet(S \ {x}) /\ Cardinality(S \ {x}) = Cardinality(S) - 1
      /\ Cardinality(S) \in Nat
    BY FS_RemoveElement, FS_CardinalityType
<1>2. IsFiniteSet(T) /\ Cardinality(T) \in Nat /\ Cardinality(T) <= Cardinality(S \ {x})
    BY <1>1, CountKept
<1>3. QED
    BY <1>1, <1>2

(* All attempts of all calls.                                               *)
LEMMA AllAttempts ==
    /\ IsFiniteSet(Calls \X (0 .. ServerRetries))
    /\ Cardinality(Calls \X (0 .. ServerRetries)) \in Nat
    /\ Ceiling = ErrorBudgetCap - 1 + Cardinality(Calls \X (0 .. ServerRetries))
<1>1. IsFiniteSet(Calls) /\ ServerRetries \in Nat
    BY ConstantsType
<1>2. IsFiniteSet(0 .. ServerRetries) /\ Cardinality(0 .. ServerRetries) = ServerRetries + 1
    BY <1>1, FS_Interval
<1>3. /\ IsFiniteSet(Calls \X (0 .. ServerRetries))
      /\ Cardinality(Calls \X (0 .. ServerRetries)) = Cardinality(Calls) * (ServerRetries + 1)
    BY <1>1, <1>2, FS_Product
<1>4. Cardinality(Calls) \in Nat
    BY <1>1, FS_CardinalityType
<1>5. Cardinality(Calls) * (ServerRetries + 1) = (ServerRetries + 1) * Cardinality(Calls)
    BY <1>1, <1>4
<1>6. QED
    BY <1>3, <1>4, <1>5, FS_CardinalityType, ConstantsType DEF Ceiling

LEMMA CeilingType == Ceiling \in Int
BY AllAttempts, ConstantsType

LEMMA SetsFinite ==
    ASSUME NEW u
    PROVE  /\ IsFiniteSet(Sending(u)) /\ IsFiniteSet(Unmodified(u)) /\ IsFiniteSet(Debts(u))
<1>1. IsFiniteSet(Calls)
    BY ConstantsType
<1>2. Sending(u) \subseteq Calls /\ Unmodified(u) \subseteq Calls
    BY DEF Sending, Unmodified
<1>3. Debts(u) \subseteq Calls \X (0 .. ServerRetries)
    BY DEF Debts
<1>4. QED
    BY <1>1, <1>2, <1>3, CountKept, AllAttempts

-----------------------------------------------------------------------------
(* How a step moves its call                                                *)

Rest(i) == \A j \in Calls \ {i} : call'[j] = call[j]

LEMMA NoCallType == NoCall \in Call /\ NoCall.pc = "idle" /\ NoCall.applied <= NoCall.attempt
<1>1. NoAnswer \in Answer
    BY ConstantsType DEF NoAnswer, Answer
<1>2. QED
    BY <1>1, ConstantsType DEF NoCall, Call, PCs

LEMMA EndMoves ==
    ASSUME TypeOK, NEW i \in Calls, End(i)
    PROVE  /\ call' \in [Calls -> Call] /\ Rest(i)
           /\ call'[i].pc = "idle" /\ Placed(i)'
<1>1. call' = [call EXCEPT ![i] = NoCall] /\ call \in [Calls -> Call]
    BY DEF End, TypeOK
<1>2. call' \in [Calls -> Call] /\ Rest(i) /\ call'[i] = NoCall
    BY <1>1, NoCallType DEF Rest
<1>3. QED
    BY <1>2, NoCallType DEF Placed

LEMMA GotoMoves ==
    ASSUME TypeOK, NEW i \in Calls, NEW l \in PCs, Goto(i, l)
    PROVE  /\ call' \in [Calls -> Call] /\ Rest(i)
           /\ call'[i].pc = l /\ call'[i].user = call[i].user
           /\ call'[i].attempt = call[i].attempt /\ call'[i].applied = call[i].applied
           /\ call'[i].resp = call[i].resp
<1>1. call[i] \in Call /\ call' = [call EXCEPT ![i] = [call[i] EXCEPT !.pc = l, !.seen = 0]]
    BY DEF TypeOK, Goto
<1>2. 0 \in 0 .. ErrorLimitBudget
    BY ConstantsType
<1>3. PICK new : new = [call[i] EXCEPT !.pc = l, !.seen = 0]
    OBVIOUS
<1>4. /\ new \in Call /\ new.pc = l /\ new.user = call[i].user
      /\ new.attempt = call[i].attempt /\ new.applied = call[i].applied
      /\ new.resp = call[i].resp
    BY <1>1, <1>2, <1>3 DEF Call
<1>5. call' = [call EXCEPT ![i] = new]
    BY <1>1, <1>3
<1>6. QED
    BY <1>4, <1>5 DEF TypeOK, Rest

(* The calls that a step does not move.                                     *)
LEMMA PlacedStays ==
    ASSUME EInv, NEW i \in Calls, Rest(i), Placed(i)'
    PROVE  \A j \in Calls : Placed(j)'
<1>1. ASSUME NEW j \in Calls \ {i}
      PROVE  Placed(j)'
    BY DEF EInv, Placed, Rest
<1>2. QED
    BY <1>1

(* A step that takes its call out of every count, and charges nothing.      *)
LEMMA CountsShrink ==
    ASSUME EInv, NEW i \in Calls, Rest(i), call'[i].pc \in {"idle", "remain", "check"},
           UNCHANGED <<bucket, stamps, net, refills>>
    PROVE  Counts'
<1>1. SUFFICES ASSUME NEW u \in Users
               PROVE  Paid(u)' /\ Refundable(u)' /\ Bounded(u)'
    BY DEF Counts
<1>2. Paid(u) /\ Refundable(u) /\ Bounded(u)
    BY DEF EInv, Counts
<1>3. Sending(u)' \subseteq Sending(u) /\ Unmodified(u)' \subseteq Unmodified(u)
    BY DEF Sending, Unmodified, Rest
<1>4. Debts(u)' \subseteq Debts(u)
    BY DEF Debts, Rest, AttemptPCs
<1>5. /\ Cardinality(Sending(u)') <= Cardinality(Sending(u))
      /\ Cardinality(Sending(u)) \in Nat /\ Cardinality(Sending(u)') \in Nat
    BY <1>3, SetsFinite, CountKept
<1>6. /\ Cardinality(Unmodified(u)') <= Cardinality(Unmodified(u))
      /\ Cardinality(Unmodified(u)) \in Nat /\ Cardinality(Unmodified(u)') \in Nat
    BY <1>3, SetsFinite, CountKept
<1>7. /\ Cardinality(Debts(u)') <= Cardinality(Debts(u))
      /\ Cardinality(Debts(u)) \in Nat /\ Cardinality(Debts(u)') \in Nat
    BY <1>4, SetsFinite, CountKept
<1>8. /\ bucket[u] \in Nat /\ net[u] \in Nat /\ refills[u] \in Nat /\ stamps[u] \in Nat
      /\ Capacity \in Nat
    BY ConstantsType DEF EInv, TypeOK
<1>9. Paid(u)'
    BY <1>2, <1>5, <1>8 DEF Paid
<1>10. Refundable(u)'
    BY <1>2, <1>6, <1>8 DEF Refundable
<1>11. Bounded(u)'
    BY <1>2, <1>7, <1>8, CeilingType DEF Bounded
<1>12. QED
    BY <1>9, <1>10, <1>11

-----------------------------------------------------------------------------
(* The steps of a call                                                      *)

LEMMA StartKeeps ==
    ASSUME EInv, NEW i \in Calls, NEW u \in Users, NEW kind \in {"get", "write"},
           Start(i, u, kind)
    PROVE  EInv'
<1>1. PICK new : new = [NoCall EXCEPT !.pc = "remain", !.user = u, !.kind = kind]
    OBVIOUS
<1>2. new \in Call /\ new.pc = "remain" /\ new.user = u /\ new.applied <= new.attempt
    BY <1>1, NoCallType DEF Call, PCs
<1>3. /\ call' = [call EXCEPT ![i] = new] /\ TypeOK
      /\ UNCHANGED <<bucket, remain, reset, stamps, esi, net, refills>>
    BY <1>1 DEF Start, limits, history, EInv
<1>4. call' \in [Calls -> Call] /\ Rest(i) /\ call'[i] = new
    BY <1>2, <1>3 DEF TypeOK, Rest
<1>5. TypeOK'
    BY <1>3, <1>4 DEF TypeOK
<1>6. Placed(i)'
    BY <1>2, <1>4 DEF Placed
<1>7. Counts'
    BY <1>2, <1>3, <1>4, CountsShrink
<1>8. QED
    BY <1>4, <1>5, <1>6, <1>7, PlacedStays DEF EInv

LEMMA ReadRemainKeeps ==
    ASSUME EInv, NEW i \in Calls, ReadRemain(i)
    PROVE  EInv'
<1>1. /\ TypeOK /\ call[i] \in Call /\ call[i].pc = "remain" /\ call[i].user \in Users
      /\ UNCHANGED <<bucket, remain, reset, stamps, esi, net, refills>>
      /\ call' = [call EXCEPT ![i] =
                     [call[i] EXCEPT !.pc = "check", !.seen = remain[call[i].user]]]
    BY DEF ReadRemain, CurrentRemain, limits, history, EInv, TypeOK, Placed
<1>2. remain[call[i].user] \in 0 .. ErrorLimitBudget
    BY <1>1 DEF TypeOK
<1>3. PICK new : new = [call[i] EXCEPT !.pc = "check", !.seen = remain[call[i].user]]
    OBVIOUS
<1>4. /\ new \in Call /\ new.pc = "check" /\ new.user = call[i].user
      /\ new.applied = call[i].applied /\ new.attempt = call[i].attempt
    BY <1>1, <1>2, <1>3 DEF Call, PCs
<1>5. call' \in [Calls -> Call] /\ Rest(i) /\ call'[i] = new
    BY <1>1, <1>3, <1>4 DEF TypeOK, Rest
<1>6. TypeOK'
    BY <1>1, <1>5 DEF TypeOK
<1>7. Placed(i)'
    BY <1>1, <1>4, <1>5 DEF EInv, Placed
<1>8. Counts'
    BY <1>1, <1>4, <1>5, CountsShrink
<1>9. QED
    BY <1>5, <1>6, <1>7, <1>8, PlacedStays DEF EInv

(* A call that ends, with no limit touched.                                 *)
LEMMA EndKeeps ==
    ASSUME EInv, NEW i \in Calls, End(i), remain' \in [Users -> 0 .. ErrorLimitBudget],
           UNCHANGED <<bucket, reset, stamps, esi, history>>
    PROVE  EInv'
<1>1. TypeOK
    BY DEF EInv
<1>2. call' \in [Calls -> Call] /\ Rest(i) /\ call'[i].pc = "idle" /\ Placed(i)'
    BY <1>1, EndMoves
<1>3. TypeOK'
    BY <1>1, <1>2 DEF TypeOK, history
<1>4. Counts'
    BY <1>2, CountsShrink DEF history
<1>5. QED
    BY <1>2, <1>3, <1>4, PlacedStays DEF EInv

LEMMA LimitBelowCap ==
    ASSUME NEW left \in Nat
    PROVE  ErrorLimit(left) <= ErrorBudgetCap
<1>1. left \div ErrorBudgetShare \in Int
    BY ConstantsType
<1>2. QED
    BY <1>1, ConstantsType DEF ErrorLimit

(* A call that passes the check finds room under the cap; what all calls    *)
(* may still charge comes on top.                                           *)
LEMMA CheckBudgetKeeps ==
    ASSUME EInv, NEW i \in Calls, CheckBudget(i)
    PROVE  EInv'
<1>1. /\ TypeOK /\ call[i].pc = "check" /\ call[i].user \in Users
      /\ call[i].seen \in 0 .. ErrorLimitBudget
      /\ UNCHANGED <<bucket, remain, reset, stamps, esi, net, refills>>
    BY DEF CheckBudget, limits, history, EInv, TypeOK, Placed, Call
<1>2. CASE ~(stamps[call[i].user] < ErrorLimit(call[i].seen))
    <2>1. End(i)
        BY <1>2 DEF CheckBudget
    <2>2. QED
        BY <1>1, <2>1, EndKeeps DEF TypeOK, history
<1>3. CASE stamps[call[i].user] < ErrorLimit(call[i].seen)
    <2>1. Goto(i, "request")
        BY <1>3 DEF CheckBudget
    <2>2. /\ call' \in [Calls -> Call] /\ Rest(i)
          /\ call'[i].pc = "request" /\ call'[i].user = call[i].user
          /\ call'[i].attempt = call[i].attempt /\ call'[i].applied = call[i].applied
        BY <1>1, <2>1, GotoMoves DEF PCs
    <2>3. TypeOK'
        BY <1>1, <2>2 DEF TypeOK
    <2>4. Placed(i)'
        BY <1>1, <2>2 DEF EInv, Placed
    <2>5. ASSUME NEW u \in Users
          PROVE  Paid(u)' /\ Refundable(u)' /\ Bounded(u)'
        <3>1. Paid(u) /\ Refundable(u) /\ Bounded(u)
            BY DEF EInv, Counts
        <3>2. Sending(u)' = Sending(u) /\ Unmodified(u)' = Unmodified(u)
            BY <1>1, <2>2 DEF Sending, Unmodified, Rest
        <3>3. Paid(u)' /\ Refundable(u)'
            BY <1>1, <3>1, <3>2 DEF Paid, Refundable
        <3>4. CASE u # call[i].user
            <4>1. Debts(u)' = Debts(u)
                BY <1>1, <2>2, <3>4 DEF Debts, Rest, AttemptPCs
            <4>2. QED
                BY <1>1, <3>1, <3>3, <4>1 DEF Bounded
        <3>5. CASE u = call[i].user
            <4>1. Debts(u)' \subseteq Calls \X (0 .. ServerRetries)
                BY DEF Debts
            <4>2. /\ Cardinality(Debts(u)') <= Cardinality(Calls \X (0 .. ServerRetries))
                  /\ Cardinality(Debts(u)') \in Nat
                BY <4>1, AllAttempts, CountKept
            <4>3. stamps[u] < ErrorBudgetCap
                <5>1. call[i].seen \in Nat
                    BY <1>1, ConstantsType
                <5>2. ErrorLimit(call[i].seen) \in Int
                    BY <5>1, ConstantsType DEF ErrorLimit
                <5>3. stamps[u] \in Nat
                    BY <1>1 DEF TypeOK
                <5>4. QED
                    BY <1>3, <3>5, <5>1, <5>2, <5>3, LimitBelowCap, ConstantsType
            <4>4. stamps[u] \in Nat /\ stamps'[u] = stamps[u]
                BY <1>1 DEF TypeOK
            <4>5. QED
                BY <3>3, <4>2, <4>3, <4>4, AllAttempts, ConstantsType DEF Bounded
        <3>6. QED
            BY <3>4, <3>5
    <2>6. QED
        BY <2>2, <2>3, <2>4, <2>5, PlacedStays DEF EInv, Counts
<1>4. QED
    BY <1>2, <1>3

LEMMA NoTokenKeeps ==
    ASSUME EInv, NEW i \in Calls, NoToken(i) \/ Finish(i)
    PROVE  EInv'
<1>1. End(i) /\ UNCHANGED <<bucket, remain, reset, stamps, esi, history>>
    BY DEF NoToken, Finish, limits
<1>2. QED
    BY <1>1, EndKeeps DEF EInv, TypeOK

(* The token that Take takes from the bucket is the call's until it sends.  *)
LEMMA AdmitKeeps ==
    ASSUME EInv, NEW i \in Calls, Admit(i)
    PROVE  EInv'
<1>1. /\ TypeOK /\ call[i].pc = "request" /\ call[i].user \in Users
      /\ UNCHANGED <<reset, stamps, esi, history>>
    BY DEF Admit, EInv, Placed
<1>2. PICK u \in Users : u = call[i].user
    BY <1>1
<1>3. remain' \in [Users -> 0 .. ErrorLimitBudget]
    <2>1. remain' = remain \/ remain' = [remain EXCEPT ![u] = ErrorLimitBudget]
        <3>1. remain \in [Users -> 0 .. ErrorLimitBudget]
            BY <1>1 DEF TypeOK
        <3>2. UNCHANGED remain \/ Forget(u)
            BY <1>2 DEF Admit
        <3>3. QED
            BY <3>1, <3>2 DEF Forget
    <2>2. QED
        BY <1>1, <2>1, ConstantsType DEF TypeOK
<1>4. CASE End(i) /\ UNCHANGED bucket
    BY <1>1, <1>3, <1>4, EndKeeps
<1>5. CASE Take(u) /\ Goto(i, "send")
    <2>1. /\ call' \in [Calls -> Call] /\ Rest(i)
          /\ call'[i].pc = "send" /\ call'[i].user = call[i].user
          /\ call'[i].attempt = call[i].attempt /\ call'[i].applied = call[i].applied
          /\ call'[i].resp = call[i].resp
        BY <1>1, <1>5, GotoMoves DEF PCs
    <2>2. /\ bucket' \in [Users -> 0 .. Capacity] /\ bucket'[u] = bucket[u] - 1
          /\ bucket[u] \in Nat /\ \A v \in Users \ {u} : bucket'[v] = bucket[v]
        BY <1>1, <1>5, ConstantsType DEF Take, TypeOK
    <2>3. TypeOK'
        BY <1>1, <1>3, <2>1, <2>2 DEF TypeOK, history
    <2>4. Placed(i)'
        BY <1>1, <2>1 DEF EInv, Placed
    <2>5. ASSUME NEW v \in Users
          PROVE  Paid(v)' /\ Refundable(v)' /\ Bounded(v)'
        <3>1. Paid(v) /\ Refundable(v) /\ Bounded(v)
            BY DEF EInv, Counts
        <3>2. Unmodified(v)' = Unmodified(v) /\ Debts(v)' = Debts(v)
            BY <1>1, <2>1 DEF Debts, Unmodified, Rest, AttemptPCs
        <3>3. Refundable(v)' /\ Bounded(v)'
            BY <1>1, <3>1, <3>2 DEF Refundable, Bounded, history
        <3>4. CASE v = u
            <4>1. Sending(v)' \subseteq Sending(v) \cup {i}
                BY <2>1 DEF Sending, Rest
            <4>2. /\ Cardinality(Sending(v)') <= Cardinality(Sending(v)) + 1
                  /\ Cardinality(Sending(v)) \in Nat /\ Cardinality(Sending(v)') \in Nat
                BY <4>1, SetsFinite, CountGrows
            <4>3. /\ net'[v] = net[v] /\ refills'[v] = refills[v] /\ net[v] \in Nat
                  /\ refills[v] \in Nat
                BY <1>1 DEF TypeOK, history
            <4>4. QED
                BY <2>2, <3>1, <3>3, <3>4, <4>2, <4>3, ConstantsType DEF Paid
        <3>5. CASE v # u
            <4>1. Sending(v)' = Sending(v)
                BY <1>1, <1>2, <2>1, <3>5 DEF Sending, Rest
            <4>2. QED
                BY <1>1, <2>2, <3>1, <3>3, <3>5, <4>1 DEF Paid, history
        <3>6. QED
            BY <3>4, <3>5
    <2>6. QED
        BY <2>1, <2>3, <2>4, <2>5, PlacedStays DEF EInv, Counts
<1>6. QED
    BY <1>2, <1>4, <1>5 DEF Admit

LEMMA SendMoves ==
    ASSUME EInv, NEW i \in Calls, Send(i)
    PROVE  /\ TypeOK /\ call[i].pc = "send" /\ call[i].user \in Users
           /\ UNCHANGED <<bucket, remain, reset, stamps, refills>>
           /\ net' = [net EXCEPT ![call[i].user] = @ + 1]
           /\ esi' \in [window : 1 .. MaxWindows, left : 0 .. ErrorLimitBudget]
           /\ call' \in [Calls -> Call] /\ Rest(i)
           /\ call'[i].pc = "answered" /\ call'[i].user = call[i].user
           /\ call'[i].attempt = call[i].attempt
           /\ call'[i].applied <= call[i].attempt + 1 /\ call'[i].resp.status # "none"
<1>1. /\ TypeOK /\ call[i] \in Call /\ call[i].pc = "send" /\ call[i].user \in Users
      /\ call[i].applied <= call[i].attempt
      /\ UNCHANGED <<bucket, remain, reset, stamps, refills>>
      /\ net' = [net EXCEPT ![call[i].user] = @ + 1]
    BY DEF Send, limits, EInv, TypeOK, Placed
<1>2. esi.window \in 1 .. MaxWindows /\ esi.left \in 0 .. ErrorLimitBudget
    BY <1>1 DEF TypeOK
<1>3. PICK s \in Answers(call[i]), reached \in BOOLEAN, headers \in BOOLEAN :
          LET left == IF s \in Errors /\ esi.left > 0 THEN esi.left - 1 ELSE esi.left
          IN /\ esi' = [esi EXCEPT !.left = left]
             /\ call' = [call EXCEPT
                   ![i].pc = "answered",
                   ![i].applied = IF call[i].kind = "write" /\ reached /\ s \notin Errors
                                  THEN @ + 1 ELSE @,
                   ![i].resp = [status |-> s,
                                left |-> IF headers /\ s \notin NetErrors THEN left
                                         ELSE None,
                                window |-> esi.window]]
    BY Zenon DEF Send
<1>x. s \in Statuses
    BY DEF Answers, Statuses, Errors, NetErrors
<1>4. PICK left \in 0 .. ErrorLimitBudget :
          left = IF s \in Errors /\ esi.left > 0 THEN esi.left - 1 ELSE esi.left
    BY <1>2, ConstantsType
<1>5. PICK ap \in 0 .. ServerRetries + 1 :
          /\ ap = IF call[i].kind = "write" /\ reached /\ s \notin Errors
                  THEN call[i].applied + 1 ELSE call[i].applied
          /\ ap <= call[i].attempt + 1
    BY <1>1, ConstantsType DEF Call
<1>6. PICK l \in 0 .. ErrorLimitBudget \cup {None} :
          l = IF headers /\ s \notin NetErrors THEN left ELSE None
    OBVIOUS
<1>7. PICK resp : resp = [status |-> s, left |-> l, window |-> esi.window]
    OBVIOUS
<1>8. resp \in Answer /\ resp.status = s /\ s # "none"
    BY <1>2, <1>x, <1>7, ConstantsType DEF Answer, Statuses, Errors, NetErrors
<1>9. PICK new : new = [call[i] EXCEPT !.pc = "answered", !.applied = ap, !.resp = resp]
    OBVIOUS
<1>10. /\ new \in Call /\ new.pc = "answered" /\ new.user = call[i].user
       /\ new.attempt = call[i].attempt /\ new.applied = ap /\ new.resp = resp
    BY <1>1, <1>8, <1>9 DEF Call, PCs
<1>11. call' = [call EXCEPT ![i] = new] /\ esi' = [esi EXCEPT !.left = left]
    <2>1. esi' = [esi EXCEPT !.left = left]
        BY <1>3, <1>4
    <2>2. call' = [call EXCEPT ![i] = [call[i] EXCEPT !.pc = "answered", !.applied = ap,
                                                      !.resp = resp]]
        BY <1>3, <1>4, <1>5, <1>6, <1>7
    <2>3. QED
        BY <1>9, <2>1, <2>2
<1>12. call' \in [Calls -> Call] /\ Rest(i) /\ call'[i] = new
    BY <1>1, <1>10, <1>11 DEF TypeOK, Rest
<1>13. esi' \in [window : 1 .. MaxWindows, left : 0 .. ErrorLimitBudget]
    BY <1>1, <1>4, <1>11 DEF TypeOK
<1>14. QED
    BY <1>1, <1>5, <1>8, <1>10, <1>12, <1>13

(* A request on the wire: the token is spent.                               *)
LEMMA SendKeeps ==
    ASSUME EInv, NEW i \in Calls, Send(i)
    PROVE  EInv'
<1>1. /\ TypeOK /\ call[i].pc = "send" /\ call[i].user \in Users
      /\ UNCHANGED <<bucket, remain, reset, stamps, refills>>
      /\ esi' \in [window : 1 .. MaxWindows, left : 0 .. ErrorLimitBudget]
      /\ call' \in [Calls -> Call] /\ Rest(i)
      /\ call'[i].pc = "answered" /\ call'[i].user = call[i].user
      /\ call'[i].attempt = call[i].attempt
      /\ call'[i].applied <= call[i].attempt + 1 /\ call'[i].resp.status # "none"
    BY SendMoves
<1>2. PICK u \in Users : u = call[i].user
    BY <1>1
<1>3. /\ net' \in [Users -> Nat] /\ net'[u] = net[u] + 1
      /\ \A v \in Users \ {u} : net'[v] = net[v]
    BY <1>1, <1>2, SendMoves DEF TypeOK
<1>4. TypeOK'
    BY <1>1, <1>3 DEF TypeOK
<1>5. Placed(i)'
    BY <1>1 DEF Placed
<1>6. ASSUME NEW v \in Users
      PROVE  Paid(v)' /\ Refundable(v)' /\ Bounded(v)'
    <2>1. Paid(v) /\ Refundable(v) /\ Bounded(v)
        BY DEF EInv, Counts
    <2>2. Debts(v)' = Debts(v)
        BY <1>1 DEF Debts, Rest, AttemptPCs
    <2>3. Bounded(v)'
        BY <1>1, <2>1, <2>2 DEF Bounded
    <2>4. /\ bucket[v] \in Nat /\ net[v] \in Nat /\ refills[v] \in Nat
        BY <1>1, ConstantsType DEF TypeOK
    <2>5. CASE v = u
        <3>1. i \in Sending(v) /\ Sending(v)' \subseteq Sending(v) \ {i}
            BY <1>1, <1>2, <2>5 DEF Sending, Rest
        <3>2. /\ Cardinality(Sending(v)') + 1 <= Cardinality(Sending(v))
              /\ Cardinality(Sending(v)) \in Nat /\ Cardinality(Sending(v)') \in Nat
            BY <3>1, SetsFinite, CountDrops
        <3>3. Unmodified(v)' \subseteq Unmodified(v) \cup {i}
            BY <1>1 DEF Unmodified, Rest
        <3>4. /\ Cardinality(Unmodified(v)') <= Cardinality(Unmodified(v)) + 1
              /\ Cardinality(Unmodified(v)) \in Nat /\ Cardinality(Unmodified(v)') \in Nat
            BY <3>3, SetsFinite, CountGrows
        <3>5. Paid(v)'
            BY <1>1, <1>3, <2>1, <2>4, <2>5, <3>2, ConstantsType DEF Paid
        <3>6. Refundable(v)'
            BY <1>3, <2>1, <2>4, <2>5, <3>4 DEF Refundable
        <3>7. QED
            BY <2>3, <3>5, <3>6
    <2>6. CASE v # u
        <3>1. Sending(v)' = Sending(v) /\ Unmodified(v)' = Unmodified(v)
            BY <1>1, <1>2, <2>6 DEF Sending, Unmodified, Rest
        <3>2. QED
            BY <1>1, <1>3, <2>1, <2>3, <2>6, <3>1 DEF Paid, Refundable
    <2>7. QED
        BY <2>5, <2>6
<1>7. QED
    BY <1>1, <1>4, <1>5, <1>6, PlacedStays DEF EInv, Counts

LEMMA ReceiveMoves ==
    ASSUME EInv, NEW i \in Calls, Receive(i)
    PROVE  /\ call' \in [Calls -> Call] /\ Rest(i) /\ Placed(i)'
           /\ call'[i].pc \in {"request", "idle", "finish"}
           /\ call'[i].pc # "idle" => call'[i].user = call[i].user
           /\ call'[i].pc = "request" => call'[i].attempt = call[i].attempt + 1
           /\ call'[i].pc = "finish" => call'[i].resp.status = call[i].resp.status
<1>1. /\ TypeOK /\ call[i] \in Call /\ call[i].pc = "answered" /\ call[i].user \in Users
      /\ call[i].applied <= call[i].attempt + 1 /\ call[i].resp \in Answer
      /\ call[i].resp.status \in Statuses
    BY DEF Receive, EInv, TypeOK, Placed, Call, Answer
<1>2. NoAnswer \in Answer
    BY NoCallType, ConstantsType DEF NoAnswer, Answer
<1>3. CASE /\ ThrottleRetry(call[i]) \/ ServerRetry(call[i]) \/ NetRetry(call[i])
           /\ call' = [call EXCEPT ![i] = [call[i] EXCEPT !.pc = "request", !.attempt = @ + 1,
                                                          !.resp = NoAnswer]]
    <2>1. call[i].attempt < ServerRetries /\ call[i].attempt \in Nat
        BY <1>1, <1>3, ConstantsType DEF ThrottleRetry, ServerRetry, NetRetry, Call
    <2>2. PICK a \in 0 .. ServerRetries : a = call[i].attempt + 1
        BY <2>1, ConstantsType
    <2>3. PICK new : new = [call[i] EXCEPT !.pc = "request", !.attempt = a, !.resp = NoAnswer]
        OBVIOUS
    <2>4. /\ new \in Call /\ new.pc = "request" /\ new.user = call[i].user
          /\ new.attempt = a /\ new.applied = call[i].applied
        BY <1>1, <1>2, <2>3 DEF Call, PCs
    <2>5. call' = [call EXCEPT ![i] = new]
        BY <1>3, <2>2, <2>3
    <2>6. call' \in [Calls -> Call] /\ Rest(i) /\ call'[i] = new
        BY <1>1, <2>4, <2>5 DEF TypeOK, Rest
    <2>7. Placed(i)'
        BY <1>1, <2>2, <2>4, <2>6 DEF Placed
    <2>8. QED
        BY <2>2, <2>4, <2>6, <2>7
<1>4. CASE End(i)
    BY <1>1, <1>4, EndMoves
<1>5. CASE call' = [call EXCEPT ![i] = [call[i] EXCEPT !.pc = "finish",
                        !.resp = [NoAnswer EXCEPT !.status = call[i].resp.status]]]
    <2>1. PICK resp : resp = [NoAnswer EXCEPT !.status = call[i].resp.status]
        OBVIOUS
    <2>2. resp \in Answer /\ resp.status = call[i].resp.status
        BY <1>1, <1>2, <2>1 DEF Answer
    <2>3. PICK new : new = [call[i] EXCEPT !.pc = "finish", !.resp = resp]
        OBVIOUS
    <2>4. /\ new \in Call /\ new.pc = "finish" /\ new.user = call[i].user /\ new.resp = resp
        BY <1>1, <2>2, <2>3 DEF Call, PCs
    <2>5. call' = [call EXCEPT ![i] = new]
        BY <1>5, <2>1, <2>3
    <2>6. call' \in [Calls -> Call] /\ Rest(i) /\ call'[i] = new
        BY <1>1, <2>4, <2>5 DEF TypeOK, Rest
    <2>7. Placed(i)'
        BY <1>1, <2>4, <2>6 DEF Placed
    <2>8. QED
        BY <2>2, <2>4, <2>6, <2>7
<1>6. QED
    BY <1>3, <1>4, <1>5 DEF Receive

(* The error of an attempt is charged when the attempt is over: its debt    *)
(* is paid, whatever comes after.                                           *)
LEMMA ReceiveKeeps ==
    ASSUME EInv, NEW i \in Calls, Receive(i)
    PROVE  EInv'
<1>1. /\ TypeOK /\ call[i] \in Call /\ call[i].pc = "answered" /\ call[i].user \in Users
      /\ call[i].resp \in Answer /\ call[i].attempt \in 0 .. ServerRetries
      /\ UNCHANGED <<bucket, esi, net, refills>>
    BY DEF Receive, EInv, TypeOK, Placed, Call, history
<1>2. /\ call' \in [Calls -> Call] /\ Rest(i) /\ Placed(i)'
      /\ call'[i].pc \in {"request", "idle", "finish"}
      /\ call'[i].pc # "idle" => call'[i].user = call[i].user
      /\ call'[i].pc = "request" => call'[i].attempt = call[i].attempt + 1
      /\ call'[i].pc = "finish" => call'[i].resp.status = call[i].resp.status
    BY ReceiveMoves
<1>3. PICK u \in Users : u = call[i].user
    BY <1>1
<1>4. /\ remain' \in [Users -> 0 .. ErrorLimitBudget] /\ reset' \in [Users -> 0 .. MaxWindows]
      /\ stamps' \in [Users -> Nat] /\ stamps'[u] <= stamps[u] + 1
      /\ \A v \in Users \ {u} : stamps'[v] = stamps[v]
    <2>1. /\ remain \in [Users -> 0 .. ErrorLimitBudget] /\ reset \in [Users -> 0 .. MaxWindows]
          /\ stamps \in [Users -> Nat]
        BY <1>1 DEF TypeOK
    <2>2. NoteErrorHeaders(i)
        BY DEF Receive
    <2>3. CASE call[i].resp.left = None
        BY <2>1, <2>2, <2>3 DEF NoteErrorHeaders
    <2>4. CASE call[i].resp.left # None
        <3>1. /\ call[i].resp.left \in 0 .. ErrorLimitBudget
              /\ call[i].resp.window \in 0 .. MaxWindows
            BY <1>1, <2>4 DEF Answer
        <3>2. /\ remain' = [remain EXCEPT ![u] = call[i].resp.left]
              /\ reset' = [reset EXCEPT ![u] = call[i].resp.window]
              /\ stamps' = stamps \/ stamps' = [stamps EXCEPT ![u] = @ + 1]
            BY <1>3, <2>2, <2>4 DEF NoteErrorHeaders
        <3>3. QED
            BY <2>1, <3>1, <3>2
    <2>5. QED
        BY <2>3, <2>4
<1>5. TypeOK'
    BY <1>1, <1>2, <1>4 DEF TypeOK
<1>6. ASSUME NEW v \in Users
      PROVE  Paid(v)' /\ Refundable(v)' /\ Bounded(v)'
    <2>1. Paid(v) /\ Refundable(v) /\ Bounded(v)
        BY DEF EInv, Counts
    <2>2. Sending(v)' = Sending(v) /\ Unmodified(v)' \subseteq Unmodified(v)
        BY <1>1, <1>2 DEF Sending, Unmodified, Rest
    <2>3. /\ Cardinality(Unmodified(v)') <= Cardinality(Unmodified(v))
          /\ Cardinality(Unmodified(v)) \in Nat /\ Cardinality(Unmodified(v)') \in Nat
          /\ net[v] \in Nat /\ net'[v] = net[v]
        BY <1>1, <2>2, SetsFinite, CountKept DEF TypeOK
    <2>4. Paid(v)' /\ Refundable(v)'
        BY <1>1, <2>1, <2>2, <2>3 DEF Paid, Refundable
    <2>5. stamps[v] \in Nat /\ stamps'[v] \in Nat
        BY <1>1, <1>4 DEF TypeOK
    <2>6. CASE v = u
        <3>1. /\ <<i, call[i].attempt>> \in Debts(v)
              /\ Debts(v)' \subseteq Debts(v) \ {<<i, call[i].attempt>>}
            <4>1. <<i, call[i].attempt>> \in Debts(v)
                BY <1>1, <1>3, <2>6 DEF Debts, AttemptPCs
            <4>2. ASSUME NEW d \in Debts(v)'
                  PROVE  d \in Debts(v) /\ d # <<i, call[i].attempt>>
                <5>1. /\ d \in Calls \X (0 .. ServerRetries)
                      /\ call'[d[1]].user = v /\ call'[d[1]].pc \in AttemptPCs
                      /\ call'[d[1]].attempt <= d[2]
                    BY <4>2 DEF Debts
                <5>2. CASE d[1] = i
                    <6>1. call'[i].attempt = call[i].attempt + 1
                        BY <1>2, <5>1, <5>2 DEF AttemptPCs
                    <6>2. call[i].attempt < d[2]
                        BY <1>1, <5>1, <5>2, <6>1, ConstantsType
                    <6>3. QED
                        BY <1>1, <1>3, <2>6, <5>1, <5>2, <6>2, ConstantsType
                           DEF Debts, AttemptPCs
                <5>3. CASE d[1] # i
                    BY <1>2, <5>1, <5>3 DEF Debts, Rest
                <5>4. QED
                    BY <5>2, <5>3
            <4>3. QED
                BY <4>1, <4>2
        <3>2. /\ Cardinality(Debts(v)') + 1 <= Cardinality(Debts(v))
              /\ Cardinality(Debts(v)) \in Nat /\ Cardinality(Debts(v)') \in Nat
            BY <3>1, SetsFinite, CountDrops
        <3>3. QED
            BY <1>4, <2>1, <2>4, <2>5, <2>6, <3>2, CeilingType DEF Bounded
    <2>7. CASE v # u
        <3>1. Debts(v)' \subseteq Debts(v)
            BY <1>1, <1>2, <1>3, <2>7 DEF Debts, Rest, AttemptPCs
        <3>2. /\ Cardinality(Debts(v)') <= Cardinality(Debts(v))
              /\ Cardinality(Debts(v)) \in Nat /\ Cardinality(Debts(v)') \in Nat
            BY <3>1, SetsFinite, CountKept
        <3>3. QED
            BY <1>4, <2>1, <2>4, <2>5, <2>7, <3>2, CeilingType DEF Bounded
    <2>8. QED
        BY <2>6, <2>7
<1>7. QED
    BY <1>2, <1>5, <1>6, PlacedStays DEF EInv, Counts


(* An answer from cache: its request no longer counts, its token comes back.*)
LEMMA NotModifiedKeeps ==
    ASSUME EInv, NEW i \in Calls, NotModified(i)
    PROVE  EInv'
<1>1. /\ TypeOK /\ call[i].pc = "finish" /\ call[i].resp.status = "notModified"
      /\ call[i].user \in Users /\ End(i) /\ Refund(call[i].user)
      /\ net' = [net EXCEPT ![call[i].user] = @ - 1]
      /\ UNCHANGED <<remain, reset, stamps, esi, refills>>
    BY DEF NotModified, EInv, Placed
<1>2. PICK u \in Users : u = call[i].user
    BY <1>1
<1>3. call' \in [Calls -> Call] /\ Rest(i) /\ call'[i].pc = "idle" /\ Placed(i)'
    BY <1>1, EndMoves
<1>4. i \in Unmodified(u)
    BY <1>1, <1>2 DEF Unmodified
<1>5. net[u] \in Nat /\ net[u] >= 1
    <2>1. /\ Cardinality(Unmodified(u) \ {i}) + 1 <= Cardinality(Unmodified(u))
          /\ Cardinality(Unmodified(u) \ {i}) \in Nat /\ Cardinality(Unmodified(u)) \in Nat
        BY <1>4, SetsFinite, CountDrops
    <2>2. Refundable(u)
        BY DEF EInv, Counts
    <2>3. QED
        BY <1>1, <2>1, <2>2 DEF Refundable, TypeOK
<1>6. net \in [Users -> Nat] /\ bucket \in [Users -> 0 .. Capacity]
    BY <1>1 DEF TypeOK
<1>7. /\ net' \in [Users -> Nat] /\ net'[u] = net[u] - 1
      /\ \A v \in Users \ {u} : net'[v] = net[v]
    BY <1>1, <1>2, <1>5, <1>6
<1>8. bucket' = [bucket EXCEPT ![u] = IF @ < Capacity THEN @ + 1 ELSE @]
    BY <1>1, <1>2 DEF Refund
<1>9. /\ bucket' \in [Users -> 0 .. Capacity] /\ bucket'[u] <= bucket[u] + 1
      /\ \A v \in Users \ {u} : bucket'[v] = bucket[v]
    BY <1>6, <1>8, ConstantsType
<1>10. TypeOK'
    BY <1>1, <1>3, <1>7, <1>9 DEF TypeOK
<1>11. ASSUME NEW v \in Users
       PROVE  Paid(v)' /\ Refundable(v)' /\ Bounded(v)'
    <2>1. Paid(v) /\ Refundable(v) /\ Bounded(v)
        BY DEF EInv, Counts
    <2>2. Sending(v)' = Sending(v)
        BY <1>1, <1>3 DEF Sending, Rest
    <2>3. Debts(v)' = Debts(v)
        BY <1>1, <1>3 DEF Debts, Rest, AttemptPCs
    <2>4. Bounded(v)'
        BY <1>1, <2>1, <2>3 DEF Bounded
    <2>5. /\ bucket[v] \in Nat /\ bucket'[v] \in Nat /\ net[v] \in Nat /\ refills[v] \in Nat
          /\ Cardinality(Sending(v)) \in Nat
        <3>1. Cardinality(Sending(v)) \in Nat
            BY SetsFinite, FS_CardinalityType
        <3>2. net[v] \in Nat /\ refills[v] \in Nat
            BY <1>1, ConstantsType DEF TypeOK
        <3>3. bucket[v] \in Nat /\ bucket'[v] \in Nat
            BY <1>6, <1>9, ConstantsType
        <3>4. QED
            BY <3>1, <3>2, <3>3
    <2>6. CASE v = u
        <3>1. Unmodified(v)' \subseteq Unmodified(v) \ {i}
            BY <1>3 DEF Unmodified, Rest
        <3>2. /\ Cardinality(Unmodified(v)') + 1 <= Cardinality(Unmodified(v))
              /\ Cardinality(Unmodified(v)) \in Nat /\ Cardinality(Unmodified(v)') \in Nat
            BY <1>4, <2>6, <3>1, SetsFinite, CountDrops
        <3>3. Paid(v)'
            BY <1>1, <1>7, <1>9, <2>1, <2>2, <2>5, <2>6, ConstantsType DEF Paid
        <3>4. Refundable(v)'
            BY <1>7, <2>1, <2>5, <2>6, <3>2 DEF Refundable
        <3>5. QED
            BY <2>4, <3>3, <3>4
    <2>7. CASE v # u
        <3>1. Unmodified(v)' = Unmodified(v)
            BY <1>2, <1>3, <2>7 DEF Unmodified, Rest
        <3>2. QED
            BY <1>1, <1>7, <1>9, <2>1, <2>2, <2>4, <2>7, <3>1 DEF Paid, Refundable
    <2>8. QED
        BY <2>6, <2>7
<1>12. QED
    BY <1>3, <1>10, <1>11, PlacedStays DEF EInv, Counts

(* Any other end of a call.                                                 *)
LEMMA FinishKeeps ==
    ASSUME EInv, NEW i \in Calls, Finish(i)
    PROVE  EInv'
<1>1. remain' \in [Users -> 0 .. ErrorLimitBudget]
    BY DEF Finish, limits, EInv, TypeOK
<1>2. QED
    BY <1>1, EndKeeps DEF Finish, limits

-----------------------------------------------------------------------------
(* The steps of time and of the world                                       *)

(* A step that no call takes: the sets stand.                               *)
LEMMA SetsStand ==
    ASSUME NEW u, UNCHANGED call
    PROVE  Sending(u)' = Sending(u) /\ Unmodified(u)' = Unmodified(u) /\ Debts(u)' = Debts(u)
BY DEF Sending, Unmodified, Debts

LEMMA CallsStand ==
    ASSUME EInv, UNCHANGED call
    PROVE  \A i \in Calls : Placed(i)'
BY DEF EInv, Placed

LEMMA RefillKeeps ==
    ASSUME EInv, NEW u \in Users, Refill(u)
    PROVE  EInv'
<1>1. /\ bucket[u] < Capacity /\ refills[u] < MaxRefills
      /\ bucket' = [bucket EXCEPT ![u] = @ + 1]
      /\ refills' = [refills EXCEPT ![u] = @ + 1]
      /\ UNCHANGED <<remain, reset, stamps, call, esi, net>>
    BY DEF Refill
<1>2. /\ bucket \in [Users -> 0 .. Capacity] /\ refills \in [Users -> 0 .. MaxRefills]
      /\ net \in [Users -> Nat]
    BY DEF EInv, TypeOK
<1>3. /\ bucket' \in [Users -> 0 .. Capacity] /\ refills' \in [Users -> 0 .. MaxRefills]
    BY <1>1, <1>2, ConstantsType
<1>4. TypeOK'
    BY <1>1, <1>3 DEF EInv, TypeOK
<1>5. ASSUME NEW v \in Users
      PROVE  Paid(v)' /\ Refundable(v)' /\ Bounded(v)'
    <2>1. Paid(v) /\ Refundable(v) /\ Bounded(v)
        BY DEF EInv, Counts
    <2>2. Sending(v)' = Sending(v) /\ Unmodified(v)' = Unmodified(v) /\ Debts(v)' = Debts(v)
        BY <1>1, SetsStand
    <2>3. Cardinality(Sending(v)) \in Nat
        BY SetsFinite, FS_CardinalityType
    <2>4. Paid(v)'
        BY <1>1, <1>2, <1>3, <2>1, <2>2, <2>3, ConstantsType DEF Paid
    <2>5. Refundable(v)' /\ Bounded(v)'
        BY <1>1, <2>1, <2>2 DEF Refundable, Bounded
    <2>6. QED
        BY <2>4, <2>5
<1>6. QED
    BY <1>1, <1>4, <1>5, CallsStand DEF EInv, Counts

LEMMA StampExpiresKeeps ==
    ASSUME EInv, NEW u \in Users, StampExpires(u)
    PROVE  EInv'
<1>1. /\ stamps[u] > 0 /\ stamps' = [stamps EXCEPT ![u] = @ - 1]
      /\ UNCHANGED <<bucket, remain, reset, call, esi, net, refills>>
    BY DEF StampExpires, history
<1>2. stamps \in [Users -> Nat]
    BY DEF EInv, TypeOK
<1>3. stamps' \in [Users -> Nat] /\ \A v \in Users : stamps'[v] <= stamps[v]
    BY <1>1, <1>2
<1>4. TypeOK'
    BY <1>1, <1>3 DEF EInv, TypeOK
<1>5. ASSUME NEW v \in Users
      PROVE  Paid(v)' /\ Refundable(v)' /\ Bounded(v)'
    <2>1. Paid(v) /\ Refundable(v) /\ Bounded(v)
        BY DEF EInv, Counts
    <2>2. Sending(v)' = Sending(v) /\ Unmodified(v)' = Unmodified(v) /\ Debts(v)' = Debts(v)
        BY <1>1, SetsStand
    <2>3. Cardinality(Debts(v)) \in Nat
        BY SetsFinite, FS_CardinalityType
    <2>4. Bounded(v)'
        BY <1>2, <1>3, <2>1, <2>2, <2>3, CeilingType DEF Bounded
    <2>5. Paid(v)' /\ Refundable(v)'
        BY <1>1, <2>1, <2>2 DEF Paid, Refundable
    <2>6. QED
        BY <2>4, <2>5
<1>6. QED
    BY <1>1, <1>4, <1>5, CallsStand DEF EInv, Counts

(* Nothing that is counted changes.                                         *)
LEMMA CountsStand ==
    ASSUME EInv, UNCHANGED <<bucket, stamps, call, net, refills>>
    PROVE  Counts'
<1>1. SUFFICES ASSUME NEW v \in Users
               PROVE  Paid(v)' /\ Refundable(v)' /\ Bounded(v)'
    BY DEF Counts
<1>2. Sending(v)' = Sending(v) /\ Unmodified(v)' = Unmodified(v) /\ Debts(v)' = Debts(v)
    BY SetsStand
<1>3. QED
    BY <1>2 DEF EInv, Counts, Paid, Refundable, Bounded

LEMMA ResetDueKeeps ==
    ASSUME EInv, NEW u \in Users, ResetDue(u)
    PROVE  EInv'
<1>1. /\ reset' = [reset EXCEPT ![u] = 0]
      /\ UNCHANGED <<bucket, remain, stamps, call, esi, net, refills>>
    BY DEF ResetDue, history
<1>2. reset \in [Users -> 0 .. MaxWindows] /\ 0 \in 0 .. MaxWindows
    BY ConstantsType DEF EInv, TypeOK
<1>3. reset' \in [Users -> 0 .. MaxWindows]
    BY <1>1, <1>2
<1>4. TypeOK'
    BY <1>1, <1>3 DEF EInv, TypeOK
<1>5. QED
    BY <1>1, <1>4, CallsStand, CountsStand DEF EInv

LEMMA EsiKeeps ==
    ASSUME EInv, OtherPodErrs \/ WindowEnds
    PROVE  EInv'
<1>1. UNCHANGED <<bucket, remain, reset, stamps, call, net, refills>>
    BY DEF OtherPodErrs, WindowEnds, limits, history
<1>2. esi \in [window : 1 .. MaxWindows, left : 0 .. ErrorLimitBudget]
    BY DEF EInv, TypeOK
<1>3. CASE OtherPodErrs
    <2>1. esi.left > 0 /\ esi' = [esi EXCEPT !.left = @ - 1]
        BY <1>3 DEF OtherPodErrs
    <2>2. esi.left - 1 \in 0 .. ErrorLimitBudget
        BY <1>2, <2>1, ConstantsType
    <2>3. QED
        <3>1. esi' \in [window : 1 .. MaxWindows, left : 0 .. ErrorLimitBudget]
            BY <1>2, <2>1, <2>2
        <3>2. TypeOK'
            BY <1>1, <3>1 DEF EInv, TypeOK
        <3>3. QED
            BY <1>1, <3>2, CallsStand, CountsStand DEF EInv
<1>4. CASE WindowEnds
    <2>1. /\ esi.window < MaxWindows
          /\ esi' = [window |-> esi.window + 1, left |-> ErrorLimitBudget]
        BY <1>4 DEF WindowEnds
    <2>2. esi.window + 1 \in 1 .. MaxWindows /\ ErrorLimitBudget \in 0 .. ErrorLimitBudget
        BY <1>2, <2>1, ConstantsType
    <2>3. esi' \in [window : 1 .. MaxWindows, left : 0 .. ErrorLimitBudget]
        BY <2>1, <2>2
    <2>4. TypeOK'
        BY <1>1, <2>3 DEF EInv, TypeOK
    <2>5. QED
        BY <1>1, <2>4, CallsStand, CountsStand DEF EInv
<1>5. QED
    BY <1>3, <1>4

LEMMA UnchangedKeeps ==
    ASSUME EInv, UNCHANGED vars
    PROVE  EInv'
<1>1. UNCHANGED <<bucket, remain, reset, stamps, call, esi, net, refills>>
    BY DEF vars, limits, history
<1>2. TypeOK'
    BY <1>1 DEF EInv, TypeOK
<1>3. QED
    BY <1>1, <1>2, CallsStand, CountsStand DEF EInv

-----------------------------------------------------------------------------
(* The theorems                                                             *)

LEMMA InitEInv == Init => EInv
<1>1. SUFFICES ASSUME Init
               PROVE  EInv
    OBVIOUS
<1>2. \A i \in Calls : call[i] = NoCall
    BY <1>1 DEF Init
<1>3. TypeOK
    <2>1. call \in [Calls -> Call]
        BY <1>1, NoCallType DEF Init
    <2>2. esi \in [window : 1 .. MaxWindows, left : 0 .. ErrorLimitBudget]
        BY <1>1, ConstantsType DEF Init
    <2>3. QED
        BY <1>1, <2>1, <2>2, ConstantsType DEF Init, TypeOK
<1>4. \A i \in Calls : Placed(i)
    BY <1>2, NoCallType DEF Placed
<1>5. ASSUME NEW u \in Users
      PROVE  Paid(u) /\ Refundable(u) /\ Bounded(u)
    <2>1. Sending(u) = {} /\ Unmodified(u) = {} /\ Debts(u) = {}
        BY <1>2, NoCallType DEF Sending, Unmodified, Debts, AttemptPCs
    <2>2. Cardinality({}) = 0
        BY FS_EmptySet
    <2>3. bucket[u] = Capacity /\ net[u] = 0 /\ refills[u] = 0 /\ stamps[u] = 0
        BY <1>1 DEF Init
    <2>4. Ceiling >= 0
        BY AllAttempts, ConstantsType
    <2>5. QED
        BY <2>1, <2>2, <2>3, <2>4, ConstantsType DEF Paid, Refundable, Bounded
<1>6. QED
    BY <1>3, <1>4, <1>5 DEF EInv, Counts

LEMMA StepKeeps ==
    ASSUME EInv, NEW i \in Calls, Step(i)
    PROVE  EInv'
<1>1. CASE ReadRemain(i)
    BY <1>1, ReadRemainKeeps
<1>2. CASE CheckBudget(i)
    BY <1>2, CheckBudgetKeeps
<1>3. CASE NoToken(i)
    BY <1>3, NoTokenKeeps
<1>4. CASE Admit(i)
    BY <1>4, AdmitKeeps
<1>5. CASE Send(i)
    BY <1>5, SendKeeps
<1>6. CASE Receive(i)
    BY <1>6, ReceiveKeeps
<1>7. CASE NotModified(i)
    BY <1>7, NotModifiedKeeps
<1>8. CASE Finish(i)
    BY <1>8, FinishKeeps
<1>9. QED
    BY <1>1, <1>2, <1>3, <1>4, <1>5, <1>6, <1>7, <1>8 DEF Step

(* The counts hold in every reachable state, whatever calls, retries,       *)
(* answers and errors come in whatever order.                               *)
THEOREM CountsInvariant == Spec => []EInv
<1>1. Init => EInv
    BY InitEInv
<1>2. EInv /\ [Next]_vars => EInv'
    <2>1. SUFFICES ASSUME EInv, [Next]_vars
                   PROVE  EInv'
        OBVIOUS
    <2>2. CASE \E i \in Calls, u \in Users, kind \in {"get", "write"} : Start(i, u, kind)
        BY <2>1, <2>2, StartKeeps
    <2>3. CASE \E i \in Calls : Step(i)
        BY <2>1, <2>3, StepKeeps
    <2>4. CASE \E u \in Users : Refill(u) \/ StampExpires(u) \/ ResetDue(u)
        BY <2>1, <2>4, RefillKeeps, StampExpiresKeeps, ResetDueKeeps
    <2>5. CASE OtherPodErrs \/ WindowEnds
        BY <2>1, <2>5, EsiKeeps
    <2>6. CASE UNCHANGED vars
        BY <2>1, <2>6, UnchangedKeeps
    <2>7. QED
        BY <2>1, <2>2, <2>3, <2>4, <2>5, <2>6 DEF Next
<1>3. QED
    BY <1>1, <1>2, PTL DEF Spec

(* The variables of the client's limits keep their types: a bucket never    *)
(* exceeds its capacity, and no attempt counter its retries.                *)
THEOREM TypeCorrect == Spec => []TypeOK
<1>1. EInv => TypeOK
    BY DEF EInv
<1>2. QED
    BY <1>1, CountsInvariant, PTL

(* userBucket take and refund: a character sends no more requests than its  *)
(* capacity and what was refilled, retries included; what a 304 gives back  *)
(* was taken before.                                                        *)
THEOREM NothingSentUnpaid == Spec => []AllowanceExact
<1>1. EInv => AllowanceExact
    BY DEF EInv, Counts, Paid, Sending, AllowanceExact
<1>2. QED
    BY <1>1, CountsInvariant, PTL

(* checkErrorBudget: calls side by side overshoot a character's budget of   *)
(* errors by no more than one error for each of their attempts.             *)
THEOREM ErrorsStayBounded == Spec => []OvershootBounded
<1>1. EInv => OvershootBounded
    <2>1. SUFFICES ASSUME EInv, NEW u \in Users
                   PROVE  stamps[u] <= Ceiling
        BY DEF OvershootBounded, Ceiling
    <2>2. Bounded(u) /\ stamps[u] \in Nat /\ Cardinality(Debts(u)) \in Nat
        BY <2>1, SetsFinite, FS_CardinalityType DEF EInv, Counts, TypeOK
    <2>3. QED
        BY <2>2, CeilingType DEF Bounded
<1>2. QED
    BY <1>1, CountsInvariant, PTL
=============================================================================
