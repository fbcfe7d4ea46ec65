--------------------------- MODULE EsiCacheProofs ---------------------------
(***************************************************************************)
(* Theorems about EsiCache, for any walks, characters, endpoints, pages,   *)
(* bounds of the cache and lengths of a flight.                            *)
(*                                                                         *)
(* The sum of the bodies is a recursive function, and evictLocked goes by  *)
(* it, so the first part shows what the sum is of a list cut in two, of    *)
(* two lists joined and of a list without one of its items; the induction  *)
(* this takes is a lemma about sets.  The second part is about the         *)
(* critical sections of the cache.  The third is an invariant of three     *)
(* parts: what the cache holds was ESI's, but for two flights, when it was *)
(* stamped; a fetch still knows a body whose item, if it is to be stamped  *)
(* anew, is that body or came later; and a page of a walk is gathered or   *)
(* out.                                                                    *)
(***************************************************************************)
EXTENDS EsiCache, FiniteSetTheorems, SequenceTheorems, WellFoundedInduction, TLAPS

-----------------------------------------------------------------------------
(* Sums                                                                     *)

(* The bounds are numbers.                                                  *)
LEMMA ConstantsAreNatural ==
    /\ TotalPages \in Nat /\ MaxPages \in Nat /\ MaxEntries \in Nat /\ MaxBytes \in Nat
    /\ MaxCachedBody \in Nat /\ TTL \in Nat /\ MaxFlight \in Nat /\ MaxVer \in Nat
    /\ MaxChanges \in Nat /\ MaxTime \in Nat
<1>1. QED
  BY ConstantsAssumption

(* A version, which is also the size of its body, is a number.              *)
LEMMA VersionsAreNatural == Versions \subseteq Nat
<1>1. QED
  BY ConstantsAreNatural DEF Versions

(* Induction, as a fact about sets: the least number a set lacks would have *)
(* a predecessor in it.                                                     *)
LEMMA SetInduction ==
    ASSUME NEW T \in SUBSET Nat, 0 \in T, \A n \in T : n + 1 \in T
    PROVE  T = Nat
<1>1. SUFFICES ASSUME Nat \ T # {} PROVE FALSE
    OBVIOUS
<1>2. PICK R : R = OpToRel(<, Nat)
    OBVIOUS
<1>3. IsWellFoundedOn(R, Nat)
    BY <1>2, NatLessThanWellFounded
<1>4. PICK m \in Nat \ T : \A y \in Nat \ T : ~ (<<y, m>> \in R)
    BY <1>1, <1>3, WFMin
<1>5. \A x, y \in Nat : x < y => <<x, y>> \in R
    BY <1>2 DEF OpToRel
<1>6. m # 0 /\ m - 1 \in Nat /\ m - 1 < m
    BY <1>4
<1>7. m - 1 \in T
    BY <1>4, <1>5, <1>6
<1>8. QED
    BY <1>4, <1>6, <1>7

(* A sum over the natural numbers up to a bound exists.                     *)
LEMMA SumExists ==
    ASSUME NEW L \in Nat, NEW g \in [1 .. L -> Nat]
    PROVE  \E f \in [0 .. L -> Nat] : f[0] = 0 /\ \A n \in 1 .. L : f[n] = f[n - 1] + g[n]
<1> DEFINE G(k) == \E f \in [0 .. k -> Nat] :
                       f[0] = 0 /\ \A n \in 1 .. k : f[n] = f[n - 1] + g[n]
           T == {k \in Nat : k <= L => G(k)}
<1>1. G(0)
  <2>1. PICK f : f = [i \in 0 .. 0 |-> 0]
    OBVIOUS
  <2>2. f \in [0 .. 0 -> Nat] /\ f[0] = 0
    BY <2>1
  <2>3. \A n \in 1 .. 0 : f[n] = f[n - 1] + g[n]
    OBVIOUS
  <2>4. QED
    BY <2>2, <2>3
<1>2. ASSUME NEW k \in T PROVE k + 1 \in T
  <2>1. SUFFICES ASSUME k + 1 <= L PROVE G(k + 1)
    <3>1. k + 1 \in Nat
      OBVIOUS
    <3>2. QED
      BY <3>1
  <2>2. PICK f \in [0 .. k -> Nat] :
          f[0] = 0 /\ \A n \in 1 .. k : f[n] = f[n - 1] + g[n]
    BY <2>1
  <2>3. g[k + 1] \in Nat /\ f[k] \in Nat
    BY <2>1
  <2>4. PICK h : h = [i \in 0 .. (k + 1) |-> IF i = k + 1 THEN f[k] + g[k + 1] ELSE f[i]]
    OBVIOUS
  <2>5. \A i \in 0 .. (k + 1) : h[i] = IF i = k + 1 THEN f[k] + g[k + 1] ELSE f[i]
    BY <2>4
  <2>6. \A i \in 0 .. k : h[i] = f[i]
    BY <2>5
  <2>7. h[k + 1] = h[k] + g[k + 1]
    BY <2>5, <2>6
  <2>8. \A i \in 0 .. (k + 1) : h[i] \in Nat
    <3>1. \A i \in 0 .. k : h[i] \in Nat
      BY <2>2, <2>6
    <3>2. h[k + 1] \in Nat
      BY <2>3, <2>5
    <3>3. QED
      BY <3>1, <3>2
  <2>9. h \in [0 .. (k + 1) -> Nat]
    BY <2>4, <2>8
  <2>10. ASSUME NEW n \in 1 .. (k + 1) PROVE h[n] = h[n - 1] + g[n]
    <3>1. CASE n = k + 1
      BY <2>7, <3>1
    <3>2. CASE n \in 1 .. k
      BY <2>2, <2>6, <3>2
    <3>3. QED
      BY <3>1, <3>2
  <2>11. h[0] = 0
    BY <2>2, <2>6
  <2>12. QED
    BY <2>9, <2>10, <2>11
<1>3. T = Nat
  <2>1. 0 \in T
    BY <1>1
  <2>2. \A n \in T : n + 1 \in T
    BY <1>2
  <2>3. T \in SUBSET Nat
    OBVIOUS
  <2>4. QED
    BY <2>1, <2>2, <2>3, SetInduction
<1>4. L \in T
  BY <1>3
<1>5. G(L)
  <2> HIDE DEF G
  <2>1. QED
    BY <1>4
<1>6. QED
  BY <1>5

(* f[n] is the sum of the sizes of the first n items of s.                  *)
Sums(f, s) ==
    /\ f \in [0 .. Len(s) -> Nat]
    /\ f[0] = 0
    /\ \A n \in 1 .. Len(s) : f[n] = f[n - 1] + s[n].ver

(* There is one such function,                                              *)
LEMMA SumsExist ==
    ASSUME NEW s \in Seq(CacheItems)
    PROVE  \E f : Sums(f, s)
<1>1. PICK g : g = [n \in 1 .. Len(s) |-> s[n].ver]
  OBVIOUS
<1>2. Len(s) \in Nat
  OBVIOUS
<1>3. \A n \in 1 .. Len(s) : s[n].ver \in Nat
  <2>1. ASSUME NEW n \in 1 .. Len(s) PROVE s[n] \in CacheItems
    OBVIOUS
  <2>2. QED
    BY <2>1, VersionsAreNatural DEF CacheItems
<1>4. g \in [1 .. Len(s) -> Nat]
  BY <1>1, <1>3
<1>5. PICK f \in [0 .. Len(s) -> Nat] :
        f[0] = 0 /\ \A n \in 1 .. Len(s) : f[n] = f[n - 1] + g[n]
  BY <1>2, <1>4, SumExists
<1>6. QED
  BY <1>1, <1>5 DEF Sums

(* and only one.                                                            *)
LEMMA SumsAgree ==
    ASSUME NEW s \in Seq(CacheItems), NEW f, NEW g, Sums(f, s), Sums(g, s)
    PROVE  f = g
<1> DEFINE T == {k \in Nat : k <= Len(s) => f[k] = g[k]}
<1>1. 0 \in T
  BY DEF Sums
<1>2. ASSUME NEW k \in T PROVE k + 1 \in T
  BY DEF Sums
<1>3. T = Nat
  BY <1>1, <1>2, SetInduction
<1>4. \A k \in 0 .. Len(s) : f[k] = g[k]
  BY <1>3
<1>5. QED
  BY <1>4 DEF Sums

(* Bytes is what it adds up to.                                             *)
LEMMA BytesIs ==
    ASSUME NEW s \in Seq(CacheItems), NEW f, Sums(f, s)
    PROVE  Bytes(s) = f[Len(s)]
<1> DEFINE F(h) == [n \in 0 .. Len(s) |-> IF n = 0 THEN 0 ELSE h[n - 1] + Size(s[n].ver)]
           sum == CHOOSE h : h = F(h)
<1>1. Bytes(s) = sum[Len(s)]
  BY DEF Bytes
<1>2. f = F(f)
  <2>1. f = [n \in 0 .. Len(s) |-> f[n]]
    BY DEF Sums
  <2>2. \A n \in 0 .. Len(s) : f[n] = IF n = 0 THEN 0 ELSE f[n - 1] + Size(s[n].ver)
    BY DEF Sums, Size
  <2>3. QED
    BY <2>1, <2>2
<1>3. sum = F(sum)
  BY <1>2
<1>4. \A n \in 0 .. Len(s) : sum[n] = IF n = 0 THEN 0 ELSE sum[n - 1] + Size(s[n].ver)
  BY <1>3
<1> DEFINE T == {k \in Nat : k <= Len(s) => sum[k] = f[k]}
<1> HIDE DEF sum
<1>5. 0 \in T
  BY <1>4 DEF Sums
<1>6. ASSUME NEW k \in T, k + 1 <= Len(s) PROVE sum[k + 1] = f[k + 1]
  <2>1. sum[k] = f[k]
    BY <1>6
  <2>2. k + 1 \in 0 .. Len(s) /\ k + 1 # 0 /\ (k + 1) - 1 = k
    BY <1>6
  <2>3. sum[k + 1] = sum[k] + s[k + 1].ver
    BY <1>4, <2>2 DEF Size
  <2>4. f[k + 1] = f[k] + s[k + 1].ver
    BY <1>6 DEF Sums
  <2>5. QED
    BY <2>1, <2>3, <2>4
<1>7. \A k \in T : k + 1 \in T
  <2>1. SUFFICES ASSUME NEW k \in T PROVE k + 1 \in T
    OBVIOUS
  <2>2. k + 1 \in Nat /\ (k + 1 <= Len(s) => sum[k + 1] = f[k + 1])
    BY <1>6
  <2>3. QED
    BY <2>2
<1>8. T = Nat
  BY <1>5, <1>7, SetInduction
<1>9. Len(s) \in T
  BY <1>8
<1>10. QED
  BY <1>1, <1>9

(* The bytes of a sequence and of the parts it is made of.                  *)
LEMMA BytesOfEmpty ==
    /\ <<>> \in Seq(CacheItems)
    /\ Bytes(<<>>) = 0
<1>1. <<>> \in Seq(CacheItems)
  OBVIOUS
<1>2. PICK f : Sums(f, <<>>)
  BY <1>1, SumsExist
<1>3. QED
  BY <1>1, <1>2, BytesIs DEF Sums

(* No sum of sizes is negative.                                             *)
LEMMA BytesNatural ==
    ASSUME NEW s \in Seq(CacheItems)
    PROVE  Bytes(s) \in Nat
<1>1. PICK f : Sums(f, s)
  BY SumsExist
<1>2. Len(s) \in 0 .. Len(s)
  OBVIOUS
<1>3. QED
  BY <1>1, <1>2, BytesIs DEF Sums

(* The bytes of two sequences are those of the one made of both.            *)
LEMMA BytesOfConcat ==
    ASSUME NEW s \in Seq(CacheItems), NEW t \in Seq(CacheItems)
    PROVE  /\ s \o t \in Seq(CacheItems)
           /\ Bytes(s \o t) = Bytes(s) + Bytes(t)
<1>1. PICK f : Sums(f, s)
  BY SumsExist
<1>2. PICK g : Sums(g, t)
  BY SumsExist
<1>3. PICK u : u = s \o t
  OBVIOUS
<1>4. /\ u \in Seq(CacheItems) /\ Len(u) = Len(s) + Len(t)
      /\ \A i \in 1 .. Len(u) : u[i] = IF i <= Len(s) THEN s[i] ELSE t[i - Len(s)]
  BY <1>3, ConcatProperties
<1>5. Len(s) \in Nat /\ Len(t) \in Nat
  OBVIOUS
<1>6. PICK h : h = [i \in 0 .. Len(u) |->
                      IF i <= Len(s) THEN f[i] ELSE f[Len(s)] + g[i - Len(s)]]
  OBVIOUS
<1>7. \A i \in 0 .. Len(u) : h[i] = IF i <= Len(s) THEN f[i] ELSE f[Len(s)] + g[i - Len(s)]
  BY <1>6
<1>8. Sums(h, u)
  <2>1. ASSUME NEW i \in 0 .. Len(u) PROVE h[i] \in Nat
    <3>1. CASE i <= Len(s)
      BY <1>1, <1>5, <1>7, <3>1 DEF Sums
    <3>2. CASE i > Len(s)
      <4>1. Len(s) \in 0 .. Len(s) /\ i - Len(s) \in 0 .. Len(t)
        BY <1>4, <1>5, <3>2
      <4>2. f[Len(s)] \in Nat /\ g[i - Len(s)] \in Nat
        BY <1>1, <1>2, <4>1 DEF Sums
      <4>3. QED
        BY <1>5, <1>7, <3>2, <4>2
    <3>3. QED
      BY <1>5, <3>1, <3>2
  <2>2. h \in [0 .. Len(u) -> Nat]
    BY <1>6, <2>1
  <2>3. h[0] = 0
    BY <1>1, <1>4, <1>5, <1>7 DEF Sums
  <2>4. ASSUME NEW i \in 1 .. Len(u) PROVE h[i] = h[i - 1] + u[i].ver
    <3>1. CASE i <= Len(s)
      <4>1. h[i] = f[i] /\ h[i - 1] = f[i - 1] /\ u[i] = s[i]
        BY <1>4, <1>5, <1>7, <3>1
      <4>2. f[i] = f[i - 1] + s[i].ver
        BY <1>1, <1>5, <3>1 DEF Sums
      <4>3. QED
        BY <4>1, <4>2
    <3>2. CASE i > Len(s)
      <4>1. PICK k : k = i - Len(s)
        OBVIOUS
      <4>2. k \in 1 .. Len(t) /\ i - 1 = Len(s) + (k - 1) /\ k - 1 \in 0 .. Len(t)
        BY <1>4, <1>5, <3>2, <4>1
      <4>3. g[k] = g[k - 1] + t[k].ver
        BY <1>2, <4>2 DEF Sums
      <4>4. h[i] = f[Len(s)] + g[k] /\ u[i] = t[k]
        BY <1>4, <1>5, <1>7, <3>2, <4>1
      <4>5. h[i - 1] = f[Len(s)] + g[k - 1]
        <5>1. CASE k = 1
          <6>1. i - 1 = Len(s) /\ g[k - 1] = 0 /\ f[Len(s)] \in Nat
            BY <1>1, <1>2, <1>5, <4>2, <5>1 DEF Sums
          <6>2. h[i - 1] = f[Len(s)]
            BY <1>4, <1>5, <1>7, <6>1
          <6>3. QED
            BY <6>1, <6>2
        <5>2. CASE k > 1
          <6>1. i - 1 \in 0 .. Len(u) /\ ~(i - 1 <= Len(s)) /\ (i - 1) - Len(s) = k - 1
            BY <1>4, <1>5, <4>1, <4>2, <5>2
          <6>2. QED
            BY <1>7, <6>1
        <5>3. QED
          BY <4>2, <5>1, <5>2
      <4>6. f[Len(s)] \in Nat /\ g[k - 1] \in Nat /\ t[k].ver \in Nat
        <5>1. t[k] \in CacheItems
          BY <4>2
        <5>2. t[k].ver \in Nat
          BY <5>1, VersionsAreNatural DEF CacheItems
        <5>3. Len(s) \in 0 .. Len(s)
          BY <1>5
        <5>4. QED
          BY <1>1, <1>2, <4>2, <5>2, <5>3 DEF Sums
      <4>7. QED
        BY <4>3, <4>4, <4>5, <4>6
    <3>3. QED
      BY <1>5, <3>1, <3>2
  <2>5. QED
    BY <2>2, <2>3, <2>4 DEF Sums
<1>9. Bytes(u) = h[Len(u)]
  BY <1>4, <1>8, BytesIs
<1>10. Bytes(s) = f[Len(s)] /\ Bytes(t) = g[Len(t)]
  BY <1>1, <1>2, BytesIs
<1>11. h[Len(u)] = f[Len(s)] + g[Len(t)]
  <2>1. CASE Len(t) = 0
    <3>1. Len(u) \in 0 .. Len(u) /\ Len(u) <= Len(s) /\ Len(u) = Len(s)
      BY <1>4, <1>5, <2>1
    <3>2. g[Len(t)] = 0 /\ f[Len(s)] \in Nat
      BY <1>1, <1>2, <1>5, <2>1 DEF Sums
    <3>3. QED
      BY <1>7, <3>1, <3>2
  <2>2. CASE Len(t) > 0
    <3>1. Len(u) \in 0 .. Len(u) /\ ~(Len(u) <= Len(s)) /\ Len(u) - Len(s) = Len(t)
      BY <1>4, <1>5, <2>2
    <3>2. QED
      BY <1>7, <3>1
  <2>3. QED
    BY <1>5, <2>1, <2>2
<1>12. QED
  BY <1>3, <1>4, <1>9, <1>10, <1>11

(* The bytes of one item are its body.                                      *)
LEMMA BytesOfOne ==
    ASSUME NEW e \in CacheItems
    PROVE  /\ <<e>> \in Seq(CacheItems)
           /\ Bytes(<<e>>) = e.ver
<1>1. <<e>> \in Seq(CacheItems) /\ Len(<<e>>) = 1
  OBVIOUS
<1>2. PICK f : Sums(f, <<e>>)
  BY <1>1, SumsExist
<1>3. f[0] = 0 /\ f[1] = f[0] + <<e>>[1].ver
  BY <1>1, <1>2 DEF Sums
<1>4. e.ver \in Nat
  BY VersionsAreNatural DEF CacheItems
<1>5. Bytes(<<e>>) = f[1]
  BY <1>1, <1>2, BytesIs
<1>6. <<e>>[1] = e
  OBVIOUS
<1>7. QED
  BY <1>1, <1>3, <1>4, <1>5, <1>6

(* A sequence cut in two, as evictLocked does.                              *)
LEMMA BytesOfCut ==
    ASSUME NEW s \in Seq(CacheItems), NEW n \in 0 .. Len(s)
    PROVE  /\ SubSeq(s, 1, n) \in Seq(CacheItems)
           /\ Len(SubSeq(s, 1, n)) = n
           /\ \A i \in 1 .. n : SubSeq(s, 1, n)[i] = s[i]
           /\ SubSeq(s, n + 1, Len(s)) \in Seq(CacheItems)
           /\ Len(SubSeq(s, n + 1, Len(s))) = Len(s) - n
           /\ \A i \in 1 .. Len(s) - n : SubSeq(s, n + 1, Len(s))[i] = s[n + i]
           /\ Bytes(s) = Bytes(SubSeq(s, 1, n)) + Bytes(SubSeq(s, n + 1, Len(s)))
<1>1. Len(s) \in Nat /\ \A i \in 1 .. Len(s) : s[i] \in CacheItems
  OBVIOUS
<1>2. /\ SubSeq(s, 1, n) \in Seq(CacheItems) /\ Len(SubSeq(s, 1, n)) = n
      /\ \A i \in 1 .. n : SubSeq(s, 1, n)[i] = s[i]
  <2>1. \A i \in 1 .. n : s[i] \in CacheItems
    BY <1>1
  <2>2. /\ SubSeq(s, 1, n) \in Seq(CacheItems)
        /\ Len(SubSeq(s, 1, n)) = IF 1 <= n THEN n - 1 + 1 ELSE 0
        /\ \A i \in 1 .. n - 1 + 1 : SubSeq(s, 1, n)[i] = s[1 + i - 1]
    BY <1>1, <2>1, SubSeqProperties
  <2>3. QED
    BY <1>1, <2>2
<1>3. /\ SubSeq(s, n + 1, Len(s)) \in Seq(CacheItems)
      /\ Len(SubSeq(s, n + 1, Len(s))) = Len(s) - n
      /\ \A i \in 1 .. Len(s) - n : SubSeq(s, n + 1, Len(s))[i] = s[n + i]
  <2>1. PICK m : m = n + 1
    OBVIOUS
  <2>2. m \in Int /\ Len(s) \in Int /\ \A i \in m .. Len(s) : s[i] \in CacheItems
    BY <1>1, <2>1
  <2>3. /\ SubSeq(s, m, Len(s)) \in Seq(CacheItems)
        /\ Len(SubSeq(s, m, Len(s))) = IF m <= Len(s) THEN Len(s) - m + 1 ELSE 0
        /\ \A i \in 1 .. Len(s) - m + 1 : SubSeq(s, m, Len(s))[i] = s[m + i - 1]
    BY <2>2, SubSeqProperties
  <2>4. QED
    BY <1>1, <2>1, <2>3
<1>4. SubSeq(s, 1, n) \o SubSeq(s, n + 1, Len(s)) = s
  <2>1. 1 \in 1 .. Len(s) + 1 /\ n \in 1 - 1 .. Len(s) /\ Len(s) \in n .. Len(s)
    BY <1>1
  <2>2. SubSeq(s, 1, n) \o SubSeq(s, n + 1, Len(s)) = SubSeq(s, 1, Len(s))
    BY <2>1, ConcatAdjacentSubSeq
  <2>3. QED
    BY <2>2, SubSeqFull
<1>5. QED
  BY <1>2, <1>3, <1>4, BytesOfConcat

(* One item taken out, and another put in front.                            *)
LEMMA InFront ==
    ASSUME NEW s \in Seq(CacheItems), NEW e \in CacheItems
    PROVE  /\ <<e>> \o s \in Seq(CacheItems)
           /\ Len(<<e>> \o s) = Len(s) + 1
           /\ (<<e>> \o s)[1] = e
           /\ \A i \in 1 .. Len(s) : (<<e>> \o s)[i + 1] = s[i]
           /\ Bytes(<<e>> \o s) = e.ver + Bytes(s)
<1>1. <<e>> \in Seq(CacheItems) /\ Len(<<e>>) = 1 /\ <<e>>[1] = e
  OBVIOUS
<1>2. /\ <<e>> \o s \in Seq(CacheItems)
      /\ Len(<<e>> \o s) = 1 + Len(s)
      /\ \A i \in 1 .. 1 + Len(s) :
           (<<e>> \o s)[i] = IF i <= 1 THEN <<e>>[i] ELSE s[i - 1]
  BY <1>1, ConcatProperties
<1>3. Len(s) \in Nat
  OBVIOUS
<1>4. \A i \in 1 .. Len(s) : (<<e>> \o s)[i + 1] = s[i]
  <2>1. SUFFICES ASSUME NEW i \in 1 .. Len(s) PROVE (<<e>> \o s)[i + 1] = s[i]
    OBVIOUS
  <2>2. i + 1 \in 1 .. 1 + Len(s) /\ ~(i + 1 <= 1) /\ (i + 1) - 1 = i
    BY <1>3
  <2>3. QED
    BY <1>2, <2>2
<1>5. (<<e>> \o s)[1] = e
  <2>1. 1 \in 1 .. 1 + Len(s) /\ 1 <= 1
    BY <1>3
  <2>2. QED
    BY <1>1, <1>2, <2>1
<1>6. Bytes(<<e>> \o s) = e.ver + Bytes(s)
  BY BytesOfOne, BytesOfConcat
<1>7. QED
  BY <1>2, <1>3, <1>4, <1>5, <1>6

(* The list without the item at p.                                          *)
LEMMA TakenOut ==
    ASSUME NEW s \in Seq(CacheItems), NEW p \in 1 .. Len(s)
    PROVE  /\ RemoveAt(s, p) \in Seq(CacheItems)
           /\ Len(RemoveAt(s, p)) = Len(s) - 1
           /\ \A i \in 1 .. Len(s) - 1 :
                RemoveAt(s, p)[i] = IF i < p THEN s[i] ELSE s[i + 1]
           /\ Bytes(s) = Bytes(RemoveAt(s, p)) + s[p].ver
<1>1. Len(s) \in Nat /\ p - 1 \in 0 .. Len(s) /\ (p - 1) + 1 = p
  OBVIOUS
<1>2. PICK a : a = SubSeq(s, 1, p - 1)
  OBVIOUS
<1>3. PICK b : b = SubSeq(s, p + 1, Len(s))
  OBVIOUS
<1>4. PICK d : d = SubSeq(s, p, Len(s))
  OBVIOUS
<1>5. /\ a \in Seq(CacheItems) /\ Len(a) = p - 1
      /\ \A i \in 1 .. p - 1 : a[i] = s[i]
      /\ d \in Seq(CacheItems)
      /\ Bytes(s) = Bytes(a) + Bytes(d)
  <2>1. PICK n : n = p - 1
    OBVIOUS
  <2>2. n \in 0 .. Len(s) /\ n + 1 = p
    BY <1>1, <2>1
  <2>3. /\ SubSeq(s, 1, n) \in Seq(CacheItems) /\ Len(SubSeq(s, 1, n)) = n
        /\ \A i \in 1 .. n : SubSeq(s, 1, n)[i] = s[i]
        /\ SubSeq(s, n + 1, Len(s)) \in Seq(CacheItems)
        /\ Bytes(s) = Bytes(SubSeq(s, 1, n)) + Bytes(SubSeq(s, n + 1, Len(s)))
    BY <2>2, BytesOfCut
  <2>4. QED
    BY <1>2, <1>4, <2>1, <2>2, <2>3
<1>6. /\ b \in Seq(CacheItems) /\ Len(b) = Len(s) - p
      /\ \A i \in 1 .. Len(s) - p : b[i] = s[p + i]
  <2>1. p \in 0 .. Len(s)
    BY <1>1
  <2>2. QED
    BY <1>3, <2>1, BytesOfCut
<1>7. Bytes(d) = s[p].ver + Bytes(b)
  <2>1. p \in 1 .. Len(s) /\ Len(s) \in p .. Len(s)
    BY <1>1
  <2>2. d = <<s[p]>> \o b
    BY <1>3, <1>4, <2>1, SubSeqRecursiveFirst
  <2>3. s[p] \in CacheItems
    OBVIOUS
  <2>4. QED
    BY <1>6, <2>2, <2>3, InFront
<1>8. RemoveAt(s, p) = a \o b
  BY <1>2, <1>3 DEF RemoveAt
<1>9. a \o b \in Seq(CacheItems) /\ Bytes(a \o b) = Bytes(a) + Bytes(b)
  BY <1>5, <1>6, BytesOfConcat
<1>10. /\ Len(a \o b) = Len(s) - 1
       /\ \A i \in 1 .. Len(s) - 1 : (a \o b)[i] = IF i < p THEN s[i] ELSE s[i + 1]
  <2>1. /\ Len(a \o b) = Len(a) + Len(b)
        /\ \A i \in 1 .. Len(a) + Len(b) :
             (a \o b)[i] = IF i <= Len(a) THEN a[i] ELSE b[i - Len(a)]
    BY <1>5, <1>6, ConcatProperties
  <2>2. Len(a) + Len(b) = Len(s) - 1
    BY <1>1, <1>5, <1>6
  <2>3. ASSUME NEW i \in 1 .. Len(s) - 1
        PROVE  (a \o b)[i] = IF i < p THEN s[i] ELSE s[i + 1]
    <3>1. CASE i < p
      BY <1>1, <1>5, <2>1, <2>2, <3>1
    <3>2. CASE ~(i < p)
      <4>1. i - Len(a) \in 1 .. Len(s) - p /\ ~(i <= Len(a)) /\ p + (i - Len(a)) = i + 1
        BY <1>1, <1>5, <3>2
      <4>2. (a \o b)[i] = b[i - Len(a)]
        BY <2>1, <2>2, <4>1
      <4>3. QED
        BY <1>6, <3>2, <4>1, <4>2
    <3>3. QED
      BY <3>1, <3>2
  <2>4. QED
    BY <2>1, <2>2, <2>3
<1>11. Bytes(a) \in Nat /\ Bytes(b) \in Nat /\ s[p].ver \in Nat
  <2>1. s[p] \in CacheItems
    OBVIOUS
  <2>2. QED
    BY <1>5, <1>6, <2>1, BytesNatural, VersionsAreNatural DEF CacheItems
<1>12. QED
  BY <1>5, <1>7, <1>8, <1>9, <1>10, <1>11

-----------------------------------------------------------------------------
(* The critical sections of the cache                                       *)

(* A cache whose sum is right, with one item per key and no body too large; *)
(* and one that keeps to its bounds.                                        *)
Caches == [items : Seq(CacheItems), bytes : Nat]
OnePerKey(items) ==
    \A i, k \in 1 .. Len(items) : items[i].key = items[k].key => i = k
NoneTooLarge(items) == \A i \in 1 .. Len(items) : Size(items[i].ver) <= MaxCachedBody
Sound(c) ==
    /\ c \in Caches
    /\ c.bytes = Bytes(c.items)
    /\ OnePerKey(c.items)
    /\ NoneTooLarge(c.items)
Bounded(c) == Len(c.items) <= MaxEntries /\ c.bytes <= MaxBytes

(* CacheBounded, in these terms.                                            *)
LEMMA SoundIs ==
    ASSUME cache \in Caches
    PROVE  CacheBounded <=> Sound(cache) /\ Bounded(cache)
<1>1. QED
  BY DEF CacheBounded, Sound, Bounded, OnePerKey, NoneTooLarge

(* A set of numbers up to a bound has a greatest one.                       *)
LEMMA MaxIs ==
    ASSUME NEW L \in Nat, NEW S \in SUBSET (0 .. L), S # {}
    PROVE  Max(S) \in S
<1> DEFINE HasMax(Q) == \E x \in Q : \A y \in Q : x >= y
           T == {k \in Nat : \A Q \in SUBSET (0 .. k) : Q # {} => HasMax(Q)}
<1>1. 0 \in T
  <2>1. ASSUME NEW Q \in SUBSET (0 .. 0), Q # {} PROVE HasMax(Q)
    <3>1. PICK x : x \in Q
      BY <2>1
    <3>2. \A y \in Q : y = 0
      OBVIOUS
    <3>3. \A y \in Q : x >= y
      BY <3>1, <3>2
    <3>4. QED
      BY <3>1, <3>3
  <2>2. QED
    BY <2>1
<1>2. ASSUME NEW k \in T PROVE k + 1 \in T
  <2>1. ASSUME NEW Q \in SUBSET (0 .. (k + 1)), Q # {} PROVE HasMax(Q)
    <3>1. CASE k + 1 \in Q
      <4>1. \A y \in Q : k + 1 >= y
        OBVIOUS
      <4>2. QED
        BY <3>1, <4>1
    <3>2. CASE k + 1 \notin Q
      <4>1. Q \in SUBSET (0 .. k)
        BY <3>2
      <4>2. QED
        BY <2>1, <4>1
    <3>3. QED
      BY <3>1, <3>2
  <2>2. k + 1 \in Nat
    OBVIOUS
  <2>3. QED
    BY <2>1, <2>2
<1>3. T = Nat
  <2>1. T \in SUBSET Nat /\ \A n \in T : n + 1 \in T
    BY <1>2
  <2>2. QED
    BY <1>1, <2>1, SetInduction
<1>4. L \in T
  BY <1>3
<1>5. HasMax(S)
  BY <1>4
<1>6. QED
  BY <1>5 DEF Max

(* evictLocked leaves the items in front that fit.                          *)
LEMMA Evicted ==
    ASSUME NEW c, Sound(c)
    PROVE  /\ Sound(Evict(c)) /\ Bounded(Evict(c))
           /\ Len(Evict(c).items) <= Len(c.items)
           /\ \A i \in 1 .. Len(Evict(c).items) : Evict(c).items[i] = c.items[i]
<1>1. c.items \in Seq(CacheItems) /\ Len(c.items) \in Nat /\ c.bytes = Bytes(c.items)
  BY DEF Sound, Caches
<1>2. ASSUME NEW n \in 0 .. Len(c.items)
      PROVE  /\ SubSeq(c.items, 1, n) \in Seq(CacheItems)
             /\ Len(SubSeq(c.items, 1, n)) = n
             /\ \A i \in 1 .. n : SubSeq(c.items, 1, n)[i] = c.items[i]
             /\ Left(c, n) = Bytes(SubSeq(c.items, 1, n)) /\ Left(c, n) \in Nat
  <2>1. /\ SubSeq(c.items, 1, n) \in Seq(CacheItems)
        /\ Len(SubSeq(c.items, 1, n)) = n
        /\ \A i \in 1 .. n : SubSeq(c.items, 1, n)[i] = c.items[i]
        /\ SubSeq(c.items, n + 1, Len(c.items)) \in Seq(CacheItems)
        /\ Bytes(c.items) = Bytes(SubSeq(c.items, 1, n))
                              + Bytes(SubSeq(c.items, n + 1, Len(c.items)))
    BY <1>1, BytesOfCut
  <2>2. /\ Bytes(SubSeq(c.items, 1, n)) \in Nat
        /\ Bytes(SubSeq(c.items, n + 1, Len(c.items))) \in Nat
    BY <2>1, BytesNatural
  <2>3. QED
    BY <1>1, <2>1, <2>2 DEF Left
<1>3. PICK keep : keep = IF Fitting(c) = {} THEN 0 ELSE Max(Fitting(c))
  OBVIOUS
<1>4. Evict(c) = [items |-> SubSeq(c.items, 1, keep), bytes |-> Left(c, keep)]
  BY <1>3 DEF Evict
<1>5. 0 \in Fitting(c)
  <2>1. 0 \in 0 .. Len(c.items)
    BY <1>1
  <2>2. SubSeq(c.items, 1, 0) = <<>>
    BY SubSeqEmpty
  <2>3. Left(c, 0) = 0
    BY <1>2, <2>1, <2>2, BytesOfEmpty
  <2>4. QED
    BY <2>1, <2>3, ConstantsAreNatural DEF Fitting
<1>6. keep \in Fitting(c)
  <2>1. Fitting(c) \in SUBSET (0 .. Len(c.items))
    BY DEF Fitting
  <2>2. QED
    BY <1>1, <1>3, <1>5, <2>1, MaxIs
<1>7. keep \in 0 .. Len(c.items) /\ keep <= MaxEntries /\ Left(c, keep) <= MaxBytes
  BY <1>6 DEF Fitting
<1>8. PICK s : s = SubSeq(c.items, 1, keep)
  OBVIOUS
<1>9. /\ s \in Seq(CacheItems) /\ Len(s) = keep
      /\ \A i \in 1 .. keep : s[i] = c.items[i]
      /\ Left(c, keep) = Bytes(s) /\ Left(c, keep) \in Nat
  BY <1>2, <1>7, <1>8
<1>10. Evict(c) = [items |-> s, bytes |-> Left(c, keep)]
  BY <1>4, <1>8
<1>11. Evict(c).items = s /\ Evict(c).bytes = Left(c, keep) /\ Evict(c) \in Caches
  BY <1>9, <1>10 DEF Caches
<1>12. OnePerKey(s) /\ NoneTooLarge(s)
  BY <1>1, <1>7, <1>9 DEF Sound, OnePerKey, NoneTooLarge
<1>13. QED
  BY <1>1, <1>7, <1>9, <1>11, <1>12 DEF Sound, Bounded

(* The items map has a key where an item of the list has it.                *)
LEMMA PlaceIs ==
    ASSUME Sound(cache), NEW key
    PROVE  \/ /\ Place(key) = 0
              /\ \A i \in 1 .. Len(cache.items) : cache.items[i].key # key
           \/ /\ Place(key) \in 1 .. Len(cache.items)
              /\ cache.items[Place(key)].key = key
              /\ cache.items[Place(key)] \in CacheItems
              /\ Cached(key) = cache.items[Place(key)]
<1>1. cache.items \in Seq(CacheItems)
  BY DEF Sound, Caches
<1>2. CASE {i \in 1 .. Len(cache.items) : cache.items[i].key = key} = {}
  BY <1>2 DEF Place
<1>3. CASE {i \in 1 .. Len(cache.items) : cache.items[i].key = key} # {}
  <2>1. Place(key) \in {i \in 1 .. Len(cache.items) : cache.items[i].key = key}
    BY <1>3 DEF Place
  <2>2. Place(key) \in 1 .. Len(cache.items) /\ Place(key) # 0
    BY <1>1, <2>1
  <2>3. QED
    BY <1>1, <2>1, <2>2 DEF Cached
<1>4. QED
  BY <1>2, <1>3

(* The list t, with e in front of the other items of the cache.             *)
FrontFits(t, e) ==
    /\ t \in Seq(CacheItems) /\ OnePerKey(t) /\ NoneTooLarge(t)
    /\ Len(t) = Len(cache.items) + (IF Place(e.key) = 0 THEN 1 ELSE 0)
    /\ Bytes(t) = (cache.bytes - Held(e.key)) + Size(e.ver)
    /\ \A i \in 1 .. Len(t) : t[i] = e \/ \E k \in 1 .. Len(cache.items) :
         t[i] = cache.items[k] /\ cache.items[k].key # e.key

(* An item put in front of the others: the list keeps one per key, and the  *)
(* sum of the bodies changes by the difference.                             *)
LEMMA Fronted ==
    ASSUME Sound(cache), NEW e \in CacheItems, Size(e.ver) <= MaxCachedBody,
           NEW t, t = <<e>> \o Others(e.key)
    PROVE  FrontFits(t, e)
<1> DEFINE o == Others(e.key)
           items == cache.items
<1>1. items \in Seq(CacheItems) /\ Len(items) \in Nat
  BY DEF Sound, Caches
<1>2. cache.bytes = Bytes(items) /\ OnePerKey(items) /\ NoneTooLarge(items)
  BY DEF Sound
<1>3. /\ o \in Seq(CacheItems)
      /\ Len(o) = Len(items) - (IF Place(e.key) = 0 THEN 0 ELSE 1)
      /\ Bytes(o) = cache.bytes - Held(e.key)
      /\ \A i \in 1 .. Len(o) : \E k \in 1 .. Len(items) :
           o[i] = items[k] /\ items[k].key # e.key
      /\ OnePerKey(o)
  <2>1. CASE Place(e.key) = 0
    <3>1. o = items /\ Held(e.key) = 0
      BY <2>1 DEF Others, Held
    <3>2. \A i \in 1 .. Len(items) : items[i].key # e.key
      BY <2>1, PlaceIs
    <3>3. Bytes(items) \in Nat
      BY <1>1, BytesNatural
    <3>4. QED
      BY <1>1, <1>2, <2>1, <3>1, <3>2, <3>3
  <2>2. CASE Place(e.key) # 0
    <3>1. PICK p : p = Place(e.key)
      OBVIOUS
    <3>2. p \in 1 .. Len(items) /\ items[p].key = e.key /\ items[p] \in CacheItems
          /\ Cached(e.key) = items[p]
      BY <2>2, <3>1, PlaceIs
    <3>3. o = RemoveAt(items, p) /\ Held(e.key) = items[p].ver
      BY <2>2, <3>1, <3>2 DEF Others, Held, Size
    <3>4. /\ o \in Seq(CacheItems) /\ Len(o) = Len(items) - 1
          /\ \A i \in 1 .. Len(items) - 1 : o[i] = IF i < p THEN items[i] ELSE items[i + 1]
          /\ Bytes(items) = Bytes(o) + items[p].ver
      BY <1>1, <3>2, <3>3, TakenOut
    <3>5. Bytes(o) \in Nat /\ items[p].ver \in Nat
      BY <3>2, <3>4, BytesNatural, VersionsAreNatural DEF CacheItems
    <3>6. Bytes(o) = cache.bytes - Held(e.key)
      BY <1>2, <3>3, <3>4, <3>5
    <3>7. ASSUME NEW i \in 1 .. Len(o)
          PROVE  \E k \in 1 .. Len(items) :
                   k # p /\ k = (IF i < p THEN i ELSE i + 1) /\ o[i] = items[k]
      <4>1. PICK k : k = IF i < p THEN i ELSE i + 1
        OBVIOUS
      <4>2. k \in 1 .. Len(items) /\ k # p
        BY <1>1, <3>2, <3>4, <4>1
      <4>3. o[i] = items[k]
        BY <3>4, <4>1
      <4>4. QED
        BY <4>1, <4>2, <4>3
    <3>8. \A i \in 1 .. Len(o) : \E k \in 1 .. Len(items) :
            o[i] = items[k] /\ items[k].key # e.key
      BY <1>2, <3>2, <3>7 DEF OnePerKey
    <3>9. OnePerKey(o)
      <4>1. SUFFICES ASSUME NEW i \in 1 .. Len(o), NEW j \in 1 .. Len(o), o[i].key = o[j].key
                     PROVE  i = j
        BY DEF OnePerKey
      <4>2. PICK k \in 1 .. Len(items) : k = (IF i < p THEN i ELSE i + 1) /\ o[i] = items[k]
        BY <3>7
      <4>3. PICK l \in 1 .. Len(items) : l = (IF j < p THEN j ELSE j + 1) /\ o[j] = items[l]
        BY <3>7
      <4>4. k = l
        BY <1>2, <4>1, <4>2, <4>3 DEF OnePerKey
      <4>5. QED
        BY <1>1, <3>2, <3>4, <4>2, <4>3, <4>4
    <3>10. QED
      BY <2>2, <3>4, <3>6, <3>8, <3>9
  <2>3. QED
    BY <2>1, <2>2
<1> HIDE DEF o, items
<1>4. /\ t \in Seq(CacheItems) /\ Len(t) = Len(o) + 1 /\ t[1] = e
      /\ \A i \in 1 .. Len(o) : t[i + 1] = o[i]
      /\ Bytes(t) = e.ver + Bytes(o)
  BY <1>3, InFront DEF o
<1>5. Len(o) \in Nat /\ Bytes(o) \in Nat /\ e.ver \in Nat
  <2>1. Bytes(o) \in Nat /\ Len(o) \in Nat
    BY <1>3, BytesNatural
  <2>2. e.ver \in Nat
    BY VersionsAreNatural DEF CacheItems
  <2>3. QED
    BY <2>1, <2>2
<1>6. Bytes(t) = (cache.bytes - Held(e.key)) + Size(e.ver)
  BY <1>3, <1>4, <1>5 DEF Size
<1>7. ASSUME NEW i \in 1 .. Len(t), i # 1
      PROVE  i - 1 \in 1 .. Len(o) /\ t[i] = o[i - 1]
  <2>1. i - 1 \in 1 .. Len(o) /\ (i - 1) + 1 = i
    BY <1>4, <1>5, <1>7
  <2>2. QED
    BY <1>4, <2>1
<1>8. \A i \in 1 .. Len(t) : t[i] = e \/ \E k \in 1 .. Len(items) :
        t[i] = items[k] /\ items[k].key # e.key
  <2>1. ASSUME NEW i \in 1 .. Len(t), i # 1
        PROVE  \E k \in 1 .. Len(items) : t[i] = items[k] /\ items[k].key # e.key
    <3>1. PICK j \in 1 .. Len(o) : j = i - 1
      BY <1>7, <2>1
    <3>2. t[i] = o[j]
      BY <1>7, <2>1, <3>1
    <3>3. PICK k \in 1 .. Len(items) : o[j] = items[k] /\ items[k].key # e.key
      BY <1>3
    <3>4. QED
      BY <3>2, <3>3
  <2>2. QED
    BY <1>4, <2>1
<1>9. OnePerKey(t)
  <2>1. SUFFICES ASSUME NEW i \in 1 .. Len(t), NEW j \in 1 .. Len(t), t[i].key = t[j].key
                 PROVE  i = j
    BY DEF OnePerKey
  <2>2. CASE i # 1 /\ j # 1
    <3>1. PICK k \in 1 .. Len(o) : k = i - 1
      BY <1>7, <2>2
    <3>2. PICK l \in 1 .. Len(o) : l = j - 1
      BY <1>7, <2>2
    <3>3. t[i] = o[k] /\ t[j] = o[l]
      BY <1>7, <2>2, <3>1, <3>2
    <3>4. k = l
      BY <1>3, <2>1, <3>3 DEF OnePerKey
    <3>5. i \in Int /\ j \in Int
      OBVIOUS
    <3>6. QED
      BY <3>1, <3>2, <3>4, <3>5
  <2>3. ASSUME NEW l \in 1 .. Len(t), l # 1 PROVE t[l].key # e.key
    <3>1. PICK k \in 1 .. Len(o) : k = l - 1
      BY <1>7, <2>3
    <3>2. t[l] = o[k]
      BY <1>7, <2>3, <3>1
    <3>3. o[k].key # e.key
      BY <1>3
    <3>4. QED
      BY <3>2, <3>3
  <2>4. CASE i = 1 \/ j = 1
    BY <1>4, <2>1, <2>3, <2>4
  <2>5. QED
    BY <2>2, <2>4
<1>10. NoneTooLarge(t)
  BY <1>2, <1>8 DEF NoneTooLarge
<1>11. Len(t) = Len(items) + (IF Place(e.key) = 0 THEN 1 ELSE 0)
  BY <1>1, <1>3, <1>4
<1>12. QED
  BY <1>4, <1>6, <1>8, <1>9, <1>10, <1>11 DEF items, FrontFits

(* What every critical section leaves.                                      *)
Kept(c) == Sound(c) /\ Bounded(c)

(* put: what the cache holds afterwards, it held before, or is the new item. *)
LEMMA PutKeeps ==
    ASSUME Kept(cache), NEW e \in CacheItems
    PROVE  /\ Kept(Put(e))
           /\ \A i \in 1 .. Len(Put(e).items) :
                Put(e).items[i] = e
                \/ \E k \in 1 .. Len(cache.items) : Put(e).items[i] = cache.items[k]
<1>1. CASE Size(e.ver) > MaxCachedBody
  BY <1>1 DEF Put, Kept
<1>2. CASE ~(Size(e.ver) > MaxCachedBody)
  <2>1. Size(e.ver) <= MaxCachedBody /\ Size(e.ver) \in Nat
    <3>1. e.ver \in Nat
      BY VersionsAreNatural DEF CacheItems
    <3>2. QED
      BY <1>2, <3>1, ConstantsAreNatural DEF Size
  <2>2. PICK t : t = <<e>> \o Others(e.key)
    OBVIOUS
  <2>3. Sound(cache)
    BY DEF Kept
  <2>4. FrontFits(t, e)
    BY <2>1, <2>2, <2>3, Fronted
  <2>5. PICK c : c = [items |-> t, bytes |-> (cache.bytes - Held(e.key)) + Size(e.ver)]
    OBVIOUS
  <2>6. c.items = t /\ c.bytes = Bytes(t)
    BY <2>4, <2>5 DEF FrontFits
  <2>7. Sound(c)
    <3>1. Bytes(t) \in Nat
      BY <2>4, BytesNatural DEF FrontFits
    <3>2. QED
      BY <2>4, <2>5, <2>6, <3>1 DEF Sound, Caches, FrontFits
  <2>8. Put(e) = Evict(c)
    BY <1>2, <2>2, <2>5 DEF Put
  <2>9. PICK d : d = Evict(c)
    OBVIOUS
  <2>10. /\ Sound(d) /\ Bounded(d) /\ Len(d.items) <= Len(t)
         /\ \A i \in 1 .. Len(d.items) : d.items[i] = t[i]
    BY <2>6, <2>7, <2>9, Evicted
  <2>11. \A i \in 1 .. Len(d.items) : i \in 1 .. Len(t)
    <3>1. t \in Seq(CacheItems) /\ d.items \in Seq(CacheItems)
      BY <2>4, <2>10 DEF Sound, Caches, FrontFits
    <3>2. Len(t) \in Nat /\ Len(d.items) \in Nat
      BY <3>1
    <3>3. QED
      BY <2>10, <3>2
  <2>12. QED
    BY <2>4, <2>8, <2>9, <2>10, <2>11 DEF Kept, FrontFits
<1>3. QED
  BY <1>1, <1>2

(* Whatever c holds, the cache held before, or it is e.                     *)
OldOr(c, e) ==
    \A i \in 1 .. Len(c.items) :
      c.items[i] = e \/ \E k \in 1 .. Len(cache.items) : c.items[i] = cache.items[k]

(* An item that moves to the front with its body: the bounds still hold.    *)
LEMMA FrontKeeps ==
    ASSUME Kept(cache), NEW key, Place(key) # 0,
           NEW e \in CacheItems, e.key = key, e.ver = Cached(key).ver,
           NEW c, c = [cache EXCEPT !.items = <<e>> \o Others(key)]
    PROVE  Kept(c) /\ OldOr(c, e)
<1>1. Sound(cache) /\ Bounded(cache)
  BY DEF Kept
<1>2. PICK p : p = Place(key)
  OBVIOUS
<1>3. /\ p \in 1 .. Len(cache.items) /\ cache.items[p].key = key
      /\ cache.items[p] \in CacheItems /\ Cached(key) = cache.items[p]
  BY <1>1, <1>2, PlaceIs
<1>4. Size(e.ver) <= MaxCachedBody
  BY <1>1, <1>3 DEF Sound, NoneTooLarge
<1>5. PICK t : t = <<e>> \o Others(e.key)
  OBVIOUS
<1>6. FrontFits(t, e)
  BY <1>1, <1>4, <1>5, Fronted
<1>7. cache \in Caches /\ cache.bytes = Bytes(cache.items) /\ cache.bytes \in Nat
  BY <1>1 DEF Sound, Caches
<1>8. Held(key) = e.ver
  BY <1>3 DEF Held, Size
<1>9. e.ver \in Nat
  BY VersionsAreNatural DEF CacheItems
<1>10. Bytes(t) = cache.bytes
  BY <1>6, <1>7, <1>8, <1>9 DEF Size, FrontFits
<1>11. c.items = t /\ c.bytes = cache.bytes /\ c \in Caches
  BY <1>5, <1>6, <1>7 DEF Caches, FrontFits
<1>12. Len(t) = Len(cache.items)
  BY <1>6, <1>7 DEF Caches, FrontFits
<1>13. Kept(c)
  BY <1>1, <1>6, <1>10, <1>11, <1>12 DEF Kept, Sound, Bounded, FrontFits
<1>14. QED
  BY <1>6, <1>11, <1>13 DEF FrontFits, OldOr

(* Whatever c holds, the cache held before, but perhaps for the stamp.      *)
OldOrStamped(c, key, expires) ==
    \A i \in 1 .. Len(c.items) : \E k \in 1 .. Len(cache.items) :
      \/ c.items[i] = cache.items[k]
      \/ /\ cache.items[k].key = key
         /\ c.items[i] = [cache.items[k] EXCEPT !.expires = expires, !.stored = now]

(* touch: an item may be stamped anew, and none comes or goes.              *)
LEMMA TouchKeeps ==
    ASSUME Kept(cache), now \in Times, NEW key, NEW expires \in 0 .. (MaxTime + TTL)
    PROVE  Kept(Touch(key, expires)) /\ OldOrStamped(Touch(key, expires), key, expires)
<1>1. CASE Place(key) = 0
  BY <1>1 DEF Touch, OldOrStamped
<1>2. CASE Place(key) # 0
  <2>1. PICK p : p = Place(key)
    OBVIOUS
  <2>2. /\ p \in 1 .. Len(cache.items) /\ cache.items[p].key = key
        /\ cache.items[p] \in CacheItems /\ Cached(key) = cache.items[p]
    BY <1>2, <2>1, PlaceIs DEF Kept
  <2>3. PICK e : e = [cache.items[p] EXCEPT !.expires = expires, !.stored = now]
    OBVIOUS
  <2>4. e \in CacheItems /\ e.key = key /\ e.ver = Cached(key).ver
    BY <2>2, <2>3 DEF CacheItems
  <2>5. PICK c : c = Touch(key, expires)
    OBVIOUS
  <2>6. c = [cache EXCEPT !.items = <<e>> \o Others(key)]
    BY <1>2, <2>2, <2>3, <2>5 DEF Touch
  <2>7. Kept(c) /\ OldOr(c, e)
    BY <1>2, <2>4, <2>6, FrontKeeps
  <2>8. QED
    BY <2>2, <2>3, <2>5, <2>7 DEF OldOr, OldOrStamped
<1>3. QED
  BY <1>1, <1>2

(* get: the order changes, and nothing else.                                *)
LEMMA MoveKeeps ==
    ASSUME Kept(cache), NEW key
    PROVE  /\ Kept(MoveToFront(key))
           /\ \A i \in 1 .. Len(MoveToFront(key).items) : \E k \in 1 .. Len(cache.items) :
                MoveToFront(key).items[i] = cache.items[k]
<1>1. CASE Place(key) = 0
  BY <1>1 DEF MoveToFront
<1>2. CASE Place(key) # 0
  <2>1. PICK p : p = Place(key)
    OBVIOUS
  <2>2. /\ p \in 1 .. Len(cache.items) /\ cache.items[p].key = key
        /\ cache.items[p] \in CacheItems /\ Cached(key) = cache.items[p]
    BY <1>2, <2>1, PlaceIs DEF Kept
  <2>3. PICK e : e = cache.items[p]
    OBVIOUS
  <2>4. e \in CacheItems /\ e.key = key /\ e.ver = Cached(key).ver
    BY <2>2, <2>3
  <2>5. PICK c : c = MoveToFront(key)
    OBVIOUS
  <2>6. c = [cache EXCEPT !.items = <<e>> \o Others(key)]
    BY <1>2, <2>2, <2>3, <2>5 DEF MoveToFront
  <2>7. Kept(c) /\ OldOr(c, e)
    BY <1>2, <2>4, <2>6, FrontKeeps
  <2>8. QED
    BY <2>2, <2>3, <2>5, <2>7 DEF OldOr
<1>3. QED
  BY <1>1, <1>2

-----------------------------------------------------------------------------
(* The invariant                                                            *)

(* ESI replaced no version later than now.                                  *)
EsiFits == \A r \in Resources, v \in Versions : esi[r].until[v] <= now

(* What the cache keeps is about what its key names, and was ESI's, but for *)
(* two flights, when it was stamped.                                        *)
Honest(e) ==
    /\ e.of = e.key
    /\ e.stored <= LastCurrent(e.of, e.ver) + 2 * MaxFlight

ItemsHonest == \A i \in 1 .. Len(cache.items) : Honest(cache.items[i])

(* An item a fetch may stamp anew holds the body the lookup found, or came  *)
(* with an answer later than that, but for a flight.                        *)
TouchSafe(w, n) ==
    \A i \in 1 .. Len(cache.items) : cache.items[i].key = KeyOf(w, n) =>
        \/ cache.items[i].ver = fetch[w][n].snap.ver
        \/ fetch[w][n].begun <= LastCurrent(cache.items[i].of, cache.items[i].ver) + MaxFlight

(* What a fetch that asks ESI, or was answered, knows.                      *)
AskFits(w, n) ==
    LET f == fetch[w][n]
    IN  /\ f.begun <= now /\ now - f.begun <= MaxFlight
        /\ f.snap # None => Honest(f.snap) /\ f.snap.key = KeyOf(w, n)
        /\ f.snap # None /\ (f.pc = "ask" \/ f.status = "notModified") => TouchSafe(w, n)

AnswerFits(w, n) ==
    LET f == fetch[w][n]
    IN  /\ f.status \in {"ok", "notModified", "serverError", "error"}
        /\ f.status \in {"ok", "notModified"} =>
             f.ver \in Versions /\ f.begun <= LastCurrent(About(w, n), f.ver)
        /\ f.status = "notModified" => f.snap # None /\ f.snap.ver = f.ver
        /\ f.status = "serverError" => f.snap # None

FetchFits ==
    \A w \in Walks, n \in PageNumbers :
        /\ fetch[w][n].pc \in {"ask", "finish"} => AskFits(w, n)
        /\ fetch[w][n].pc = "finish" => AnswerFits(w, n)

(* A walk, its pages and its fetches: a page is gathered, once, or still    *)
(* out.                                                                     *)
Out(w, n) == fetch[w][n].pc # "idle"
Gathered(w) ==
    LET got == walk[w].got
    IN  /\ \A n \in PageNumbers : Out(w, n) <=> ~\E b \in got : b[1] = n
        /\ \A b, c \in got : b[1] = c[1] => b = c
        /\ \A b \in got : walk[w].oldest <= b[2]
        /\ \E b \in got : walk[w].oldest = b[2]

WalkFits ==
    \A w \in Walks :
        /\ walk[w].pc # "new" =>
             walk[w].name \in Endpoints /\ walk[w].user \in Askers(walk[w].name)
        /\ walk[w].pc = "new" => \A n \in PageNumbers : ~Out(w, n)
        /\ walk[w].pc = "first" =>
             walk[w].got = {} /\ \A n \in PageNumbers : Out(w, n) <=> n = 1
        /\ walk[w].pc \in {"fan", "done"} => Gathered(w) /\ ~Out(w, 1)
        /\ walk[w].pc = "done" => {b[1] : b \in walk[w].got} = PageNumbers

CacheInv == EsiFits /\ ItemsHonest /\ FetchFits /\ WalkFits
CInv == TypeOK /\ CacheBounded /\ CacheInv

(* The resource of a page of a walk that has begun.                         *)
LEMMA AboutIs ==
    ASSUME WalkFits, NEW w \in Walks, NEW n \in PageNumbers, walk[w].pc # "new"
    PROVE  About(w, n) \in Resources /\ KeyOf(w, n) = About(w, n)
<1>1. walk[w].name \in Endpoints /\ walk[w].user \in Askers(walk[w].name)
  BY DEF WalkFits
<1>2. QED
  BY <1>1 DEF About, KeyOf, CacheKey, Resource, Resources

(* A page that is out belongs to a walk that has begun.                     *)
LEMMA BegunIfOut ==
    ASSUME WalkFits, NEW w \in Walks, NEW n \in PageNumbers, fetch[w][n].pc # "idle"
    PROVE  walk[w].pc # "new"
<1>1. QED
  BY DEF WalkFits, Out

(* What the lookup finds is an item of the cache.                           *)
LEMMA CachedIs ==
    ASSUME Kept(cache), NEW key, Cached(key) # None
    PROVE  \E i \in 1 .. Len(cache.items) :
             /\ Cached(key) = cache.items[i] /\ cache.items[i].key = key
             /\ cache.items[i] \in CacheItems
<1>1. Place(key) # 0
  BY DEF Cached
<1>2. QED
  BY <1>1, PlaceIs DEF Kept

(* Every answer is about what was asked, is honest, and of a confirmed body *)
(* is the one that was confirmed.                                           *)
LEMMA AnswersFit ==
    ASSUME CInv, NEW w \in Walks, NEW n \in PageNumbers, NEW b \in Answers(w, n)
    PROVE  /\ b.of = About(w, n)
           /\ b.stored <= LastCurrent(b.of, b.ver) + 2 * MaxFlight
           /\ b.how = "confirmed" => b.ver = b.asked
<1> DEFINE f == fetch[w][n]
<1>1. Kept(cache)
  BY SoundIs DEF CInv, TypeOK, Kept, Caches
<1>2. WalkFits /\ FetchFits /\ ItemsHonest
  BY DEF CInv, CacheInv
<1>3. walk[w].pc # "new" /\ f.pc \in {"get", "finish"}
  <2>1. f.pc \in {"get", "finish"}
    BY DEF Answers
  <2>2. QED
    BY <1>2, <2>1, BegunIfOut
<1>4. KeyOf(w, n) = About(w, n)
  BY <1>2, <1>3, AboutIs
<1>5. now \in Nat /\ MaxFlight \in Nat
  BY ConstantsAreNatural DEF CInv, TypeOK, Times
<1>6. CASE f.pc = "get"
  <2>1. b = Hit(w, n) /\ Cached(KeyOf(w, n)) # None
    BY <1>6 DEF Answers
  <2>2. PICK i \in 1 .. Len(cache.items) :
          Cached(KeyOf(w, n)) = cache.items[i] /\ cache.items[i].key = KeyOf(w, n)
    BY <1>1, <2>1, CachedIs
  <2>3. Honest(cache.items[i])
    BY <1>2 DEF ItemsHonest
  <2>4. b.of = cache.items[i].of /\ b.ver = cache.items[i].ver
        /\ b.stored = cache.items[i].stored /\ b.how = "fresh"
    BY <2>1, <2>2 DEF Hit, Result
  <2>5. QED
    BY <1>4, <2>2, <2>3, <2>4 DEF Honest
<1>7. CASE f.pc = "finish"
  <2>1. b = Answer(w, n) /\ b # Failed
    BY <1>7 DEF Answers
  <2>2. AskFits(w, n) /\ AnswerFits(w, n)
    BY <1>2, <1>7 DEF FetchFits
  <2>3. f.begun \in Nat
    BY DEF CInv, TypeOK, Fetch, Times
  <2>4. CASE f.status = "ok"
    <3>1. b.of = About(w, n) /\ b.ver = f.ver /\ b.stored = now /\ b.how = "new"
      BY <2>1, <2>4 DEF Answer, Result
    <3>2. f.begun <= LastCurrent(About(w, n), f.ver) /\ now - f.begun <= MaxFlight
      BY <2>2, <2>4 DEF AskFits, AnswerFits
    <3>3. LastCurrent(About(w, n), f.ver) \in Nat
      BY <1>2, <1>3, <2>2, <2>4, AboutIs
        DEF CInv, TypeOK, LastCurrent, Current, Times, AnswerFits
    <3>4. QED
      BY <1>5, <2>3, <3>1, <3>2, <3>3
  <2>5. CASE f.status = "notModified"
    <3>1. b.of = f.snap.of /\ b.ver = f.snap.ver /\ b.stored = now /\ b.asked = f.ver
      BY <2>1, <2>5 DEF Answer, Result
    <3>2. f.begun <= LastCurrent(About(w, n), f.ver) /\ now - f.begun <= MaxFlight
      BY <2>2, <2>5 DEF AskFits, AnswerFits
    <3>3. LastCurrent(About(w, n), f.ver) \in Nat
      BY <1>2, <1>3, <2>2, <2>5, AboutIs
        DEF CInv, TypeOK, LastCurrent, Current, Times, AnswerFits
    <3>4. f.snap.ver = f.ver /\ f.snap.of = f.snap.key /\ f.snap.key = KeyOf(w, n)
      BY <2>2, <2>5 DEF AskFits, AnswerFits, Honest
    <3>5. QED
      BY <1>4, <1>5, <2>3, <3>1, <3>2, <3>3, <3>4
  <2>6. CASE f.status = "serverError"
    <3>1. b.of = f.snap.of /\ b.ver = f.snap.ver /\ b.stored = f.snap.stored /\ b.how = "stale"
      BY <2>1, <2>6 DEF Answer, Result
    <3>2. Honest(f.snap) /\ f.snap.key = KeyOf(w, n)
      BY <2>2, <2>6 DEF AskFits, AnswerFits
    <3>3. QED
      BY <1>4, <3>1, <3>2 DEF Honest
  <2>7. CASE f.status = "error"
    BY <2>1, <2>7 DEF Answer
  <2>8. QED
    BY <2>2, <2>4, <2>5, <2>6, <2>7 DEF AnswerFits
<1>8. QED
  BY <1>3, <1>6, <1>7

(* As many results as pages, and none twice: all pages.                     *)
LEMMA PagesWhole ==
    ASSUME NEW got \in SUBSET (PageNumbers \X Times),
           \A b, c \in got : b[1] = c[1] => b = c,
           Cardinality(got) = Capped
    PROVE  {b[1] : b \in got} = PageNumbers
<1>1. Capped \in Nat
  BY ConstantsAreNatural DEF Capped
<1>2. IsFiniteSet(PageNumbers) /\ Cardinality(PageNumbers) = Capped
  <2>1. 1 \in Int /\ Capped \in Int
    BY <1>1
  <2>2. IsFiniteSet(1 .. Capped)
        /\ Cardinality(1 .. Capped) = IF 1 > Capped THEN 0 ELSE Capped - 1 + 1
    BY <2>1, FS_Interval
  <2>3. QED
    BY <1>1, <2>2 DEF PageNumbers
<1>3. IsFiniteSet(got)
  <2>1. IsFiniteSet(Times)
    <3>1. 0 \in Int /\ MaxTime \in Int
      BY ConstantsAreNatural
    <3>2. QED
      BY <3>1, FS_Interval DEF Times
  <2>2. IsFiniteSet(PageNumbers \X Times)
    BY <1>2, <2>1, FS_Product
  <2>3. QED
    BY <2>2, FS_Subset
<1>4. SUFFICES ASSUME NEW p \in PageNumbers, p \notin {b[1] : b \in got} PROVE FALSE
  OBVIOUS
<1>5. PICK rest : rest = PageNumbers \ {p}
  OBVIOUS
<1>6. IsFiniteSet(rest) /\ Cardinality(rest) = Capped - 1
  BY <1>2, <1>5, FS_RemoveElement
<1>7. PICK page : page = [b \in got |-> b[1]]
  OBVIOUS
<1>8. page \in [got -> rest]
  BY <1>4, <1>5, <1>7
<1>9. Cardinality(got) > Cardinality(rest)
  BY <1>1, <1>6
<1>10. \E b, c \in got : b # c /\ page[b] = page[c]
  BY <1>3, <1>6, <1>8, <1>9, FS_PigeonHole
<1>11. QED
  BY <1>7, <1>10

-----------------------------------------------------------------------------
(* A result handed to the walk                                              *)

(* A page the caller fetches itself.                                        *)
PageOne == 1 \in PageNumbers

(* Every walk has a first page.                                             *)
LEMMA PageOneIs == PageOne
<1>1. Capped \in Nat /\ 1 <= Capped
  BY ConstantsAreNatural, ConstantsAssumption DEF Capped
<1>2. QED
  BY <1>1 DEF PageOne, PageNumbers

(* What walks and fetches may be when a step is done.                       *)
WalksTyped == walk \in [Walks -> Walk]
FetchesTyped == fetch \in [Walks -> [PageNumbers -> Fetch]]

(* A fetch before its lookup.                                               *)
LEMMA IdleIs ==
    ASSUME now \in Times
    PROVE  /\ Idle \in Fetch /\ Idle.pc = "idle"
           /\ [Idle EXCEPT !.pc = "get"] \in Fetch /\ [Idle EXCEPT !.pc = "get"].pc = "get"
<1>1. 0 \in Times /\ 0 \in 0 .. MaxVer
  BY ConstantsAreNatural DEF Times
<1>2. QED
  BY <1>1 DEF Idle, Fetch

(* A walk that gathers is still of the same endpoint and character.         *)
LEMMA GatherTyped ==
    ASSUME NEW k \in Walk, NEW n \in PageNumbers, NEW b, b.stored \in Times
    PROVE  /\ Gather(k, n, b) \in Walk
           /\ Gather(k, n, b).name = k.name /\ Gather(k, n, b).user = k.user
<1>1. 0 \in Times
  BY ConstantsAreNatural DEF Times
<1>2. PICK got : got = k.got \cup {<<n, b.stored>>}
  OBVIOUS
<1>3. got \in SUBSET (PageNumbers \X Times)
  BY <1>2 DEF Walk
<1>4. PICK old : old = IF n = 1 \/ b.stored < k.oldest THEN b.stored ELSE k.oldest
  OBVIOUS
<1>5. old \in Times
  BY <1>4 DEF Walk
<1>6. CASE b.how = "error"
  BY <1>1, <1>6 DEF Gather, Walk
<1>7. CASE b.how # "error"
  <2>1. PICK pc : pc = IF Cardinality(got) = Capped THEN "done" ELSE "fan"
    OBVIOUS
  <2>2. pc \in {"new", "first", "fan", "done", "failed"}
    BY <2>1
  <2>3. Gather(k, n, b) = [k EXCEPT !.got = got, !.oldest = old, !.pc = pc]
    BY <1>2, <1>4, <1>7, <2>1 DEF Gather, Walk
  <2>4. QED
    BY <1>3, <1>5, <2>2, <2>3 DEF Walk
<1>8. QED
  BY <1>6, <1>7

(* What a delivery changes: the walk gathers, and the fetch is over.        *)
LEMMA Delivered ==
    ASSUME TypeOK, NEW w \in Walks, NEW n \in PageNumbers, NEW b, Deliver(w, n, b)
    PROVE  /\ walk'[w] = IF walk[w].pc = "failed" THEN walk[w] ELSE Gather(walk[w], n, b)
           /\ \A v \in Walks : v # w => walk'[v] = walk[v] /\ fetch'[v] = fetch[v]
           /\ fetch'[w][n] = Idle
           /\ \A m \in PageNumbers : m # n =>
                fetch'[w][m] = IF n = 1 /\ walk'[w].pc = "fan"
                                 THEN [Idle EXCEPT !.pc = "get"] ELSE fetch[w][m]
<1>1. walk \in [Walks -> Walk] /\ fetch \in [Walks -> [PageNumbers -> Fetch]]
  BY DEF TypeOK
<1>2. walk' = [walk EXCEPT ![w] = IF @.pc = "failed" THEN @ ELSE Gather(@, n, b)]
  BY DEF Deliver
<1>3. PICK row : row = [m \in PageNumbers |->
                          IF m = n THEN Idle
                          ELSE IF n = 1 /\ walk'[w].pc = "fan" THEN [Idle EXCEPT !.pc = "get"]
                          ELSE fetch[w][m]]
  OBVIOUS
<1>4. fetch' = [fetch EXCEPT ![w] = row]
  BY <1>3 DEF Deliver
<1>5. \A m \in PageNumbers : row[m] =
        IF m = n THEN Idle
        ELSE IF n = 1 /\ walk'[w].pc = "fan" THEN [Idle EXCEPT !.pc = "get"]
        ELSE fetch[w][m]
  BY <1>3
<1>6. fetch'[w] = row /\ \A v \in Walks : v # w => fetch'[v] = fetch[v]
  BY <1>1, <1>4
<1>7. /\ walk'[w] = IF walk[w].pc = "failed" THEN walk[w] ELSE Gather(walk[w], n, b)
      /\ \A v \in Walks : v # w => walk'[v] = walk[v]
  BY <1>1, <1>2
<1>8. QED
  BY <1>5, <1>6, <1>7

(* A delivery keeps the types, and what the walk asks for.                  *)
LEMMA DeliverTyped ==
    ASSUME TypeOK, NEW w \in Walks, NEW n \in PageNumbers, NEW b, b.stored \in Times,
           Deliver(w, n, b)
    PROVE  /\ WalksTyped' /\ FetchesTyped'
           /\ walk'[w].name = walk[w].name /\ walk'[w].user = walk[w].user
<1>1. walk \in [Walks -> Walk] /\ fetch \in [Walks -> [PageNumbers -> Fetch]] /\ now \in Times
  BY DEF TypeOK
<1>2. walk[w] \in Walk
  BY <1>1
<1>3. /\ Gather(walk[w], n, b) \in Walk
      /\ Gather(walk[w], n, b).name = walk[w].name
      /\ Gather(walk[w], n, b).user = walk[w].user
  BY <1>2, GatherTyped
<1>4. walk'[w] \in Walk /\ walk'[w].name = walk[w].name /\ walk'[w].user = walk[w].user
  BY <1>2, <1>3, Delivered
<1>5. WalksTyped'
  <2>1. PICK k : k = walk'[w]
    OBVIOUS
  <2>2. walk' = [walk EXCEPT ![w] = k]
    BY <1>1, <2>1 DEF Deliver
  <2>3. QED
    BY <1>1, <1>4, <2>1, <2>2 DEF WalksTyped
<1>6. FetchesTyped'
  <2>1. PICK row : row = [m \in PageNumbers |->
                            IF m = n THEN Idle
                            ELSE IF n = 1 /\ walk'[w].pc = "fan" THEN [Idle EXCEPT !.pc = "get"]
                            ELSE fetch[w][m]]
    OBVIOUS
  <2>2. fetch' = [fetch EXCEPT ![w] = row]
    BY <2>1 DEF Deliver
  <2>3. \A m \in PageNumbers : row[m] \in Fetch
    BY <1>1, <2>1, IdleIs
  <2>4. row \in [PageNumbers -> Fetch]
    BY <2>1, <2>3
  <2>5. QED
    BY <1>1, <2>2, <2>4 DEF FetchesTyped
<1>7. QED
  BY <1>4, <1>5, <1>6

(* A walk, its pages and its fetches.                                       *)
WalkIs(w) ==
    /\ walk[w].pc # "new" =>
         walk[w].name \in Endpoints /\ walk[w].user \in Askers(walk[w].name)
    /\ walk[w].pc = "new" => \A n \in PageNumbers : ~Out(w, n)
    /\ walk[w].pc = "first" =>
         walk[w].got = {} /\ \A n \in PageNumbers : Out(w, n) <=> n = 1
    /\ walk[w].pc \in {"fan", "done"} => Gathered(w) /\ ~Out(w, 1)
    /\ walk[w].pc = "done" => {b[1] : b \in walk[w].got} = PageNumbers

(* The same, of every walk.                                                 *)
LEMMA WalkFitsIs == WalkFits <=> \A w \in Walks : WalkIs(w)
<1>1. QED
  BY DEF WalkFits, WalkIs

(* A page that is out when its result comes is gathered then, and a walk    *)
(* that has them all is done with all of them.                              *)
LEMMA GatherFits ==
    ASSUME TypeOK, NEW w \in Walks, WalkIs(w), NEW n \in PageNumbers, Out(w, n),
           NEW b, b.stored \in Times, Deliver(w, n, b)
    PROVE  WalkIs(w)'
<1> DEFINE k == walk[w]
           k2 == walk'[w]
<1>1. walk[w] \in Walk /\ fetch[w] \in [PageNumbers -> Fetch]
  BY DEF TypeOK
<1>2. /\ k2 = IF k.pc = "failed" THEN k ELSE Gather(k, n, b)
      /\ fetch'[w][n] = Idle
      /\ \A m \in PageNumbers : m # n =>
           fetch'[w][m] = IF n = 1 /\ k2.pc = "fan" THEN [Idle EXCEPT !.pc = "get"]
                            ELSE fetch[w][m]
  BY Delivered
<1>3. k2 \in Walk /\ k2.name = k.name /\ k2.user = k.user
  <2>1. walk' \in [Walks -> Walk] /\ k2.name = k.name /\ k2.user = k.user
    BY DeliverTyped DEF WalksTyped
  <2>2. QED
    BY <2>1
<1>4. k.pc # "new"
  BY DEF WalkIs
<1>5. k2.name \in Endpoints /\ k2.user \in Askers(k2.name)
  BY <1>3, <1>4 DEF WalkIs
<1>6. CASE k.pc = "failed"
  BY <1>2, <1>5, <1>6 DEF WalkIs
<1>7. CASE k.pc # "failed" /\ b.how = "error"
  <2>1. k2.pc = "failed"
    BY <1>1, <1>2, <1>7 DEF Gather, Walk
  <2>2. QED
    BY <1>5, <2>1 DEF WalkIs
<1>8. CASE k.pc \in {"first", "fan"} /\ b.how # "error"
  <2>1. PICK got : got = k.got \cup {<<n, b.stored>>}
    OBVIOUS
  <2>2. /\ k2.got = got
        /\ k2.oldest = IF n = 1 \/ b.stored < k.oldest THEN b.stored ELSE k.oldest
        /\ k2.pc = IF Cardinality(got) = Capped THEN "done" ELSE "fan"
    BY <1>1, <1>2, <1>8, <2>1 DEF Gather, Walk
  <2>3. k.oldest \in Nat /\ b.stored \in Nat /\ \A c \in k.got : c[2] \in Nat
    BY <1>1, ConstantsAreNatural DEF Walk, Times
  <2>4. \A c \in k.got : c[1] # n
    <3>1. CASE k.pc = "first"
      BY <3>1 DEF WalkIs
    <3>2. CASE k.pc = "fan"
      BY <3>2 DEF WalkIs, Gathered
    <3>3. QED
      BY <1>8, <3>1, <3>2
  <2>5. \A c, d \in got : c[1] = d[1] => c = d
    <3>1. \A c, d \in k.got : c[1] = d[1] => c = d
      BY <1>8 DEF WalkIs, Gathered
    <3>2. QED
      BY <2>1, <2>4, <3>1
  <2>6. (\A c \in got : k2.oldest <= c[2]) /\ (\E c \in got : k2.oldest = c[2])
    <3>1. <<n, b.stored>> \in got /\ <<n, b.stored>>[2] = b.stored
      BY <2>1
    <3>2. CASE k.pc = "first"
      <4>1. n = 1 /\ got = {<<n, b.stored>>} /\ k2.oldest = b.stored
        BY <2>1, <2>2, <3>2 DEF WalkIs
      <4>2. QED
        BY <2>3, <3>1, <4>1
    <3>3. CASE k.pc = "fan"
      <4>1. n # 1 /\ (\A c \in k.got : k.oldest <= c[2]) /\ (\E c \in k.got : k.oldest = c[2])
        BY <3>3 DEF WalkIs, Gathered
      <4>2. CASE b.stored < k.oldest
        <5>1. k2.oldest = b.stored
          BY <2>2, <4>2
        <5>2. \A c \in got : k2.oldest <= c[2]
          BY <2>1, <2>3, <4>1, <4>2, <5>1
        <5>3. QED
          BY <3>1, <5>1, <5>2
      <4>3. CASE ~(b.stored < k.oldest)
        <5>1. k2.oldest = k.oldest
          BY <2>2, <4>1, <4>3
        <5>2. \A c \in got : k2.oldest <= c[2]
          BY <2>1, <2>3, <4>1, <4>3, <5>1
        <5>3. QED
          BY <2>1, <4>1, <5>1, <5>2
      <4>4. QED
        BY <4>2, <4>3
    <3>4. QED
      BY <1>8, <3>2, <3>3
  <2>7. Out(w, n)' = FALSE /\ \E c \in got : c[1] = n
    <3>1. ~Out(w, n)'
      BY <1>2 DEF Out, Idle
    <3>2. <<n, b.stored>> \in got /\ <<n, b.stored>>[1] = n
      BY <2>1
    <3>3. QED
      BY <3>1, <3>2
  <2>8. \A m \in PageNumbers : m # n => ((\E c \in got : c[1] = m) <=> \E c \in k.got : c[1] = m)
    BY <2>1
  <2>9. k2.pc = "done" => {c[1] : c \in got} = PageNumbers
    <3>1. got \in SUBSET (PageNumbers \X Times)
      BY <1>3, <2>2 DEF Walk
    <3>2. QED
      BY <2>2, <2>5, <3>1, PagesWhole
  <2>10. \A m \in PageNumbers : Out(w, m)' <=> ~\E c \in got : c[1] = m
    <3>1. SUFFICES ASSUME NEW m \in PageNumbers, m # n
                   PROVE  Out(w, m)' <=> ~\E c \in got : c[1] = m
      BY <2>7
    <3>2. CASE k.pc = "fan"
      <4>1. n # 1
        BY <3>2 DEF WalkIs
      <4>2. Out(w, m)' = Out(w, m)
        BY <1>2, <3>1, <4>1 DEF Out
      <4>3. Out(w, m) <=> ~\E c \in k.got : c[1] = m
        BY <3>2 DEF WalkIs, Gathered
      <4>4. QED
        BY <2>8, <3>1, <4>2, <4>3
    <3>3. CASE k.pc = "first"
      <4>1. n = 1 /\ k.got = {} /\ ~Out(w, m)
        BY <3>1, <3>3 DEF WalkIs
      <4>2. ~\E c \in got : c[1] = m
        BY <2>8, <3>1, <4>1
      <4>3. k2.pc # "done"
        BY <2>9, <4>2
      <4>4. fetch'[w][m] = [Idle EXCEPT !.pc = "get"]
        BY <1>2, <2>2, <3>1, <4>1, <4>3
      <4>5. Out(w, m)'
        BY <4>4 DEF Out, Idle
      <4>6. QED
        BY <4>2, <4>5
    <3>4. QED
      BY <1>8, <3>2, <3>3
  <2>11. ~Out(w, 1)'
    <3>1. CASE k.pc = "fan"
      <4>1. n # 1 /\ ~Out(w, 1)
        BY <3>1 DEF WalkIs
      <4>2. QED
        BY <1>2, <4>1, PageOneIs DEF Out, PageOne
    <3>2. CASE k.pc = "first"
      BY <2>7, <3>2 DEF WalkIs
    <3>3. QED
      BY <1>8, <3>1, <3>2
  <2>12. k2.pc \in {"fan", "done"}
    BY <2>2
  <2>13. Gathered(w)'
    BY <2>2, <2>5, <2>6, <2>10 DEF Gathered
  <2>14. QED
    BY <1>5, <2>2, <2>9, <2>11, <2>12, <2>13 DEF WalkIs
<1>9. CASE k.pc = "done"
  <2>1. \E c \in k.got : c[1] = n
    BY <1>9 DEF WalkIs
  <2>2. QED
    BY <1>9, <2>1 DEF WalkIs, Gathered
<1>10. QED
  BY <1>1, <1>4, <1>6, <1>7, <1>8, <1>9 DEF Walk

-----------------------------------------------------------------------------
(* What every step keeps                                                    *)

(* No version's last moment at ESI moves back.                              *)
Later ==
    \A r \in Resources, ver \in Versions :
        /\ LastCurrent(r, ver) \in Nat
        /\ LastCurrent(r, ver)' \in Nat
        /\ LastCurrent(r, ver) <= LastCurrent(r, ver)'

(* The last moment ESI had a version is a moment,                           *)
LEMMA LastCurrentTyped ==
    ASSUME TypeOK, NEW r \in Resources, NEW ver \in Versions
    PROVE  LastCurrent(r, ver) \in Nat
<1>1. now \in Nat /\ esi[r].until[ver] \in Nat
  BY ConstantsAreNatural DEF TypeOK, Times
<1>2. QED
  BY <1>1 DEF LastCurrent

(* also after a step.                                                       *)
LEMMA LastCurrentTypedNext ==
    ASSUME TypeOK', NEW r \in Resources, NEW ver \in Versions
    PROVE  LastCurrent(r, ver)' \in Nat
<1>1. now' \in Nat /\ esi'[r].until[ver] \in Nat
  BY ConstantsAreNatural DEF TypeOK, Times
<1>2. QED
  BY <1>1 DEF LastCurrent

(* It stays when neither the clock nor ESI moves,                           *)
LEMMA LaterWhenStill ==
    ASSUME TypeOK, now' = now, esi' = esi
    PROVE  Later
<1>1. SUFFICES ASSUME NEW r \in Resources, NEW ver \in Versions
               PROVE  /\ LastCurrent(r, ver) \in Nat
                      /\ LastCurrent(r, ver)' = LastCurrent(r, ver)
  BY DEF Later
<1>2. QED
  BY LastCurrentTyped DEF LastCurrent, Current

(* The clock keeps the types.                                                *)
LEMMA TickTyped ==
    ASSUME TypeOK, Tick
    PROVE  TypeOK'
<1>1. now \in Nat /\ now < MaxTime /\ now' = now + 1
  BY ConstantsAreNatural DEF TypeOK, Times, Tick
<1>2. now' \in Times
  BY <1>1, ConstantsAreNatural DEF Times
<1>3. QED
  BY <1>2 DEF TypeOK, Tick

(* A change in the game gives a resource its next version.                  *)
LEMMA ChangeTyped ==
    ASSUME TypeOK, Change
    PROVE  TypeOK'
<1>1. PICK r \in Resources :
        /\ Current(r) < MaxVer /\ changes < MaxChanges
        /\ changes' = changes + 1
        /\ esi' = [esi EXCEPT ![r] =
             [ver |-> @.ver + 1, until |-> [@.until EXCEPT ![esi[r].ver] = now]]]
        /\ UNCHANGED <<now, cache, walk, fetch>>
  BY DEF Change
<1>2. /\ esi[r].ver \in Versions /\ esi[r].until \in [Versions -> Times]
      /\ esi \in [Resources -> [ver : Versions, until : [Versions -> Times]]] /\ now \in Times
  BY DEF TypeOK
<1>3. esi[r].ver + 1 \in Versions
  BY <1>1, <1>2, ConstantsAreNatural DEF Versions, Current
<1>4. PICK u : u = [esi[r].until EXCEPT ![esi[r].ver] = now]
  OBVIOUS
<1>5. u \in [Versions -> Times]
  BY <1>2, <1>4
<1>6. PICK x : x = [ver |-> esi[r].ver + 1, until |-> u]
  OBVIOUS
<1>7. x \in [ver : Versions, until : [Versions -> Times]]
  BY <1>3, <1>5, <1>6
<1>8. esi' = [esi EXCEPT ![r] = x]
  BY <1>1, <1>2, <1>4, <1>6
<1>9. esi' \in [Resources -> [ver : Versions, until : [Versions -> Times]]]
  BY <1>2, <1>7, <1>8
<1>10. changes' \in 0 .. MaxChanges
  BY <1>1, ConstantsAreNatural DEF TypeOK
<1>11. QED
  BY <1>1, <1>9, <1>10 DEF TypeOK

(* and moves with the clock while the version is current.                   *)
LEMMA LaterOnTick ==
    ASSUME TypeOK, Tick
    PROVE  Later
<1>1. SUFFICES ASSUME NEW r \in Resources, NEW ver \in Versions
               PROVE  LastCurrent(r, ver) <= LastCurrent(r, ver)'
  <2>1. TypeOK'
    BY TickTyped
  <2>2. QED
    BY <2>1, LastCurrentTyped, LastCurrentTypedNext DEF Later
<1>2. now \in Nat /\ now' = now + 1 /\ esi' = esi /\ esi[r].until[ver] \in Nat
  BY ConstantsAreNatural DEF TypeOK, Times, Tick
<1>3. QED
  BY <1>2 DEF LastCurrent, Current

(* A change dates the version it replaces, and the next one is current.     *)
LEMMA LaterOnChange ==
    ASSUME TypeOK, EsiFits, Change
    PROVE  Later /\ EsiFits'
<1>1. PICK r \in Resources :
        /\ esi' = [esi EXCEPT ![r] =
             [ver |-> @.ver + 1, until |-> [@.until EXCEPT ![esi[r].ver] = now]]]
        /\ now' = now
  BY DEF Change
<1>2. /\ esi[r].ver \in Versions /\ esi[r].until \in [Versions -> Times]
      /\ esi \in [Resources -> [ver : Versions, until : [Versions -> Times]]] /\ now \in Times
  BY DEF TypeOK
<1>3. PICK u : u = [esi[r].until EXCEPT ![esi[r].ver] = now]
  OBVIOUS
<1>4. \A ver \in Versions : u[ver] = IF ver = esi[r].ver THEN now ELSE esi[r].until[ver]
  BY <1>2, <1>3
<1>5. PICK x : x = [ver |-> esi[r].ver + 1, until |-> u]
  OBVIOUS
<1>6. esi' = [esi EXCEPT ![r] = x]
  BY <1>1, <1>2, <1>3, <1>5
<1>7. esi'[r].until = u /\ \A q \in Resources : q # r => esi'[q] = esi[q]
  BY <1>2, <1>5, <1>6
<1>8. now \in Nat /\ \A q \in Resources, ver \in Versions : esi[q].until[ver] <= now
  BY <1>2, ConstantsAreNatural DEF Times, EsiFits
<1>9. \A q \in Resources, ver \in Versions : esi'[q].until[ver] <= now
  <2>1. SUFFICES ASSUME NEW q \in Resources, NEW ver \in Versions
                 PROVE  esi'[q].until[ver] <= now
    OBVIOUS
  <2>2. CASE q = r
    BY <1>4, <1>7, <1>8, <2>2
  <2>3. CASE q # r
    BY <1>7, <1>8, <2>3
  <2>4. QED
    BY <2>2, <2>3
<1>10. Later
  <2>1. SUFFICES ASSUME NEW q \in Resources, NEW ver \in Versions
                 PROVE  LastCurrent(q, ver) <= LastCurrent(q, ver)'
    <3>1. TypeOK'
      BY ChangeTyped
    <3>2. QED
      BY <3>1, LastCurrentTyped, LastCurrentTypedNext DEF Later
  <2>2. esi[q].until[ver] \in Nat /\ esi[q].until[ver] <= now
    BY <1>8, ConstantsAreNatural DEF TypeOK, Times
  <2>3. CASE q # r
    <3>1. LastCurrent(q, ver)' = LastCurrent(q, ver)
      BY <1>1, <1>7, <2>3 DEF LastCurrent, Current
    <3>2. QED
      BY <3>1, LastCurrentTyped
  <2>4. CASE q = r /\ ver = esi[r].ver
    <3>1. LastCurrent(q, ver) = now
      BY <2>4 DEF LastCurrent, Current
    <3>2. LastCurrent(q, ver)' = now
      BY <1>1, <1>4, <1>7, <2>4 DEF LastCurrent, Current
    <3>3. QED
      BY <1>8, <3>1, <3>2
  <2>5. CASE q = r /\ ver # esi[r].ver
    <3>1. LastCurrent(q, ver) = esi[r].until[ver]
      BY <2>5 DEF LastCurrent, Current
    <3>2. LastCurrent(q, ver)' = now \/ LastCurrent(q, ver)' = esi[r].until[ver]
      BY <1>1, <1>4, <1>7, <2>5 DEF LastCurrent, Current
    <3>3. QED
      BY <1>8, <2>2, <2>5, <3>1, <3>2
  <2>6. QED
    BY <2>3, <2>4, <2>5
<1>11. EsiFits'
  BY <1>1, <1>9 DEF EsiFits
<1>12. QED
  BY <1>10, <1>11

(* A body that was honest stays so.                                         *)
LEMMA HonestStays ==
    ASSUME Later, NEW e \in CacheItems, Honest(e)
    PROVE  Honest(e)'
<1>1. e.of \in Resources /\ e.ver \in Versions /\ e.stored \in Nat /\ MaxFlight \in Nat
  BY ConstantsAreNatural DEF CacheItems, Times
<1>2. PICK r \in Resources, ver \in Versions : r = e.of /\ ver = e.ver
  BY <1>1
<1>3. LastCurrent(r, ver) \in Nat /\ LastCurrent(r, ver)' \in Nat
      /\ LastCurrent(r, ver) <= LastCurrent(r, ver)'
  BY DEF Later
<1>4. e.of = e.key /\ e.stored <= LastCurrent(r, ver) + 2 * MaxFlight
  BY <1>2 DEF Honest
<1>5. e.stored <= LastCurrent(r, ver)' + 2 * MaxFlight
  BY <1>1, <1>3, <1>4
<1>6. QED
  BY <1>2, <1>4, <1>5 DEF Honest

(* What the cache may hold after a step: honest items that hold the body    *)
(* they held, or one ESI still had a flight ago.                            *)
Follows(t) ==
    \/ \E k \in 1 .. Len(cache.items) :
         /\ cache.items[k].key = t.key /\ cache.items[k].of = t.of
         /\ cache.items[k].ver = t.ver
    \/ now <= LastCurrent(t.of, t.ver) + MaxFlight

ItemsFollow == \A i \in 1 .. Len(cache'.items) : Follows(cache'.items[i])

(* A fetch the step leaves alone, of a walk that asks what it asked.        *)
LeftAlone(v, m) ==
    /\ fetch'[v][m] = fetch[v][m]
    /\ walk'[v].name = walk[v].name /\ walk'[v].user = walk[v].user

(* A fetch that asks, or was answered, still knows what it knew after a step*)
(* of another.                                                              *)
LEMMA AskStays ==
    ASSUME CInv, TypeOK', ItemsFollow, Later, now <= now',
           NEW v \in Walks, NEW m \in PageNumbers, LeftAlone(v, m),
           fetch[v][m].pc \in {"ask", "finish"}, now' - fetch[v][m].begun <= MaxFlight
    PROVE  /\ AskFits(v, m)'
           /\ fetch[v][m].pc = "finish" => AnswerFits(v, m)'
<1> DEFINE f == fetch[v][m]
<1>1. /\ AskFits(v, m) /\ (f.pc = "finish" => AnswerFits(v, m)) /\ walk[v].pc # "new"
      /\ About(v, m) \in Resources
  <2>1. FetchFits /\ WalkFits
    BY DEF CInv, CacheInv
  <2>2. QED
    BY <2>1, BegunIfOut, AboutIs DEF FetchFits
<1>2. KeyOf(v, m)' = KeyOf(v, m) /\ About(v, m)' = About(v, m)
  BY DEF LeftAlone, KeyOf, About
<1>3. f \in Fetch /\ now \in Nat /\ now' \in Nat /\ f.begun \in Nat /\ MaxFlight \in Nat
  BY ConstantsAreNatural DEF CInv, TypeOK, Times, Fetch
<1>4. fetch'[v][m] = f
  BY DEF LeftAlone
<1>5. f.begun <= now' /\ now' - f.begun <= MaxFlight
  BY <1>1, <1>3 DEF AskFits
<1>6. f.snap # None => f.snap \in CacheItems /\ Honest(f.snap)' /\ f.snap.key = KeyOf(v, m)
  <2>1. SUFFICES ASSUME f.snap # None
                 PROVE  f.snap \in CacheItems /\ Honest(f.snap)' /\ f.snap.key = KeyOf(v, m)
    OBVIOUS
  <2>2. f.snap \in CacheItems /\ Honest(f.snap) /\ f.snap.key = KeyOf(v, m)
    BY <1>1, <1>3, <2>1 DEF AskFits, Fetch
  <2>3. PICK e \in CacheItems : e = f.snap
    BY <2>2
  <2>4. Honest(e)'
    BY <2>2, <2>3, HonestStays
  <2>5. (f.snap)' = e
    BY <1>4, <2>3
  <2>6. Honest(f.snap)'
    BY <2>4, <2>5 DEF Honest
  <2>7. QED
    BY <2>2, <2>6
<1>7. ASSUME f.snap # None, f.pc = "ask" \/ f.status = "notModified",
             NEW i \in 1 .. Len(cache'.items), cache'.items[i].key = KeyOf(v, m)
      PROVE  \/ cache'.items[i].ver = f.snap.ver
             \/ f.begun <= (LastCurrent(cache.items[i].of, cache.items[i].ver))' + MaxFlight
  <2>1. TouchSafe(v, m)
    BY <1>1, <1>7 DEF AskFits
  <2>2. PICK t \in CacheItems : t = cache'.items[i]
    BY DEF TypeOK
  <2>3. Follows(t)
    BY <2>2 DEF ItemsFollow
  <2>4. PICK r \in Resources, ver \in Versions : r = t.of /\ ver = t.ver
    BY DEF CacheItems
  <2>5. LastCurrent(r, ver) \in Nat /\ LastCurrent(r, ver)' \in Nat
        /\ LastCurrent(r, ver) <= LastCurrent(r, ver)'
    BY DEF Later
  <2>6. (LastCurrent(cache.items[i].of, cache.items[i].ver))' = LastCurrent(r, ver)'
    BY <2>2, <2>4 DEF LastCurrent, Current
  <2>7. CASE \E k \in 1 .. Len(cache.items) :
               /\ cache.items[k].key = t.key /\ cache.items[k].of = t.of
               /\ cache.items[k].ver = t.ver
    <3>1. t.ver = f.snap.ver \/ f.begun <= LastCurrent(r, ver) + MaxFlight
      BY <1>7, <2>1, <2>2, <2>4, <2>7 DEF TouchSafe
    <3>2. QED
      BY <1>3, <2>2, <2>5, <2>6, <3>1
  <2>8. CASE now <= LastCurrent(t.of, t.ver) + MaxFlight
    <3>1. now <= LastCurrent(r, ver) + MaxFlight
      BY <2>4, <2>8
    <3>2. f.begun <= now
      BY <1>1 DEF AskFits
    <3>3. f.begun <= LastCurrent(r, ver)' + MaxFlight
      BY <1>3, <2>5, <3>1, <3>2
    <3>4. QED
      BY <2>6, <3>3
  <2>9. QED
    BY <2>3, <2>7, <2>8 DEF Follows
<1>8. f.snap # None /\ (f.pc = "ask" \/ f.status = "notModified") => TouchSafe(v, m)'
  BY <1>2, <1>4, <1>7 DEF TouchSafe
<1>9. AskFits(v, m)'
  BY <1>2, <1>4, <1>5, <1>6, <1>8 DEF AskFits
<1>10. ASSUME f.pc = "finish" PROVE AnswerFits(v, m)'
  <2>1. AnswerFits(v, m)
    BY <1>1, <1>10
  <2>2. ASSUME f.status \in {"ok", "notModified"}
        PROVE  f.ver \in Versions /\ f.begun <= (LastCurrent(About(v, m), f.ver))'
    <3>1. f.ver \in Versions /\ f.begun <= LastCurrent(About(v, m), f.ver)
      BY <2>1, <2>2 DEF AnswerFits
    <3>2. PICK r \in Resources, ver \in Versions : r = About(v, m) /\ ver = f.ver
      BY <1>1, <3>1
    <3>3. LastCurrent(r, ver) \in Nat /\ LastCurrent(r, ver)' \in Nat
          /\ LastCurrent(r, ver) <= LastCurrent(r, ver)'
      BY DEF Later
    <3>4. (LastCurrent(About(v, m), f.ver))' = LastCurrent(r, ver)'
      BY <1>2, <1>4, <3>2 DEF LastCurrent, Current
    <3>5. QED
      BY <1>3, <3>1, <3>2, <3>3, <3>4
  <2>3. QED
    BY <1>2, <1>4, <2>1, <2>2 DEF AnswerFits
<1>11. QED
  BY <1>9, <1>10

-----------------------------------------------------------------------------
(* The steps                                                                *)

(* What the invariant says of the cache and of each walk.                   *)
LEMMA CInvIs ==
    ASSUME CInv
    PROVE  /\ TypeOK /\ Kept(cache) /\ EsiFits /\ ItemsHonest /\ FetchFits /\ WalkFits
           /\ \A w \in Walks : WalkIs(w)
<1>1. cache \in Caches
  BY DEF CInv, TypeOK, Caches
<1>2. QED
  BY <1>1, SoundIs, WalkFitsIs DEF CInv, CacheInv, Kept

(* And what it takes after a step.                                          *)
LEMMA CInvNext ==
    ASSUME TypeOK', Kept(cache'), EsiFits', ItemsHonest', FetchFits',
           \A w \in Walks : WalkIs(w)'
    PROVE  CInv'
<1>1. CacheBounded'
  BY DEF Kept, CacheBounded, Sound, Bounded, OnePerKey, NoneTooLarge
<1>2. WalkFits'
  BY DEF WalkFits, WalkIs
<1>3. QED
  BY <1>1, <1>2 DEF CInv, CacheInv

(* A step that leaves the cache alone.                                      *)
LEMMA CacheStill ==
    ASSUME CInv, Later, cache' = cache
    PROVE  Kept(cache') /\ ItemsHonest' /\ ItemsFollow
<1>1. Kept(cache) /\ ItemsHonest /\ cache.items \in Seq(CacheItems)
  BY CInvIs DEF Kept, Sound, Caches
<1>2. ASSUME NEW i \in 1 .. Len(cache.items) PROVE Honest(cache.items[i])'
  <2>1. PICK e \in CacheItems : e = cache.items[i]
    BY <1>1
  <2>2. Honest(e)
    BY <1>1, <2>1 DEF ItemsHonest
  <2>3. Honest(e)'
    BY <2>2, HonestStays
  <2>4. QED
    BY <2>1, <2>3 DEF Honest
<1>3. ItemsHonest'
  BY <1>2 DEF ItemsHonest
<1>4. ItemsFollow
  BY DEF ItemsFollow, Follows
<1>5. QED
  BY <1>1, <1>3, <1>4

(* A step in which neither the clock nor ESI moves.                         *)
LEMMA EsiStill ==
    ASSUME CInv, now' = now, esi' = esi
    PROVE  EsiFits' /\ Later
<1>1. QED
  BY CInvIs, LaterWhenStill DEF EsiFits

(* A walk the step leaves alone.                                            *)
LEMMA WalkStays ==
    ASSUME NEW v \in Walks, WalkIs(v), walk'[v] = walk[v],
           \A m \in PageNumbers : Out(v, m)' = Out(v, m)
    PROVE  WalkIs(v)'
<1>1. Gathered(v) => Gathered(v)'
  BY DEF Gathered
<1>2. Out(v, 1)' = Out(v, 1)
  BY PageOneIs DEF PageOne
<1>3. QED
  BY <1>1, <1>2 DEF WalkIs

(* Change keeps the invariant.                                              *)
LEMMA ChangeKeeps ==
    ASSUME CInv, Change
    PROVE  CInv'
<1>1. TypeOK' /\ Later /\ EsiFits'
  BY CInvIs, ChangeTyped, LaterOnChange
<1>2. now' = now /\ cache' = cache /\ walk' = walk /\ fetch' = fetch
  BY DEF Change
<1>3. Kept(cache') /\ ItemsHonest' /\ ItemsFollow
  BY <1>1, <1>2, CacheStill
<1>4. FetchFits'
  <2>1. ASSUME NEW v \in Walks, NEW m \in PageNumbers, fetch[v][m].pc \in {"ask", "finish"}
        PROVE  AskFits(v, m)' /\ (fetch[v][m].pc = "finish" => AnswerFits(v, m)')
    <3>1. now' - fetch[v][m].begun <= MaxFlight
      BY <1>2, <2>1, CInvIs DEF FetchFits, AskFits
    <3>2. LeftAlone(v, m) /\ now <= now'
      BY <1>2, CInvIs, ConstantsAreNatural DEF LeftAlone, TypeOK, Times
    <3>3. QED
      BY <1>1, <1>3, <2>1, <3>1, <3>2, AskStays
  <2>2. QED
    BY <1>2, <2>1 DEF FetchFits
<1>5. \A w \in Walks : WalkIs(w)'
  BY <1>2, CInvIs, WalkStays DEF Out
<1>6. QED
  BY <1>1, <1>3, <1>4, <1>5, CInvNext

(* Tick keeps it: no fetch is out for longer than MaxFlight.                *)
LEMMA TickKeeps ==
    ASSUME CInv, Tick
    PROVE  CInv'
<1>1. TypeOK' /\ Later
  BY CInvIs, TickTyped, LaterOnTick
<1>2. now \in Nat /\ now' = now + 1 /\ esi' = esi /\ cache' = cache /\ walk' = walk
      /\ fetch' = fetch
  BY CInvIs, ConstantsAreNatural DEF Tick, TypeOK, Times
<1>3. EsiFits'
  <2>1. SUFFICES ASSUME NEW r \in Resources, NEW ver \in Versions
                 PROVE  esi[r].until[ver] <= now + 1
    BY <1>2 DEF EsiFits
  <2>2. esi[r].until[ver] \in Nat /\ esi[r].until[ver] <= now
    BY CInvIs, ConstantsAreNatural DEF EsiFits, TypeOK, Times
  <2>3. QED
    BY <1>2, <2>2
<1>4. Kept(cache') /\ ItemsHonest' /\ ItemsFollow
  BY <1>1, <1>2, CacheStill
<1>5. FetchFits'
  <2>1. ASSUME NEW v \in Walks, NEW m \in PageNumbers, fetch[v][m].pc \in {"ask", "finish"}
        PROVE  AskFits(v, m)' /\ (fetch[v][m].pc = "finish" => AnswerFits(v, m)')
    <3>1. now - fetch[v][m].begun < MaxFlight
      BY <2>1 DEF Tick
    <3>2. fetch[v][m].begun \in Nat
      BY CInvIs, ConstantsAreNatural DEF TypeOK, Fetch, Times
    <3>3. now' - fetch[v][m].begun <= MaxFlight /\ now <= now'
      BY <1>2, <3>1, <3>2, ConstantsAreNatural
    <3>4. LeftAlone(v, m)
      BY <1>2 DEF LeftAlone
    <3>5. QED
      BY <1>1, <1>4, <2>1, <3>3, <3>4, AskStays
  <2>2. QED
    BY <1>2, <2>1 DEF FetchFits
<1>6. \A w \in Walks : WalkIs(w)'
  BY <1>2, CInvIs, WalkStays DEF Out
<1>7. QED
  BY <1>1, <1>3, <1>4, <1>5, <1>6, CInvNext

(* Begin keeps it: none of the fetches of the walk before is left.          *)
LEMMA BeginKeeps ==
    ASSUME CInv, NEW w \in Walks, Begin(w)
    PROVE  CInv'
<1>0. PICK name \in Endpoints : \E user \in Askers(name) :
        /\ walk[w].pc \in {"new", "done", "failed"}
        /\ \A n \in PageNumbers : fetch[w][n].pc = "idle"
        /\ walk' = [walk EXCEPT ![w] =
             [NoWalk EXCEPT !.pc = "first", !.name = name, !.user = user]]
        /\ fetch' = [fetch EXCEPT ![w] =
             [n \in PageNumbers |-> IF n = 1 THEN [Idle EXCEPT !.pc = "get"] ELSE Idle]]
        /\ UNCHANGED <<now, changes, esi, cache>>
  BY Zenon DEF Begin
<1>1. PICK user \in Askers(name) :
        /\ walk[w].pc \in {"new", "done", "failed"}
        /\ \A n \in PageNumbers : fetch[w][n].pc = "idle"
        /\ walk' = [walk EXCEPT ![w] =
             [NoWalk EXCEPT !.pc = "first", !.name = name, !.user = user]]
        /\ fetch' = [fetch EXCEPT ![w] =
             [n \in PageNumbers |-> IF n = 1 THEN [Idle EXCEPT !.pc = "get"] ELSE Idle]]
        /\ UNCHANGED <<now, changes, esi, cache>>
  BY <1>0
<1>2. TypeOK
  BY CInvIs
<1>3. PICK k : k = [NoWalk EXCEPT !.pc = "first", !.name = name, !.user = user]
  OBVIOUS
<1>4. k.pc = "first" /\ k.name = name /\ k.user = user /\ k.got = {} /\ k \in Walk
  <2>1. 0 \in Times
    BY ConstantsAreNatural DEF Times
  <2>2. user \in Users \cup {None}
    BY DEF Askers
  <2>3. QED
    BY <1>3, <2>1, <2>2 DEF NoWalk, Walk
<1>5. PICK row : row = [n \in PageNumbers |-> IF n = 1 THEN [Idle EXCEPT !.pc = "get"] ELSE Idle]
  OBVIOUS
<1>6. row \in [PageNumbers -> Fetch]
      /\ \A n \in PageNumbers : row[n].pc = IF n = 1 THEN "get" ELSE "idle"
  BY <1>2, <1>5, IdleIs DEF TypeOK
<1>7. walk' = [walk EXCEPT ![w] = k] /\ fetch' = [fetch EXCEPT ![w] = row]
  BY <1>1, <1>3, <1>5
<1>8. walk \in [Walks -> Walk] /\ fetch \in [Walks -> [PageNumbers -> Fetch]]
  BY <1>2 DEF TypeOK
<1>9. walk'[w] = k /\ fetch'[w] = row
      /\ \A v \in Walks : v # w => walk'[v] = walk[v] /\ fetch'[v] = fetch[v]
  BY <1>7, <1>8
<1>10. TypeOK'
  <2>1. walk' \in [Walks -> Walk]
    BY <1>4, <1>7, <1>8
  <2>2. fetch' \in [Walks -> [PageNumbers -> Fetch]]
    BY <1>6, <1>7, <1>8
  <2>3. QED
    BY <1>1, <1>2, <2>1, <2>2 DEF TypeOK
<1>11. EsiFits' /\ Later
  BY <1>1, EsiStill
<1>12. Kept(cache') /\ ItemsHonest' /\ ItemsFollow
  BY <1>1, <1>11, CacheStill
<1>13. FetchFits'
  <2>1. ASSUME NEW v \in Walks, NEW m \in PageNumbers, fetch'[v][m].pc \in {"ask", "finish"}
        PROVE  AskFits(v, m)' /\ (fetch'[v][m].pc = "finish" => AnswerFits(v, m)')
    <3>1. v # w
      BY <1>6, <1>9, <2>1
    <3>2. LeftAlone(v, m)
      BY <1>9, <3>1 DEF LeftAlone
    <3>3. fetch[v][m].pc \in {"ask", "finish"} /\ fetch'[v][m] = fetch[v][m]
      BY <2>1, <3>2 DEF LeftAlone
    <3>4. now' - fetch[v][m].begun <= MaxFlight /\ now <= now'
      BY <1>1, <1>2, <3>3, CInvIs, ConstantsAreNatural DEF FetchFits, AskFits, TypeOK, Times
    <3>5. QED
      BY <1>10, <1>11, <1>12, <3>2, <3>3, <3>4, AskStays
  <2>2. QED
    BY <2>1 DEF FetchFits
<1>14. \A v \in Walks : WalkIs(v)'
  <2>1. ASSUME NEW v \in Walks, v # w PROVE WalkIs(v)'
    BY <1>9, <2>1, CInvIs, WalkStays DEF Out
  <2>2. WalkIs(w)'
    BY <1>4, <1>6, <1>9 DEF WalkIs, Out
  <2>3. QED
    BY <2>1, <2>2
<1>15. QED
  BY <1>10, <1>11, <1>12, <1>13, <1>14, CInvNext

(* A fetch that goes on: the walk keeps it out, and the others are left     *)
(* alone.                                                                   *)
LEMMA FetchGoesOn ==
    ASSUME CInv, TypeOK', Kept(cache'), ItemsHonest', ItemsFollow, now' = now, esi' = esi,
           walk' = walk, NEW w \in Walks, NEW n \in PageNumbers, NEW f \in Fetch,
           fetch' = [fetch EXCEPT ![w][n] = f], f.pc \in {"ask", "finish"},
           fetch[w][n].pc # "idle",
           AskFits(w, n)', f.pc = "finish" => AnswerFits(w, n)'
    PROVE  CInv'
<1>1. fetch \in [Walks -> [PageNumbers -> Fetch]]
  BY CInvIs DEF TypeOK
<1>2. \A v \in Walks, m \in PageNumbers :
        fetch'[v][m] = IF v = w /\ m = n THEN f ELSE fetch[v][m]
  BY <1>1
<1>3. EsiFits' /\ Later
  BY EsiStill
<1>4. FetchFits'
  <2>1. ASSUME NEW v \in Walks, NEW m \in PageNumbers, fetch'[v][m].pc \in {"ask", "finish"}
        PROVE  AskFits(v, m)' /\ (fetch'[v][m].pc = "finish" => AnswerFits(v, m)')
    <3>1. CASE v = w /\ m = n
      BY <1>2, <3>1
    <3>2. CASE ~(v = w /\ m = n)
      <4>1. fetch'[v][m] = fetch[v][m]
        BY <1>2, <3>2
      <4>2. LeftAlone(v, m)
        BY <4>1 DEF LeftAlone
      <4>3. now' - fetch[v][m].begun <= MaxFlight /\ now <= now'
        BY <2>1, <4>1, CInvIs, ConstantsAreNatural DEF FetchFits, AskFits, TypeOK, Times
      <4>4. QED
        BY <1>3, <2>1, <4>1, <4>2, <4>3, AskStays
    <3>3. QED
      BY <3>1, <3>2
  <2>2. QED
    BY <2>1 DEF FetchFits
<1>5. \A v \in Walks : WalkIs(v)'
  <2>1. SUFFICES ASSUME NEW v \in Walks PROVE WalkIs(v)'
    OBVIOUS
  <2>2. \A m \in PageNumbers : Out(v, m)' = Out(v, m)
    BY <1>2 DEF Out
  <2>3. QED
    BY <2>2, CInvIs, WalkStays
<1>6. QED
  BY <1>3, <1>4, <1>5, CInvNext

(* Serve keeps it: the answer is ESI's of now, and a 304 is to the body found.*)
LEMMA ServeKeeps ==
    ASSUME CInv, NEW w \in Walks, NEW n \in PageNumbers, Serve(w, n)
    PROVE  CInv'
<1> DEFINE f == fetch[w][n]
           ver == Current(About(w, n))
<1>1. PICK status \in {"ok", "notModified", "serverError", "error"} :
        /\ f.pc = "ask"
        /\ status = "notModified" => f.snap # None /\ f.snap.ver = ver
        /\ status = "serverError" => f.snap # None
        /\ fetch' = [fetch EXCEPT ![w][n] =
             [f EXCEPT !.pc = "finish", !.status = status,
                       !.snap = IF status \in {"notModified", "serverError"}
                                  THEN f.snap ELSE None,
                       !.ver = IF status \in {"ok", "notModified"} THEN ver ELSE 0]]
        /\ UNCHANGED <<now, changes, esi, cache, walk>>
  BY Zenon DEF Serve
<1>2. TypeOK /\ fetch \in [Walks -> [PageNumbers -> Fetch]] /\ f \in Fetch
  BY CInvIs DEF TypeOK
<1>3. AskFits(w, n) /\ About(w, n) \in Resources /\ KeyOf(w, n) = About(w, n)
  <2>1. walk[w].pc # "new"
    BY <1>1, CInvIs, BegunIfOut
  <2>2. QED
    BY <1>1, <2>1, CInvIs, AboutIs DEF FetchFits
<1>4. ver \in Versions /\ ver \in 0 .. MaxVer
  BY <1>2, <1>3, ConstantsAreNatural DEF TypeOK, Current, Versions
<1>5. PICK snap : snap = IF status \in {"notModified", "serverError"} THEN f.snap ELSE None
  OBVIOUS
<1>6. PICK got : got = IF status \in {"ok", "notModified"} THEN ver ELSE 0
  OBVIOUS
<1>7. snap \in CacheItems \cup {None} /\ got \in 0 .. MaxVer
  BY <1>2, <1>4, <1>5, <1>6, ConstantsAreNatural DEF Fetch
<1>8. PICK g : g = [f EXCEPT !.pc = "finish", !.status = status, !.snap = snap, !.ver = got]
  OBVIOUS
<1>9. g \in Fetch /\ g.pc = "finish" /\ g.begun = f.begun /\ g.snap = snap
      /\ g.status = status /\ g.ver = got
  BY <1>2, <1>7, <1>8 DEF Fetch
<1>10. fetch' = [fetch EXCEPT ![w][n] = g]
  BY <1>1, <1>5, <1>6, <1>8
<1>11. fetch'[w][n] = g
  BY <1>2, <1>10
<1>12. TypeOK'
  <2>1. fetch' \in [Walks -> [PageNumbers -> Fetch]]
    BY <1>2, <1>9, <1>10
  <2>2. QED
    BY <1>1, <1>2, <2>1 DEF TypeOK
<1>13. now' = now /\ esi' = esi /\ cache' = cache /\ walk' = walk
  BY <1>1
<1>14. EsiFits' /\ Later
  BY <1>13, EsiStill
<1>15. Kept(cache') /\ ItemsHonest' /\ ItemsFollow
  BY <1>13, <1>14, CacheStill
<1>16. AskFits(w, n)'
  <2>1. g.begun <= now /\ now - g.begun <= MaxFlight
    BY <1>3, <1>9 DEF AskFits
  <2>2. snap # None => snap = f.snap
    BY <1>5
  <2>3. snap # None => Honest(snap)' /\ snap.key = KeyOf(w, n)
    <3>1. SUFFICES ASSUME snap # None PROVE Honest(snap)' /\ snap.key = KeyOf(w, n)
      OBVIOUS
    <3>2. Honest(snap) /\ snap.key = KeyOf(w, n)
      BY <1>3, <2>2, <3>1 DEF AskFits
    <3>3. QED
      BY <1>13, <3>2 DEF Honest, LastCurrent, Current
  <2>4. snap # None => TouchSafe(w, n)
    BY <1>1, <1>3, <2>2 DEF AskFits
  <2>5. snap # None => TouchSafe(w, n)'
    BY <1>9, <1>11, <1>13, <2>2, <2>4 DEF TouchSafe, KeyOf, LastCurrent, Current
  <2>6. QED
    BY <1>9, <1>11, <1>13, <2>1, <2>3, <2>5 DEF AskFits, KeyOf, Honest, LastCurrent, Current
<1>17. AnswerFits(w, n)'
  <2>1. status \in {"ok", "notModified"} =>
          got \in Versions /\ f.begun <= (LastCurrent(About(w, n), got))'
    <3>1. SUFFICES ASSUME status \in {"ok", "notModified"}
                   PROVE  got \in Versions /\ f.begun <= (LastCurrent(About(w, n), got))'
      OBVIOUS
    <3>2. got = ver
      BY <1>6, <3>1
    <3>3. (LastCurrent(About(w, n), got))' = now
      BY <1>13, <3>2 DEF LastCurrent, Current, About
    <3>4. QED
      BY <1>3, <1>4, <3>2, <3>3 DEF AskFits
  <2>2. status = "notModified" => snap # None /\ snap.ver = got
    BY <1>1, <1>5, <1>6
  <2>3. status = "serverError" => snap # None
    BY <1>1, <1>5
  <2>4. QED
    BY <1>9, <1>11, <2>1, <2>2, <2>3 DEF AnswerFits
<1>18. fetch[w][n].pc # "idle"
  BY <1>1
<1>19. QED
  BY <1>9, <1>10, <1>12, <1>13, <1>15, <1>16, <1>17, <1>18, FetchGoesOn

(* A fetch that ends with a result.                                         *)
LEMMA DeliveryKeeps ==
    ASSUME CInv, now' = now, changes' = changes, esi' = esi,
           Kept(cache'), ItemsHonest', ItemsFollow,
           NEW w \in Walks, NEW n \in PageNumbers, fetch[w][n].pc # "idle",
           NEW b, b.stored \in Times, Deliver(w, n, b)
    PROVE  CInv'
<1>1. TypeOK /\ fetch \in [Walks -> [PageNumbers -> Fetch]] /\ now \in Times
  BY CInvIs DEF TypeOK
<1>2. /\ WalksTyped' /\ FetchesTyped'
      /\ walk'[w].name = walk[w].name /\ walk'[w].user = walk[w].user
  BY <1>1, DeliverTyped
<1>3. TypeOK'
  BY <1>1, <1>2 DEF TypeOK, WalksTyped, FetchesTyped, Kept, Sound, Caches
<1>4. EsiFits' /\ Later
  BY EsiStill
<1>5. /\ \A v \in Walks : v # w => walk'[v] = walk[v] /\ fetch'[v] = fetch[v]
      /\ fetch'[w][n] = Idle
      /\ \A m \in PageNumbers : m # n =>
           fetch'[w][m] = IF n = 1 /\ walk'[w].pc = "fan"
                            THEN [Idle EXCEPT !.pc = "get"] ELSE fetch[w][m]
  BY <1>1, Delivered
<1>6. ASSUME NEW v \in Walks, NEW m \in PageNumbers, fetch'[v][m].pc \in {"ask", "finish"}
      PROVE  LeftAlone(v, m)
  <2>1. CASE v = w
    <3>1. m # n
      BY <1>1, <1>5, <1>6, <2>1, IdleIs
    <3>2. fetch'[v][m] = fetch[v][m]
      BY <1>1, <1>5, <1>6, <2>1, <3>1, IdleIs
    <3>3. QED
      BY <1>2, <2>1, <3>2 DEF LeftAlone
  <2>2. CASE v # w
    BY <1>5, <2>2 DEF LeftAlone
  <2>3. QED
    BY <2>1, <2>2
<1>7. FetchFits'
  <2>1. ASSUME NEW v \in Walks, NEW m \in PageNumbers, fetch'[v][m].pc \in {"ask", "finish"}
        PROVE  AskFits(v, m)' /\ (fetch'[v][m].pc = "finish" => AnswerFits(v, m)')
    <3>1. LeftAlone(v, m) /\ fetch'[v][m] = fetch[v][m]
      BY <1>6, <2>1 DEF LeftAlone
    <3>2. now' - fetch[v][m].begun <= MaxFlight /\ now <= now'
      BY <1>1, <2>1, <3>1, CInvIs, ConstantsAreNatural DEF FetchFits, AskFits, Times
    <3>3. QED
      BY <1>3, <1>4, <2>1, <3>1, <3>2, AskStays
  <2>2. QED
    BY <2>1 DEF FetchFits
<1>8. \A v \in Walks : WalkIs(v)'
  <2>1. ASSUME NEW v \in Walks, v # w PROVE WalkIs(v)'
    BY <1>5, <2>1, CInvIs, WalkStays DEF Out
  <2>2. WalkIs(w)'
    <3>1. Out(w, n) /\ WalkIs(w)
      BY CInvIs DEF Out
    <3>2. QED
      BY <1>1, <3>1, GatherFits
  <2>3. QED
    BY <2>1, <2>2
<1>9. QED
  BY <1>3, <1>4, <1>7, <1>8, CInvNext

(* Lookup keeps it: a hit is answered, or remembered with its version.      *)
LEMMA LookupKeeps ==
    ASSUME CInv, NEW w \in Walks, NEW n \in PageNumbers, Lookup(w, n)
    PROVE  CInv'
<1>0. PICK key, hit : key = KeyOf(w, n) /\ hit = Cached(key)
  OBVIOUS
<1>1. /\ fetch[w][n].pc = "get" /\ cache' = MoveToFront(key)
      /\ now' = now /\ changes' = changes /\ esi' = esi
  BY <1>0 DEF Lookup
<1>2. /\ TypeOK /\ Kept(cache) /\ ItemsHonest /\ cache.items \in Seq(CacheItems)
      /\ fetch \in [Walks -> [PageNumbers -> Fetch]] /\ now \in Times
  BY CInvIs DEF TypeOK
<1>3. Kept(cache') /\ \A i \in 1 .. Len(cache'.items) : \E k \in 1 .. Len(cache.items) :
        cache'.items[i] = cache.items[k]
  BY <1>1, <1>2, MoveKeeps
<1>4. ItemsHonest'
  <2>1. ASSUME NEW i \in 1 .. Len(cache'.items) PROVE Honest(cache.items[i])'
    <3>1. PICK k \in 1 .. Len(cache.items) : cache'.items[i] = cache.items[k]
      BY <1>3
    <3>2. PICK e \in CacheItems : e = cache.items[k]
      BY <1>2
    <3>3. Honest(e)
      BY <1>2, <3>2 DEF ItemsHonest
    <3>4. Later
      BY <1>1, <1>2, LaterWhenStill
    <3>5. Honest(e)'
      BY <3>3, <3>4, HonestStays
    <3>6. QED
      BY <3>1, <3>2, <3>5 DEF Honest
  <2>2. QED
    BY <2>1 DEF ItemsHonest
<1>5. ItemsFollow
  BY <1>3 DEF ItemsFollow, Follows
<1>6. CASE hit # None /\ Fresh(hit)
  <2>1. Deliver(w, n, Hit(w, n))
    BY <1>0, <1>6 DEF Lookup
  <2>2. PICK i \in 1 .. Len(cache.items) : hit = cache.items[i] /\ cache.items[i] \in CacheItems
    BY <1>0, <1>2, <1>6, CachedIs
  <2>3. Hit(w, n).stored \in Times
    BY <1>0, <2>2 DEF Hit, Result, CacheItems
  <2>4. fetch[w][n].pc # "idle"
    BY <1>1
  <2>5. QED
    BY <1>1, <1>3, <1>4, <1>5, <2>1, <2>3, <2>4, DeliveryKeeps
<1>7. CASE ~(hit # None /\ Fresh(hit))
  <2>1. /\ fetch' = [fetch EXCEPT ![w][n] =
             [@ EXCEPT !.pc = "ask", !.begun = now, !.snap = hit]]
        /\ walk' = walk
    BY <1>0, <1>7 DEF Lookup
  <2>2. hit # None => \E i \in 1 .. Len(cache.items) :
          hit = cache.items[i] /\ cache.items[i].key = key /\ cache.items[i] \in CacheItems
    BY <1>0, <1>2, CachedIs
  <2>3. hit \in CacheItems \cup {None}
    BY <2>2
  <2>4. PICK f : f = [fetch[w][n] EXCEPT !.pc = "ask", !.begun = now, !.snap = hit]
    OBVIOUS
  <2>5. f \in Fetch /\ f.pc = "ask" /\ f.begun = now /\ f.snap = hit
    <3>1. fetch[w][n] \in Fetch
      BY <1>2
    <3>2. QED
      BY <1>2, <2>3, <2>4, <3>1 DEF Fetch
  <2>6. fetch' = [fetch EXCEPT ![w][n] = f]
    BY <2>1, <2>4
  <2>7. fetch'[w][n] = f
    BY <1>2, <2>6
  <2>8. TypeOK'
    <3>1. fetch' \in [Walks -> [PageNumbers -> Fetch]]
      BY <1>2, <2>5, <2>6
    <3>2. QED
      BY <1>1, <1>2, <1>3, <2>1, <3>1 DEF TypeOK, Kept, Sound, Caches
  <2>9. KeyOf(w, n)' = key
    BY <1>0, <2>1 DEF KeyOf
  <2>10. hit # None => Honest(hit)' /\ hit.key = key
    <3>1. hit # None => Honest(hit) /\ hit.key = key
      BY <1>2, <2>2 DEF ItemsHonest
    <3>2. Honest(hit) => Honest(hit)'
      BY <1>1 DEF Honest, LastCurrent, Current
    <3>3. QED
      BY <3>1, <3>2
  <2>11. ASSUME hit # None PROVE TouchSafe(w, n)'
    <3>1. PICK i \in 1 .. Len(cache.items) : hit = cache.items[i] /\ cache.items[i].key = key
      BY <2>2, <2>11
    <3>2. ASSUME NEW j \in 1 .. Len(cache'.items), cache'.items[j].key = key
          PROVE  cache'.items[j].ver = hit.ver
      <4>1. PICK k \in 1 .. Len(cache.items) : cache'.items[j] = cache.items[k]
        BY <1>3
      <4>2. k = i
        BY <1>2, <3>1, <3>2, <4>1 DEF Kept, Sound, OnePerKey
      <4>3. QED
        BY <3>1, <4>1, <4>2
    <3>3. QED
      BY <2>5, <2>7, <2>9, <3>2 DEF TouchSafe
  <2>12. now - now <= MaxFlight /\ now <= now
    BY <1>2, ConstantsAreNatural DEF Times
  <2>13. AskFits(w, n)'
    BY <1>1, <2>5, <2>7, <2>9, <2>10, <2>11, <2>12 DEF AskFits
  <2>14. fetch[w][n].pc # "idle"
    BY <1>1
  <2>15. QED
    BY <1>1, <1>3, <1>4, <1>5, <2>1, <2>5, <2>6, <2>8, <2>13, <2>14, FetchGoesOn
<1>8. QED
  BY <1>6, <1>7

(* What an answer to the request says of now: ESI still had the body when   *)
(* it was asked, which is no more than a flight ago.                        *)
LEMMA RecentlyCurrent ==
    ASSUME CInv, NEW w \in Walks, NEW n \in PageNumbers, fetch[w][n].pc = "finish",
           fetch[w][n].status \in {"ok", "notModified"}
    PROVE  /\ fetch[w][n].ver \in Versions
           /\ now <= LastCurrent(About(w, n), fetch[w][n].ver) + MaxFlight
<1> DEFINE f == fetch[w][n]
<1>1. AskFits(w, n) /\ AnswerFits(w, n) /\ TypeOK /\ About(w, n) \in Resources
  <2>1. walk[w].pc # "new"
    BY CInvIs, BegunIfOut
  <2>2. QED
    BY <2>1, CInvIs, AboutIs DEF FetchFits
<1>2. f.ver \in Versions /\ f.begun <= LastCurrent(About(w, n), f.ver)
      /\ now - f.begun <= MaxFlight
  BY <1>1 DEF AskFits, AnswerFits
<1>3. LastCurrent(About(w, n), f.ver) \in Nat
  BY <1>1, <1>2, LastCurrentTyped
<1>4. f \in Fetch /\ now \in Nat /\ f.begun \in Nat /\ MaxFlight \in Nat
  BY <1>1, ConstantsAreNatural DEF TypeOK, Times, Fetch
<1>5. QED
  BY <1>2, <1>3, <1>4

(* What finishGet puts into the cache, or stamps anew there, is honest.     *)
LEMMA RememberKeeps ==
    ASSUME CInv, NEW w \in Walks, NEW n \in PageNumbers, fetch[w][n].pc = "finish",
           cache' = Remember(w, n), now' = now, esi' = esi
    PROVE  Kept(cache') /\ ItemsHonest' /\ ItemsFollow
<1>0. PICK f, key : f = fetch[w][n] /\ key = KeyOf(w, n)
  OBVIOUS
<1>1. /\ TypeOK /\ Kept(cache) /\ ItemsHonest /\ cache.items \in Seq(CacheItems)
      /\ now \in Times /\ now \in Nat /\ MaxFlight \in Nat /\ f \in Fetch
  <2>1. TypeOK /\ Kept(cache) /\ ItemsHonest
    BY CInvIs
  <2>2. QED
    BY <1>0, <2>1, ConstantsAreNatural DEF TypeOK, Times
<1>2. AskFits(w, n) /\ AnswerFits(w, n) /\ key = About(w, n) /\ key \in Resources
  <2>1. walk[w].pc # "new"
    BY CInvIs, BegunIfOut
  <2>2. QED
    BY <1>0, <2>1, CInvIs, AboutIs DEF FetchFits
<1>3. Later
  BY <1>1, LaterWhenStill
<1>4. ASSUME NEW k \in 1 .. Len(cache.items)
      PROVE  /\ cache.items[k] \in CacheItems /\ Honest(cache.items[k])
             /\ Follows(cache.items[k])
  BY <1>1 DEF ItemsHonest, Follows
<1>5. now + TTL \in 0 .. (MaxTime + TTL)
  BY <1>1, ConstantsAreNatural DEF Times
<1>6. SUFFICES /\ Kept(cache')
               /\ \A i \in 1 .. Len(cache'.items) : \E t \in CacheItems :
                    cache'.items[i] = t /\ Honest(t) /\ Follows(t)
  <2>1. SUFFICES ASSUME /\ Kept(cache')
                        /\ \A i \in 1 .. Len(cache'.items) : \E t \in CacheItems :
                             cache'.items[i] = t /\ Honest(t) /\ Follows(t)
                 PROVE  ItemsHonest' /\ ItemsFollow
    OBVIOUS
  <2>2. ASSUME NEW i \in 1 .. Len(cache'.items) PROVE Honest(cache.items[i])'
    <3>1. PICK t \in CacheItems : cache'.items[i] = t /\ Honest(t)
      BY <2>1
    <3>2. Honest(t)'
      BY <1>3, <3>1, HonestStays
    <3>3. QED
      BY <3>1, <3>2 DEF Honest
  <2>3. ItemsHonest'
    BY <2>2 DEF ItemsHonest
  <2>4. ItemsFollow
    BY <2>1 DEF ItemsFollow
  <2>5. QED
    BY <2>3, <2>4
<1>7. CASE f.status = "ok"
  <2>1. f.ver \in Versions /\ now <= LastCurrent(key, f.ver) + MaxFlight
    BY <1>0, <1>2, <1>7, RecentlyCurrent
  <2>2. PICK e : e = [key |-> key, of |-> key, ver |-> f.ver, stored |-> now,
                      expires |-> now + TTL]
    OBVIOUS
  <2>3. e \in CacheItems
    BY <1>1, <1>2, <1>5, <2>1, <2>2 DEF CacheItems
  <2>4. cache' = Put(e)
    BY <1>0, <1>2, <1>7, <2>2 DEF Remember, Item
  <2>5. LastCurrent(key, f.ver) \in Nat
    BY <1>1, <1>2, <2>1, LastCurrentTyped
  <2>6. now <= LastCurrent(key, f.ver) + 2 * MaxFlight
    BY <1>1, <2>1, <2>5
  <2>7. Honest(e) /\ Follows(e)
    BY <2>1, <2>2, <2>6 DEF Honest, Follows
  <2>8. /\ Kept(cache')
        /\ \A i \in 1 .. Len(cache'.items) :
             cache'.items[i] = e
             \/ \E k \in 1 .. Len(cache.items) : cache'.items[i] = cache.items[k]
    BY <1>1, <2>3, <2>4, PutKeeps
  <2>9. QED
    BY <1>4, <2>3, <2>7, <2>8
<1>8. CASE f.status = "notModified"
  <2>1. f.ver \in Versions /\ now <= LastCurrent(key, f.ver) + MaxFlight
    BY <1>0, <1>2, <1>8, RecentlyCurrent
  <2>2. PICK expires \in 0 .. (MaxTime + TTL) : expires = now + TTL
    BY <1>5
  <2>3. cache' = Touch(key, expires)
    BY <1>0, <1>8, <2>2 DEF Remember
  <2>4. Kept(cache') /\ OldOrStamped(cache', key, expires)
    BY <1>1, <2>3, TouchKeeps
  <2>5. f.snap # None /\ f.snap.ver = f.ver /\ TouchSafe(w, n) /\ f.begun <= now
        /\ now - f.begun <= MaxFlight
    BY <1>0, <1>2, <1>8 DEF AskFits, AnswerFits
  <2>6. ASSUME NEW k \in 1 .. Len(cache.items), cache.items[k].key = key,
               NEW t, t = [cache.items[k] EXCEPT !.expires = expires, !.stored = now]
        PROVE  t \in CacheItems /\ Honest(t) /\ Follows(t)
    <3>1. PICK o \in CacheItems : o = cache.items[k]
      BY <1>4
    <3>2. t = [o EXCEPT !.expires = expires, !.stored = now]
      BY <2>6, <3>1
    <3>3. t \in CacheItems /\ t.key = o.key /\ t.of = o.of /\ t.ver = o.ver /\ t.stored = now
      BY <1>1, <3>2 DEF CacheItems
    <3>4. o.of = o.key /\ o.key = key
      BY <1>4, <2>6, <3>1 DEF Honest
    <3>5. LastCurrent(o.of, o.ver) \in Nat
      BY <1>1, LastCurrentTyped DEF CacheItems
    <3>6. o.ver = f.ver \/ f.begun <= LastCurrent(o.of, o.ver) + MaxFlight
      BY <1>0, <2>5, <2>6, <3>1 DEF TouchSafe
    <3>7. f.begun \in Nat
      BY <1>1, ConstantsAreNatural DEF Fetch, Times
    <3>8. now <= LastCurrent(o.of, o.ver) + 2 * MaxFlight
      <4>1. CASE o.ver = f.ver
        BY <1>1, <2>1, <3>4, <3>5, <4>1
      <4>2. CASE f.begun <= LastCurrent(o.of, o.ver) + MaxFlight
        BY <1>1, <2>5, <3>5, <3>7, <4>2
      <4>3. QED
        BY <3>6, <4>1, <4>2
    <3>9. Honest(t)
      BY <3>3, <3>4, <3>8 DEF Honest
    <3>10. Follows(t)
      BY <3>1, <3>3 DEF Follows
    <3>11. QED
      BY <3>3, <3>9, <3>10
  <2>7. ASSUME NEW i \in 1 .. Len(cache'.items)
        PROVE  \E t \in CacheItems : cache'.items[i] = t /\ Honest(t) /\ Follows(t)
    <3>1. PICK k \in 1 .. Len(cache.items) :
            \/ cache'.items[i] = cache.items[k]
            \/ /\ cache.items[k].key = key
               /\ cache'.items[i] =
                    [cache.items[k] EXCEPT !.expires = expires, !.stored = now]
      BY <2>4 DEF OldOrStamped
    <3>2. CASE cache'.items[i] = cache.items[k]
      BY <1>4, <3>2
    <3>3. CASE cache.items[k].key = key /\ cache'.items[i] =
                 [cache.items[k] EXCEPT !.expires = expires, !.stored = now]
      <4>1. PICK t : t = cache'.items[i]
        OBVIOUS
      <4>2. t \in CacheItems /\ Honest(t) /\ Follows(t)
        BY <2>6, <3>3, <4>1
      <4>3. QED
        BY <4>1, <4>2
    <3>4. QED
      BY <3>1, <3>2, <3>3
  <2>8. QED
    BY <2>4, <2>7
<1>9. CASE f.status \notin {"ok", "notModified"}
  <2>1. cache' = cache
    BY <1>0, <1>9 DEF Remember
  <2>2. QED
    BY <1>1, <1>4, <2>1
<1>10. QED
  BY <1>7, <1>8, <1>9

(* FinishGet keeps it.                                                      *)
LEMMA FinishGetKeeps ==
    ASSUME CInv, NEW w \in Walks, NEW n \in PageNumbers, FinishGet(w, n)
    PROVE  CInv'
<1>1. /\ fetch[w][n].pc = "finish" /\ cache' = Remember(w, n)
      /\ Deliver(w, n, Answer(w, n))
      /\ now' = now /\ changes' = changes /\ esi' = esi
  BY DEF FinishGet
<1>2. PICK f : f = fetch[w][n]
  OBVIOUS
<1>3. TypeOK /\ f \in Fetch /\ AnswerFits(w, n) /\ now \in Times /\ 0 \in Times
  BY <1>1, <1>2, CInvIs, ConstantsAreNatural DEF FetchFits, TypeOK, Times
<1>4. Answer(w, n).stored \in Times
  <2>1. CASE f.status \in {"ok", "notModified"}
    BY <1>2, <1>3, <2>1 DEF Answer, Result
  <2>2. CASE f.status = "serverError"
    <3>1. f.snap \in CacheItems
      BY <1>2, <1>3, <2>2 DEF AnswerFits, Fetch
    <3>2. QED
      BY <1>2, <2>2, <3>1 DEF Answer, Result, CacheItems
  <2>3. CASE f.status = "error"
    BY <1>2, <1>3, <2>3 DEF Answer, Result, Failed
  <2>4. QED
    BY <1>2, <1>3, <2>1, <2>2, <2>3 DEF AnswerFits
<1>5. Kept(cache') /\ ItemsHonest' /\ ItemsFollow
  BY <1>1, RememberKeeps
<1>6. fetch[w][n].pc # "idle"
  BY <1>1
<1>7. QED
  BY <1>1, <1>4, <1>5, <1>6, DeliveryKeeps

(* The invariant holds initially.                                           *)
LEMMA InitFits == Init => CInv
<1>1. SUFFICES ASSUME Init PROVE CInv
  OBVIOUS
<1>2. 0 \in Times /\ 0 \in 0 .. MaxChanges /\ 0 \in 0 .. MaxVer
  BY ConstantsAreNatural DEF Times
<1>3. 1 \in Versions
  BY ConstantsAreNatural, ConstantsAssumption DEF Versions
<1>4. NoWalk \in Walk
  BY <1>2 DEF NoWalk, Walk
<1>5. Idle \in Fetch /\ Idle.pc = "idle"
  BY <1>2 DEF Idle, Fetch
<1>6. cache = [items |-> <<>>, bytes |-> 0]
  BY <1>1 DEF Init
<1>7. Kept(cache)
  <2>1. cache.items = <<>> /\ cache.bytes = 0 /\ Len(cache.items) = 0
    BY <1>6
  <2>2. Sound(cache)
    BY <1>6, <2>1, BytesOfEmpty DEF Sound, Caches, OnePerKey, NoneTooLarge
  <2>3. QED
    BY <2>1, <2>2, ConstantsAreNatural DEF Kept, Bounded
<1>8. TypeOK
  <2>1. cache \in [items : Seq(CacheItems), bytes : Nat]
    BY <1>7 DEF Kept, Sound, Caches
  <2>2. esi \in [Resources -> [ver : Versions, until : [Versions -> Times]]]
    BY <1>1, <1>2, <1>3 DEF Init
  <2>3. walk \in [Walks -> Walk] /\ fetch \in [Walks -> [PageNumbers -> Fetch]]
    BY <1>1, <1>4, <1>5 DEF Init
  <2>4. QED
    BY <1>1, <1>2, <2>1, <2>2, <2>3 DEF Init, TypeOK
<1>9. EsiFits
  BY <1>1 DEF Init, EsiFits
<1>10. ItemsHonest
  BY <1>6 DEF ItemsHonest
<1>11. FetchFits
  BY <1>1, <1>5 DEF Init, FetchFits
<1>12. WalkFits
  BY <1>1, <1>5 DEF Init, WalkFits, NoWalk, Out
<1>13. CacheBounded
  BY <1>7, <1>8, SoundIs DEF Kept, TypeOK, Caches
<1>14. QED
  BY <1>8, <1>9, <1>10, <1>11, <1>12, <1>13 DEF CInv, CacheInv

(* Every step keeps the invariant.                                          *)
LEMMA StepKeeps == CInv /\ [Next]_vars => CInv'
<1>1. SUFFICES ASSUME CInv, [Next]_vars PROVE CInv'
  OBVIOUS
<1>2. ASSUME NEW w \in Walks, Begin(w) PROVE CInv'
  BY <1>1, <1>2, BeginKeeps
<1>3. ASSUME NEW w \in Walks, NEW n \in PageNumbers, Lookup(w, n) PROVE CInv'
  BY <1>1, <1>3, LookupKeeps
<1>4. ASSUME NEW w \in Walks, NEW n \in PageNumbers, Serve(w, n) PROVE CInv'
  BY <1>1, <1>4, ServeKeeps
<1>5. ASSUME NEW w \in Walks, NEW n \in PageNumbers, FinishGet(w, n) PROVE CInv'
  BY <1>1, <1>5, FinishGetKeeps
<1>6. CASE Change
  BY <1>1, <1>6, ChangeKeeps
<1>7. CASE Tick
  BY <1>1, <1>7, TickKeeps
<1>8. CASE UNCHANGED vars
  <2>1. now' = now /\ changes' = changes /\ esi' = esi /\ cache' = cache /\ walk' = walk
        /\ fetch' = fetch
    BY <1>8 DEF vars
  <2>2. CInv' = CInv
    BY <2>1 DEF CInv, CacheInv, TypeOK, CacheBounded, EsiFits, ItemsHonest, FetchFits, WalkFits,
                Honest, LastCurrent, Current, AskFits, AnswerFits, TouchSafe, KeyOf, About,
                Gathered, Out
  <2>3. QED
    BY <1>1, <2>2
<1>9. QED
  BY <1>1, <1>2, <1>3, <1>4, <1>5, <1>6, <1>7, <1>8 DEF Next

-----------------------------------------------------------------------------
(* Theorems                                                                 *)

(* The inductive invariant: what every step of cachedGet, of the cache and  *)
(* of GetAllPages keeps.                                                    *)
THEOREM CacheInvariant == Spec => []CInv
<1>1. QED
  BY InitFits, StepKeeps, PTL DEF Spec

(* Every variable has its type, the items of the cache among them.          *)
THEOREM TypeCorrect == Spec => []TypeOK
<1>1. CInv => TypeOK
  BY DEF CInv
<1>2. QED
  BY <1>1, CacheInvariant, PTL

(* put, touch, get and evictLocked keep the cache within its entries and    *)
(* its bytes, with one item per key and a sum that is the one of the bodies *)
(* (docs/SPEC.md 5.1).                                                      *)
THEOREM CacheStaysBounded == Spec => []CacheBounded
<1>1. CInv => CacheBounded
  BY DEF CInv
<1>2. QED
  BY <1>1, CacheInvariant, PTL

(* No character is served what another one's token fetched: cachedGet       *)
(* answers with a body of the resource and the character it was asked for.  *)
THEOREM AnswersAreForTheAsker == Spec => []AnswersWhatWasAsked
<1>1. CInv => AnswersWhatWasAsked
  BY AnswersFit DEF AnswersWhatWasAsked
<1>2. QED
  BY <1>1, CacheInvariant, PTL

(* data_age: no answer claims to be more than two flights younger than the  *)
(* last moment ESI had its body.                                            *)
THEOREM AgesAreHonest == Spec => []AgeHonest
<1>1. CInv => AgeHonest
  BY AnswersFit DEF AgeHonest
<1>2. QED
  BY <1>1, CacheInvariant, PTL

(* finishGet answers a 304 with the body the ETag was of, whatever the      *)
(* other fetches did to the item meanwhile.                                 *)
THEOREM ConfirmedBodyIsServed == Spec => []ConfirmedIsServed
<1>1. CInv => ConfirmedIsServed
  BY AnswersFit DEF ConfirmedIsServed
<1>2. QED
  BY <1>1, CacheInvariant, PTL

(* GetAllPages answers with every page up to the cap, once each and with    *)
(* the age of the oldest, or with an error.                                 *)
THEOREM ListsAreWhole == Spec => []WholeOrNothing
<1>1. CInv => WholeOrNothing
  BY DEF CInv, CacheInv, WalkFits, Gathered, WholeOrNothing
<1>2. QED
  BY <1>1, CacheInvariant, PTL
=============================================================================
