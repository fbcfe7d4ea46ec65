----------------------------- MODULE ToolsProofs -----------------------------
(***************************************************************************)
(* Theorems about Tools, for every tool, any roles and any ages.           *)
(***************************************************************************)
EXTENDS Tools, SequenceTheorems, WellFoundedInduction, TLAPS

-----------------------------------------------------------------------------
(* Sequences of steps of whatever kind.                                     *)

IsSeq(p) == \E S : p \in Seq(S)

LEMMA BothSeqs ==
    ASSUME NEW a, NEW b, IsSeq(a), IsSeq(b)
    PROVE  \E S : a \in Seq(S) /\ b \in Seq(S)
<1>1. PICK S : a \in Seq(S)
    BY DEF IsSeq
<1>2. PICK T : b \in Seq(T)
    BY DEF IsSeq
<1>3. a \in Seq(S \cup T) /\ b \in Seq(S \cup T)
    BY <1>1, <1>2, SeqMonotonic
<1>4. QED
    BY <1>3

LEMMA Joined ==
    ASSUME NEW a, NEW b, IsSeq(a), IsSeq(b)
    PROVE  /\ IsSeq(a \o b)
           /\ Len(a) \in Nat /\ Len(b) \in Nat /\ Len(a \o b) = Len(a) + Len(b)
           /\ \A i \in 1 .. Len(a) + Len(b) :
                (a \o b)[i] = IF i <= Len(a) THEN a[i] ELSE b[i - Len(a)]
<1>1. PICK S : a \in Seq(S) /\ b \in Seq(S)
    BY BothSeqs
<1>2. QED
    BY <1>1, ConcatProperties, LenProperties DEF IsSeq

LEMMA Associative ==
    \A a, b, c :
      IsSeq(a) /\ IsSeq(b) /\ IsSeq(c) => (a \o b) \o c = a \o (b \o c)
<1> SUFFICES ASSUME NEW a, NEW b, NEW c, IsSeq(a), IsSeq(b), IsSeq(c)
             PROVE  (a \o b) \o c = a \o (b \o c)
    OBVIOUS
<1>1. PICK S : a \in Seq(S) /\ b \in Seq(S)
    BY BothSeqs
<1>2. PICK T : c \in Seq(T)
    BY DEF IsSeq
<1>3. a \in Seq(S \cup T) /\ b \in Seq(S \cup T) /\ c \in Seq(S \cup T)
    BY <1>1, <1>2, SeqMonotonic
<1>4. QED
    BY <1>3, ConcatAssociative

(* The same of five of them; Cat stays folded.                              *)
Cat(a, b) == a \o b

LEMMA Regrouped ==
    \A v, w, x, y, z :
      IsSeq(v) /\ IsSeq(w) /\ IsSeq(x) /\ IsSeq(y) /\ IsSeq(z) =>
        Cat(Cat(Cat(Cat(v, w), x), y), z) = Cat(v, Cat(w, Cat(Cat(x, y), z)))
<1>1. \A a, b, c :
        IsSeq(a) /\ IsSeq(b) /\ IsSeq(c) => Cat(Cat(a, b), c) = Cat(a, Cat(b, c))
    BY Associative DEF Cat
<1>2. \A a, b : IsSeq(a) /\ IsSeq(b) => IsSeq(Cat(a, b))
    BY Joined DEF Cat
<1>3. QED
    BY <1>1, <1>2

LEMMA Nothing ==
    ASSUME NEW a, IsSeq(a)
    PROVE  /\ a \o <<>> = a /\ <<>> \o a = a /\ IsSeq(<<>>)
           /\ (a = <<>>) <=> (Len(a) = 0)
<1>1. PICK S : a \in Seq(S)
    BY DEF IsSeq
<1>2. QED
    BY <1>1, ConcatEmptySeq, EmptySeq DEF IsSeq

LEMMA OneStep == \A s : IsSeq(<<s>>) /\ Len(<<s>>) = 1 /\ <<s>>[1] = s
<1>1. \A s : <<s>> \in Seq({s})
    OBVIOUS
<1>2. QED
    BY <1>1 DEF IsSeq

(* A step is taken off what comes first.                                    *)
LEMMA TakeFirst ==
    ASSUME NEW a, NEW b, IsSeq(a), IsSeq(b), a # <<>>
    PROVE  /\ Head(a \o b) = Head(a) /\ Tail(a \o b) = Tail(a) \o b
           /\ IsSeq(Tail(a)) /\ a \o b # <<>>
<1>1. PICK S : a \in Seq(S) /\ b \in Seq(S)
    BY BothSeqs
<1>2. Tail(a) \in Seq(S) /\ Len(a) >= 1 /\ Len(a) \in Nat /\ Len(b) \in Nat
      /\ Len(Tail(a)) = Len(a) - 1 /\ \A i \in 1 .. Len(Tail(a)) : Tail(a)[i] = a[i + 1]
    BY <1>1, HeadTailProperties, LenProperties, EmptySeq
<1>3. a \o b \in Seq(S) /\ Len(a \o b) = Len(a) + Len(b)
      /\ \A i \in 1 .. Len(a) + Len(b) :
           (a \o b)[i] = IF i <= Len(a) THEN a[i] ELSE b[i - Len(a)]
    BY <1>1, ConcatProperties
<1>4. a \o b # <<>>
    BY <1>2, <1>3
<1>5. Tail(a \o b) \in Seq(S) /\ Len(Tail(a \o b)) = Len(a \o b) - 1
      /\ \A i \in 1 .. Len(Tail(a \o b)) : Tail(a \o b)[i] = (a \o b)[i + 1]
    BY <1>3, <1>4, HeadTailProperties
<1>6. Tail(a) \o b \in Seq(S) /\ Len(Tail(a) \o b) = Len(Tail(a)) + Len(b)
      /\ \A i \in 1 .. Len(Tail(a)) + Len(b) :
           (Tail(a) \o b)[i] = IF i <= Len(Tail(a)) THEN Tail(a)[i] ELSE b[i - Len(Tail(a))]
    BY <1>1, <1>2, ConcatProperties
<1>7. Len(Tail(a \o b)) = Len(Tail(a) \o b)
    BY <1>2, <1>3, <1>5, <1>6
<1>8. \A i \in 1 .. Len(Tail(a \o b)) : Tail(a \o b)[i] = (Tail(a) \o b)[i]
    BY <1>2, <1>3, <1>5, <1>6
<1>9. Tail(a \o b) = Tail(a) \o b
    BY <1>5, <1>6, <1>7, <1>8, SeqEqual
<1>10. Head(a \o b) = Head(a)
    BY <1>1, <1>2, <1>3
<1>11. QED
    BY <1>2, <1>4, <1>9, <1>10 DEF IsSeq

LEMMA HeadAndRest == \A s, b : IsSeq(b) => Head(<<s>> \o b) = s /\ Tail(<<s>> \o b) = b
<1>1. SUFFICES ASSUME NEW s, NEW b, IsSeq(b)
               PROVE  Head(<<s>> \o b) = s /\ Tail(<<s>> \o b) = b
    OBVIOUS
<1>2. Head(<<s>>) = s /\ Tail(<<s>>) = <<>> /\ <<s>> # <<>>
    OBVIOUS
<1>3. IsSeq(<<s>>)
    BY OneStep
<1>4. Head(<<s>> \o b) = Head(<<s>>) /\ Tail(<<s>> \o b) = Tail(<<s>>) \o b
    BY <1>1, <1>2, <1>3, TakeFirst
<1>5. <<>> \o b = b
    BY <1>1, Nothing
<1>6. QED
    BY <1>2, <1>4, <1>5

(* Several steps are taken off what comes first.                            *)
LEMMA SkipFirst ==
    ASSUME NEW a, NEW b, IsSeq(a), IsSeq(b), NEW k \in 1 .. Len(a)
    PROVE  /\ SubSeq(a \o b, k + 1, Len(a \o b)) = SubSeq(a, k + 1, Len(a)) \o b
           /\ \A S : a \in Seq(S) => SubSeq(a, k + 1, Len(a)) \in Seq(S)
<1>1. PICK S : a \in Seq(S) /\ b \in Seq(S)
    BY BothSeqs
<1>2. Len(a) \in Nat /\ Len(b) \in Nat
    BY <1>1, LenProperties
<1>3. a \o b \in Seq(S) /\ Len(a \o b) = Len(a) + Len(b)
      /\ \A i \in 1 .. Len(a) + Len(b) :
           (a \o b)[i] = IF i <= Len(a) THEN a[i] ELSE b[i - Len(a)]
    BY <1>1, ConcatProperties
<1>4. \A T : a \in Seq(T) => \A i \in k + 1 .. Len(a) : a[i] \in T
    BY <1>2, ElementOfSeq
<1>5. \A T : a \in Seq(T) => SubSeq(a, k + 1, Len(a)) \in Seq(T)
    BY <1>2, <1>4, SubSeqProperties
<1>6. DEFINE x == SubSeq(a, k + 1, Len(a))
             y == SubSeq(a \o b, k + 1, Len(a \o b))
<1>7. /\ x \in Seq(S) /\ Len(x) = Len(a) - k
      /\ \A i \in 1 .. Len(x) : x[i] = a[k + i]
    BY <1>1, <1>2, <1>4, SubSeqProperties
<1>8. \A i \in k + 1 .. Len(a \o b) : (a \o b)[i] \in S
    BY <1>2, <1>3, ElementOfSeq
<1>9. /\ y \in Seq(S) /\ Len(y) = Len(a) + Len(b) - k
      /\ \A i \in 1 .. Len(y) : y[i] = (a \o b)[k + i]
  <2>1. k + 1 \in Int /\ Len(a \o b) \in Int /\ Len(a \o b) = Len(a) + Len(b)
        /\ k \in Nat /\ k <= Len(a)
    BY <1>2, <1>3
  <2>2. y \in Seq(S)
    BY <2>1, <1>8, SubSeqProperties
  <2>3. Len(y) = Len(a \o b) - k
    BY <2>1, <1>2, <1>8, SubSeqProperties
  <2>4. \A i \in 1 .. Len(a \o b) - k : y[i] = (a \o b)[k + i]
    BY <2>1, <1>2, <1>8, SubSeqProperties
  <2> HIDE DEF y
  <2>5. Len(y) = Len(a) + Len(b) - k
    BY <2>1, <2>3
  <2>6. \A i \in 1 .. Len(y) : y[i] = (a \o b)[k + i]
    BY <2>3, <2>4
  <2>7. QED
    BY <2>2, <2>5, <2>6
<1>10. x \o b \in Seq(S) /\ Len(x \o b) = Len(x) + Len(b)
       /\ \A i \in 1 .. Len(x) + Len(b) :
            (x \o b)[i] = IF i <= Len(x) THEN x[i] ELSE b[i - Len(x)]
    BY <1>1, <1>7, ConcatProperties
<1>11. Len(y) = Len(x \o b)
    BY <1>2, <1>7, <1>9, <1>10
<1>12. \A i \in 1 .. Len(y) : y[i] = (x \o b)[i]
    BY <1>2, <1>3, <1>7, <1>9, <1>10
<1>13. y = x \o b
    BY <1>9, <1>10, <1>11, <1>12, SeqEqual
<1>14. QED
    BY <1>5, <1>13

-----------------------------------------------------------------------------
(* What CCP grants in a world: the roles r, NPC or not.                     *)

Grants(x, r, n) ==
    x \in DOMAIN CCPRoles => ~n /\ (r \cup Everyone) \cap CCPRoles[x] # {}

(* A read that tool t may make, and its age is among the ones of F.         *)
MayRead(t, r, n, F, x) ==
    /\ Grants(x, r, n)
    /\ t = "eve_corp_mining" \/ x \in F \cup Undated(t)

Dated(t, F, s) ==
    /\ s.do = "answer"
    /\ \/ t = "eve_corp_mining"
       \/ s.rule = "oldest" /\ s.fused \in {{}, F}

(* The steps without steps in them, none of which can go wrong.             *)
Plain(t, r, n, F, s) ==
    \/ s.do = "gate" /\ s.of \notin {"none", "ok", "esi", "partial", "role", "npc"}
    \/ s.do = "scope" /\ s.of \in RequestedScopes
    \/ s.do = "npc" /\ ~n
    \/ s.do = "role" /\ HasRole(r, s.any)
    \/ s.do = "read" /\ s.fatal \in BOOLEAN /\ MayRead(t, r, n, F, s.of)
    \/ t # "eve_corp_overview" /\ Dated(t, F, s)
    \/ s.do = "ifnpc" /\ ~n
    \/ s.do = "end"

(* A set of steps that leads to none outside of it.                         *)
Closed(t, r, n, F, S) ==
    \A s \in S :
      \/ Plain(t, r, n, F, s)
      \/ s.do = "either" /\ s.paths \subseteq Seq(S)
      \/ s.do = "section" /\ s.body \in Seq(S)
      \/ s.do = "if" /\ (HasRole(r, s.any) => s.then \in Seq(S))

Good(t, r, n, F, p) == \E S : Closed(t, r, n, F, S) /\ p \in Seq(S)

LEMMA ClosedJoin ==
    ASSUME NEW t, NEW r, NEW n, NEW F, NEW X, \A S \in X : Closed(t, r, n, F, S)
    PROVE  Closed(t, r, n, F, UNION X)
<1>1. SUFFICES ASSUME NEW S \in X, NEW s \in S
               PROVE  \/ Plain(t, r, n, F, s)
                      \/ s.do = "either" /\ s.paths \subseteq Seq(UNION X)
                      \/ s.do = "section" /\ s.body \in Seq(UNION X)
                      \/ s.do = "if" /\ (HasRole(r, s.any) => s.then \in Seq(UNION X))
    BY DEF Closed
<1>2. \/ Plain(t, r, n, F, s)
      \/ s.do = "either" /\ s.paths \subseteq Seq(S)
      \/ s.do = "section" /\ s.body \in Seq(S)
      \/ s.do = "if" /\ (HasRole(r, s.any) => s.then \in Seq(S))
    BY <1>1 DEF Closed
<1>3. S \subseteq UNION X
    BY <1>1
<1>4. \A q : q \in Seq(S) => q \in Seq(UNION X)
    BY <1>3, SeqMonotonic
<1>5. QED
    BY <1>2, <1>4

LEMMA ClosedPlus ==
    ASSUME NEW t, NEW r, NEW n, NEW F, NEW S, Closed(t, r, n, F, S), NEW s,
           \/ Plain(t, r, n, F, s)
           \/ s.do = "either" /\ s.paths \subseteq Seq(S)
           \/ s.do = "section" /\ s.body \in Seq(S)
           \/ s.do = "if" /\ (HasRole(r, s.any) => s.then \in Seq(S))
    PROVE  Good(t, r, n, F, <<s>>)
<1>1. DEFINE T == S \cup {s}
<1>2. S \subseteq T /\ s \in T
    OBVIOUS
<1>3. \A q : q \in Seq(S) => q \in Seq(T)
    BY <1>2, SeqMonotonic
<1>4. ASSUME NEW u \in T
      PROVE  \/ Plain(t, r, n, F, u)
             \/ u.do = "either" /\ u.paths \subseteq Seq(T)
             \/ u.do = "section" /\ u.body \in Seq(T)
             \/ u.do = "if" /\ (HasRole(r, u.any) => u.then \in Seq(T))
  <2>1. CASE u \in S
    <3>1. \/ Plain(t, r, n, F, u)
          \/ u.do = "either" /\ u.paths \subseteq Seq(S)
          \/ u.do = "section" /\ u.body \in Seq(S)
          \/ u.do = "if" /\ (HasRole(r, u.any) => u.then \in Seq(S))
      BY <2>1 DEF Closed
    <3>2. QED
      BY <3>1, <1>3
  <2>2. CASE u = s
    BY <2>2, <1>3
  <2>3. QED
    BY <1>4, <2>1, <2>2
<1>5. Closed(t, r, n, F, T)
    BY <1>4 DEF Closed
<1>6. <<s>> \in Seq(T)
    OBVIOUS
<1>7. QED
    BY <1>5, <1>6 DEF Good

LEMMA GoodPlain ==
    \A t, r, n, F, s : Plain(t, r, n, F, s) => Good(t, r, n, F, <<s>>)
<1>1. SUFFICES ASSUME NEW t, NEW r, NEW n, NEW F, NEW s, Plain(t, r, n, F, s)
               PROVE  Good(t, r, n, F, <<s>>)
    OBVIOUS
<1>2. Closed(t, r, n, F, {})
    BY DEF Closed
<1>3. QED
    BY <1>1, <1>2, ClosedPlus

LEMMA GoodJoin ==
    \A t, r, n, F, p, q :
      Good(t, r, n, F, p) /\ Good(t, r, n, F, q) => Good(t, r, n, F, p \o q)
<1>1. SUFFICES ASSUME NEW t, NEW r, NEW n, NEW F, NEW p, NEW q,
                      Good(t, r, n, F, p), Good(t, r, n, F, q)
               PROVE  Good(t, r, n, F, p \o q)
    OBVIOUS
<1>2. PICK S : Closed(t, r, n, F, S) /\ p \in Seq(S)
    BY <1>1 DEF Good
<1>3. PICK T : Closed(t, r, n, F, T) /\ q \in Seq(T)
    BY <1>1 DEF Good
<1>4. Closed(t, r, n, F, UNION {S, T})
    BY <1>2, <1>3, ClosedJoin
<1>5. S \subseteq UNION {S, T} /\ T \subseteq UNION {S, T}
    OBVIOUS
<1>6. p \in Seq(UNION {S, T}) /\ q \in Seq(UNION {S, T})
    BY <1>2, <1>3, <1>5, SeqMonotonic
<1>7. p \o q \in Seq(UNION {S, T})
    BY <1>6, ConcatProperties
<1>8. QED
    BY <1>4, <1>7 DEF Good

LEMMA GoodEmpty == \A t, r, n, F : Good(t, r, n, F, <<>>)
<1>1. \A t, r, n, F : Closed(t, r, n, F, {})
    BY DEF Closed
<1>2. <<>> \in Seq({})
    OBVIOUS
<1>3. QED
    BY <1>1, <1>2 DEF Good

LEMMA GoodEither ==
    \A t, r, n, F, P :
      (\A p \in P : Good(t, r, n, F, p)) => Good(t, r, n, F, Either(P))
<1>1. SUFFICES ASSUME NEW t, NEW r, NEW n, NEW F, NEW P,
                      \A p \in P : Good(t, r, n, F, p)
               PROVE  Good(t, r, n, F, Either(P))
    OBVIOUS
<1>2. DEFINE Of(p) == CHOOSE S : Closed(t, r, n, F, S) /\ p \in Seq(S)
             X == {Of(p) : p \in P}
<1>3. ASSUME NEW p \in P
      PROVE  Closed(t, r, n, F, Of(p)) /\ p \in Seq(Of(p))
  <2>1. \E S : Closed(t, r, n, F, S) /\ p \in Seq(S)
    BY <1>1, <1>3 DEF Good
  <2>2. QED
    BY <2>1
<1>4. Closed(t, r, n, F, UNION X)
  <2>1. \A S \in X : Closed(t, r, n, F, S)
    BY <1>3
  <2>2. QED
    BY <2>1, ClosedJoin
<1>5. P \subseteq Seq(UNION X)
  <2>1. SUFFICES ASSUME NEW p \in P
                 PROVE  p \in Seq(UNION X)
    OBVIOUS
  <2>2. Of(p) \subseteq UNION X
    BY <2>1
  <2>3. p \in Seq(Of(p))
    BY <2>1, <1>3
  <2>4. QED
    BY <2>2, <2>3, SeqMonotonic
<1>6. DEFINE s == [do |-> "either", paths |-> P]
<1>7. s.do = "either" /\ s.paths = P
    OBVIOUS
<1>8. Good(t, r, n, F, <<s>>)
  <2>1. HIDE DEF s, X
  <2>2. QED
    BY <1>4, <1>5, <1>7, ClosedPlus
<1>9. QED
    BY <1>8 DEF Either

LEMMA GoodSection ==
    \A t, r, n, F, x, p : Good(t, r, n, F, p) => Good(t, r, n, F, Section(x, p))
<1>1. SUFFICES ASSUME NEW t, NEW r, NEW n, NEW F, NEW x, NEW p, Good(t, r, n, F, p)
               PROVE  Good(t, r, n, F, Section(x, p))
    OBVIOUS
<1>2. PICK S : Closed(t, r, n, F, S) /\ p \in Seq(S)
    BY <1>1 DEF Good
<1>3. DEFINE s == [do |-> "section", of |-> x, body |-> p]
<1>4. s.do = "section" /\ s.body = p
    OBVIOUS
<1>5. Good(t, r, n, F, <<s>>)
  <2>1. HIDE DEF s
  <2>2. QED
    BY <1>2, <1>4, ClosedPlus
<1>6. QED
    BY <1>5 DEF Section

LEMMA GoodIf ==
    \A t, r, n, F, c, any, p :
      (HasRole(r, any) => Good(t, r, n, F, p)) =>
        Good(t, r, n, F, <<[do |-> "if", scope |-> c, any |-> any, then |-> p]>>)
<1>1. SUFFICES ASSUME NEW t, NEW r, NEW n, NEW F, NEW c, NEW any, NEW p,
                      HasRole(r, any) => Good(t, r, n, F, p)
               PROVE  Good(t, r, n, F, <<[do |-> "if", scope |-> c, any |-> any, then |-> p]>>)
    OBVIOUS
<1>2. PICK S : Closed(t, r, n, F, S) /\ (HasRole(r, any) => p \in Seq(S))
  <2>1. Closed(t, r, n, F, {})
    BY DEF Closed
  <2>2. QED
    BY <1>1, <2>1 DEF Good
<1>3. DEFINE s == [do |-> "if", scope |-> c, any |-> any, then |-> p]
<1>4. s.do = "if" /\ s.any = any /\ s.then = p
    OBVIOUS
<1>5. HIDE DEF s
<1>6. Good(t, r, n, F, <<s>>)
    BY <1>2, <1>4, ClosedPlus
<1>7. QED
    BY <1>6 DEF s

-----------------------------------------------------------------------------
(* What is left of a call that may write: each mutation is followed by its  *)
(* record and its check, and they by another mutation or the answer.        *)

Link(r, n, p, i) ==
    \/ /\ p[i].do = "write" /\ Grants(p[i].of, r, n)
       /\ i < Len(p) /\ p[i + 1].do = "record"
    \/ p[i].do = "record" /\ i < Len(p) /\ p[i + 1].do = "check"
    \/ p[i].do = "check" /\ i < Len(p) /\ p[i + 1].do \in {"write", "answer"}
    \/ p[i].do = "answer" /\ p[i].rule = "oldest" /\ p[i].fused = {}

Chain(r, n, p) == IsSeq(p) /\ p # <<>> /\ \A i \in 1 .. Len(p) : Link(r, n, p, i)
Fresh(r, n, p) == Chain(r, n, p) /\ p[1].do \in {"write", "answer"}

After(r, n, p) ==
    \/ Fresh(r, n, p)
    \/ /\ IsSeq(p) /\ p # <<>> /\ Head(p).do = "either"
       /\ \A x \in Head(p).paths : Fresh(r, n, x \o Tail(p))

-----------------------------------------------------------------------------
(* What is left of a call: good steps, and then one that ends the call or   *)
(* turns it.                                                                *)

NoEnd(p) == \A i \in 1 .. Len(p) : p[i].do # "end"

(* A gate that refuses in this world, or the short answer of an NPC one.    *)
Stops(t, r, n, s) ==
    \/ /\ t \in DOMAIN About
       /\ \/ s.do = "npc" /\ n
          \/ /\ s.do = "role" /\ ~HasRole(r, s.any)
             /\ \A x \in About[t] : ~Grants(x, r, n)
    \/ /\ t = "eve_corp_overview" /\ n /\ s.do = "ifnpc"
       /\ s.then = ListTools \o Answer({})

Turns(t, r, n, F, q) ==
    \/ t # "eve_corp_overview" /\ Dated(t, F, Head(q))
    \/ /\ t = "eve_corp_overview" /\ Head(q).do = "list"
       /\ Tail(q) # <<>> /\ Dated(t, F, Head(Tail(q)))
    \/ Stops(t, r, n, Head(q))
    \/ t # "eve_corp_overview" /\ Head(q).do = "authorize" /\ After(r, n, Tail(q))

(* T: what the paths of a last step may leave, with the ages they fuse.     *)
ShapeIn(t, r, n, F, T, p) ==
    \E a, q :
      /\ p = a \o q /\ Good(t, r, n, F, a) /\ IsSeq(q) /\ q # <<>>
      /\ a = <<>> \/ NoEnd(q)
      /\ \/ Turns(t, r, n, F, q)
         \/ /\ Head(q).do = "either"
            /\ \A x \in Head(q).paths : \E G : F \subseteq G /\ <<G, x \o Tail(q)>> \in T

Shapes(t, r, n, T) == \A G, x : <<G, x>> \in T => ShapeIn(t, r, n, G, T, x)

Shape(t, r, n, F, p) == \E T : Shapes(t, r, n, T) /\ ShapeIn(t, r, n, F, T, p)

LEMMA GoodIsSeq == \A t, r, n, F, p : Good(t, r, n, F, p) => IsSeq(p)
    BY DEF Good, IsSeq

(* The steps a call with this shape can take next.                          *)
Onward(t, r, n, F, p) ==
    \/ /\ Plain(t, r, n, F, Head(p)) /\ Shape(t, r, n, F, Tail(p))
       /\ \A k \in 1 .. Len(p) :
            p[k].do = "end" => Shape(t, r, n, F, SubSeq(p, k + 1, Len(p)))
    \/ /\ Head(p).do = "either"
       /\ \A x \in Head(p).paths : \E G : F \subseteq G /\ Shape(t, r, n, G, x \o Tail(p))
    \/ /\ Head(p).do = "section"
       /\ \A e : e.do = "end" => Shape(t, r, n, F, (Head(p).body \o <<e>>) \o Tail(p))
    \/ /\ Head(p).do = "if" /\ Shape(t, r, n, F, Tail(p))
       /\ HasRole(r, Head(p).any) => Shape(t, r, n, F, Head(p).then \o Tail(p))
    \/ Turns(t, r, n, F, p)

LEMMA Unfold ==
    ASSUME NEW t, NEW r, NEW n, NEW F, NEW p, Shape(t, r, n, F, p)
    PROVE  p # <<>> /\ IsSeq(p) /\ Onward(t, r, n, F, p)
<1>1. PICK T : Shapes(t, r, n, T) /\ ShapeIn(t, r, n, F, T, p)
    BY DEF Shape
<1>2. PICK a, q :
        /\ p = a \o q /\ Good(t, r, n, F, a) /\ IsSeq(q) /\ q # <<>>
        /\ a = <<>> \/ NoEnd(q)
        /\ \/ Turns(t, r, n, F, q)
           \/ /\ Head(q).do = "either"
              /\ \A x \in Head(q).paths : \E G : F \subseteq G /\ <<G, x \o Tail(q)>> \in T
    BY <1>1 DEF ShapeIn
<1>3. IsSeq(a)
    BY <1>2, GoodIsSeq
<1>4. IsSeq(p)
    BY <1>2, <1>3, Joined
<1>5. CASE a = <<>>
  <2>1. p = q
    BY <1>2, <1>5, Nothing
  <2>2. ASSUME Head(q).do = "either",
               \A x \in Head(q).paths : \E G : F \subseteq G /\ <<G, x \o Tail(q)>> \in T
        PROVE  Onward(t, r, n, F, p)
    <3>1. \A G, x : <<G, x>> \in T => Shape(t, r, n, G, x)
      BY <1>1 DEF Shape, Shapes
    <3>2. QED
      BY <2>1, <2>2, <3>1 DEF Onward
  <2>3. Turns(t, r, n, F, q) => Onward(t, r, n, F, p)
    BY <2>1 DEF Onward
  <2>4. QED
    BY <1>2, <1>4, <2>1, <2>2, <2>3
<1>6. CASE a # <<>>
  <2>1. Head(p) = Head(a) /\ Tail(p) = Tail(a) \o q /\ p # <<>>
    BY <1>2, <1>3, <1>6, TakeFirst
  <2>2. PICK S : Closed(t, r, n, F, S) /\ a \in Seq(S)
    BY <1>2 DEF Good
  <2>3. Head(a) \in S /\ Tail(a) \in Seq(S)
    BY <2>2, <1>6, HeadTailProperties
  <2>4. ASSUME NEW b, Good(t, r, n, F, b)
        PROVE  Shape(t, r, n, F, b \o q)
    <3>1. ShapeIn(t, r, n, F, T, b \o q)
      BY <1>2, <1>6, <2>4 DEF ShapeIn
    <3>2. QED
      BY <1>1, <3>1 DEF Shape
  <2>5. ASSUME NEW b, b \in Seq(S)
        PROVE  Shape(t, r, n, F, b \o q)
    BY <2>2, <2>4, <2>5 DEF Good
  <2>6. ASSUME NEW b, Good(t, r, n, F, b)
        PROVE  Shape(t, r, n, F, b \o Tail(p))
    <3>1. Good(t, r, n, F, Tail(a))
      BY <2>2, <2>3 DEF Good
    <3>2. Good(t, r, n, F, b \o Tail(a))
      BY <2>6, <3>1, GoodJoin
    <3>3. (b \o Tail(a)) \o q = b \o Tail(p)
      <4>1. IsSeq(b) /\ IsSeq(Tail(a)) /\ IsSeq(q)
        BY <2>6, <3>1, <1>2, GoodIsSeq
      <4>2. (b \o Tail(a)) \o q = b \o (Tail(a) \o q)
        <5>1. \A z : IsSeq(z) => (b \o z) \o q = b \o (z \o q)
          BY <4>1, Associative
        <5>2. QED
          BY <4>1, <5>1
      <4>3. QED
        BY <4>2, <2>1
    <3>4. QED
      BY <3>2, <3>3, <2>4
  <2>7. \A b \in Seq(S) : Good(t, r, n, F, b)
    BY <2>2 DEF Good
  <2>8. Shape(t, r, n, F, Tail(p))
    BY <2>1, <2>3, <2>5
  <2>9. ASSUME NEW k \in 1 .. Len(p), p[k].do = "end"
        PROVE  Shape(t, r, n, F, SubSeq(p, k + 1, Len(p)))
    <3>1. k \in 1 .. Len(a)
      <4>1. Len(a) \in Nat /\ Len(q) \in Nat /\ Len(p) = Len(a) + Len(q)
            /\ \A i \in 1 .. Len(a) + Len(q) : p[i] = IF i <= Len(a) THEN a[i] ELSE q[i - Len(a)]
        BY <1>2, <1>3, Joined
      <4>2. \A i \in 1 .. Len(q) : q[i].do # "end"
        BY <1>2, <1>6 DEF NoEnd
      <4>3. SUFFICES ASSUME ~(k <= Len(a)) PROVE FALSE
        BY <4>1
      <4>4. k - Len(a) \in 1 .. Len(q) /\ p[k] = q[k - Len(a)]
        BY <4>1, <4>3
      <4>5. QED
        BY <4>2, <4>4, <2>9
    <3>2. SubSeq(p, k + 1, Len(p)) = SubSeq(a, k + 1, Len(a)) \o q
          /\ SubSeq(a, k + 1, Len(a)) \in Seq(S)
      BY <1>2, <1>3, <2>2, <3>1, SkipFirst
    <3>3. QED
      BY <3>2, <2>5
  <2>10. CASE Plain(t, r, n, F, Head(a))
    BY <1>4, <2>1, <2>8, <2>9, <2>10 DEF Onward
  <2>11. CASE Head(a).do = "either" /\ Head(a).paths \subseteq Seq(S)
    <3>1. \A x \in Head(p).paths : Shape(t, r, n, F, x \o Tail(p))
      BY <2>1, <2>6, <2>7, <2>11
    <3>2. \A x \in Head(p).paths : \E G : F \subseteq G /\ Shape(t, r, n, G, x \o Tail(p))
      BY <3>1
    <3>3. QED
      BY <1>4, <2>1, <2>11, <3>2 DEF Onward
  <2>12. CASE Head(a).do = "section" /\ Head(a).body \in Seq(S)
    <3>1. ASSUME NEW e, e.do = "end"
          PROVE  Shape(t, r, n, F, (Head(p).body \o <<e>>) \o Tail(p))
      <4>1. Good(t, r, n, F, <<e>>)
        BY <3>1, GoodPlain DEF Plain
      <4>2. Good(t, r, n, F, Head(p).body \o <<e>>)
        BY <4>1, <2>1, <2>7, <2>12, GoodJoin
      <4>3. QED
        BY <4>2, <2>6
    <3>2. QED
      BY <1>4, <2>1, <2>12, <3>1 DEF Onward
  <2>13. CASE Head(a).do = "if" /\ (HasRole(r, Head(a).any) => Head(a).then \in Seq(S))
    <3>1. HasRole(r, Head(p).any) => Shape(t, r, n, F, Head(p).then \o Tail(p))
      BY <2>1, <2>6, <2>7, <2>13
    <3>2. QED
      BY <1>4, <2>1, <2>8, <2>13, <3>1 DEF Onward
  <2>14. QED
    BY <1>4, <2>1, <2>2, <2>3, <2>10, <2>11, <2>12, <2>13 DEF Closed
<1>7. QED
    BY <1>5, <1>6

-----------------------------------------------------------------------------
(* How the shape of a handler follows from its parts.                       *)

Static(p) == IsSeq(p) /\ NoEnd(p)
Part(t, r, n, F, p) == Good(t, r, n, F, p) /\ NoEnd(p)
Whole(t, r, n, F, p) == Shape(t, r, n, F, p) /\ Static(p)

LEMMA StaticJoin == \A p, q : Static(p) /\ Static(q) => Static(p \o q)
<1>1. SUFFICES ASSUME NEW p, NEW q, Static(p), Static(q)
               PROVE  Static(p \o q)
    OBVIOUS
<1>2. IsSeq(p) /\ IsSeq(q)
    BY <1>1 DEF Static
<1>3. /\ IsSeq(p \o q)
      /\ Len(p) \in Nat /\ Len(q) \in Nat /\ Len(p \o q) = Len(p) + Len(q)
      /\ \A i \in 1 .. Len(p) + Len(q) :
           (p \o q)[i] = IF i <= Len(p) THEN p[i] ELSE q[i - Len(p)]
    BY <1>2, Joined
<1>4. ASSUME NEW i \in 1 .. Len(p \o q)
      PROVE  (p \o q)[i].do # "end"
  <2>1. CASE i <= Len(p)
    BY <1>1, <1>3, <2>1 DEF Static, NoEnd
  <2>2. CASE ~(i <= Len(p))
    <3>1. i - Len(p) \in 1 .. Len(q)
      BY <1>3, <2>2
    <3>2. QED
      BY <1>1, <1>3, <2>2, <3>1 DEF Static, NoEnd
  <2>3. QED
    BY <2>1, <2>2
<1>5. QED
    BY <1>3, <1>4 DEF Static, NoEnd

LEMMA StaticEmpty == Static(<<>>)
<1>1. IsSeq(<<>>)
  <2>1. <<>> \in Seq({})
    OBVIOUS
  <2>2. QED
    BY <2>1 DEF IsSeq
<1>2. QED
    BY <1>1 DEF Static, NoEnd

LEMMA StaticStep == \A s : s.do # "end" => Static(<<s>>)
    BY OneStep DEF Static, NoEnd

LEMMA PartStatic == \A t, r, n, F, p : Part(t, r, n, F, p) => Static(p)
    BY GoodIsSeq DEF Part, Static

LEMMA PartJoin ==
    \A t, r, n, F, p, q :
      Part(t, r, n, F, p) /\ Part(t, r, n, F, q) => Part(t, r, n, F, p \o q)
<1>1. SUFFICES ASSUME NEW t, NEW r, NEW n, NEW F, NEW p, NEW q,
                      Part(t, r, n, F, p), Part(t, r, n, F, q)
               PROVE  Part(t, r, n, F, p \o q)
    OBVIOUS
<1>2. Static(p \o q)
    BY <1>1, PartStatic, StaticJoin
<1>3. Good(t, r, n, F, p \o q)
    BY <1>1, GoodJoin DEF Part
<1>4. QED
    BY <1>2, <1>3 DEF Part, Static

LEMMA PartWhole ==
    \A t, r, n, F, p, q :
      Part(t, r, n, F, p) /\ Whole(t, r, n, F, q) => Whole(t, r, n, F, p \o q)
<1>1. SUFFICES ASSUME NEW t, NEW r, NEW n, NEW F, NEW p, NEW q,
                      Part(t, r, n, F, p), Whole(t, r, n, F, q)
               PROVE  Whole(t, r, n, F, p \o q)
    OBVIOUS
<1>2. Static(p \o q)
    BY <1>1, PartStatic, StaticJoin DEF Whole
<1>3. PICK T : Shapes(t, r, n, T) /\ ShapeIn(t, r, n, F, T, q)
    BY <1>1 DEF Whole, Shape
<1>4. PICK a, x :
        /\ q = a \o x /\ Good(t, r, n, F, a) /\ IsSeq(x) /\ x # <<>>
        /\ a = <<>> \/ NoEnd(x)
        /\ \/ Turns(t, r, n, F, x)
           \/ /\ Head(x).do = "either"
              /\ \A y \in Head(x).paths : \E G : F \subseteq G /\ <<G, y \o Tail(x)>> \in T
    BY <1>3 DEF ShapeIn
<1>5. IsSeq(p) /\ IsSeq(a)
    BY <1>1, <1>4, GoodIsSeq DEF Part
<1>6. (p \o a) \o x = p \o q
    BY <1>4, <1>5, Associative
<1>7. Good(t, r, n, F, p \o a)
    BY <1>1, <1>4, GoodJoin DEF Part
<1>8. NoEnd(x)
  <2>1. CASE a = <<>>
    <3>1. q = x
      BY <1>4, <2>1, Nothing
    <3>2. QED
      BY <1>1, <3>1 DEF Whole, Static
  <2>2. QED
    BY <1>4, <2>1
<1>9. ShapeIn(t, r, n, F, T, p \o q)
  <2>1. p \o q = (p \o a) \o x
    BY <1>6
  <2>2. QED
    BY <2>1, <1>4, <1>7, <1>8 DEF ShapeIn
<1>10. QED
    BY <1>2, <1>3, <1>9 DEF Whole, Shape

(* A last step that turns the call.                                         *)
LEMMA TurnShape ==
    \A t, r, n, F, q :
      IsSeq(q) /\ q # <<>> /\ Turns(t, r, n, F, q) => Shape(t, r, n, F, q)
<1>1. SUFFICES ASSUME NEW t, NEW r, NEW n, NEW F, NEW q,
                      IsSeq(q), q # <<>>, Turns(t, r, n, F, q)
               PROVE  Shape(t, r, n, F, q)
    OBVIOUS
<1>2. <<>> \o q = q
    BY <1>1, Nothing
<1>3. ShapeIn(t, r, n, F, {}, <<>> \o q)
    BY <1>1, GoodEmpty DEF ShapeIn
<1>4. Shapes(t, r, n, {})
    BY DEF Shapes
<1>5. QED
    BY <1>2, <1>3, <1>4 DEF Shape

LEMMA WholeAnswer ==
    \A t, r, n, F, f :
      t # "eve_corp_overview" /\ f \in {{}, F} => Whole(t, r, n, F, Answer(f))
<1>1. SUFFICES ASSUME NEW t, NEW r, NEW n, NEW F, NEW f,
                      t # "eve_corp_overview", f \in {{}, F}
               PROVE  Whole(t, r, n, F, Answer(f))
    OBVIOUS
<1>2. DEFINE s == [do |-> "answer", fused |-> f, rule |-> "oldest"]
<1>3. s.do = "answer" /\ s.fused = f /\ s.rule = "oldest"
    OBVIOUS
<1>4. Head(<<s>>) = s /\ <<s>> # <<>>
    OBVIOUS
<1>5. IsSeq(<<s>>)
    BY OneStep
<1>6. HIDE DEF s
<1>7. Turns(t, r, n, F, <<s>>)
    BY <1>1, <1>3, <1>4 DEF Turns, Dated
<1>8. Static(<<s>>)
    BY <1>3, StaticStep
<1>9. Whole(t, r, n, F, <<s>>)
    BY <1>4, <1>5, <1>7, <1>8, TurnShape DEF Whole
<1>10. QED
    BY <1>9 DEF Answer, s

(* A step with several paths, each with ages of its own.                    *)
LEMMA WholeBranch ==
    \A t, r, n, F, P, b :
      /\ Static(b)
      /\ \A x \in P : \E G : F \subseteq G /\ Whole(t, r, n, G, x \o b)
      => Whole(t, r, n, F, Either(P) \o b)
<1>1. SUFFICES ASSUME NEW t, NEW r, NEW n, NEW F, NEW P, NEW b, Static(b),
                      \A x \in P : \E G : F \subseteq G /\ Whole(t, r, n, G, x \o b)
               PROVE  Whole(t, r, n, F, Either(P) \o b)
    OBVIOUS
<1>2. DEFINE s == [do |-> "either", paths |-> P]
             Fits(e, x, T) == /\ F \subseteq e /\ Shapes(t, r, n, T)
                              /\ ShapeIn(t, r, n, e, T, x \o b)
             GOf(x) == CHOOSE G : \E T : Fits(G, x, T)
             TOf(x) == CHOOSE T : Fits(GOf(x), x, T)
             W == {TOf(x) : x \in P}
             Z == {<<GOf(x), x \o b>> : x \in P}
             All == (UNION W) \cup Z
<1>3. ASSUME NEW x \in P
      PROVE  Fits(GOf(x), x, TOf(x))
  <2>1. PICK G : F \subseteq G /\ Whole(t, r, n, G, x \o b)
    BY <1>1, <1>3
  <2>2. PICK T : Fits(G, x, T)
    BY <2>1 DEF Whole, Shape
  <2>3. \E H : \E U : Fits(H, x, U)
    BY <2>2
  <2>4. \E U : Fits(GOf(x), x, U)
    BY <2>3
  <2>5. QED
    BY <2>4
<1>4. ASSUME NEW G, NEW x, NEW T, NEW U, T \subseteq U, ShapeIn(t, r, n, G, T, x)
      PROVE  ShapeIn(t, r, n, G, U, x)
    BY <1>4 DEF ShapeIn
<1>5. HIDE DEF Fits, GOf, TOf
<1>6. \A x \in P : TOf(x) \subseteq All /\ <<GOf(x), x \o b>> \in All
  <2>1. \A x \in P : TOf(x) \in W
    OBVIOUS
  <2>2. \A x \in P : <<GOf(x), x \o b>> \in Z
    OBVIOUS
  <2>3. HIDE DEF W, Z
  <2>4. QED
    BY <2>1, <2>2
<1>7. Shapes(t, r, n, All)
  <2>1. SUFFICES ASSUME NEW G, NEW x, <<G, x>> \in All
                 PROVE  ShapeIn(t, r, n, G, All, x)
    BY DEF Shapes
  <2>2. CASE \E y \in P : <<G, x>> \in TOf(y)
    <3>1. PICK y \in P : <<G, x>> \in TOf(y)
      BY <2>2
    <3>2. ShapeIn(t, r, n, G, TOf(y), x)
      BY <3>1, <1>3 DEF Shapes, Fits
    <3>3. TOf(y) \subseteq All
      BY <3>1, <1>6
    <3>4. QED
      BY <3>2, <3>3, <1>4
  <2>3. CASE \E y \in P : <<G, x>> = <<GOf(y), y \o b>>
    <3>1. PICK y \in P : <<G, x>> = <<GOf(y), y \o b>>
      BY <2>3
    <3>2. G = GOf(y) /\ x = y \o b
      BY <3>1
    <3>3. ShapeIn(t, r, n, GOf(y), TOf(y), y \o b)
      BY <3>1, <1>3 DEF Fits
    <3>4. TOf(y) \subseteq All
      BY <3>1, <1>6
    <3>5. ShapeIn(t, r, n, GOf(y), All, y \o b)
      BY <3>3, <3>4, <1>4
    <3>6. QED
      BY <3>2, <3>5
  <2>4. (\E y \in P : <<G, x>> \in TOf(y)) \/ <<G, x>> \in Z
    <3>1. \A w \in W : \E y \in P : w = TOf(y)
      OBVIOUS
    <3>2. HIDE DEF W, Z
    <3>3. QED
      BY <2>1, <3>1
  <2>5. <<G, x>> \in Z => \E y \in P : <<G, x>> = <<GOf(y), y \o b>>
    OBVIOUS
  <2>6. QED
    BY <2>2, <2>3, <2>4, <2>5
<1>8. s.do = "either" /\ s.paths = P
    OBVIOUS
<1>9. <<s>> # <<>>
    OBVIOUS
<1>10. \A x \in P : \E G : F \subseteq G /\ <<G, x \o b>> \in All
  <2>1. SUFFICES ASSUME NEW x \in P
                 PROVE  \E G : F \subseteq G /\ <<G, x \o b>> \in All
    OBVIOUS
  <2>2. F \subseteq GOf(x) /\ <<GOf(x), x \o b>> \in All
    BY <2>1, <1>3, <1>6 DEF Fits
  <2>3. QED
    BY <2>2
<1>11. HIDE DEF s, All
<1>12. IsSeq(b) /\ IsSeq(<<s>>) /\ Static(<<s>>)
    BY <1>1, <1>8, OneStep, StaticStep DEF Static
<1>13. DEFINE q == <<s>> \o b
<1>14. /\ IsSeq(q) /\ q # <<>> /\ Static(q)
       /\ Head(q) = s /\ Tail(q) = b
    BY <1>1, <1>9, <1>12, HeadAndRest, StaticJoin, TakeFirst, Joined
<1>15. HIDE DEF q
<1>16. <<>> \o q = q
    BY <1>14, Nothing
<1>17. ShapeIn(t, r, n, F, All, <<>> \o q)
    BY <1>8, <1>10, <1>14, GoodEmpty DEF ShapeIn
<1>18. Whole(t, r, n, F, q)
    BY <1>7, <1>14, <1>16, <1>17 DEF Whole, Shape
<1>19. QED
    BY <1>18 DEF Either, s, q

LEMMA WholeEither ==
    \A t, r, n, F, P :
      (\A x \in P : \E G : F \subseteq G /\ Whole(t, r, n, G, x))
        => Whole(t, r, n, F, Either(P))
<1>1. SUFFICES ASSUME NEW t, NEW r, NEW n, NEW F, NEW P,
                      \A x \in P : \E G : F \subseteq G /\ Whole(t, r, n, G, x)
               PROVE  Whole(t, r, n, F, Either(P))
    OBVIOUS
<1>2. \A x \in P : x \o <<>> = x
    BY <1>1, Nothing DEF Whole, Static
<1>3. Whole(t, r, n, F, Either(P) \o <<>>)
    BY <1>1, <1>2, StaticEmpty, WholeBranch
<1>4. IsSeq(Either(P))
    BY OneStep DEF Either
<1>5. QED
    BY <1>3, <1>4, Nothing

(* An answer ends the call, whatever is written after it.                   *)
LEMMA WholeEarly ==
    \A t, r, n, F, f, b :
      t # "eve_corp_overview" /\ f \in {{}, F} /\ Static(b)
        => Whole(t, r, n, F, Answer(f) \o b)
<1>1. SUFFICES ASSUME NEW t, NEW r, NEW n, NEW F, NEW f, NEW b,
                      t # "eve_corp_overview", f \in {{}, F}, Static(b)
               PROVE  Whole(t, r, n, F, Answer(f) \o b)
    OBVIOUS
<1>2. DEFINE s == [do |-> "answer", fused |-> f, rule |-> "oldest"]
<1>3. s.do = "answer" /\ s.fused = f /\ s.rule = "oldest"
    OBVIOUS
<1>4. <<s>> # <<>>
    OBVIOUS
<1>5. HIDE DEF s
<1>6. IsSeq(b) /\ IsSeq(<<s>>) /\ Static(<<s>>)
    BY <1>1, <1>3, OneStep, StaticStep DEF Static
<1>7. Head(<<s>> \o b) = s
    BY <1>6, HeadAndRest
<1>8. IsSeq(<<s>> \o b) /\ <<s>> \o b # <<>> /\ Static(<<s>> \o b)
    BY <1>1, <1>4, <1>6, StaticJoin, TakeFirst, Joined
<1>9. Dated(t, F, s)
    BY <1>1, <1>3 DEF Dated
<1>10. Turns(t, r, n, F, <<s>> \o b)
    BY <1>1, <1>7, <1>9 DEF Turns
<1>11. Whole(t, r, n, F, <<s>> \o b)
    BY <1>8, <1>10, TurnShape DEF Whole
<1>12. QED
    BY <1>11 DEF Answer, s

(* A handler that a gate of the corporation's stops in this world.          *)
Stopped(t, r, n, p) ==
    /\ Static(p)
    /\ \E a, q : /\ p = a \o q /\ Good(t, r, n, {}, a) /\ IsSeq(q) /\ q # <<>>
                 /\ Stops(t, r, n, Head(q))

LEMMA StoppedHere ==
    \A t, r, n, s : Stops(t, r, n, s) => Stopped(t, r, n, <<s>>)
<1>1. SUFFICES ASSUME NEW t, NEW r, NEW n, NEW s, Stops(t, r, n, s)
               PROVE  Stopped(t, r, n, <<s>>)
    OBVIOUS
<1>2. Head(<<s>>) = s /\ <<s>> # <<>>
    OBVIOUS
<1>3. Static(<<s>>)
    BY <1>1, StaticStep DEF Stops
<1>4. <<>> \o <<s>> = <<s>> /\ IsSeq(<<s>>)
    BY OneStep, Nothing
<1>5. QED
    BY <1>1, <1>2, <1>3, <1>4, GoodEmpty DEF Stopped

LEMMA StoppedBefore ==
    \A t, r, n, p, q : Stopped(t, r, n, p) /\ Static(q) => Stopped(t, r, n, p \o q)
<1>1. SUFFICES ASSUME NEW t, NEW r, NEW n, NEW p, NEW q, Stopped(t, r, n, p), Static(q)
               PROVE  Stopped(t, r, n, p \o q)
    OBVIOUS
<1>2. PICK a, x : /\ p = a \o x /\ Good(t, r, n, {}, a) /\ IsSeq(x) /\ x # <<>>
                  /\ Stops(t, r, n, Head(x))
    BY <1>1 DEF Stopped
<1>3. IsSeq(a) /\ IsSeq(q)
    BY <1>1, <1>2, GoodIsSeq DEF Static
<1>4. p \o q = a \o (x \o q)
    BY <1>2, <1>3, Associative
<1>5. IsSeq(x \o q)
    BY <1>2, <1>3, Joined
<1>6. Head(x \o q) = Head(x) /\ x \o q # <<>>
    BY <1>2, <1>3, TakeFirst
<1>7. Static(p \o q)
    BY <1>1, StaticJoin DEF Stopped
<1>8. QED
    BY <1>2, <1>4, <1>5, <1>6, <1>7 DEF Stopped

LEMMA StoppedAfter ==
    \A t, r, n, p, q :
      Part(t, r, n, {}, p) /\ Stopped(t, r, n, q) => Stopped(t, r, n, p \o q)
<1>1. SUFFICES ASSUME NEW t, NEW r, NEW n, NEW p, NEW q,
                      Part(t, r, n, {}, p), Stopped(t, r, n, q)
               PROVE  Stopped(t, r, n, p \o q)
    OBVIOUS
<1>2. PICK a, x : /\ q = a \o x /\ Good(t, r, n, {}, a) /\ IsSeq(x) /\ x # <<>>
                  /\ Stops(t, r, n, Head(x))
    BY <1>1 DEF Stopped
<1>3. IsSeq(a) /\ IsSeq(p)
    BY <1>1, <1>2, GoodIsSeq DEF Part
<1>4. p \o q = (p \o a) \o x
    BY <1>2, <1>3, Associative
<1>5. Good(t, r, n, {}, p \o a)
    BY <1>1, <1>2, GoodJoin DEF Part
<1>6. Static(p \o q)
    BY <1>1, PartStatic, StaticJoin DEF Stopped
<1>7. QED
    BY <1>2, <1>4, <1>5, <1>6 DEF Stopped

LEMMA StoppedWhole ==
    \A t, r, n, p : Stopped(t, r, n, p) => Whole(t, r, n, {}, p)
<1>1. SUFFICES ASSUME NEW t, NEW r, NEW n, NEW p, Stopped(t, r, n, p)
               PROVE  Whole(t, r, n, {}, p)
    OBVIOUS
<1>2. PICK a, x : /\ p = a \o x /\ Good(t, r, n, {}, a) /\ IsSeq(x) /\ x # <<>>
                  /\ Stops(t, r, n, Head(x))
    BY <1>1 DEF Stopped
<1>3. IsSeq(a)
    BY <1>2, GoodIsSeq
<1>4. NoEnd(x)
  <2>1. /\ Len(a) \in Nat /\ Len(x) \in Nat /\ Len(p) = Len(a) + Len(x)
        /\ \A i \in 1 .. Len(a) + Len(x) :
             p[i] = IF i <= Len(a) THEN a[i] ELSE x[i - Len(a)]
    BY <1>2, <1>3, Joined
  <2>2. \A i \in 1 .. Len(p) : p[i].do # "end"
    BY <1>1 DEF Stopped, Static, NoEnd
  <2>3. SUFFICES ASSUME NEW i \in 1 .. Len(x)
                 PROVE  x[i].do # "end"
    BY DEF NoEnd
  <2>4. i + Len(a) \in 1 .. Len(p) /\ p[i + Len(a)] = x[i]
    BY <2>1, <2>3
  <2>5. QED
    BY <2>2, <2>4
<1>5. ShapeIn(t, r, n, {}, {}, p)
    BY <1>2, <1>4 DEF ShapeIn, Turns
<1>6. Shapes(t, r, n, {})
    BY DEF Shapes
<1>7. QED
    BY <1>1, <1>5, <1>6 DEF Whole, Shape, Stopped

(* Mutations, one after another, and the answer.                            *)
Ops(r, n, m) == Static(m) /\ \A p : Fresh(r, n, p) => Fresh(r, n, m \o p)

LEMMA FreshDone == \A r, n : Fresh(r, n, Done) /\ Static(Done)
<1>1. SUFFICES ASSUME NEW r, NEW n
               PROVE  Fresh(r, n, Done) /\ Static(Done)
    OBVIOUS
<1>2. DEFINE s == [do |-> "answer", fused |-> {}, rule |-> "oldest"]
<1>3. s.do = "answer" /\ s.fused = {} /\ s.rule = "oldest"
    OBVIOUS
<1>4. <<s>> # <<>> /\ Done = <<s>>
    BY DEF Done, Answer
<1>5. HIDE DEF s
<1>6. IsSeq(<<s>>) /\ Len(<<s>>) = 1 /\ <<s>>[1] = s
    BY OneStep
<1>7. Link(r, n, <<s>>, 1)
    BY <1>3, <1>6 DEF Link
<1>8. Fresh(r, n, <<s>>)
    BY <1>3, <1>4, <1>6, <1>7 DEF Fresh, Chain
<1>9. Static(<<s>>)
    BY <1>3, StaticStep
<1>10. QED
    BY <1>4, <1>8, <1>9

LEMMA OpsMutation ==
    \A r, n, x : Grants(x, r, n) => Ops(r, n, Mutation(x))
<1>1. SUFFICES ASSUME NEW r, NEW n, NEW x, Grants(x, r, n)
               PROVE  Ops(r, n, Mutation(x))
    OBVIOUS
<1>2. DEFINE m == Mutation(x)
<1>3. /\ Len(m) = 3 /\ m[1].do = "write" /\ m[1].of = x
      /\ m[2].do = "record" /\ m[3].do = "check"
    BY DEF Mutation
<1>4. m \in Seq({m[1], m[2], m[3]})
    BY DEF Mutation
<1>5. IsSeq(m)
    BY <1>4 DEF IsSeq
<1>6. HIDE DEF m
<1>7. Static(m)
    BY <1>3, <1>5 DEF Static, NoEnd
<1>8. ASSUME NEW p, Fresh(r, n, p)
      PROVE  Fresh(r, n, m \o p)
  <2>1. IsSeq(p) /\ p # <<>> /\ \A i \in 1 .. Len(p) : Link(r, n, p, i)
        /\ p[1].do \in {"write", "answer"}
    BY <1>8 DEF Fresh, Chain
  <2>2. /\ IsSeq(m \o p) /\ Len(p) \in Nat /\ Len(m \o p) = 3 + Len(p)
        /\ \A i \in 1 .. 3 + Len(p) : (m \o p)[i] = IF i <= 3 THEN m[i] ELSE p[i - 3]
    <3>1. /\ IsSeq(m \o p) /\ Len(p) \in Nat /\ Len(m \o p) = Len(m) + Len(p)
          /\ \A i \in 1 .. Len(m) + Len(p) :
               (m \o p)[i] = IF i <= Len(m) THEN m[i] ELSE p[i - Len(m)]
      BY <1>5, <2>1, Joined
    <3>2. QED
      BY <1>3, <3>1
  <2>3. Len(p) >= 1
    BY <2>1, <2>2, Nothing
  <2>4. m \o p # <<>>
    BY <2>2, Nothing
  <2>5. /\ (m \o p)[1] = m[1] /\ (m \o p)[2] = m[2]
        /\ (m \o p)[3] = m[3] /\ (m \o p)[4] = p[1]
    BY <2>2, <2>3
  <2>6. DEFINE q == m \o p
  <2>7. Link(r, n, q, 1) /\ Link(r, n, q, 2) /\ Link(r, n, q, 3)
    <3>1. q[1] = m[1] /\ q[2] = m[2] /\ q[3] = m[3] /\ q[4] = p[1] /\ Len(q) > 3
      BY <2>2, <2>3, <2>5
    <3>2. HIDE DEF q
    <3>3. QED
      BY <1>1, <1>3, <2>1, <3>1 DEF Link
  <2>8. ASSUME NEW i \in 4 .. Len(q)
        PROVE  Link(r, n, q, i)
    <3>1. i - 3 \in 1 .. Len(p) /\ q[i] = p[i - 3]
      BY <2>2, <2>8
    <3>2. i < Len(q) => i - 3 < Len(p) /\ q[i + 1] = p[(i - 3) + 1]
      BY <2>2, <2>8
    <3>3. i - 3 < Len(p) => i < Len(q)
      BY <2>2, <2>8
    <3>4. Link(r, n, p, i - 3)
      BY <2>1, <3>1
    <3>5. HIDE DEF q
    <3>6. QED
      BY <3>1, <3>2, <3>3, <3>4 DEF Link
  <2>9. Len(q) \in Nat
    BY <2>2
  <2>10. HIDE DEF q
  <2>11. \A i \in 1 .. Len(q) : i = 1 \/ i = 2 \/ i = 3 \/ i \in 4 .. Len(q)
    BY <2>9
  <2>12. \A i \in 1 .. Len(q) : Link(r, n, q, i)
    BY <2>7, <2>8, <2>11
  <2>13. q[1].do = "write" /\ q # <<>> /\ IsSeq(q)
    BY <1>3, <2>2, <2>4, <2>5 DEF q
  <2>14. Fresh(r, n, q)
    BY <2>12, <2>13 DEF Fresh, Chain
  <2>15. QED
    BY <2>14 DEF q
<1>9. QED
    BY <1>7, <1>8 DEF Ops, m

LEMMA OpsJoin ==
    \A r, n, m, o : Ops(r, n, m) /\ Ops(r, n, o) => Ops(r, n, m \o o)
<1>1. SUFFICES ASSUME NEW r, NEW n, NEW m, NEW o, Ops(r, n, m), Ops(r, n, o)
               PROVE  Ops(r, n, m \o o)
    OBVIOUS
<1>2. Static(m \o o) /\ IsSeq(m) /\ IsSeq(o)
    BY <1>1, StaticJoin DEF Ops, Static
<1>3. ASSUME NEW p, Fresh(r, n, p)
      PROVE  Fresh(r, n, (m \o o) \o p)
  <2>1. Fresh(r, n, m \o (o \o p))
    BY <1>1, <1>3 DEF Ops
  <2>2. IsSeq(p)
    BY <1>3 DEF Fresh, Chain
  <2>3. (m \o o) \o p = m \o (o \o p)
    BY <1>2, <2>2, Associative
  <2>4. QED
    BY <2>1, <2>3
<1>4. QED
    BY <1>2, <1>3 DEF Ops

LEMMA OpsEmpty == \A r, n : Ops(r, n, <<>>)
<1>1. \A r, n, p : Fresh(r, n, p) => <<>> \o p = p
    BY Nothing DEF Fresh, Chain
<1>2. QED
    BY <1>1, StaticEmpty DEF Ops

(* A handler that asks the player and then writes.                          *)
LEMMA ConsentWhole ==
    \A t, r, n, F, a, m :
      /\ t # "eve_corp_overview"
      /\ Part(t, r, n, F, a) /\ Static(m) /\ After(r, n, m \o Done)
      => Whole(t, r, n, F, ((a \o Authorize) \o m) \o Done)
<1>1. SUFFICES ASSUME NEW t, NEW r, NEW n, NEW F, NEW a, NEW m,
                      t # "eve_corp_overview",
                      Part(t, r, n, F, a), Static(m), After(r, n, m \o Done)
               PROVE  Whole(t, r, n, F, ((a \o Authorize) \o m) \o Done)
    OBVIOUS
<1>2. DEFINE s == [do |-> "authorize"]
             b == m \o Done
<1>3. s.do = "authorize"
    OBVIOUS
<1>4. HIDE DEF s
<1>5. Static(<<s>>) /\ IsSeq(<<s>>) /\ <<s>> # <<>> /\ Static(b)
  <2>1. <<s>> # <<>>
    OBVIOUS
  <2>2. QED
    BY <1>1, <1>3, <2>1, StaticStep, StaticJoin, FreshDone, OneStep
<1>6. IsSeq(a) /\ IsSeq(m) /\ IsSeq(Done) /\ IsSeq(b)
    BY <1>1, <1>5, FreshDone, GoodIsSeq DEF Part, Static
<1>7. ((a \o <<s>>) \o m) \o Done = a \o (<<s>> \o b)
  <2>1. ASSUME NEW x, IsSeq(x) PROVE (x \o m) \o Done = x \o b
    <3>1. IsSeq(m) /\ IsSeq(Done)
      BY <1>6
    <3>2. HIDE DEF b
    <3>3. (x \o m) \o Done = x \o (m \o Done)
      BY <2>1, <3>1, Associative
    <3>4. QED
      BY <3>3 DEF b
  <2>2. HIDE DEF b
  <2>3. \A x : IsSeq(x) => (a \o x) \o b = a \o (x \o b)
    BY <1>6, Associative
  <2>4. IsSeq(a \o <<s>>)
    BY <1>5, <1>6, Joined
  <2>5. ((a \o <<s>>) \o m) \o Done = (a \o <<s>>) \o b
    BY <2>1, <2>4 DEF b
  <2>6. (a \o <<s>>) \o b = a \o (<<s>> \o b)
    BY <1>5, <2>3
  <2>7. QED
    BY <2>5, <2>6 DEF b
<1>8. Whole(t, r, n, F, <<s>> \o b)
  <2>1. Head(<<s>> \o b) = s /\ Tail(<<s>> \o b) = b
    BY <1>6, HeadAndRest
  <2>2. IsSeq(<<s>> \o b) /\ <<s>> \o b # <<>>
    BY <1>5, <1>6, TakeFirst, Joined
  <2>3. Turns(t, r, n, F, <<s>> \o b)
    BY <1>1, <1>3, <2>1 DEF Turns
  <2>4. Static(<<s>> \o b)
    BY <1>5, StaticJoin
  <2>5. QED
    BY <2>2, <2>3, <2>4, TurnShape DEF Whole
<1>9. Whole(t, r, n, F, a \o (<<s>> \o b))
    BY <1>1, <1>8, PartWhole
<1>10. QED
    BY <1>7, <1>9 DEF Authorize, s

LEMMA AfterOps == \A r, n, m : Ops(r, n, m) => After(r, n, m \o Done)
    BY FreshDone DEF Ops, After

LEMMA AfterEither ==
    \A r, n, P : (\A x \in P : Ops(r, n, x)) =>
                   Static(Either(P)) /\ After(r, n, Either(P) \o Done)
<1>1. SUFFICES ASSUME NEW r, NEW n, NEW P, \A x \in P : Ops(r, n, x)
               PROVE  Static(Either(P)) /\ After(r, n, Either(P) \o Done)
    OBVIOUS
<1>2. DEFINE s == [do |-> "either", paths |-> P]
<1>3. s.do = "either" /\ s.paths = P
    OBVIOUS
<1>4. HIDE DEF s
<1>5. Static(<<s>>) /\ IsSeq(<<s>>)
    BY <1>3, StaticStep, OneStep
<1>6. IsSeq(Done) /\ Fresh(r, n, Done)
    BY FreshDone DEF Static
<1>7. Head(<<s>> \o Done) = s /\ Tail(<<s>> \o Done) = Done
    BY <1>6, HeadAndRest
<1>8. IsSeq(<<s>> \o Done) /\ <<s>> \o Done # <<>>
  <2>1. <<s>> # <<>>
    OBVIOUS
  <2>2. QED
    BY <1>5, <1>6, <2>1, Joined, TakeFirst
<1>9. \A x \in P : Fresh(r, n, x \o Done)
    BY <1>1, <1>6 DEF Ops
<1>10. After(r, n, <<s>> \o Done)
    BY <1>3, <1>7, <1>8, <1>9 DEF After
<1>11. QED
    BY <1>5, <1>10 DEF Either, s

-----------------------------------------------------------------------------
(* The steps handlers share.                                                *)

CorpReads ==
    {"corp_assets", "corp_blueprints", "corp_killmails", "divisions", "member_roles",
     "corp_wallets", "corp_journal", "corp_transactions", "corp_jobs", "corp_orders",
     "structures", "extractions", "observers", "observer", "corp_contracts", "members"}

LEMMA CorpReadsAre == DOMAIN CCPRoles = CorpReads
    BY DEF CCPRoles, CorpReads

LEMMA PersonalRead == \A x, r, n : x \notin CorpReads => Grants(x, r, n)
    BY CorpReadsAre DEF Grants

LEMMA PartPlain ==
    \A t, r, n, F, s : Plain(t, r, n, F, s) /\ s.do # "end" => Part(t, r, n, F, <<s>>)
    BY GoodPlain, StaticStep DEF Part, Static

LEMMA PartGate ==
    \A t, r, n, F, x :
      x \notin {"none", "ok", "esi", "partial", "role", "npc"} => Part(t, r, n, F, Gate(x))
<1>1. SUFFICES ASSUME NEW t, NEW r, NEW n, NEW F, NEW x,
                      x \notin {"none", "ok", "esi", "partial", "role", "npc"}
               PROVE  Part(t, r, n, F, Gate(x))
    OBVIOUS
<1>2. Plain(t, r, n, F, [do |-> "gate", of |-> x])
    BY <1>1 DEF Plain
<1>3. QED
    BY <1>2, PartPlain DEF Gate

LEMMA PartScope ==
    \A t, r, n, F, x : x \in RequestedScopes => Part(t, r, n, F, Scope(x))
<1>1. SUFFICES ASSUME NEW t, NEW r, NEW n, NEW F, NEW x, x \in RequestedScopes
               PROVE  Part(t, r, n, F, Scope(x))
    OBVIOUS
<1>2. Plain(t, r, n, F, [do |-> "scope", of |-> x])
    BY <1>1 DEF Plain
<1>3. QED
    BY <1>2, PartPlain DEF Scope

LEMMA PartPlayerCorp == \A t, r, F : Part(t, r, FALSE, F, PlayerCorp)
<1>1. SUFFICES ASSUME NEW t, NEW r, NEW F
               PROVE  Part(t, r, FALSE, F, PlayerCorp)
    OBVIOUS
<1>2. Plain(t, r, FALSE, F, [do |-> "npc"])
    BY DEF Plain
<1>3. QED
    BY <1>2, PartPlain DEF PlayerCorp

LEMMA PartRole ==
    \A t, r, n, F, any : HasRole(r, any) => Part(t, r, n, F, Role(any))
<1>1. SUFFICES ASSUME NEW t, NEW r, NEW n, NEW F, NEW any, HasRole(r, any)
               PROVE  Part(t, r, n, F, Role(any))
    OBVIOUS
<1>2. Plain(t, r, n, F, [do |-> "role", any |-> any])
    BY <1>1 DEF Plain
<1>3. QED
    BY <1>2, PartPlain DEF Role

LEMMA PartRead ==
    \A t, r, n, F, x :
      MayRead(t, r, n, F, x) => Part(t, r, n, F, Get(x)) /\ Part(t, r, n, F, Try(x))
<1>1. SUFFICES ASSUME NEW t, NEW r, NEW n, NEW F, NEW x, MayRead(t, r, n, F, x)
               PROVE  Part(t, r, n, F, Get(x)) /\ Part(t, r, n, F, Try(x))
    OBVIOUS
<1>2. /\ Plain(t, r, n, F, [do |-> "read", of |-> x, fatal |-> TRUE])
      /\ Plain(t, r, n, F, [do |-> "read", of |-> x, fatal |-> FALSE])
    BY <1>1 DEF Plain
<1>3. QED
    BY <1>2, PartPlain DEF Get, Try

LEMMA PartAnswer ==
    \A t, r, n, F, f :
      t # "eve_corp_overview" /\ f \in {{}, F} => Part(t, r, n, F, Answer(f))
<1>1. SUFFICES ASSUME NEW t, NEW r, NEW n, NEW F, NEW f,
                      t # "eve_corp_overview", f \in {{}, F}
               PROVE  Part(t, r, n, F, Answer(f))
    OBVIOUS
<1>2. DEFINE s == [do |-> "answer", fused |-> f, rule |-> "oldest"]
<1>3. s.do = "answer" /\ s.fused = f /\ s.rule = "oldest"
    OBVIOUS
<1>4. HIDE DEF s
<1>5. Plain(t, r, n, F, s)
  <2>1. Dated(t, F, s)
    BY <1>1, <1>3 DEF Dated
  <2>2. QED
    BY <1>1, <2>1 DEF Plain
<1>6. Part(t, r, n, F, <<s>>)
    BY <1>3, <1>5, PartPlain
<1>7. QED
    BY <1>6 DEF Answer, s

LEMMA PartEmpty == \A t, r, n, F : Part(t, r, n, F, <<>>)
    BY GoodEmpty, StaticEmpty DEF Part, Static

LEMMA PartEither ==
    \A t, r, n, F, P :
      (\A p \in P : Part(t, r, n, F, p)) => Part(t, r, n, F, Either(P))
<1>1. SUFFICES ASSUME NEW t, NEW r, NEW n, NEW F, NEW P, \A p \in P : Part(t, r, n, F, p)
               PROVE  Part(t, r, n, F, Either(P))
    OBVIOUS
<1>2. Good(t, r, n, F, Either(P))
    BY <1>1, GoodEither DEF Part
<1>3. Static(Either(P))
    BY StaticStep DEF Either
<1>4. QED
    BY <1>2, <1>3 DEF Part, Static

LEMMA PartMaybe ==
    \A t, r, n, F, p :
      Part(t, r, n, F, p) => Part(t, r, n, F, Maybe(p)) /\ Part(t, r, n, F, UpToTwo(p))
<1>1. SUFFICES ASSUME NEW t, NEW r, NEW n, NEW F, NEW p, Part(t, r, n, F, p)
               PROVE  Part(t, r, n, F, Maybe(p)) /\ Part(t, r, n, F, UpToTwo(p))
    OBVIOUS
<1>2. Part(t, r, n, F, <<>>) /\ Part(t, r, n, F, p \o p)
    BY <1>1, PartEmpty, PartJoin
<1>3. \A x \in {<<>>, p, p \o p} : Part(t, r, n, F, x)
    BY <1>1, <1>2
<1>4. QED
    BY <1>3, PartEither DEF Maybe, UpToTwo

LEMMA PartSection ==
    \A t, r, n, F, x, p : Part(t, r, n, F, p) => Part(t, r, n, F, Section(x, p))
<1>1. SUFFICES ASSUME NEW t, NEW r, NEW n, NEW F, NEW x, NEW p, Part(t, r, n, F, p)
               PROVE  Part(t, r, n, F, Section(x, p))
    OBVIOUS
<1>2. Good(t, r, n, F, Section(x, p))
    BY <1>1, GoodSection DEF Part
<1>3. Static(Section(x, p))
    BY StaticStep DEF Section
<1>4. QED
    BY <1>2, <1>3 DEF Part, Static

LEMMA PartIf ==
    \A t, r, n, F, c, any, p :
      (HasRole(r, any) => Part(t, r, n, F, p)) =>
        Part(t, r, n, F, IfCan(c, any, p)) /\ Part(t, r, n, F, IfRole(any, p))
<1>1. SUFFICES ASSUME NEW t, NEW r, NEW n, NEW F, NEW c, NEW any, NEW p,
                      HasRole(r, any) => Part(t, r, n, F, p)
               PROVE  Part(t, r, n, F, IfCan(c, any, p)) /\ Part(t, r, n, F, IfRole(any, p))
    OBVIOUS
<1>2. HasRole(r, any) => Good(t, r, n, F, p)
    BY <1>1 DEF Part
<1>3. Good(t, r, n, F, IfCan(c, any, p)) /\ Good(t, r, n, F, IfRole(any, p))
    BY <1>2, GoodIf DEF IfCan, IfRole
<1>4. Static(IfCan(c, any, p)) /\ Static(IfRole(any, p))
    BY StaticStep DEF IfCan, IfRole
<1>5. QED
    BY <1>3, <1>4 DEF Part, Static

(* What a tool reads and does not date its answer by.                       *)
LEMMA UndatedReads ==
    /\ \A t : {"names", "ids", "type", "group", "session", "constellation", "hop", "killmail"}
              \subseteq Undated(t)
    /\ \A t \in DOMAIN CorpTools : {"sheet", "corporation", "own_roles"} \subseteq Undated(t)
    /\ \A t \in {"eve_corp_overview", "eve_corp_assets_list", "eve_corp_assets_find",
                 "eve_corp_blueprints", "eve_corp_wallet", "eve_corp_orders"} :
           "divisions" \in Undated(t)
    /\ "member_roles" \in Undated("eve_corp_members")
    /\ \A t \in {"eve_assets_list", "eve_assets_find", "eve_corp_assets_list",
                 "eve_corp_assets_find", "eve_industry_mining", "eve_market_price",
                 "eve_universe_item", "eve_social_killmails", "eve_corp_killmails"} :
           "prices" \in Undated(t)
    /\ "skills" \in Undated("eve_character_skill_queue")
    /\ "history" \in Undated("eve_market_price")
    /\ "search_wide" \in Undated("eve_universe_search")
<1>1. \A t : Timeless \subseteq Undated(t)
    BY DEF Undated
<1>2. \A t, x : x \in DOMAIN Withheld /\ t \in Withheld[x] => x \in Undated(t)
    BY DEF Undated
<1>3. /\ {"sheet", "corporation", "own_roles", "divisions", "member_roles", "prices",
          "skills", "history", "search_wide"} \subseteq DOMAIN Withheld
      /\ Withheld.sheet = DOMAIN CorpTools /\ Withheld.corporation = DOMAIN CorpTools
      /\ Withheld.own_roles = DOMAIN CorpTools
      /\ Withheld.divisions = {"eve_corp_overview", "eve_corp_assets_list",
                               "eve_corp_assets_find", "eve_corp_blueprints",
                               "eve_corp_wallet", "eve_corp_orders"}
      /\ Withheld.member_roles = {"eve_corp_members"}
      /\ Withheld.prices = {"eve_assets_list", "eve_assets_find", "eve_corp_assets_list",
                            "eve_corp_assets_find", "eve_industry_mining",
                            "eve_market_price", "eve_universe_item",
                            "eve_social_killmails", "eve_corp_killmails"}
      /\ Withheld.skills = {"eve_character_skill_queue"}
      /\ Withheld.history = {"eve_market_price"}
      /\ Withheld.search_wide = {"eve_universe_search"}
    BY DEF Withheld
<1>4. QED
    BY <1>1, <1>2, <1>3 DEF Timeless

LEMMA PartShared ==
    \A t, r, n, F :
      /\ Part(t, r, n, F, Args) /\ Part(t, r, n, F, Character)
      /\ Part(t, r, n, F, Unresolved) /\ Part(t, r, n, F, Names)
      /\ Part(t, r, n, F, Get("ids")) /\ Part(t, r, n, F, ResolveNames)
<1>1. SUFFICES ASSUME NEW t, NEW r, NEW n, NEW F
               PROVE  /\ Part(t, r, n, F, Args) /\ Part(t, r, n, F, Character)
                      /\ Part(t, r, n, F, Unresolved) /\ Part(t, r, n, F, Names)
                      /\ Part(t, r, n, F, Get("ids")) /\ Part(t, r, n, F, ResolveNames)
    OBVIOUS
<1>2. /\ Part(t, r, n, F, Args) /\ Part(t, r, n, F, Character)
      /\ Part(t, r, n, F, Unresolved)
    BY PartGate DEF Args, Character, Unresolved
<1>3. \A x \in {"names", "ids"} : MayRead(t, r, n, F, x)
  <2>1. "names" \notin CorpReads /\ "ids" \notin CorpReads
    BY DEF CorpReads
  <2>2. QED
    BY <2>1, PersonalRead, UndatedReads DEF MayRead
<1>4. Part(t, r, n, F, Names) /\ Part(t, r, n, F, Get("ids"))
    BY <1>3, PartRead DEF Names
<1>5. QED
    BY <1>2, <1>4, PartJoin DEF ResolveNames

(* The tools that price what they list.                                     *)
PricingTools ==
    {"eve_assets_list", "eve_assets_find", "eve_corp_assets_list", "eve_corp_assets_find",
     "eve_industry_mining", "eve_social_killmails", "eve_corp_killmails", "eve_corp_mining"}

LEMMA PricingToolsAre ==
    /\ "eve_assets_list" \in PricingTools /\ "eve_assets_find" \in PricingTools
    /\ "eve_corp_assets_list" \in PricingTools /\ "eve_corp_assets_find" \in PricingTools
    /\ "eve_industry_mining" \in PricingTools /\ "eve_social_killmails" \in PricingTools
    /\ "eve_corp_killmails" \in PricingTools /\ "eve_corp_mining" \in PricingTools
    BY DEF PricingTools

LEMMA PartPrices ==
    \A t, r, n, F : t \in PricingTools => Part(t, r, n, F, ReferencePrices)
<1>1. SUFFICES ASSUME NEW t, NEW r, NEW n, NEW F, t \in PricingTools
               PROVE  Part(t, r, n, F, ReferencePrices)
    OBVIOUS
<1>2. "prices" \notin CorpReads
    BY DEF CorpReads
<1>3. MayRead(t, r, n, F, "prices")
    BY <1>1, <1>2, PersonalRead, UndatedReads DEF MayRead, PricingTools
<1>4. QED
    BY <1>3, PartRead DEF ReferencePrices

LEMMA PartEmptyAnswer ==
    \A t, r, n, F, f :
      t # "eve_corp_overview" /\ f \in {{}, F} => Part(t, r, n, F, EmptyAnswer(f))
    BY PartAnswer, PartMaybe DEF EmptyAnswer

(* A read of the character's own, by a tool whose answer fuses it, or has   *)
(* no age.                                                                  *)
LEMMA PersonalReads ==
    \A t, r, n, F, x :
      x \notin CorpReads /\ x \in F \cup Undated(t) => MayRead(t, r, n, F, x)
    BY PersonalRead DEF MayRead

-----------------------------------------------------------------------------
(* The handlers that read what is the character's, and the universe's.      *)

LEMMA CharacterHandlers ==
    \A r, n :
      /\ Whole("eve_server_status", r, n, {"status"}, eveServerStatus)
      /\ Whole("eve_auth_status", r, n, {}, eveAuthStatus)
      /\ Whole("eve_character_overview", r, n, staleOf, eveCharacterOverview)
      /\ Whole("eve_character_skills", r, n, {"skills"}, eveCharacterSkills)
      /\ Whole("eve_character_skill_queue", r, n, {"skillqueue"}, eveCharacterSkillQueue)
      /\ Whole("eve_character_clones", r, n, {"clones", "implants"}, eveCharacterClones)
      /\ Whole("eve_character_standings", r, n, {"standings", "loyalty"}, eveCharacterStandings)
<1> SUFFICES ASSUME NEW r, NEW n
             PROVE  /\ Whole("eve_server_status", r, n, {"status"}, eveServerStatus)
                    /\ Whole("eve_auth_status", r, n, {}, eveAuthStatus)
                    /\ Whole("eve_character_overview", r, n, staleOf, eveCharacterOverview)
                    /\ Whole("eve_character_skills", r, n, {"skills"}, eveCharacterSkills)
                    /\ Whole("eve_character_skill_queue", r, n, {"skillqueue"}, eveCharacterSkillQueue)
                    /\ Whole("eve_character_clones", r, n, {"clones", "implants"}, eveCharacterClones)
                    /\ Whole("eve_character_standings", r, n, {"standings", "loyalty"}, eveCharacterStandings)
    OBVIOUS
<1>1. Whole("eve_server_status", r, n, {"status"}, eveServerStatus)
  <2>1. MayRead("eve_server_status", r, n, {"status"}, "status")
    BY PersonalReads, UndatedReads DEF CorpReads
  <2>2. QED
    BY <2>1, PartShared, PartRead, PartMaybe, PartEmptyAnswer, PartSection, PartEither,
       PartJoin, PartWhole, WholeAnswer DEF eveServerStatus
<1>2. Whole("eve_auth_status", r, n, {}, eveAuthStatus)
  <2>1. MayRead("eve_auth_status", r, n, {}, "session")
    BY PersonalReads, UndatedReads DEF CorpReads
  <2>2. QED
    BY <2>1, PartShared, PartRead, PartMaybe, PartEmptyAnswer, PartSection, PartEither,
       PartJoin, PartWhole, WholeAnswer DEF eveAuthStatus
<1>3. Whole("eve_character_overview", r, n, staleOf, eveCharacterOverview)
  <2>1. /\ MayRead("eve_character_overview", r, n, staleOf, "public")
        /\ MayRead("eve_character_overview", r, n, staleOf, "wallet")
        /\ MayRead("eve_character_overview", r, n, staleOf, "location")
        /\ MayRead("eve_character_overview", r, n, staleOf, "ship")
        /\ MayRead("eve_character_overview", r, n, staleOf, "online")
        /\ MayRead("eve_character_overview", r, n, staleOf, "skillqueue")
        /\ MayRead("eve_character_overview", r, n, staleOf, "attributes")
        /\ MayRead("eve_character_overview", r, n, staleOf, "skills")
    BY PersonalReads, UndatedReads DEF CorpReads, staleOf
  <2>2. QED
    BY <2>1, PartShared, PartRead, PartMaybe, PartEmptyAnswer, PartSection, PartEither,
       PartJoin, PartWhole, WholeAnswer
       DEF eveCharacterOverview, fetchOverview, applyOverview
<1>4. Whole("eve_character_skills", r, n, {"skills"}, eveCharacterSkills)
  <2>1. MayRead("eve_character_skills", r, n, {"skills"}, "skills")
    BY PersonalReads, UndatedReads DEF CorpReads
  <2>2. "skills.read_skills" \in RequestedScopes
    BY DEF RequestedScopes, ReadScopes
  <2>3. QED
    BY <2>1, <2>2, PartShared, PartScope, PartRead, PartMaybe, PartEmptyAnswer,
       PartSection, PartEither, PartJoin, PartWhole, WholeAnswer DEF eveCharacterSkills
<1>5. Whole("eve_character_skill_queue", r, n, {"skillqueue"}, eveCharacterSkillQueue)
  <2>1. /\ MayRead("eve_character_skill_queue", r, n, {"skillqueue"}, "skillqueue")
        /\ MayRead("eve_character_skill_queue", r, n, {"skillqueue"}, "skills")
    BY PersonalReads, UndatedReads DEF CorpReads
  <2>2. "skills.read_skillqueue" \in RequestedScopes
    BY DEF RequestedScopes, ReadScopes
  <2>3. QED
    BY <2>1, <2>2, PartShared, PartScope, PartRead, PartMaybe, PartEmptyAnswer,
       PartSection, PartEither, PartJoin, PartWhole, WholeAnswer
       DEF eveCharacterSkillQueue, attachSkillSubscription
<1>6. Whole("eve_character_clones", r, n, {"clones", "implants"}, eveCharacterClones)
  <2>1. /\ MayRead("eve_character_clones", r, n, {"clones", "implants"}, "clones")
        /\ MayRead("eve_character_clones", r, n, {"clones", "implants"}, "implants")
    BY PersonalReads, UndatedReads DEF CorpReads
  <2>2. "clones.read_clones" \in RequestedScopes /\ "clones.read_implants" \in RequestedScopes
    BY DEF RequestedScopes, ReadScopes
  <2>3. QED
    BY <2>1, <2>2, PartShared, PartScope, PartRead, PartMaybe, PartEmptyAnswer,
       PartSection, PartEither, PartJoin, PartWhole, WholeAnswer DEF eveCharacterClones
<1>7. Whole("eve_character_standings", r, n, {"standings", "loyalty"}, eveCharacterStandings)
  <2>1. /\ MayRead("eve_character_standings", r, n, {"standings", "loyalty"}, "standings")
        /\ MayRead("eve_character_standings", r, n, {"standings", "loyalty"}, "loyalty")
    BY PersonalReads, UndatedReads DEF CorpReads
  <2>2. "characters.read_standings" \in RequestedScopes
    BY DEF RequestedScopes, ReadScopes
  <2>3. QED
    BY <2>1, <2>2, PartShared, PartScope, PartRead, PartMaybe, PartEmptyAnswer,
       PartSection, PartEither, PartJoin, PartWhole, WholeAnswer
       DEF eveCharacterStandings, fetchCharacterLP
<1>8. QED
    BY <1>1, <1>2, <1>3, <1>4, <1>5, <1>6, <1>7

LEMMA SocialHandlers ==
    \A r, n :
      /\ Whole("eve_social_notifications", r, n, {"notifications"}, eveSocialNotifications)
      /\ Whole("eve_fitting_list", r, n, {"fittings"}, eveFittingList)
      /\ Whole("eve_mail_list", r, n, {"mail"}, eveMailList)
      /\ Whole("eve_mail_read", r, n, {"mail_body"}, eveMailRead)
      /\ Whole("eve_calendar_list", r, n, {"calendar", "event", "attendees"}, eveCalendarList)
      /\ Whole("eve_social_killmails", r, n, {"killmails"}, eveSocialKillmails)
<1> SUFFICES ASSUME NEW r, NEW n
             PROVE  /\ Whole("eve_social_notifications", r, n, {"notifications"}, eveSocialNotifications)
                    /\ Whole("eve_fitting_list", r, n, {"fittings"}, eveFittingList)
                    /\ Whole("eve_mail_list", r, n, {"mail"}, eveMailList)
                    /\ Whole("eve_mail_read", r, n, {"mail_body"}, eveMailRead)
                    /\ Whole("eve_calendar_list", r, n, {"calendar", "event", "attendees"}, eveCalendarList)
                    /\ Whole("eve_social_killmails", r, n, {"killmails"}, eveSocialKillmails)
    OBVIOUS
<1>1. Whole("eve_social_notifications", r, n, {"notifications"}, eveSocialNotifications)
  <2>1. MayRead("eve_social_notifications", r, n, {"notifications"}, "notifications")
    BY PersonalReads, UndatedReads DEF CorpReads
  <2>2. "characters.read_notifications" \in RequestedScopes
    BY DEF RequestedScopes, ReadScopes
  <2>3. QED
    BY <2>1, <2>2, PartShared, PartScope, PartRead, PartMaybe, PartEmptyAnswer,
       PartSection, PartEither, PartJoin, PartWhole, WholeAnswer
       DEF eveSocialNotifications
<1>2. Whole("eve_fitting_list", r, n, {"fittings"}, eveFittingList)
  <2>1. MayRead("eve_fitting_list", r, n, {"fittings"}, "fittings")
    BY PersonalReads, UndatedReads DEF CorpReads
  <2>2. "fittings.read_fittings" \in RequestedScopes
    BY DEF RequestedScopes, ReadScopes
  <2>3. QED
    BY <2>1, <2>2, PartShared, PartScope, PartRead, PartMaybe, PartEmptyAnswer,
       PartSection, PartEither, PartJoin, PartWhole, WholeAnswer DEF eveFittingList
<1>3. Whole("eve_mail_list", r, n, {"mail"}, eveMailList)
  <2>1. MayRead("eve_mail_list", r, n, {"mail"}, "mail")
    BY PersonalReads, UndatedReads DEF CorpReads
  <2>2. "mail.read_mail" \in RequestedScopes
    BY DEF RequestedScopes, ReadScopes
  <2>3. QED
    BY <2>1, <2>2, PartShared, PartScope, PartRead, PartMaybe, PartEmptyAnswer,
       PartSection, PartEither, PartJoin, PartWhole, WholeAnswer DEF eveMailList
<1>4. Whole("eve_mail_read", r, n, {"mail_body"}, eveMailRead)
  <2>1. MayRead("eve_mail_read", r, n, {"mail_body"}, "mail_body")
    BY PersonalReads, UndatedReads DEF CorpReads
  <2>2. "mail.read_mail" \in RequestedScopes
    BY DEF RequestedScopes, ReadScopes
  <2>3. QED
    BY <2>1, <2>2, PartShared, PartScope, PartRead, PartMaybe, PartEmptyAnswer,
       PartSection, PartEither, PartJoin, PartWhole, WholeAnswer DEF eveMailRead
<1>5. Whole("eve_calendar_list", r, n, {"calendar", "event", "attendees"}, eveCalendarList)
  <2>1. /\ MayRead("eve_calendar_list", r, n, {"calendar", "event", "attendees"}, "calendar")
        /\ MayRead("eve_calendar_list", r, n, {"calendar", "event", "attendees"}, "event")
        /\ MayRead("eve_calendar_list", r, n, {"calendar", "event", "attendees"}, "attendees")
    BY PersonalReads, UndatedReads DEF CorpReads
  <2>2. "calendar.read_calendar_events" \in RequestedScopes
    BY DEF RequestedScopes, ReadScopes
  <2>3. QED
    BY <2>1, <2>2, PartShared, PartScope, PartRead, PartMaybe, PartEmptyAnswer,
       PartSection, PartEither, PartJoin, PartWhole, WholeAnswer
       DEF eveCalendarList, fetchCalendarPage, attachCalendarDetail,
           attachCalendarAttendees
<1>6. Whole("eve_social_killmails", r, n, {"killmails"}, eveSocialKillmails)
  <2>1. /\ MayRead("eve_social_killmails", r, n, {"killmails"}, "killmails")
        /\ MayRead("eve_social_killmails", r, n, {"killmails"}, "killmail")
    BY PersonalReads, UndatedReads DEF CorpReads
  <2>2. "killmails.read_killmails" \in RequestedScopes
    BY DEF RequestedScopes, ReadScopes
  <2>3. QED
    BY <2>1, <2>2, PartShared, PartPrices, PricingToolsAre, PartScope,
       PartRead, PartMaybe, PartEmptyAnswer, PartSection, PartEither, PartJoin,
       PartWhole, WholeAnswer
       DEF eveSocialKillmails, formatKillmails, fetchKillmailBodies, buildKillmailRows
<1>7. QED
    BY <1>1, <1>2, <1>3, <1>4, <1>5, <1>6

LEMMA MarketHandlers ==
    \A r, n :
      /\ Whole("eve_assets_list", r, n, {"assets"}, eveAssetsList)
      /\ Whole("eve_assets_find", r, n, {"assets"}, eveAssetsFind)
      /\ Whole("eve_assets_blueprints", r, n, {"blueprints"}, eveAssetsBlueprints)
      /\ Whole("eve_industry_jobs", r, n, {"jobs"}, eveIndustryJobs)
      /\ Whole("eve_industry_planets", r, n, {"planets"}, eveIndustryPlanets)
      /\ Whole("eve_industry_mining", r, n, {"mining"}, eveIndustryMining)
      /\ Whole("eve_market_price", r, n, {"quotes"}, eveMarketPrice)
      /\ Whole("eve_market_orders", r, n, {"orders"}, eveMarketOrders)
      /\ Whole("eve_market_contracts", r, n, {"contracts"}, eveMarketContracts)
<1> SUFFICES ASSUME NEW r, NEW n
             PROVE  /\ Whole("eve_assets_list", r, n, {"assets"}, eveAssetsList)
                    /\ Whole("eve_assets_find", r, n, {"assets"}, eveAssetsFind)
                    /\ Whole("eve_assets_blueprints", r, n, {"blueprints"}, eveAssetsBlueprints)
                    /\ Whole("eve_industry_jobs", r, n, {"jobs"}, eveIndustryJobs)
                    /\ Whole("eve_industry_planets", r, n, {"planets"}, eveIndustryPlanets)
                    /\ Whole("eve_industry_mining", r, n, {"mining"}, eveIndustryMining)
                    /\ Whole("eve_market_price", r, n, {"quotes"}, eveMarketPrice)
                    /\ Whole("eve_market_orders", r, n, {"orders"}, eveMarketOrders)
                    /\ Whole("eve_market_contracts", r, n, {"contracts"}, eveMarketContracts)
    OBVIOUS
<1>1. Whole("eve_assets_list", r, n, {"assets"}, eveAssetsList)
  <2>1. MayRead("eve_assets_list", r, n, {"assets"}, "assets")
    BY PersonalReads, UndatedReads DEF CorpReads
  <2>2. "assets.read_assets" \in RequestedScopes
    BY DEF RequestedScopes, ReadScopes
  <2>3. QED
    BY <2>1, <2>2, PartShared, PartPrices, PricingToolsAre, PartScope,
       PartRead, PartMaybe, PartEmptyAnswer, PartSection, PartEither, PartJoin,
       PartWhole, WholeAnswer DEF eveAssetsList
<1>2. Whole("eve_assets_find", r, n, {"assets"}, eveAssetsFind)
  <2>1. MayRead("eve_assets_find", r, n, {"assets"}, "assets")
    BY PersonalReads, UndatedReads DEF CorpReads
  <2>2. "assets.read_assets" \in RequestedScopes
    BY DEF RequestedScopes, ReadScopes
  <2>3. QED
    BY <2>1, <2>2, PartShared, PartPrices, PricingToolsAre, PartScope,
       PartRead, PartMaybe, PartEmptyAnswer, PartSection, PartEither, PartJoin,
       PartWhole, WholeAnswer DEF eveAssetsFind
<1>3. Whole("eve_assets_blueprints", r, n, {"blueprints"}, eveAssetsBlueprints)
  <2>1. MayRead("eve_assets_blueprints", r, n, {"blueprints"}, "blueprints")
    BY PersonalReads, UndatedReads DEF CorpReads
  <2>2. "characters.read_blueprints" \in RequestedScopes
    BY DEF RequestedScopes, ReadScopes
  <2>3. QED
    BY <2>1, <2>2, PartShared, PartScope, PartRead, PartMaybe, PartEmptyAnswer,
       PartSection, PartEither, PartJoin, PartWhole, WholeAnswer DEF eveAssetsBlueprints
<1>4. Whole("eve_industry_jobs", r, n, {"jobs"}, eveIndustryJobs)
  <2>1. MayRead("eve_industry_jobs", r, n, {"jobs"}, "jobs")
    BY PersonalReads, UndatedReads DEF CorpReads
  <2>2. "industry.read_character_jobs" \in RequestedScopes
    BY DEF RequestedScopes, ReadScopes
  <2>3. QED
    BY <2>1, <2>2, PartShared, PartScope, PartRead, PartMaybe, PartEmptyAnswer,
       PartSection, PartEither, PartJoin, PartWhole, WholeAnswer
       DEF eveIndustryJobs, industryJobsResult
<1>5. Whole("eve_industry_planets", r, n, {"planets"}, eveIndustryPlanets)
  <2>1. /\ MayRead("eve_industry_planets", r, n, {"planets"}, "planets")
        /\ MayRead("eve_industry_planets", r, n, {"planets", "colony"}, "colony")
    BY PersonalReads DEF CorpReads
  <2>2. "planets.manage_planets" \in RequestedScopes
    BY DEF RequestedScopes, ReadScopes
  <2>3. DEFINE first == Character \o Scope("planets.manage_planets") \o Get("planets")
               rest == Names \o decorateColonyDetails \o Answer({"planets", "colony"})
  <2>4. Part("eve_industry_planets", r, n, {"planets"}, first)
    BY <2>1, <2>2, PartShared, PartScope, PartRead, PartJoin
  <2>5. Whole("eve_industry_planets", r, n, {"planets", "colony"}, rest)
    BY <2>1, PartShared, PartRead, PartMaybe, PartJoin, PartWhole, WholeAnswer
       DEF decorateColonyDetails
  <2>6. Static(rest)
    BY <2>5 DEF Whole
  <2>7. HIDE DEF first, rest
  <2>8. Whole("eve_industry_planets", r, n, {"planets"}, Answer({"planets"}) \o rest)
    BY <2>6, WholeEarly
  <2>9. <<>> \o rest = rest
    BY <2>6, Nothing DEF Static
  <2>10. {"planets"} \subseteq {"planets", "colony"} /\ {"planets"} \subseteq {"planets"}
    OBVIOUS
  <2>11. \A x \in {<<>>, Answer({"planets"})} :
           \E G : {"planets"} \subseteq G /\ Whole("eve_industry_planets", r, n, G, x \o rest)
    BY <2>5, <2>8, <2>9, <2>10
  <2>12. Whole("eve_industry_planets", r, n, {"planets"}, EmptyAnswer({"planets"}) \o rest)
    BY <2>6, <2>11, WholeBranch DEF EmptyAnswer, Maybe
  <2>13. eveIndustryPlanets = first \o (EmptyAnswer({"planets"}) \o rest)
    <3>1. IsSeq(first) /\ IsSeq(EmptyAnswer({"planets"}))
      BY <2>4, PartStatic, OneStep DEF Static, EmptyAnswer, Maybe, Either
    <3>2. IsSeq(Names) /\ IsSeq(decorateColonyDetails) /\ IsSeq(Answer({"planets", "colony"}))
      BY OneStep DEF Names, Try, decorateColonyDetails, UpToTwo, Either, Answer
    <3>3. DEFINE early == EmptyAnswer({"planets"})
                 last == Answer({"planets", "colony"})
    <3>4. HIDE DEF early, last
    <3>5. Cat(Cat(Cat(Cat(first, early), Names), decorateColonyDetails), last)
          = Cat(first, Cat(early, Cat(Cat(Names, decorateColonyDetails), last)))
      BY <3>1, <3>2, Regrouped DEF early, last
    <3>6. (((first \o early) \o Names) \o decorateColonyDetails) \o last
          = first \o (early \o ((Names \o decorateColonyDetails) \o last))
      BY <3>5 DEF Cat
    <3>7. QED
      BY <3>6 DEF eveIndustryPlanets, first, rest, early, last
  <2>14. QED
    BY <2>4, <2>12, <2>13, PartWhole
<1>6. Whole("eve_industry_mining", r, n, {"mining"}, eveIndustryMining)
  <2>1. MayRead("eve_industry_mining", r, n, {"mining"}, "mining")
    BY PersonalReads, UndatedReads DEF CorpReads
  <2>2. "industry.read_character_mining" \in RequestedScopes
    BY DEF RequestedScopes, ReadScopes
  <2>3. QED
    BY <2>1, <2>2, PartShared, PartPrices, PricingToolsAre, PartScope,
       PartRead, PartMaybe, PartEmptyAnswer, PartSection, PartEither, PartJoin,
       PartWhole, WholeAnswer DEF eveIndustryMining
<1>7. Whole("eve_market_price", r, n, {"quotes"}, eveMarketPrice)
  <2>1. /\ MayRead("eve_market_price", r, n, {"quotes"}, "quotes")
        /\ MayRead("eve_market_price", r, n, {"quotes"}, "prices")
        /\ MayRead("eve_market_price", r, n, {"quotes"}, "type")
        /\ MayRead("eve_market_price", r, n, {"quotes"}, "history")
    BY PersonalReads, UndatedReads DEF CorpReads
  <2>2. QED
    BY <2>1, PartShared, PartRead, PartMaybe, PartEmptyAnswer, PartSection, PartEither,
       PartJoin, PartWhole, WholeAnswer
       DEF eveMarketPrice, marketPlace, marketQuoteView, marketHistory
<1>8. Whole("eve_market_orders", r, n, {"orders"}, eveMarketOrders)
  <2>1. MayRead("eve_market_orders", r, n, {"orders"}, "orders")
    BY PersonalReads, UndatedReads DEF CorpReads
  <2>2. "markets.read_character_orders" \in RequestedScopes
    BY DEF RequestedScopes, ReadScopes
  <2>3. QED
    BY <2>1, <2>2, PartShared, PartScope, PartRead, PartMaybe, PartEmptyAnswer,
       PartSection, PartEither, PartJoin, PartWhole, WholeAnswer
       DEF eveMarketOrders, formatOrders
<1>9. Whole("eve_market_contracts", r, n, {"contracts"}, eveMarketContracts)
  <2>1. MayRead("eve_market_contracts", r, n, {"contracts"}, "contracts")
    BY PersonalReads, UndatedReads DEF CorpReads
  <2>2. "contracts.read_character_contracts" \in RequestedScopes
    BY DEF RequestedScopes, ReadScopes
  <2>3. QED
    BY <2>1, <2>2, PartShared, PartScope, PartRead, PartMaybe, PartEmptyAnswer,
       PartSection, PartEither, PartJoin, PartWhole, WholeAnswer
       DEF eveMarketContracts, formatContracts
<1>10. QED
    BY <1>1, <1>2, <1>3, <1>4, <1>5, <1>6, <1>7, <1>8, <1>9

LEMMA UniverseHandlers ==
    \A r, n :
      /\ Whole("eve_universe_search", r, n, {"search"}, eveUniverseSearch)
      /\ Whole("eve_universe_item", r, n, {}, eveUniverseItem)
      /\ Whole("eve_universe_system", r, n, {"system", "kills", "jumps"}, eveUniverseSystem)
      /\ Whole("eve_universe_route", r, n, {"route"}, eveUniverseRoute)
      /\ Whole("eve_universe_hotspots", r, n, {"kills"}, eveUniverseHotspots)
<1> SUFFICES ASSUME NEW r, NEW n
             PROVE  /\ Whole("eve_universe_search", r, n, {"search"}, eveUniverseSearch)
                    /\ Whole("eve_universe_item", r, n, {}, eveUniverseItem)
                    /\ Whole("eve_universe_system", r, n, {"system", "kills", "jumps"}, eveUniverseSystem)
                    /\ Whole("eve_universe_route", r, n, {"route"}, eveUniverseRoute)
                    /\ Whole("eve_universe_hotspots", r, n, {"kills"}, eveUniverseHotspots)
    OBVIOUS
<1>1. Whole("eve_universe_search", r, n, {"search"}, eveUniverseSearch)
  <2>1. /\ MayRead("eve_universe_search", r, n, {"search"}, "search")
        /\ MayRead("eve_universe_search", r, n, {"search"}, "search_wide")
    BY PersonalReads, UndatedReads DEF CorpReads
  <2>2. "search.search_structures" \in RequestedScopes
    BY DEF RequestedScopes, ReadScopes
  <2>3. \A x \in {Get("search"), Get("search_wide") \o Get("search")} :
          Part("eve_universe_search", r, n, {"search"}, x)
    BY <2>1, PartRead, PartJoin
  <2>4. Part("eve_universe_search", r, n, {"search"}, searchWithFallback)
    BY <2>3, PartEither DEF searchWithFallback
  <2>5. QED
    BY <2>2, <2>4, PartShared, PartScope, PartJoin, PartWhole, WholeAnswer
       DEF eveUniverseSearch
<1>2. Whole("eve_universe_item", r, n, {}, eveUniverseItem)
  <2>1. /\ MayRead("eve_universe_item", r, n, {}, "type")
        /\ MayRead("eve_universe_item", r, n, {}, "group")
        /\ MayRead("eve_universe_item", r, n, {}, "prices")
    BY PersonalReads, UndatedReads DEF CorpReads
  <2>2. QED
    BY <2>1, PartShared, PartRead, PartMaybe, PartEmptyAnswer, PartSection, PartEither,
       PartJoin, PartWhole, WholeAnswer DEF eveUniverseItem
<1>3. Whole("eve_universe_system", r, n, {"system", "kills", "jumps"}, eveUniverseSystem)
  <2>1. /\ MayRead("eve_universe_system", r, n, {"system", "kills", "jumps"}, "system")
        /\ MayRead("eve_universe_system", r, n, {"system", "kills", "jumps"}, "kills")
        /\ MayRead("eve_universe_system", r, n, {"system", "kills", "jumps"}, "jumps")
        /\ MayRead("eve_universe_system", r, n, {"system", "kills", "jumps"}, "constellation")
    BY PersonalReads, UndatedReads DEF CorpReads
  <2>2. QED
    BY <2>1, PartShared, PartRead, PartMaybe, PartEmptyAnswer, PartSection, PartEither,
       PartJoin, PartWhole, WholeAnswer
       DEF eveUniverseSystem, universeSystemLookups, universeRegionName
<1>4. Whole("eve_universe_route", r, n, {"route"}, eveUniverseRoute)
  <2>1. /\ MayRead("eve_universe_route", r, n, {"route"}, "route")
        /\ MayRead("eve_universe_route", r, n, {"route"}, "hop")
    BY PersonalReads, UndatedReads DEF CorpReads
  <2>2. QED
    BY <2>1, PartShared, PartRead, PartMaybe, PartEmptyAnswer, PartSection, PartEither,
       PartJoin, PartWhole, WholeAnswer DEF eveUniverseRoute, universeHopData
<1>5. Whole("eve_universe_hotspots", r, n, {"kills"}, eveUniverseHotspots)
  <2>1. MayRead("eve_universe_hotspots", r, n, {"kills"}, "kills")
    BY PersonalReads, UndatedReads DEF CorpReads
  <2>2. QED
    BY <2>1, PartShared, PartRead, PartMaybe, PartEmptyAnswer, PartSection, PartEither,
       PartJoin, PartWhole, WholeAnswer DEF eveUniverseHotspots
<1>6. QED
    BY <1>1, <1>2, <1>3, <1>4, <1>5

-----------------------------------------------------------------------------
(* The handlers that write: checks, the consent, mutations, the answer.     *)

LEMMA OneMutation ==
    \A t, r, n, F, a, x :
      t # "eve_corp_overview" /\ Part(t, r, n, F, a) /\ x \notin CorpReads
        => Whole(t, r, n, F, ((a \o Authorize) \o Mutation(x)) \o Done)
    BY PersonalRead, OpsMutation, AfterOps, ConsentWhole DEF Ops

LEMMA ContactOps ==
    \A r, n : Static(applyContactOps) /\ After(r, n, applyContactOps \o Done)
<1>1. SUFFICES ASSUME NEW r, NEW n
               PROVE  Static(applyContactOps) /\ After(r, n, applyContactOps \o Done)
    OBVIOUS
<1>2. DEFINE op == Mutation("contacts_write")
<1>3. Ops(r, n, op)
    BY PersonalRead, OpsMutation DEF CorpReads
<1>4. HIDE DEF op
<1>5. /\ Ops(r, n, <<>>) /\ Ops(r, n, op \o op) /\ Ops(r, n, op \o op \o op)
      /\ Ops(r, n, op \o op \o op \o op)
    BY <1>3, OpsEmpty, OpsJoin
<1>6. \A x \in {<<>>, op, op \o op, op \o op \o op, op \o op \o op \o op} : Ops(r, n, x)
    BY <1>3, <1>5
<1>7. QED
    BY <1>6, AfterEither DEF applyContactOps, op

LEMMA WritingHandlers ==
    \A r, n :
      /\ Whole("eve_mail_mark", r, n, {}, eveMailMark)
      /\ Whole("eve_mail_delete", r, n, {"mail_body"}, eveMailDelete)
      /\ Whole("eve_mail_send", r, n, {"cspa"}, eveMailSend)
      /\ Whole("eve_mail_compose", r, n, {}, eveMailCompose)
      /\ Whole("eve_contacts_set", r, n, {"contacts"}, eveContactsSet)
      /\ Whole("eve_contacts_delete", r, n, {}, eveContactsDelete)
      /\ Whole("eve_ui_set_waypoint", r, n, {"search"}, eveUISetWaypoint)
      /\ Whole("eve_ui_open_window", r, n, {}, eveUIOpenWindow)
      /\ Whole("eve_fitting_save", r, n, {}, eveFittingSave)
      /\ Whole("eve_fitting_delete", r, n, {"fittings"}, eveFittingDelete)
      /\ Whole("eve_calendar_respond", r, n, {"event"}, eveCalendarRespond)
<1> SUFFICES ASSUME NEW r, NEW n
             PROVE  /\ Whole("eve_mail_mark", r, n, {}, eveMailMark)
                    /\ Whole("eve_mail_delete", r, n, {"mail_body"}, eveMailDelete)
                    /\ Whole("eve_mail_send", r, n, {"cspa"}, eveMailSend)
                    /\ Whole("eve_mail_compose", r, n, {}, eveMailCompose)
                    /\ Whole("eve_contacts_set", r, n, {"contacts"}, eveContactsSet)
                    /\ Whole("eve_contacts_delete", r, n, {}, eveContactsDelete)
                    /\ Whole("eve_ui_set_waypoint", r, n, {"search"}, eveUISetWaypoint)
                    /\ Whole("eve_ui_open_window", r, n, {}, eveUIOpenWindow)
                    /\ Whole("eve_fitting_save", r, n, {}, eveFittingSave)
                    /\ Whole("eve_fitting_delete", r, n, {"fittings"}, eveFittingDelete)
                    /\ Whole("eve_calendar_respond", r, n, {"event"}, eveCalendarRespond)
    OBVIOUS
<1>1. Whole("eve_mail_mark", r, n, {}, eveMailMark)
  <2>1. Part("eve_mail_mark", r, n, {},
             Character)
    BY PartShared, PartJoin
  <2>2. "mail_mark" \notin CorpReads
    BY DEF CorpReads
  <2>3. QED
    BY <2>1, <2>2, OneMutation DEF eveMailMark
<1>2. Whole("eve_mail_delete", r, n, {"mail_body"}, eveMailDelete)
  <2>1. MayRead("eve_mail_delete", r, n, {"mail_body"}, "mail_body")
    BY PersonalReads DEF CorpReads
  <2>2. Part("eve_mail_delete", r, n, {"mail_body"},
             Character \o Get("mail_body") \o Names)
    BY <2>1, PartShared, PartRead, PartJoin
  <2>3. "mail_delete" \notin CorpReads
    BY DEF CorpReads
  <2>4. QED
    BY <2>2, <2>3, OneMutation DEF eveMailDelete
<1>3. Whole("eve_mail_send", r, n, {"cspa"}, eveMailSend)
  <2>1. MayRead("eve_mail_send", r, n, {"cspa"}, "cspa")
    BY PersonalReads DEF CorpReads
  <2>2. Part("eve_mail_send", r, n, {"cspa"},
             Character \o Args \o resolveMailRecipients \o priceCSPA \o Gate("approved_cost"))
    BY <2>1, PartShared, PartGate, PartRead, PartMaybe, PartJoin
       DEF resolveMailRecipients, priceCSPA
  <2>3. "mail_send" \notin CorpReads
    BY DEF CorpReads
  <2>4. QED
    BY <2>2, <2>3, OneMutation DEF eveMailSend
<1>4. Whole("eve_mail_compose", r, n, {}, eveMailCompose)
  <2>1. Part("eve_mail_compose", r, n, {},
             Args \o Character \o resolveComposeRecipients)
    BY PartShared, PartMaybe, PartJoin
       DEF resolveComposeRecipients, resolveMailRecipients
  <2>2. "open_newmail" \notin CorpReads
    BY DEF CorpReads
  <2>3. QED
    BY <2>1, <2>2, OneMutation DEF eveMailCompose
<1>5. Whole("eve_contacts_set", r, n, {"contacts"}, eveContactsSet)
  <2>1. MayRead("eve_contacts_set", r, n, {"contacts"}, "contacts")
    BY PersonalReads DEF CorpReads
  <2>2. Part("eve_contacts_set", r, n, {"contacts"},
             Character \o resolveContacts \o Get("contacts"))
    BY <2>1, PartShared, PartRead, PartMaybe, PartJoin DEF resolveContacts
  <2>3. QED
    BY <2>2, ContactOps, ConsentWhole DEF eveContactsSet
<1>6. Whole("eve_contacts_delete", r, n, {}, eveContactsDelete)
  <2>1. Part("eve_contacts_delete", r, n, {},
             Character \o resolveContacts)
    BY PartShared, PartMaybe, PartJoin DEF resolveContacts
  <2>2. "contacts_delete" \notin CorpReads
    BY DEF CorpReads
  <2>3. QED
    BY <2>1, <2>2, OneMutation DEF eveContactsDelete
<1>7. Whole("eve_ui_set_waypoint", r, n, {"search"}, eveUISetWaypoint)
  <2>1. MayRead("eve_ui_set_waypoint", r, n, {"search"}, "search")
    BY PersonalReads DEF CorpReads
  <2>2. Part("eve_ui_set_waypoint", r, n, {"search"},
             Character \o resolveDestination)
    BY <2>1, PartShared, PartRead, PartMaybe, PartJoin DEF resolveDestination
  <2>3. "waypoint" \notin CorpReads
    BY DEF CorpReads
  <2>4. QED
    BY <2>2, <2>3, OneMutation DEF eveUISetWaypoint
<1>8. Whole("eve_ui_open_window", r, n, {}, eveUIOpenWindow)
  <2>1. \A x \in {Names, ResolveNames} : Part("eve_ui_open_window", r, n, {}, x)
    BY PartShared
  <2>2. \A x \in {planContractWindow, resolveEntity} : Part("eve_ui_open_window", r, n, {}, x)
    BY <2>1, PartShared, PartEither DEF planContractWindow, resolveEntity
  <2>3. Part("eve_ui_open_window", r, n, {},
             Args \o Character \o planOpenWindow)
    BY <2>2, PartShared, PartEither, PartMaybe, PartJoin DEF planOpenWindow
  <2>4. "open_window" \notin CorpReads
    BY DEF CorpReads
  <2>5. QED
    BY <2>3, <2>4, OneMutation DEF eveUIOpenWindow
<1>9. Whole("eve_fitting_save", r, n, {}, eveFittingSave)
  <2>1. Part("eve_fitting_save", r, n, {},
             Character \o resolveFittingModules)
    BY PartShared, PartMaybe, PartJoin DEF resolveFittingModules
  <2>2. "fitting_save" \notin CorpReads
    BY DEF CorpReads
  <2>3. QED
    BY <2>1, <2>2, OneMutation DEF eveFittingSave
<1>10. Whole("eve_fitting_delete", r, n, {"fittings"}, eveFittingDelete)
  <2>1. MayRead("eve_fitting_delete", r, n, {"fittings"}, "fittings")
    BY PersonalReads DEF CorpReads
  <2>2. Part("eve_fitting_delete", r, n, {"fittings"},
             Character \o Get("fittings") \o Unresolved)
    BY <2>1, PartShared, PartRead, PartJoin
  <2>3. "fitting_delete" \notin CorpReads
    BY DEF CorpReads
  <2>4. QED
    BY <2>2, <2>3, OneMutation DEF eveFittingDelete
<1>11. Whole("eve_calendar_respond", r, n, {"event"}, eveCalendarRespond)
  <2>1. MayRead("eve_calendar_respond", r, n, {"event"}, "event")
    BY PersonalReads DEF CorpReads
  <2>2. Part("eve_calendar_respond", r, n, {"event"},
             Args \o Character \o Get("event"))
    BY <2>1, PartShared, PartRead, PartJoin
  <2>3. "calendar_respond" \notin CorpReads
    BY DEF CorpReads
  <2>4. QED
    BY <2>2, <2>3, OneMutation DEF eveCalendarRespond
<1>12. QED
    BY <1>1, <1>2, <1>3, <1>4, <1>5, <1>6, <1>7, <1>8, <1>9, <1>10, <1>11

-----------------------------------------------------------------------------
(* The wallet's two sections have ages of their own.                        *)

LEMMA WalletHandler ==
    \A r, n : Whole("eve_wallet_history", r, n, {}, walletHistory)
<1>1. SUFFICES ASSUME NEW r, NEW n
               PROVE  Whole("eve_wallet_history", r, n, {}, walletHistory)
    OBVIOUS
<1>2. DEFINE Fits(G, p) == Whole("eve_wallet_history", r, n, G, p)
             May(G, x) == MayRead("eve_wallet_history", r, n, G, x)
             j == journalSection \o summarizeJournal
             t == transactionSection("transactions") \o summarizeTransactions
                    \o Answer({"transactions"})
             b == journalSection \o transactionSection("transactions")
                    \o summarizeTransactions \o Answer({})
<1>3. Fits({"journal"}, j)
  <2>1. May({"journal"}, "journal")
    BY PersonalReads DEF CorpReads
  <2>2. Fits({"journal"}, Answer({"journal"})) /\ Fits({"journal"}, Answer({}))
    BY WholeAnswer
  <2>3. \A x \in {Answer({"journal"}), Answer({})} :
          \E G : {"journal"} \subseteq G /\ Fits(G, x)
    BY <2>2
  <2>4. Fits({"journal"}, summarizeJournal)
    BY <2>3, WholeEither DEF summarizeJournal
  <2>5. QED
    BY <2>1, <2>4, PartRead, PartWhole DEF journalSection
<1>4. Fits({"transactions"}, t)
  <2>1. May({"transactions"}, "transactions")
    BY PersonalReads DEF CorpReads
  <2>2. QED
    BY <2>1, PartShared, PartRead, PartMaybe, PartJoin, PartWhole, WholeAnswer
       DEF transactionSection, summarizeTransactions
<1>5. Fits({"journal", "transactions"}, b)
  <2>1. /\ May({"journal", "transactions"}, "journal")
        /\ May({"journal", "transactions"}, "transactions")
    BY PersonalReads DEF CorpReads
  <2>2. QED
    BY <2>1, PartShared, PartRead, PartMaybe, PartJoin, PartWhole, WholeAnswer
       DEF journalSection, transactionSection, summarizeTransactions
<1>6. "wallet.read_character_wallet" \in RequestedScopes
    BY DEF RequestedScopes, ReadScopes
<1>7. \A x \in {j, t, b} : \E G : {} \subseteq G /\ Fits(G, x)
  <2>1. HIDE DEF j, t, b, Fits
  <2>2. QED
    BY <1>3, <1>4, <1>5
<1>8. Fits({}, Either({j, t, b}))
  <2>1. HIDE DEF j, t, b
  <2>2. QED
    BY <1>7, WholeEither
<1>9. QED
    BY <1>6, <1>8, PartShared, PartScope, PartJoin, PartWhole DEF walletHistory

-----------------------------------------------------------------------------
(* The roles of the corporation's tools are the ones that CCP asks for.     *)

LEMMA CorpRoles ==
    /\ corpRole("assets") = {"Director"} /\ corpRole("blueprints") = {"Director"}
    /\ corpRole("killmails") = {"Director"} /\ corpRole("divisions") = {"Director"}
    /\ corpRole("wallets") = {"Accountant", "Junior_Accountant"}
    /\ corpRole("jobs") = {"Factory_Manager"} /\ corpRole("orders") = {"Accountant", "Trader"}
    /\ corpRole("structures") = {"Station_Manager"}
    /\ corpRole("mining_extractions") = {"Station_Manager"}
    /\ corpRole("mining_ledger") = {"Accountant"}
    BY DEF corpRole

LEMMA CCPRolesAre ==
    /\ CCPRoles["corp_assets"] = {"Director"} /\ CCPRoles["corp_blueprints"] = {"Director"}
    /\ CCPRoles["corp_killmails"] = {"Director"} /\ CCPRoles["divisions"] = {"Director"}
    /\ CCPRoles["member_roles"] = {"Director"}
    /\ CCPRoles["corp_wallets"] = {"Director", "Accountant", "Junior_Accountant"}
    /\ CCPRoles["corp_journal"] = {"Director", "Accountant", "Junior_Accountant"}
    /\ CCPRoles["corp_transactions"] = {"Director", "Accountant", "Junior_Accountant"}
    /\ CCPRoles["corp_jobs"] = {"Director", "Factory_Manager"}
    /\ CCPRoles["corp_orders"] = {"Director", "Accountant", "Trader"}
    /\ CCPRoles["structures"] = {"Director", "Station_Manager"}
    /\ CCPRoles["extractions"] = {"Director", "Station_Manager"}
    /\ CCPRoles["observers"] = {"Director", "Accountant"}
    /\ CCPRoles["observer"] = {"Director", "Accountant"}
    /\ CCPRoles["corp_contracts"] = {"everyone"} /\ CCPRoles["members"] = {"everyone"}
    BY DEF CCPRoles, Everyone

(* Of a player's corporation, CCP grants a read to the Director and to the  *)
(* roles the tool asks for, and to no one else.                             *)
Serves(x, q) ==
    \A r : Grants(x, r, FALSE) <=> HasRole(r, corpRole(q))

LEMMA RolesServe ==
    /\ Serves("corp_assets", "assets") /\ Serves("corp_blueprints", "blueprints")
    /\ Serves("corp_killmails", "killmails") /\ Serves("divisions", "divisions")
    /\ Serves("member_roles", "divisions")
    /\ Serves("corp_wallets", "wallets") /\ Serves("corp_journal", "wallets")
    /\ Serves("corp_transactions", "wallets") /\ Serves("corp_jobs", "jobs")
    /\ Serves("corp_orders", "orders") /\ Serves("structures", "structures")
    /\ Serves("extractions", "mining_extractions")
    /\ Serves("observers", "mining_ledger") /\ Serves("observer", "mining_ledger")
<1>1. \A x \in CorpReads : \A r :
        Grants(x, r, FALSE) <=> (r \cup {"everyone"}) \cap CCPRoles[x] # {}
    BY CorpReadsAre DEF Grants, Everyone
<1>2. ASSUME NEW x \in CorpReads, NEW q, NEW R,
             corpRole(q) = R, CCPRoles[x] = {"Director"} \cup R, "everyone" \notin R
      PROVE  Serves(x, q)
  <2>1. SUFFICES ASSUME NEW r
                 PROVE  Grants(x, r, FALSE) <=> HasRole(r, corpRole(q))
    BY DEF Serves
  <2>2. Grants(x, r, FALSE) <=> \E a \in CCPRoles[x] : a \in r \cup {"everyone"}
    BY <1>1, <1>2
  <2>3. HasRole(r, corpRole(q)) <=> "Director" \in r \/ \E a \in R : a \in r
    BY <1>2 DEF HasRole
  <2>4. "Director" # "everyone"
    OBVIOUS
  <2>5. QED
    BY <1>2, <2>2, <2>3, <2>4
<1>3. ASSUME NEW x \in CorpReads, NEW q,
             corpRole(q) = {"Director"}, CCPRoles[x] = {"Director"}
      PROVE  Serves(x, q)
    BY <1>2, <1>3
<1>4. \A x \in {"corp_assets", "corp_blueprints", "corp_killmails", "divisions",
                "member_roles", "corp_wallets", "corp_journal", "corp_transactions",
                "corp_jobs", "corp_orders", "structures", "extractions", "observers",
                "observer"} : x \in CorpReads
    BY DEF CorpReads
<1>5. /\ Serves("corp_assets", "assets") /\ Serves("corp_blueprints", "blueprints")
      /\ Serves("corp_killmails", "killmails") /\ Serves("divisions", "divisions")
      /\ Serves("member_roles", "divisions")
    BY <1>3, <1>4, CorpRoles, CCPRolesAre
<1>6. /\ Serves("corp_wallets", "wallets") /\ Serves("corp_journal", "wallets")
      /\ Serves("corp_transactions", "wallets")
  <2>1. {"Director", "Accountant", "Junior_Accountant"}
        = {"Director"} \cup {"Accountant", "Junior_Accountant"}
    OBVIOUS
  <2>2. QED
    BY <2>1, <1>2, <1>4, CorpRoles, CCPRolesAre
<1>7. Serves("corp_jobs", "jobs")
  <2>1. {"Director", "Factory_Manager"} = {"Director"} \cup {"Factory_Manager"}
    OBVIOUS
  <2>2. QED
    BY <2>1, <1>2, <1>4, CorpRoles, CCPRolesAre
<1>8. Serves("corp_orders", "orders")
  <2>1. {"Director", "Accountant", "Trader"} = {"Director"} \cup {"Accountant", "Trader"}
    OBVIOUS
  <2>2. QED
    BY <2>1, <1>2, <1>4, CorpRoles, CCPRolesAre
<1>9. Serves("structures", "structures") /\ Serves("extractions", "mining_extractions")
  <2>1. {"Director", "Station_Manager"} = {"Director"} \cup {"Station_Manager"}
    OBVIOUS
  <2>2. QED
    BY <2>1, <1>2, <1>4, CorpRoles, CCPRolesAre
<1>10. Serves("observers", "mining_ledger") /\ Serves("observer", "mining_ledger")
  <2>1. {"Director", "Accountant"} = {"Director"} \cup {"Accountant"}
    OBVIOUS
  <2>2. QED
    BY <2>1, <1>2, <1>4, CorpRoles, CCPRolesAre
<1>11. QED
    BY <1>5, <1>6, <1>7, <1>8, <1>9, <1>10

(* Every member may see the contracts and the members.                      *)
LEMMA EveryoneServed ==
    \A r : Grants("corp_contracts", r, FALSE) /\ Grants("members", r, FALSE)
    BY CCPRolesAre DEF Grants, Everyone

(* An NPC corporation grants nothing of what a tool is about.               *)
LEMMA NPCGrantsNone ==
    \A x, r : x \in CorpReads => ~Grants(x, r, TRUE)
    BY CorpReadsAre DEF Grants

LEMMA AboutCorp ==
    /\ DOMAIN About = {"eve_corp_assets_list", "eve_corp_assets_find", "eve_corp_blueprints",
                       "eve_corp_wallet", "eve_corp_industry_jobs", "eve_corp_orders",
                       "eve_corp_contracts", "eve_corp_killmails", "eve_corp_structures",
                       "eve_corp_members", "eve_corp_mining"}
    /\ About["eve_corp_assets_list"] = {"corp_assets"}
    /\ About["eve_corp_assets_find"] = {"corp_assets"}
    /\ About["eve_corp_blueprints"] = {"corp_blueprints"}
    /\ About["eve_corp_wallet"] = {"corp_wallets", "corp_journal", "corp_transactions"}
    /\ About["eve_corp_industry_jobs"] = {"corp_jobs"}
    /\ About["eve_corp_orders"] = {"corp_orders"}
    /\ About["eve_corp_contracts"] = {"corp_contracts"}
    /\ About["eve_corp_killmails"] = {"corp_killmails"}
    /\ About["eve_corp_structures"] = {"structures"}
    /\ About["eve_corp_members"] = {"members"}
    /\ About["eve_corp_mining"] = {"extractions", "observers"}
    BY DEF About

-----------------------------------------------------------------------------
(* The gate of the corporation's tools.                                     *)

LEMMA AboutTools == DOMAIN About \subseteq DOMAIN CorpTools
    BY DEF About, CorpTools

LEMMA CorpScopes ==
    /\ corpScope["assets"] \in RequestedScopes /\ corpScope["blueprints"] \in RequestedScopes
    /\ corpScope["wallets"] \in RequestedScopes /\ corpScope["jobs"] \in RequestedScopes
    /\ corpScope["mining"] \in RequestedScopes /\ corpScope["orders"] \in RequestedScopes
    /\ corpScope["contracts"] \in RequestedScopes
    /\ corpScope["killmails"] \in RequestedScopes
    /\ corpScope["structures"] \in RequestedScopes
    /\ corpScope["members"] \in RequestedScopes
    BY DEF corpScope, RequestedScopes, CorpReadScopes

LEMMA PartResolved ==
    \A t, r, n, F : t \in DOMAIN CorpTools => Part(t, r, n, F, ResolveCorporation)
<1>1. SUFFICES ASSUME NEW t, NEW r, NEW n, NEW F, t \in DOMAIN CorpTools
               PROVE  Part(t, r, n, F, ResolveCorporation)
    OBVIOUS
<1>2. /\ MayRead(t, r, n, F, "sheet") /\ MayRead(t, r, n, F, "corporation")
      /\ MayRead(t, r, n, F, "own_roles")
    BY <1>1, PersonalReads, UndatedReads DEF CorpReads
<1>3. Part(t, r, n, F, Gate("corporation"))
    BY PartGate
<1>4. QED
    BY <1>2, <1>3, PartShared, PartRead, PartJoin DEF ResolveCorporation

LEMMA OpenCorpPart ==
    \A t, r, F, k, q :
      t \in DOMAIN CorpTools /\ corpScope[k] \in RequestedScopes
        /\ (q = "" \/ HasRole(r, corpRole(q)))
        => Part(t, r, FALSE, F, openCorp(k, q))
<1>1. SUFFICES ASSUME NEW t, NEW r, NEW F, NEW k, NEW q, t \in DOMAIN CorpTools,
                      corpScope[k] \in RequestedScopes, q = "" \/ HasRole(r, corpRole(q))
               PROVE  Part(t, r, FALSE, F, openCorp(k, q))
    OBVIOUS
<1>2. DEFINE p == ResolveCorporation \o PlayerCorp \o Scope(corpScope[k])
             g == IF q = "" THEN <<>> ELSE Role(corpRole(q))
<1>3. Part(t, r, FALSE, F, p)
    BY <1>1, PartResolved, PartPlayerCorp, PartScope, PartJoin
<1>4. Part(t, r, FALSE, F, g)
    BY <1>1, PartEmpty, PartRole
<1>5. Part(t, r, FALSE, F, p \o g)
    BY <1>3, <1>4, PartJoin
<1>6. QED
    BY <1>5 DEF openCorp

LEMMA StaticGates ==
    \A x : Static(Scope(x)) /\ Static(Role(x)) /\ Static(PlayerCorp) /\ Static(Gate(x))
<1>1. SUFFICES ASSUME NEW x
               PROVE  Static(Scope(x)) /\ Static(Role(x)) /\ Static(PlayerCorp)
                      /\ Static(Gate(x))
    OBVIOUS
<1>2. Static(Scope(x)) /\ Static(Role(x))
    BY StaticStep DEF Scope, Role
<1>3. Static(PlayerCorp) /\ Static(Gate(x))
    BY StaticStep DEF PlayerCorp, Gate
<1>4. QED
    BY <1>2, <1>3

(* The part of openCorp that is before the role.                            *)
LEMMA PlayerCorpStops ==
    \A t, r : t \in DOMAIN About => Stopped(t, r, TRUE, ResolveCorporation \o PlayerCorp)
<1>1. SUFFICES ASSUME NEW t, NEW r, t \in DOMAIN About
               PROVE  Stopped(t, r, TRUE, ResolveCorporation \o PlayerCorp)
    OBVIOUS
<1>2. Stops(t, r, TRUE, [do |-> "npc"])
    BY <1>1 DEF Stops
<1>3. Stopped(t, r, TRUE, PlayerCorp)
    BY <1>2, StoppedHere DEF PlayerCorp
<1>4. QED
    BY <1>1, <1>3, AboutTools, PartResolved, StoppedAfter

LEMMA RoleStops ==
    \A t, r, n, any :
      /\ t \in DOMAIN About /\ ~HasRole(r, any) /\ \A x \in About[t] : ~Grants(x, r, n)
      => Stopped(t, r, n, Role(any))
<1>1. SUFFICES ASSUME NEW t, NEW r, NEW n, NEW any, t \in DOMAIN About,
                      ~HasRole(r, any), \A x \in About[t] : ~Grants(x, r, n)
               PROVE  Stopped(t, r, n, Role(any))
    OBVIOUS
<1>2. Stops(t, r, n, [do |-> "role", any |-> any])
    BY <1>1 DEF Stops
<1>3. QED
    BY <1>2, StoppedHere DEF Role

LEMMA OpenCorpStops ==
    \A t, r, k, q :
      t \in DOMAIN About /\ corpScope[k] \in RequestedScopes =>
        /\ Stopped(t, r, TRUE, openCorp(k, q))
        /\ q # "" /\ ~HasRole(r, corpRole(q)) /\ (\A x \in About[t] : ~Grants(x, r, FALSE))
             => Stopped(t, r, FALSE, openCorp(k, q))
<1>1. SUFFICES ASSUME NEW t, NEW r, NEW k, NEW q,
                      t \in DOMAIN About, corpScope[k] \in RequestedScopes
               PROVE  /\ Stopped(t, r, TRUE, openCorp(k, q))
                      /\ /\ q # "" /\ ~HasRole(r, corpRole(q))
                         /\ \A x \in About[t] : ~Grants(x, r, FALSE)
                         => Stopped(t, r, FALSE, openCorp(k, q))
    OBVIOUS
<1>2. DEFINE p == ResolveCorporation \o PlayerCorp \o Scope(corpScope[k])
             g == IF q = "" THEN <<>> ELSE Role(corpRole(q))
<1>3. Static(g)
    BY StaticEmpty, StaticGates
<1>4. Stopped(t, r, TRUE, p)
    BY <1>1, PlayerCorpStops, StaticGates, StoppedBefore
<1>5. Stopped(t, r, TRUE, p \o g)
    BY <1>3, <1>4, StoppedBefore
<1>6. ASSUME q # "", ~HasRole(r, corpRole(q)), \A x \in About[t] : ~Grants(x, r, FALSE)
      PROVE  Stopped(t, r, FALSE, p \o g)
  <2>1. Part(t, r, FALSE, {}, p)
    BY <1>1, AboutTools, PartResolved, PartPlayerCorp, PartScope, PartJoin
  <2>2. Stopped(t, r, FALSE, g)
    BY <1>1, <1>6, RoleStops
  <2>3. QED
    BY <2>1, <2>2, StoppedAfter
<1>7. QED
    BY <1>5, <1>6 DEF openCorp

(* What comes after the gate has no end of a section in it yet.             *)
LEMMA StaticRead ==
    \A x : /\ Static(Get(x)) /\ Static(Try(x)) /\ Static(Answer(x))
           /\ Static(AnswerLedger(x)) /\ Static(Either(x)) /\ Static(Maybe(x))
           /\ Static(UpToTwo(x)) /\ Static(EmptyAnswer(x)) /\ Static(ListTools)
           /\ Static(Names) /\ Static(ReferencePrices)
<1>1. \A x : Static(Get(x)) /\ Static(Try(x))
    BY StaticStep DEF Get, Try
<1>2. \A x : Static(Answer(x)) /\ Static(AnswerLedger(x)) /\ Static(ListTools)
    BY StaticStep DEF Answer, AnswerLedger, ListTools
<1>3. \A x : Static(Either(x))
    BY StaticStep DEF Either
<1>4. \A x : Static(Maybe(x)) /\ Static(UpToTwo(x)) /\ Static(EmptyAnswer(x))
    BY <1>3 DEF Maybe, UpToTwo, EmptyAnswer
<1>5. Static(Names) /\ Static(ReferencePrices)
    BY <1>1 DEF Names, ReferencePrices
<1>6. QED
    BY <1>1, <1>2, <1>3, <1>4, <1>5

LEMMA StaticBranch ==
    \A c, any, x, p : Static(IfCan(c, any, p)) /\ Static(IfRole(any, p))
                      /\ Static(Section(x, p)) /\ Static(IfNPC(p))
<1>1. \A c, any, p : Static(IfCan(c, any, p)) /\ Static(IfRole(any, p))
    BY StaticStep DEF IfCan, IfRole
<1>2. \A x, p : Static(Section(x, p)) /\ Static(IfNPC(p))
    BY StaticStep DEF Section, IfNPC
<1>3. QED
    BY <1>1, <1>2

(* The tools that name the divisions they answer of.                        *)
DivisionTools ==
    {"eve_corp_overview", "eve_corp_assets_list", "eve_corp_assets_find",
     "eve_corp_blueprints", "eve_corp_wallet", "eve_corp_orders"}

LEMMA DivisionToolsAre ==
    /\ "eve_corp_overview" \in DivisionTools /\ "eve_corp_assets_list" \in DivisionTools
    /\ "eve_corp_assets_find" \in DivisionTools /\ "eve_corp_blueprints" \in DivisionTools
    /\ "eve_corp_wallet" \in DivisionTools /\ "eve_corp_orders" \in DivisionTools
    BY DEF DivisionTools

LEMMA Divisions ==
    /\ \A t, r, F : t \in DivisionTools => Part(t, r, FALSE, F, corpDivisions)
    /\ Static(corpDivisions)
<1>1. ASSUME NEW t, NEW r, NEW F, t \in DivisionTools
      PROVE  Part(t, r, FALSE, F, corpDivisions)
  <2>1. HasRole(r, corpRole("divisions")) => MayRead(t, r, FALSE, F, "divisions")
    BY <1>1, RolesServe, UndatedReads DEF Serves, MayRead, DivisionTools
  <2>2. QED
    BY <2>1, PartRead, PartIf DEF corpDivisions, corpCan
<1>2. Static(corpDivisions)
    BY StaticBranch DEF corpDivisions, corpCan
<1>3. QED
    BY <1>1, <1>2

(* Whatever the corporation has granted, and of an NPC one.                 *)
CorpWorlds(t, p) ==
    \A r : (\E F : Whole(t, r, FALSE, F, p)) /\ (\E F : Whole(t, r, TRUE, F, p))

LEMMA CorpHandlers ==
    /\ CorpWorlds("eve_corp_assets_list", eveCorpAssetsList)
    /\ CorpWorlds("eve_corp_assets_find", eveCorpAssetsFind)
    /\ CorpWorlds("eve_corp_blueprints", eveCorpBlueprints)
    /\ CorpWorlds("eve_corp_orders", eveCorpOrders)
    /\ CorpWorlds("eve_corp_killmails", eveCorpKillmails)
    /\ CorpWorlds("eve_corp_structures", eveCorpStructures)
    /\ CorpWorlds("eve_corp_industry_jobs", eveCorpIndustryJobs)
    /\ CorpWorlds("eve_corp_contracts", eveCorpContracts)
    /\ CorpWorlds("eve_corp_members", eveCorpMembers)
<1>1. CorpWorlds("eve_corp_assets_list", eveCorpAssetsList)
  <2>1. SUFFICES ASSUME NEW r
                 PROVE  /\ \E F : Whole("eve_corp_assets_list", r, FALSE, F, eveCorpAssetsList)
                        /\ \E F : Whole("eve_corp_assets_list", r, TRUE, F, eveCorpAssetsList)
    BY DEF CorpWorlds
  <2>2. "eve_corp_assets_list" \in DOMAIN About /\ corpScope["assets"] \in RequestedScopes
    BY AboutCorp, CorpScopes
  <2>3. Stopped("eve_corp_assets_list", r, TRUE, eveCorpAssetsList)
    BY <2>2, OpenCorpStops, PartShared, StoppedAfter, StoppedBefore, StaticRead,
       Divisions DEF eveCorpAssetsList
  <2>4. ASSUME ~HasRole(r, corpRole("assets"))
        PROVE  Stopped("eve_corp_assets_list", r, FALSE, eveCorpAssetsList)
    <3>1. \A x \in About["eve_corp_assets_list"] : ~Grants(x, r, FALSE)
      BY <2>4, AboutCorp, RolesServe DEF Serves
    <3>2. Stopped("eve_corp_assets_list", r, FALSE, openCorp("assets", "assets"))
      BY <2>2, <2>4, <3>1, OpenCorpStops
    <3>3. QED
      BY <3>2, PartShared, StoppedAfter, StoppedBefore, StaticRead, Divisions
         DEF eveCorpAssetsList
  <2>5. ASSUME HasRole(r, corpRole("assets"))
        PROVE  Whole("eve_corp_assets_list", r, FALSE, {"corp_assets"}, eveCorpAssetsList)
    <3>1. MayRead("eve_corp_assets_list", r, FALSE, {"corp_assets"}, "corp_assets")
      BY <2>5, RolesServe DEF Serves, MayRead
    <3>2. Part("eve_corp_assets_list", r, FALSE, {"corp_assets"}, openCorp("assets", "assets"))
      BY <2>2, <2>5, OpenCorpPart, AboutTools
    <3>prices. Part("eve_corp_assets_list", r, FALSE, {"corp_assets"}, ReferencePrices)
      BY PartPrices, PricingToolsAre
    <3>divisions. Part("eve_corp_assets_list", r, FALSE, {"corp_assets"}, corpDivisions)
      BY Divisions, DivisionToolsAre
    <3>3. QED
      BY <3>1, <3>2, <3>divisions, <3>prices, PartShared, PartRead, PartMaybe,
         PartEmptyAnswer, PartJoin, PartWhole, WholeAnswer DEF eveCorpAssetsList
  <2>6. QED
    BY <2>3, <2>4, <2>5, StoppedWhole
<1>2. CorpWorlds("eve_corp_assets_find", eveCorpAssetsFind)
  <2>1. SUFFICES ASSUME NEW r
                 PROVE  /\ \E F : Whole("eve_corp_assets_find", r, FALSE, F, eveCorpAssetsFind)
                        /\ \E F : Whole("eve_corp_assets_find", r, TRUE, F, eveCorpAssetsFind)
    BY DEF CorpWorlds
  <2>2. "eve_corp_assets_find" \in DOMAIN About /\ corpScope["assets"] \in RequestedScopes
    BY AboutCorp, CorpScopes
  <2>3. Stopped("eve_corp_assets_find", r, TRUE, eveCorpAssetsFind)
    BY <2>2, OpenCorpStops, PartShared, StoppedAfter, StoppedBefore, StaticRead,
       Divisions DEF eveCorpAssetsFind
  <2>4. ASSUME ~HasRole(r, corpRole("assets"))
        PROVE  Stopped("eve_corp_assets_find", r, FALSE, eveCorpAssetsFind)
    <3>1. \A x \in About["eve_corp_assets_find"] : ~Grants(x, r, FALSE)
      BY <2>4, AboutCorp, RolesServe DEF Serves
    <3>2. Stopped("eve_corp_assets_find", r, FALSE, openCorp("assets", "assets"))
      BY <2>2, <2>4, <3>1, OpenCorpStops
    <3>3. QED
      BY <3>2, PartShared, StoppedAfter, StoppedBefore, StaticRead, Divisions
         DEF eveCorpAssetsFind
  <2>5. ASSUME HasRole(r, corpRole("assets"))
        PROVE  Whole("eve_corp_assets_find", r, FALSE, {"corp_assets"}, eveCorpAssetsFind)
    <3>1. MayRead("eve_corp_assets_find", r, FALSE, {"corp_assets"}, "corp_assets")
      BY <2>5, RolesServe DEF Serves, MayRead
    <3>2. Part("eve_corp_assets_find", r, FALSE, {"corp_assets"}, openCorp("assets", "assets"))
      BY <2>2, <2>5, OpenCorpPart, AboutTools
    <3>prices. Part("eve_corp_assets_find", r, FALSE, {"corp_assets"}, ReferencePrices)
      BY PartPrices, PricingToolsAre
    <3>divisions. Part("eve_corp_assets_find", r, FALSE, {"corp_assets"}, corpDivisions)
      BY Divisions, DivisionToolsAre
    <3>3. QED
      BY <3>1, <3>2, <3>divisions, <3>prices, PartShared, PartRead, PartMaybe,
         PartEmptyAnswer, PartJoin, PartWhole, WholeAnswer DEF eveCorpAssetsFind
  <2>6. QED
    BY <2>3, <2>4, <2>5, StoppedWhole
<1>3. CorpWorlds("eve_corp_blueprints", eveCorpBlueprints)
  <2>1. SUFFICES ASSUME NEW r
                 PROVE  /\ \E F : Whole("eve_corp_blueprints", r, FALSE, F, eveCorpBlueprints)
                        /\ \E F : Whole("eve_corp_blueprints", r, TRUE, F, eveCorpBlueprints)
    BY DEF CorpWorlds
  <2>2. "eve_corp_blueprints" \in DOMAIN About /\ corpScope["blueprints"] \in RequestedScopes
    BY AboutCorp, CorpScopes
  <2>3. Stopped("eve_corp_blueprints", r, TRUE, eveCorpBlueprints)
    BY <2>2, OpenCorpStops, PartShared, StoppedAfter, StoppedBefore, StaticRead,
       Divisions, StaticJoin DEF eveCorpBlueprints, corpBlueprintNames
  <2>4. ASSUME ~HasRole(r, corpRole("blueprints"))
        PROVE  Stopped("eve_corp_blueprints", r, FALSE, eveCorpBlueprints)
    <3>1. \A x \in About["eve_corp_blueprints"] : ~Grants(x, r, FALSE)
      BY <2>4, AboutCorp, RolesServe DEF Serves
    <3>2. Stopped("eve_corp_blueprints", r, FALSE, openCorp("blueprints", "blueprints"))
      BY <2>2, <2>4, <3>1, OpenCorpStops
    <3>3. QED
      BY <3>2, PartShared, StoppedAfter, StoppedBefore, StaticRead, Divisions,
         StaticJoin DEF eveCorpBlueprints, corpBlueprintNames
  <2>5. ASSUME HasRole(r, corpRole("blueprints"))
        PROVE  Whole("eve_corp_blueprints", r, FALSE, {"corp_blueprints"}, eveCorpBlueprints)
    <3>1. MayRead("eve_corp_blueprints", r, FALSE, {"corp_blueprints"}, "corp_blueprints")
      BY <2>5, RolesServe DEF Serves, MayRead
    <3>2. Part("eve_corp_blueprints", r, FALSE, {"corp_blueprints"}, openCorp("blueprints", "blueprints"))
      BY <2>2, <2>5, OpenCorpPart, AboutTools
    <3>divisions. Part("eve_corp_blueprints", r, FALSE, {"corp_blueprints"}, corpDivisions)
      BY Divisions, DivisionToolsAre
    <3>3. QED
      BY <3>1, <3>2, <3>divisions, PartShared, PartRead, PartMaybe, PartEmptyAnswer,
         PartJoin, PartWhole, WholeAnswer DEF eveCorpBlueprints, corpBlueprintNames
  <2>6. QED
    BY <2>3, <2>4, <2>5, StoppedWhole
<1>4. CorpWorlds("eve_corp_orders", eveCorpOrders)
  <2>1. SUFFICES ASSUME NEW r
                 PROVE  /\ \E F : Whole("eve_corp_orders", r, FALSE, F, eveCorpOrders)
                        /\ \E F : Whole("eve_corp_orders", r, TRUE, F, eveCorpOrders)
    BY DEF CorpWorlds
  <2>2. "eve_corp_orders" \in DOMAIN About /\ corpScope["orders"] \in RequestedScopes
    BY AboutCorp, CorpScopes
  <2>3. Stopped("eve_corp_orders", r, TRUE, eveCorpOrders)
    BY <2>2, OpenCorpStops, PartShared, StoppedAfter, StoppedBefore, StaticRead,
       Divisions, StaticJoin DEF eveCorpOrders, formatOrders
  <2>4. ASSUME ~HasRole(r, corpRole("orders"))
        PROVE  Stopped("eve_corp_orders", r, FALSE, eveCorpOrders)
    <3>1. \A x \in About["eve_corp_orders"] : ~Grants(x, r, FALSE)
      BY <2>4, AboutCorp, RolesServe DEF Serves
    <3>2. Stopped("eve_corp_orders", r, FALSE, openCorp("orders", "orders"))
      BY <2>2, <2>4, <3>1, OpenCorpStops
    <3>3. QED
      BY <3>2, PartShared, StoppedAfter, StoppedBefore, StaticRead, Divisions,
         StaticJoin DEF eveCorpOrders, formatOrders
  <2>5. ASSUME HasRole(r, corpRole("orders"))
        PROVE  Whole("eve_corp_orders", r, FALSE, {"corp_orders"}, eveCorpOrders)
    <3>1. MayRead("eve_corp_orders", r, FALSE, {"corp_orders"}, "corp_orders")
      BY <2>5, RolesServe DEF Serves, MayRead
    <3>2. Part("eve_corp_orders", r, FALSE, {"corp_orders"}, openCorp("orders", "orders"))
      BY <2>2, <2>5, OpenCorpPart, AboutTools
    <3>divisions. Part("eve_corp_orders", r, FALSE, {"corp_orders"}, corpDivisions)
      BY Divisions, DivisionToolsAre
    <3>3. QED
      BY <3>1, <3>2, <3>divisions, PartShared, PartRead, PartMaybe, PartEmptyAnswer,
         PartJoin, PartWhole, WholeAnswer DEF eveCorpOrders, formatOrders
  <2>6. QED
    BY <2>3, <2>4, <2>5, StoppedWhole
<1>5. CorpWorlds("eve_corp_killmails", eveCorpKillmails)
  <2>1. SUFFICES ASSUME NEW r
                 PROVE  /\ \E F : Whole("eve_corp_killmails", r, FALSE, F, eveCorpKillmails)
                        /\ \E F : Whole("eve_corp_killmails", r, TRUE, F, eveCorpKillmails)
    BY DEF CorpWorlds
  <2>2. "eve_corp_killmails" \in DOMAIN About /\ corpScope["killmails"] \in RequestedScopes
    BY AboutCorp, CorpScopes
  <2>3. Stopped("eve_corp_killmails", r, TRUE, eveCorpKillmails)
    BY <2>2, OpenCorpStops, PartShared, StoppedAfter, StoppedBefore, StaticRead,
       StaticBranch, StaticJoin
       DEF eveCorpKillmails, formatKillmails, fetchKillmailBodies, buildKillmailRows
  <2>4. ASSUME ~HasRole(r, corpRole("killmails"))
        PROVE  Stopped("eve_corp_killmails", r, FALSE, eveCorpKillmails)
    <3>1. \A x \in About["eve_corp_killmails"] : ~Grants(x, r, FALSE)
      BY <2>4, AboutCorp, RolesServe DEF Serves
    <3>2. Stopped("eve_corp_killmails", r, FALSE, openCorp("killmails", "killmails"))
      BY <2>2, <2>4, <3>1, OpenCorpStops
    <3>3. QED
      BY <3>2, PartShared, StoppedAfter, StoppedBefore, StaticRead, StaticBranch,
         StaticJoin
         DEF eveCorpKillmails, formatKillmails, fetchKillmailBodies, buildKillmailRows
  <2>5. ASSUME HasRole(r, corpRole("killmails"))
        PROVE  Whole("eve_corp_killmails", r, FALSE, {"corp_killmails"}, eveCorpKillmails)
    <3>1. /\ MayRead("eve_corp_killmails", r, FALSE, {"corp_killmails"}, "corp_killmails")
          /\ MayRead("eve_corp_killmails", r, FALSE, {"corp_killmails"}, "killmail")
      <4>1. MayRead("eve_corp_killmails", r, FALSE, {"corp_killmails"}, "corp_killmails")
        BY <2>5, RolesServe DEF Serves, MayRead
      <4>2. MayRead("eve_corp_killmails", r, FALSE, {"corp_killmails"}, "killmail")
        BY PersonalReads, UndatedReads DEF CorpReads
      <4>3. QED
        BY <4>1, <4>2
    <3>2. Part("eve_corp_killmails", r, FALSE, {"corp_killmails"}, openCorp("killmails", "killmails"))
      BY <2>2, <2>5, OpenCorpPart, AboutTools
    <3>prices. Part("eve_corp_killmails", r, FALSE, {"corp_killmails"}, ReferencePrices)
      BY PartPrices, PricingToolsAre
    <3>3. QED
      BY <3>1, <3>2, <3>prices, PartShared, PartRead, PartMaybe, PartEmptyAnswer, PartSection,
         PartJoin, PartWhole, WholeAnswer
         DEF eveCorpKillmails, formatKillmails, fetchKillmailBodies, buildKillmailRows
  <2>6. QED
    BY <2>3, <2>4, <2>5, StoppedWhole
<1>6. CorpWorlds("eve_corp_structures", eveCorpStructures)
  <2>1. SUFFICES ASSUME NEW r
                 PROVE  /\ \E F : Whole("eve_corp_structures", r, FALSE, F, eveCorpStructures)
                        /\ \E F : Whole("eve_corp_structures", r, TRUE, F, eveCorpStructures)
    BY DEF CorpWorlds
  <2>2. "eve_corp_structures" \in DOMAIN About /\ corpScope["structures"] \in RequestedScopes
    BY AboutCorp, CorpScopes
  <2>3. Stopped("eve_corp_structures", r, TRUE, eveCorpStructures)
    BY <2>2, OpenCorpStops, PartShared, StoppedAfter, StoppedBefore, StaticRead
       DEF eveCorpStructures
  <2>4. ASSUME ~HasRole(r, corpRole("structures"))
        PROVE  Stopped("eve_corp_structures", r, FALSE, eveCorpStructures)
    <3>1. \A x \in About["eve_corp_structures"] : ~Grants(x, r, FALSE)
      BY <2>4, AboutCorp, RolesServe DEF Serves
    <3>2. Stopped("eve_corp_structures", r, FALSE, openCorp("structures", "structures"))
      BY <2>2, <2>4, <3>1, OpenCorpStops
    <3>3. QED
      BY <3>2, PartShared, StoppedAfter, StoppedBefore, StaticRead DEF eveCorpStructures
  <2>5. ASSUME HasRole(r, corpRole("structures"))
        PROVE  Whole("eve_corp_structures", r, FALSE, {"structures"}, eveCorpStructures)
    <3>1. MayRead("eve_corp_structures", r, FALSE, {"structures"}, "structures")
      BY <2>5, RolesServe DEF Serves, MayRead
    <3>2. Part("eve_corp_structures", r, FALSE, {"structures"}, openCorp("structures", "structures"))
      BY <2>2, <2>5, OpenCorpPart, AboutTools
    <3>3. QED
      BY <3>1, <3>2, PartShared, PartRead, PartMaybe, PartEmptyAnswer, PartJoin,
         PartWhole, WholeAnswer DEF eveCorpStructures
  <2>6. QED
    BY <2>3, <2>4, <2>5, StoppedWhole
<1>7. CorpWorlds("eve_corp_industry_jobs", eveCorpIndustryJobs)
  <2>1. SUFFICES ASSUME NEW r
                 PROVE  /\ \E F : Whole("eve_corp_industry_jobs", r, FALSE, F, eveCorpIndustryJobs)
                        /\ \E F : Whole("eve_corp_industry_jobs", r, TRUE, F, eveCorpIndustryJobs)
    BY DEF CorpWorlds
  <2>2. "eve_corp_industry_jobs" \in DOMAIN About /\ corpScope["jobs"] \in RequestedScopes
    BY AboutCorp, CorpScopes
  <2>3. Stopped("eve_corp_industry_jobs", r, TRUE, eveCorpIndustryJobs)
    BY <2>2, OpenCorpStops, PartShared, StoppedAfter, StoppedBefore, StaticRead,
       StaticJoin DEF eveCorpIndustryJobs, industryJobsResult
  <2>4. ASSUME ~HasRole(r, corpRole("jobs"))
        PROVE  Stopped("eve_corp_industry_jobs", r, FALSE, eveCorpIndustryJobs)
    <3>1. \A x \in About["eve_corp_industry_jobs"] : ~Grants(x, r, FALSE)
      BY <2>4, AboutCorp, RolesServe DEF Serves
    <3>2. Stopped("eve_corp_industry_jobs", r, FALSE, openCorp("jobs", "jobs"))
      BY <2>2, <2>4, <3>1, OpenCorpStops
    <3>3. QED
      BY <3>2, PartShared, StoppedAfter, StoppedBefore, StaticRead, StaticJoin
         DEF eveCorpIndustryJobs, industryJobsResult
  <2>5. ASSUME HasRole(r, corpRole("jobs"))
        PROVE  Whole("eve_corp_industry_jobs", r, FALSE, {"corp_jobs"}, eveCorpIndustryJobs)
    <3>1. MayRead("eve_corp_industry_jobs", r, FALSE, {"corp_jobs"}, "corp_jobs")
      BY <2>5, RolesServe DEF Serves, MayRead
    <3>2. Part("eve_corp_industry_jobs", r, FALSE, {"corp_jobs"}, openCorp("jobs", "jobs"))
      BY <2>2, <2>5, OpenCorpPart, AboutTools
    <3>3. QED
      BY <3>1, <3>2, PartShared, PartRead, PartMaybe, PartEmptyAnswer, PartJoin,
         PartWhole, WholeAnswer DEF eveCorpIndustryJobs, industryJobsResult
  <2>6. QED
    BY <2>3, <2>4, <2>5, StoppedWhole
<1>8. CorpWorlds("eve_corp_contracts", eveCorpContracts)
  <2>1. SUFFICES ASSUME NEW r
                 PROVE  /\ \E F : Whole("eve_corp_contracts", r, FALSE, F, eveCorpContracts)
                        /\ \E F : Whole("eve_corp_contracts", r, TRUE, F, eveCorpContracts)
    BY DEF CorpWorlds
  <2>2. "eve_corp_contracts" \in DOMAIN About /\ corpScope["contracts"] \in RequestedScopes
    BY AboutCorp, CorpScopes
  <2>3. Stopped("eve_corp_contracts", r, TRUE, eveCorpContracts)
    BY <2>2, OpenCorpStops, PartShared, StoppedAfter, StoppedBefore, StaticRead,
       StaticJoin DEF eveCorpContracts, formatContracts
  <2>4. Whole("eve_corp_contracts", r, FALSE, {"corp_contracts"}, eveCorpContracts)
    <3>1. MayRead("eve_corp_contracts", r, FALSE, {"corp_contracts"}, "corp_contracts")
      BY EveryoneServed DEF MayRead
    <3>2. Part("eve_corp_contracts", r, FALSE, {"corp_contracts"}, openCorp("contracts", ""))
      BY <2>2, OpenCorpPart, AboutTools
    <3>3. QED
      BY <3>1, <3>2, PartShared, PartRead, PartMaybe, PartEmptyAnswer, PartJoin,
         PartWhole, WholeAnswer DEF eveCorpContracts, formatContracts
  <2>5. QED
    BY <2>3, <2>4, StoppedWhole
<1>9. CorpWorlds("eve_corp_members", eveCorpMembers)
  <2>1. SUFFICES ASSUME NEW r
                 PROVE  /\ \E F : Whole("eve_corp_members", r, FALSE, F, eveCorpMembers)
                        /\ \E F : Whole("eve_corp_members", r, TRUE, F, eveCorpMembers)
    BY DEF CorpWorlds
  <2>2. "eve_corp_members" \in DOMAIN About /\ corpScope["members"] \in RequestedScopes
    BY AboutCorp, CorpScopes
  <2>3. Stopped("eve_corp_members", r, TRUE, eveCorpMembers)
    BY <2>2, OpenCorpStops, PartShared, StoppedAfter, StoppedBefore, StaticRead,
       StaticBranch, StaticJoin DEF eveCorpMembers, corpMemberRoleMap
  <2>4. Whole("eve_corp_members", r, FALSE, {"members"}, eveCorpMembers)
    <3>1. MayRead("eve_corp_members", r, FALSE, {"members"}, "members")
      BY EveryoneServed DEF MayRead
    <3>2. Part("eve_corp_members", r, FALSE, {"members"}, openCorp("members", ""))
      BY <2>2, OpenCorpPart, AboutTools
    <3>3. HasRole(r, {"Director"}) => MayRead("eve_corp_members", r, FALSE, {"members"}, "member_roles")
      BY RolesServe, CorpRoles, UndatedReads DEF Serves, MayRead
    <3>4. QED
      BY <3>1, <3>2, <3>3, PartIf, PartShared, PartRead, PartMaybe, PartEmptyAnswer,
         PartJoin, PartWhole, WholeAnswer DEF eveCorpMembers, corpMemberRoleMap
  <2>5. QED
    BY <2>3, <2>4, StoppedWhole
<1>10. QED
    BY <1>1, <1>2, <1>3, <1>4, <1>5, <1>6, <1>7, <1>8, <1>9

(* The balances, or the movements, whose sections have ages of their own.   *)
LEMMA CorpWalletHandler == CorpWorlds("eve_corp_wallet", eveCorpWallet)
<1>1. SUFFICES ASSUME NEW r
               PROVE  /\ \E F : Whole("eve_corp_wallet", r, FALSE, F, eveCorpWallet)
                      /\ \E F : Whole("eve_corp_wallet", r, TRUE, F, eveCorpWallet)
    BY DEF CorpWorlds
<1>2. "eve_corp_wallet" \in DOMAIN About /\ corpScope["wallets"] \in RequestedScopes
    BY AboutCorp, CorpScopes
<1>3. Stopped("eve_corp_wallet", r, TRUE, eveCorpWallet)
  <2>1. Static(Args)
    BY StaticGates DEF Args
  <2>2. QED
    BY <1>2, <2>1, OpenCorpStops, StoppedBefore, StaticRead, Divisions DEF eveCorpWallet
<1>4. ASSUME ~HasRole(r, corpRole("wallets"))
      PROVE  Stopped("eve_corp_wallet", r, FALSE, eveCorpWallet)
  <2>1. \A x \in About["eve_corp_wallet"] : ~Grants(x, r, FALSE)
    BY <1>4, AboutCorp, RolesServe DEF Serves
  <2>2. Stopped("eve_corp_wallet", r, FALSE, openCorp("wallets", "wallets"))
    BY <1>2, <1>4, <2>1, OpenCorpStops
  <2>3. Static(Args)
    BY StaticGates DEF Args
  <2>4. QED
    BY <2>2, <2>3, StoppedBefore, StaticRead, Divisions DEF eveCorpWallet
<1>5. ASSUME HasRole(r, corpRole("wallets"))
      PROVE  Whole("eve_corp_wallet", r, FALSE, {}, eveCorpWallet)
  <2>1. DEFINE Fits(G, p) == Whole("eve_corp_wallet", r, FALSE, G, p)
               May(G, x) == MayRead("eve_corp_wallet", r, FALSE, G, x)
               journal == Get("corp_journal")
               trades == transactionSection("corp_transactions") \o summarizeTransactions
               j == journal \o Either({Answer({"corp_journal"}), Answer({})})
               t == trades \o Answer({"corp_transactions"})
               b == journal \o trades \o Answer({})
  <2>2. \A G : /\ "corp_wallets" \in G => May(G, "corp_wallets")
               /\ "corp_journal" \in G => May(G, "corp_journal")
               /\ "corp_transactions" \in G => May(G, "corp_transactions")
    BY <1>5, RolesServe DEF Serves, MayRead
  <2>3. Fits({"corp_wallets"}, corpWalletBalances)
    <3>1. May({"corp_wallets"}, "corp_wallets")
      BY <2>2
    <3>2. QED
      BY <3>1, PartRead, PartWhole, WholeAnswer DEF corpWalletBalances
  <2>4. Fits({"corp_journal"}, j)
    <3>1. May({"corp_journal"}, "corp_journal")
      BY <2>2
    <3>2. Fits({"corp_journal"}, Answer({"corp_journal"})) /\ Fits({"corp_journal"}, Answer({}))
      BY WholeAnswer
    <3>3. \A x \in {Answer({"corp_journal"}), Answer({})} :
            \E G : {"corp_journal"} \subseteq G /\ Fits(G, x)
      BY <3>2
    <3>4. Fits({"corp_journal"}, Either({Answer({"corp_journal"}), Answer({})}))
      BY <3>3, WholeEither
    <3>5. QED
      BY <3>1, <3>4, PartRead, PartWhole
  <2>5. Fits({"corp_transactions"}, t)
    <3>1. May({"corp_transactions"}, "corp_transactions")
      BY <2>2
    <3>2. QED
      BY <3>1, PartShared, PartRead, PartMaybe, PartJoin, PartWhole, WholeAnswer
         DEF transactionSection, summarizeTransactions
  <2>6. Fits({"corp_journal", "corp_transactions"}, b)
    <3>1. /\ May({"corp_journal", "corp_transactions"}, "corp_journal")
          /\ May({"corp_journal", "corp_transactions"}, "corp_transactions")
      BY <2>2
    <3>2. QED
      BY <3>1, PartShared, PartRead, PartMaybe, PartJoin, PartWhole, WholeAnswer
         DEF transactionSection, summarizeTransactions
  <2>7. Fits({}, corpWalletMovements)
    <3>1. \A x \in {j, t, b} : \E G : {} \subseteq G /\ Fits(G, x)
      <4>1. HIDE DEF j, t, b, Fits
      <4>2. QED
        BY <2>4, <2>5, <2>6
    <3>2. Fits({}, Either({j, t, b}))
      <4>1. HIDE DEF j, t, b
      <4>2. QED
        BY <3>1, WholeEither
    <3>3. QED
      BY <3>2 DEF corpWalletMovements
  <2>8. \A x \in {corpWalletBalances, corpWalletMovements} :
          \E G : {} \subseteq G /\ Fits(G, x)
    <3>1. HIDE DEF Fits
    <3>2. QED
      BY <2>3, <2>7
  <2>9. Fits({}, Either({corpWalletBalances, corpWalletMovements}))
    BY <2>8, WholeEither
  <2>10. Part("eve_corp_wallet", r, FALSE, {}, openCorp("wallets", "wallets"))
    BY <1>2, <1>5, OpenCorpPart, AboutTools
  <2>11. Part("eve_corp_wallet", r, FALSE, {}, corpDivisions)
    BY Divisions, DivisionToolsAre
  <2>12. QED
    BY <2>9, <2>10, <2>11, PartShared, PartJoin, PartWhole DEF eveCorpWallet
<1>6. QED
    BY <1>3, <1>4, <1>5, StoppedWhole

(* One role of two opens the tool, and each of them a part of it.           *)
LEMMA CorpMiningHandler == CorpWorlds("eve_corp_mining", eveCorpMining)
<1>1. SUFFICES ASSUME NEW r
               PROVE  /\ \E F : Whole("eve_corp_mining", r, FALSE, F, eveCorpMining)
                      /\ \E F : Whole("eve_corp_mining", r, TRUE, F, eveCorpMining)
    BY DEF CorpWorlds
<1>2. DEFINE T == "eve_corp_mining"
             both == corpRole("mining_ledger") \cup corpRole("mining_extractions")
             p == Args \o ResolveCorporation \o PlayerCorp \o Scope(corpScope["mining"])
<1>3. /\ T \in DOMAIN About /\ About[T] = {"extractions", "observers"}
      /\ T \in DOMAIN CorpTools
    BY AboutCorp, AboutTools
<1>4. corpScope["mining"] \in RequestedScopes
    BY CorpScopes
<1>5. /\ Static(corpMiningRequireRole) /\ Static(corpMiningAttachExtractions)
      /\ Static(corpMiningAttachLedger)
    BY StaticGates, StaticBranch
       DEF corpMiningRequireRole, corpMiningAttachExtractions, corpMiningAttachLedger
<1>6. HasRole(r, both) <=>
        HasRole(r, corpRole("mining_ledger")) \/ HasRole(r, corpRole("mining_extractions"))
    BY DEF HasRole
<1>7. Stopped(T, r, TRUE, eveCorpMining)
  <2>1. Stopped(T, r, TRUE, PlayerCorp)
    BY <1>3, StoppedHere DEF PlayerCorp, Stops
  <2>2. Part(T, r, TRUE, {}, Args \o ResolveCorporation)
    BY <1>3, PartShared, PartResolved, PartJoin
  <2>3. Stopped(T, r, TRUE, p)
    BY <2>1, <2>2, StaticGates, StoppedAfter, StoppedBefore
  <2>4. HIDE DEF p
  <2>5. Stopped(T, r, TRUE, p \o corpMiningRequireRole \o corpMiningAttachExtractions
                              \o corpMiningAttachLedger
                              \o AnswerLedger({"observers", "observer"}))
    BY <1>5, <2>3, StaticRead, StoppedBefore
  <2>6. QED
    BY <2>5 DEF p, eveCorpMining
<1>8. Part(T, r, FALSE, {}, p)
    BY <1>3, <1>4, PartShared, PartResolved, PartPlayerCorp, PartScope, PartJoin
<1>9. ASSUME ~HasRole(r, both)
      PROVE  Stopped(T, r, FALSE, eveCorpMining)
  <2>1. \A x \in About[T] : ~Grants(x, r, FALSE)
    BY <1>3, <1>6, <1>9, RolesServe DEF Serves
  <2>2. Stopped(T, r, FALSE, corpMiningRequireRole)
    BY <1>3, <1>9, <2>1, RoleStops DEF corpMiningRequireRole
  <2>3. HIDE DEF p
  <2>4. Stopped(T, r, FALSE, p \o corpMiningRequireRole \o corpMiningAttachExtractions
                               \o corpMiningAttachLedger
                               \o AnswerLedger({"observers", "observer"}))
    BY <1>5, <1>8, <2>2, StaticRead, StoppedAfter, StoppedBefore
  <2>5. QED
    BY <2>4 DEF p, eveCorpMining
<1>10. ASSUME HasRole(r, both)
       PROVE  Whole(T, r, FALSE, {}, eveCorpMining)
  <2>1. Part(T, r, FALSE, {}, corpMiningRequireRole)
    BY <1>10, PartRole DEF corpMiningRequireRole
  <2>2. Part(T, r, FALSE, {}, corpMiningAttachExtractions)
    <3>1. HasRole(r, corpRole("mining_extractions")) => MayRead(T, r, FALSE, {}, "extractions")
      BY RolesServe DEF Serves, MayRead
    <3>2. HasRole(r, corpRole("mining_extractions")) =>
            Part(T, r, FALSE, {}, Section("extractions", corpExtractions))
      BY <3>1, PartShared, PartRead, PartJoin, PartSection DEF corpExtractions
    <3>3. QED
      BY <3>2, PartIf DEF corpMiningAttachExtractions
  <2>3. Part(T, r, FALSE, {}, corpMiningAttachLedger)
    <3>1. HasRole(r, corpRole("mining_ledger")) =>
            MayRead(T, r, FALSE, {}, "observers") /\ MayRead(T, r, FALSE, {}, "observer")
      BY RolesServe DEF Serves, MayRead
    <3>prices. Part(T, r, FALSE, {}, ReferencePrices)
      BY PartPrices, PricingToolsAre
    <3>2. HasRole(r, corpRole("mining_ledger")) =>
            Part(T, r, FALSE, {}, Section("ledger", corpMiningLedger))
      BY <3>1, <3>prices, PartShared, PartRead, PartMaybe, PartJoin, PartSection
         DEF corpMiningLedger, fetchCorpMiningObservers
    <3>3. QED
      BY <3>2, PartIf DEF corpMiningAttachLedger
  <2>4. Whole(T, r, FALSE, {}, AnswerLedger({"observers", "observer"}))
    <3>1. DEFINE s == [do |-> "answer", fused |-> {"observers", "observer"}, rule |-> "ledger"]
    <3>2. s.do = "answer" /\ Head(<<s>>) = s /\ <<s>> # <<>>
      OBVIOUS
    <3>3. HIDE DEF s
    <3>4. Dated(T, {}, s)
      BY <3>2 DEF Dated
    <3>5. IsSeq(<<s>>) /\ Static(<<s>>)
      BY <3>2, OneStep, StaticStep
    <3>6. Turns(T, r, FALSE, {}, <<s>>)
      BY <3>2, <3>4 DEF Turns
    <3>7. Whole(T, r, FALSE, {}, <<s>>)
      BY <3>2, <3>5, <3>6, TurnShape DEF Whole
    <3>8. QED
      BY <3>7 DEF AnswerLedger, s
  <2>5. HIDE DEF p
  <2>6. Whole(T, r, FALSE, {}, p \o corpMiningRequireRole \o corpMiningAttachExtractions
                                 \o corpMiningAttachLedger
                                 \o AnswerLedger({"observers", "observer"}))
    BY <1>8, <2>1, <2>2, <2>3, <2>4, PartJoin, PartWhole
  <2>7. QED
    BY <2>6 DEF p, eveCorpMining
<1>11. QED
    BY <1>7, <1>9, <1>10, StoppedWhole

(* The overview: short of an NPC corporation, and with the tools that are   *)
(* open of another.                                                         *)
LEMMA CorpOverviewHandler == CorpWorlds("eve_corp_overview", eveCorpOverview)
<1>1. SUFFICES ASSUME NEW r
               PROVE  /\ \E F : Whole("eve_corp_overview", r, FALSE, F, eveCorpOverview)
                      /\ \E F : Whole("eve_corp_overview", r, TRUE, F, eveCorpOverview)
    BY DEF CorpWorlds
<1>2. DEFINE T == "eve_corp_overview"
             W == {"corp_wallets"}
             short == IfNPC(ListTools \o Answer({}))
             last == Answer(W)
<1>tool. T \in DOMAIN CorpTools
    BY DEF CorpTools
<1>3. Static(corpOverviewAttachWallets) /\ Static(corpDivisions)
    BY StaticBranch, Divisions DEF corpOverviewAttachWallets, corpCan
<1>4. Stopped(T, r, TRUE, eveCorpOverview)
  <2>1. Stopped(T, r, TRUE, short)
    <3>1. DEFINE s == [do |-> "ifnpc", then |-> ListTools \o Answer({})]
    <3>2. Stops(T, r, TRUE, s)
      BY DEF Stops
    <3>3. HIDE DEF s
    <3>4. Stopped(T, r, TRUE, <<s>>)
      BY <3>2, StoppedHere
    <3>5. QED
      BY <3>4 DEF IfNPC, s
  <2>2. Part(T, r, TRUE, {}, ResolveCorporation \o Names)
    BY <1>tool, PartResolved, PartShared, PartJoin
  <2>3. HIDE DEF short
  <2>4. Stopped(T, r, TRUE, ResolveCorporation \o Names \o short \o corpDivisions
                              \o corpOverviewAttachWallets \o ListTools \o last)
    BY <1>3, <2>1, <2>2, StaticRead, StoppedAfter, StoppedBefore
  <2>5. QED
    BY <2>4 DEF eveCorpOverview, short
<1>5. Whole(T, r, FALSE, W, eveCorpOverview)
  <2>1. Part(T, r, FALSE, W, short)
    <3>1. Plain(T, r, FALSE, W, [do |-> "ifnpc", then |-> ListTools \o Answer({})])
      BY DEF Plain
    <3>2. QED
      BY <3>1, PartPlain DEF IfNPC
  <2>2. Part(T, r, FALSE, W, corpOverviewAttachWallets)
    <3>1. HasRole(r, corpRole("wallets")) => MayRead(T, r, FALSE, W, "corp_wallets")
      BY RolesServe DEF Serves, MayRead
    <3>2. HasRole(r, corpRole("wallets")) =>
            Part(T, r, FALSE, W, Section("wallets_note", Get("corp_wallets")))
      BY <3>1, PartRead, PartSection
    <3>3. QED
      BY <3>2, PartIf DEF corpOverviewAttachWallets, corpCan
  <2>3. DEFINE p == ResolveCorporation \o Names \o short \o corpDivisions
                      \o corpOverviewAttachWallets
               q == ListTools \o last
  <2>4. Part(T, r, FALSE, W, p)
    <3>1. HIDE DEF short
    <3>2. Part(T, r, FALSE, W, ResolveCorporation)
      BY <1>tool, PartResolved
    <3>3. Part(T, r, FALSE, W, corpDivisions)
      BY Divisions, DivisionToolsAre
    <3>4. QED
      BY <2>1, <2>2, <3>2, <3>3, PartShared, PartJoin
  <2>5. Whole(T, r, FALSE, W, q)
    <3>1. DEFINE l == [do |-> "list"]
                 s == [do |-> "answer", fused |-> W, rule |-> "oldest"]
    <3>2. /\ l.do = "list" /\ s.do = "answer" /\ s.rule = "oldest" /\ s.fused = W
          /\ Head(<<s>>) = s /\ <<s>> # <<>> /\ <<l>> # <<>>
      OBVIOUS
    <3>3. HIDE DEF l, s
    <3>4. IsSeq(<<l>>) /\ IsSeq(<<s>>) /\ Static(<<l>>) /\ Static(<<s>>)
      BY <3>2, OneStep, StaticStep
    <3>5. Head(<<l>> \o <<s>>) = l /\ Tail(<<l>> \o <<s>>) = <<s>>
      BY <3>4, HeadAndRest
    <3>6. /\ IsSeq(<<l>> \o <<s>>) /\ <<l>> \o <<s>> # <<>>
          /\ Static(<<l>> \o <<s>>)
      BY <3>2, <3>4, Joined, TakeFirst, StaticJoin
    <3>7. Dated(T, W, s)
      BY <3>2 DEF Dated
    <3>8. Turns(T, r, FALSE, W, <<l>> \o <<s>>)
      BY <3>2, <3>5, <3>7 DEF Turns
    <3>9. Whole(T, r, FALSE, W, <<l>> \o <<s>>)
      BY <3>6, <3>8, TurnShape DEF Whole
    <3>10. QED
      BY <3>9 DEF ListTools, Answer, l, s
  <2>6. eveCorpOverview = p \o q
    <3>1. IsSeq(p) /\ IsSeq(ListTools) /\ IsSeq(last)
      BY <2>4, PartStatic, StaticRead DEF Static
    <3>2. eveCorpOverview = (p \o ListTools) \o last
      BY DEF eveCorpOverview
    <3>3. HIDE DEF p, last
    <3>4. (p \o ListTools) \o last = p \o (ListTools \o last)
      BY <3>1, Associative
    <3>5. QED
      BY <3>2, <3>4
  <2>7. HIDE DEF p, q
  <2>8. QED
    BY <2>4, <2>5, <2>6, PartWhole
<1>6. QED
    BY <1>4, <1>5, StoppedWhole

-----------------------------------------------------------------------------
(* Every handler has a shape, in every world the tool can be called in.     *)

LEMMA CorpPrograms ==
    \A t \in DOMAIN CorpTools : t \in DOMAIN Programs /\ CorpWorlds(t, Programs[t])
<1>1. \A t \in DOMAIN CorpTools : t \in DOMAIN Programs /\ Programs[t] = CorpTools[t]
    BY DEF Programs
<1>2. \A t \in DOMAIN CorpTools :
        \/ t = "eve_corp_overview" /\ CorpTools[t] = eveCorpOverview
        \/ t = "eve_corp_assets_list" /\ CorpTools[t] = eveCorpAssetsList
        \/ t = "eve_corp_assets_find" /\ CorpTools[t] = eveCorpAssetsFind
        \/ t = "eve_corp_blueprints" /\ CorpTools[t] = eveCorpBlueprints
        \/ t = "eve_corp_wallet" /\ CorpTools[t] = eveCorpWallet
        \/ t = "eve_corp_industry_jobs" /\ CorpTools[t] = eveCorpIndustryJobs
        \/ t = "eve_corp_mining" /\ CorpTools[t] = eveCorpMining
        \/ t = "eve_corp_orders" /\ CorpTools[t] = eveCorpOrders
        \/ t = "eve_corp_contracts" /\ CorpTools[t] = eveCorpContracts
        \/ t = "eve_corp_killmails" /\ CorpTools[t] = eveCorpKillmails
        \/ t = "eve_corp_structures" /\ CorpTools[t] = eveCorpStructures
        \/ t = "eve_corp_members" /\ CorpTools[t] = eveCorpMembers
    BY DEF CorpTools
<1>3. QED
    BY <1>1, <1>2, CorpHandlers, CorpOverviewHandler, CorpWalletHandler, CorpMiningHandler

LEMMA OtherPrograms ==
    \A t \in DOMAIN Programs \ DOMAIN CorpTools :
      \/ t = "eve_server_status" /\ Programs[t] = eveServerStatus
      \/ t = "eve_auth_status" /\ Programs[t] = eveAuthStatus
      \/ t = "eve_character_overview" /\ Programs[t] = eveCharacterOverview
      \/ t = "eve_social_notifications" /\ Programs[t] = eveSocialNotifications
      \/ t = "eve_fitting_list" /\ Programs[t] = eveFittingList
      \/ t = "eve_mail_list" /\ Programs[t] = eveMailList
      \/ t = "eve_mail_read" /\ Programs[t] = eveMailRead
      \/ t = "eve_calendar_list" /\ Programs[t] = eveCalendarList
      \/ t = "eve_social_killmails" /\ Programs[t] = eveSocialKillmails
      \/ t = "eve_wallet_history" /\ Programs[t] = walletHistory
      \/ t = "eve_assets_list" /\ Programs[t] = eveAssetsList
      \/ t = "eve_assets_find" /\ Programs[t] = eveAssetsFind
      \/ t = "eve_assets_blueprints" /\ Programs[t] = eveAssetsBlueprints
      \/ t = "eve_character_skills" /\ Programs[t] = eveCharacterSkills
      \/ t = "eve_character_skill_queue" /\ Programs[t] = eveCharacterSkillQueue
      \/ t = "eve_character_clones" /\ Programs[t] = eveCharacterClones
      \/ t = "eve_character_standings" /\ Programs[t] = eveCharacterStandings
      \/ t = "eve_industry_jobs" /\ Programs[t] = eveIndustryJobs
      \/ t = "eve_industry_planets" /\ Programs[t] = eveIndustryPlanets
      \/ t = "eve_industry_mining" /\ Programs[t] = eveIndustryMining
      \/ t = "eve_market_price" /\ Programs[t] = eveMarketPrice
      \/ t = "eve_market_orders" /\ Programs[t] = eveMarketOrders
      \/ t = "eve_market_contracts" /\ Programs[t] = eveMarketContracts
      \/ t = "eve_universe_search" /\ Programs[t] = eveUniverseSearch
      \/ t = "eve_universe_item" /\ Programs[t] = eveUniverseItem
      \/ t = "eve_universe_system" /\ Programs[t] = eveUniverseSystem
      \/ t = "eve_universe_route" /\ Programs[t] = eveUniverseRoute
      \/ t = "eve_universe_hotspots" /\ Programs[t] = eveUniverseHotspots
      \/ t = "eve_mail_mark" /\ Programs[t] = eveMailMark
      \/ t = "eve_mail_delete" /\ Programs[t] = eveMailDelete
      \/ t = "eve_mail_send" /\ Programs[t] = eveMailSend
      \/ t = "eve_mail_compose" /\ Programs[t] = eveMailCompose
      \/ t = "eve_contacts_set" /\ Programs[t] = eveContactsSet
      \/ t = "eve_contacts_delete" /\ Programs[t] = eveContactsDelete
      \/ t = "eve_ui_set_waypoint" /\ Programs[t] = eveUISetWaypoint
      \/ t = "eve_ui_open_window" /\ Programs[t] = eveUIOpenWindow
      \/ t = "eve_fitting_save" /\ Programs[t] = eveFittingSave
      \/ t = "eve_fitting_delete" /\ Programs[t] = eveFittingDelete
      \/ t = "eve_calendar_respond" /\ Programs[t] = eveCalendarRespond
<1>1. \A t \in DOMAIN Programs \ DOMAIN CorpTools :
        t \in DOMAIN OtherTools /\ Programs[t] = OtherTools[t]
    BY DEF Programs
<1>2. \A t \in DOMAIN OtherTools :
        \/ t = "eve_server_status" /\ OtherTools[t] = eveServerStatus
        \/ t = "eve_auth_status" /\ OtherTools[t] = eveAuthStatus
        \/ t = "eve_character_overview" /\ OtherTools[t] = eveCharacterOverview
        \/ t = "eve_social_notifications" /\ OtherTools[t] = eveSocialNotifications
        \/ t = "eve_fitting_list" /\ OtherTools[t] = eveFittingList
        \/ t = "eve_mail_list" /\ OtherTools[t] = eveMailList
        \/ t = "eve_mail_read" /\ OtherTools[t] = eveMailRead
        \/ t = "eve_calendar_list" /\ OtherTools[t] = eveCalendarList
        \/ t = "eve_social_killmails" /\ OtherTools[t] = eveSocialKillmails
        \/ t = "eve_wallet_history" /\ OtherTools[t] = walletHistory
        \/ t = "eve_assets_list" /\ OtherTools[t] = eveAssetsList
        \/ t = "eve_assets_find" /\ OtherTools[t] = eveAssetsFind
        \/ t = "eve_assets_blueprints" /\ OtherTools[t] = eveAssetsBlueprints
        \/ t = "eve_character_skills" /\ OtherTools[t] = eveCharacterSkills
        \/ t = "eve_character_skill_queue" /\ OtherTools[t] = eveCharacterSkillQueue
        \/ t = "eve_character_clones" /\ OtherTools[t] = eveCharacterClones
        \/ t = "eve_character_standings" /\ OtherTools[t] = eveCharacterStandings
        \/ t = "eve_industry_jobs" /\ OtherTools[t] = eveIndustryJobs
        \/ t = "eve_industry_planets" /\ OtherTools[t] = eveIndustryPlanets
        \/ t = "eve_industry_mining" /\ OtherTools[t] = eveIndustryMining
        \/ t = "eve_market_price" /\ OtherTools[t] = eveMarketPrice
        \/ t = "eve_market_orders" /\ OtherTools[t] = eveMarketOrders
        \/ t = "eve_market_contracts" /\ OtherTools[t] = eveMarketContracts
        \/ t = "eve_universe_search" /\ OtherTools[t] = eveUniverseSearch
        \/ t = "eve_universe_item" /\ OtherTools[t] = eveUniverseItem
        \/ t = "eve_universe_system" /\ OtherTools[t] = eveUniverseSystem
        \/ t = "eve_universe_route" /\ OtherTools[t] = eveUniverseRoute
        \/ t = "eve_universe_hotspots" /\ OtherTools[t] = eveUniverseHotspots
        \/ t = "eve_mail_mark" /\ OtherTools[t] = eveMailMark
        \/ t = "eve_mail_delete" /\ OtherTools[t] = eveMailDelete
        \/ t = "eve_mail_send" /\ OtherTools[t] = eveMailSend
        \/ t = "eve_mail_compose" /\ OtherTools[t] = eveMailCompose
        \/ t = "eve_contacts_set" /\ OtherTools[t] = eveContactsSet
        \/ t = "eve_contacts_delete" /\ OtherTools[t] = eveContactsDelete
        \/ t = "eve_ui_set_waypoint" /\ OtherTools[t] = eveUISetWaypoint
        \/ t = "eve_ui_open_window" /\ OtherTools[t] = eveUIOpenWindow
        \/ t = "eve_fitting_save" /\ OtherTools[t] = eveFittingSave
        \/ t = "eve_fitting_delete" /\ OtherTools[t] = eveFittingDelete
        \/ t = "eve_calendar_respond" /\ OtherTools[t] = eveCalendarRespond
    BY DEF OtherTools
<1>3. QED
    BY <1>1, <1>2

LEMMA Handlers ==
    \A t \in DOMAIN Programs : \A w \in Worlds(t) :
      \E F : Shape(t, w[1], w[2], F, Programs[t])
<1>1. SUFFICES ASSUME NEW t \in DOMAIN Programs, NEW w \in Worlds(t)
               PROVE  \E F : Whole(t, w[1], w[2], F, Programs[t])
    BY DEF Whole
<1>2. CASE t \in DOMAIN CorpTools
  <2>1. w[2] = FALSE \/ w[2] = TRUE
    BY <1>2 DEF Worlds
  <2>2. CorpWorlds(t, Programs[t])
    BY <1>2, CorpPrograms
  <2>3. QED
    BY <2>1, <2>2 DEF CorpWorlds
<1>3. CASE t \notin DOMAIN CorpTools
  <2>1. t \in DOMAIN Programs \ DOMAIN CorpTools
    BY <1>1, <1>3
  <2>2. \E F : Whole(t, w[1], w[2], F, Programs[t])
    BY <2>1, OtherPrograms, CharacterHandlers, SocialHandlers, MarketHandlers,
       UniverseHandlers, WalletHandler, WritingHandlers
  <2>3. QED
    BY <2>2
<1>4. QED
    BY <1>2, <1>3


-----------------------------------------------------------------------------
(* What CCP grants to the character of the call.                            *)

LEMMA EveryScopeRequested == \A x \in DOMAIN CCPScope : CCPScope[x] \in RequestedScopes
    BY DEF CCPScope, RequestedScopes, ReadScopes, CorpReadScopes, Capabilities

LEMMA CCPGrantsIs == \A x : CCPGrants(x) <=> Grants(x, roles, npc)
    BY EveryScopeRequested DEF CCPGrants, Grants

(* A role that is read is held.                                             *)
LEMMA RolesRead ==
    \A r, s, any : s \in {{}, r} /\ HasRole(s, any) => HasRole(r, any)
    BY DEF HasRole

(* The least of a set of natural numbers is one of them.                    *)
LEMMA MinIsOne == ASSUME NEW S \in SUBSET Nat, S # {} PROVE Min(S) \in S
<1>1. PICK R : R = OpToRel(<, Nat)
    OBVIOUS
<1>2. IsWellFoundedOn(R, Nat)
    BY <1>1, NatLessThanWellFounded
<1>3. PICK m \in S : \A y \in S : ~ (<<y, m>> \in R)
    BY <1>2, WFMin
<1>4. \A x, y \in Nat : x < y => <<x, y>> \in R
    BY <1>1 DEF OpToRel
<1>5. \A y \in S : m <= y
  <2>1. SUFFICES ASSUME NEW y \in S, ~(m <= y) PROVE FALSE
    OBVIOUS
  <2>2. y \in Nat /\ m \in Nat
    OBVIOUS
  <2>3. y < m
    BY <2>1, <2>2
  <2>4. QED
    BY <1>3, <1>4, <2>2, <2>3
<1>6. QED
    BY <1>5 DEF Min

(* The tools the overview lists in a player's corporation, and in another.  *)
LEMMA ListedIsOpen ==
    \A r : \A t \in DOMAIN About :
      t \in availableCorpTools(r) <=> \E x \in About[t] : Grants(x, r, FALSE)
<1>1. SUFFICES ASSUME NEW r, NEW t \in DOMAIN About
               PROVE  t \in availableCorpTools(r) <=> \E x \in About[t] : Grants(x, r, FALSE)
    OBVIOUS
<1>2. \A u \in DOMAIN catalog :
        u \in Catalogued(r) <=> (catalog[u] # "" => HasRole(r, corpRole(catalog[u])))
    BY DEF Catalogued
<1>3. /\ DOMAIN catalog = DOMAIN About \ {"eve_corp_mining"}
      /\ catalog["eve_corp_assets_list"] = "assets" /\ catalog["eve_corp_assets_find"] = "assets"
      /\ catalog["eve_corp_blueprints"] = "blueprints" /\ catalog["eve_corp_wallet"] = "wallets"
      /\ catalog["eve_corp_industry_jobs"] = "jobs" /\ catalog["eve_corp_orders"] = "orders"
      /\ catalog["eve_corp_contracts"] = "" /\ catalog["eve_corp_killmails"] = "killmails"
      /\ catalog["eve_corp_structures"] = "structures" /\ catalog["eve_corp_members"] = ""
    BY AboutCorp DEF catalog
<1>4. CASE t = "eve_corp_mining"
  <2>1. t \notin Catalogued(r)
    BY <1>3, <1>4 DEF Catalogued
  <2>2. t \in availableCorpTools(r) <=>
          HasRole(r, corpRole("mining_ledger")) \/ HasRole(r, corpRole("mining_extractions"))
    BY <1>4, <2>1 DEF availableCorpTools
  <2>3. QED
    BY <1>4, <2>2, AboutCorp, RolesServe DEF Serves
<1>5. CASE t # "eve_corp_mining"
  <2>1. t \in DOMAIN catalog /\ t # "eve_corp_overview"
    BY <1>1, <1>3, <1>5, AboutCorp
  <2>2. t \in availableCorpTools(r) <=> t \in Catalogued(r)
    BY <1>5, <2>1 DEF availableCorpTools
  <2>3. t \in availableCorpTools(r) <=> (catalog[t] # "" => HasRole(r, corpRole(catalog[t])))
    BY <1>2, <2>1, <2>2
  <2>4. \A x \in About[t] : catalog[t] # "" => Serves(x, catalog[t])
    <3>1. CASE t \in {"eve_corp_contracts", "eve_corp_members"}
      BY <1>3, <3>1
    <3>2. CASE t \notin {"eve_corp_contracts", "eve_corp_members"}
      <4>1. /\ catalog["eve_corp_assets_list"] = "assets"
            /\ catalog["eve_corp_assets_find"] = "assets"
            /\ catalog["eve_corp_blueprints"] = "blueprints"
            /\ catalog["eve_corp_wallet"] = "wallets"
            /\ catalog["eve_corp_industry_jobs"] = "jobs"
            /\ catalog["eve_corp_orders"] = "orders"
            /\ catalog["eve_corp_killmails"] = "killmails"
            /\ catalog["eve_corp_structures"] = "structures"
        BY <1>3
      <4>2. \A x \in About[t] : Serves(x, catalog[t])
        BY <1>1, <1>5, <3>2, <4>1, AboutCorp, RolesServe
      <4>3. QED
        BY <4>2
    <3>3. QED
      BY <3>1, <3>2
  <2>5. catalog[t] = "" => \E x \in About[t] : Grants(x, r, FALSE)
    BY <1>1, <1>3, <1>5, AboutCorp, EveryoneServed
  <2>6. About[t] # {}
    BY <1>1, AboutCorp
  <2>7. CASE catalog[t] = ""
    BY <2>3, <2>5, <2>7
  <2>8. CASE catalog[t] # ""
    BY <2>3, <2>4, <2>6, <2>8 DEF Serves
  <2>9. QED
    BY <2>7, <2>8
<1>6. QED
    BY <1>4, <1>5

LEMMA NothingOpen ==
    \A r : \A t \in DOMAIN About : \A x \in About[t] : ~Grants(x, r, TRUE)
<1>1. \A t \in DOMAIN About : \A x \in About[t] : x \in CorpReads
    BY AboutCorp DEF CorpReads
<1>2. QED
    BY <1>1, NPCGrantsNone

LEMMA ListedAreTools == \A r : availableCorpTools(r) \subseteq DOMAIN CorpTools
<1>1. DOMAIN catalog \subseteq DOMAIN CorpTools
    BY DEF catalog, CorpTools
<1>2. "eve_corp_overview" \in DOMAIN CorpTools /\ "eve_corp_mining" \in DOMAIN CorpTools
    BY DEF CorpTools
<1>3. QED
    BY <1>1, <1>2 DEF availableCorpTools, Catalogued

-----------------------------------------------------------------------------
(* The state of a call: what it read and wrote, and what it has left to do. *)

ReadLog(r, n, log) ==
    /\ \E X : log \in Seq([of : X, used : BOOLEAN, age : Nat])
    /\ \A i \in 1 .. Len(log) : Grants(log[i].of, r, n)

(* The reads that count are about the ages of F.                            *)
Covered(t, F, log) ==
    \A i \in 1 .. Len(log) :
      log[i].used => t = "eve_corp_mining" \/ log[i].of \in F \cup Undated(t)

Outcomes == {"no", "yes", "failed"}

WriteLog(r, n, log) ==
    /\ \E X : log \in Seq([of : X, ok : BOOLEAN, applied : BOOLEAN, recorded : Outcomes])
    /\ \A i \in 1 .. Len(log) : Grants(log[i].of, r, n)

(* Before a step of kind d, the mutations sent so far have their row, or    *)
(* its loss was logged, and were accepted, but for what is still to be done *)
(* about the last.                                                          *)
Logged(d, log) ==
    /\ d \in {"record", "check"} => log # <<>>
    /\ \A i \in 1 .. Len(log) : log[i].recorded # "no" \/ (d = "record" /\ i = Len(log))
    /\ \A i \in 1 .. Len(log) : log[i].ok \/ (d \in {"record", "check"} /\ i = Len(log))

Asking == \E F : Covered(tool, F, reads) /\ Shape(tool, roles, npc, F, todo)

Listing ==
    \E F :
      /\ Covered(tool, F, reads) /\ tool = "eve_corp_overview"
      /\ todo # <<>> /\ Dated(tool, F, Head(todo))
      /\ listed = (IF npc THEN {} ELSE availableCorpTools(seen))

Writing ==
    \/ /\ IsSeq(todo) /\ todo # <<>> /\ Head(todo).do = "either" /\ wrote = <<>>
       /\ \A x \in Head(todo).paths : Fresh(roles, npc, x \o Tail(todo))
    \/ Chain(roles, npc, todo) /\ Logged(Head(todo).do, wrote)

Going ==
    \/ ~confirmed /\ wrote = <<>> /\ (Asking \/ Listing)
    \/ confirmed /\ tool # "eve_corp_overview" /\ Writing

(* RoleVerdictsExact, of these roles.                                       *)
Verdicts(t, r, n, s, l, kind) ==
    s = r =>
      /\ kind = "ok" /\ t = "eve_corp_overview" =>
           \A u \in DOMAIN About : u \in l <=> \E x \in About[u] : Grants(x, r, n)
      /\ kind \in {"role", "npc"} => \A x \in About[t] : ~Grants(x, r, n)

ToolNames == DOMAIN Programs \cup {""}

Data ==
    /\ tool \in ToolNames
    /\ roles \in RoleSets \cup {{}} /\ npc \in BOOLEAN /\ seen \in {{}, roles}
    /\ listed \subseteq DOMAIN CorpTools /\ confirmed \in BOOLEAN
    /\ ReadLog(roles, npc, reads) /\ WriteLog(roles, npc, wrote)

Ended ==
    /\ Verdicts(tool, roles, npc, seen, listed, result.kind)
    /\ WritesAccounted /\ ConsentReachesESI

TInv ==
    /\ Data /\ AgeIsOldest
    /\ Calling => Going
    /\ ~Calling => Ended

(* What the step before a call can be.                                      *)
LEMMA Modes ==
    ASSUME Going
    PROVE  /\ todo # <<>>
           /\ \/ /\ ~confirmed /\ wrote = <<>> /\ IsSeq(todo)
                 /\ \E F : Covered(tool, F, reads) /\ Onward(tool, roles, npc, F, todo)
              \/ ~confirmed /\ wrote = <<>> /\ Listing /\ Step.do = "answer"
              \/ /\ confirmed
                 /\ \/ /\ IsSeq(todo) /\ Step.do = "either" /\ wrote = <<>>
                       /\ \A x \in Step.paths : Fresh(roles, npc, x \o Rest)
                    \/ /\ Chain(roles, npc, todo) /\ Logged(Step.do, wrote)
                       /\ Link(roles, npc, todo, 1) /\ Step = todo[1]
                       /\ Step.do \in {"write", "record", "check", "answer"}
<1>1. CASE ~confirmed /\ wrote = <<>> /\ Asking
  <2>1. PICK F : Covered(tool, F, reads) /\ Shape(tool, roles, npc, F, todo)
    BY <1>1 DEF Asking
  <2>2. todo # <<>> /\ IsSeq(todo) /\ Onward(tool, roles, npc, F, todo)
    BY <2>1, Unfold
  <2>3. QED
    BY <1>1, <2>1, <2>2
<1>2. CASE ~confirmed /\ wrote = <<>> /\ Listing
  <2>1. todo # <<>> /\ Step.do = "answer"
    BY <1>2 DEF Listing, Dated, Step
  <2>2. QED
    BY <1>2, <2>1
<1>3. CASE confirmed /\ tool # "eve_corp_overview" /\ Writing
  <2>1. CASE Chain(roles, npc, todo) /\ Logged(Step.do, wrote)
    <3>1. PICK S : todo \in Seq(S) /\ todo # <<>>
      BY <2>1 DEF Chain, IsSeq
    <3>2. 1 \in 1 .. Len(todo) /\ Step = todo[1]
      BY <3>1, EmptySeq, LenProperties DEF Step
    <3>3. Link(roles, npc, todo, 1)
      BY <2>1, <3>2 DEF Chain
    <3>4. Step.do \in {"write", "record", "check", "answer"}
      BY <3>2, <3>3 DEF Link
    <3>5. QED
      BY <1>3, <2>1, <3>1, <3>2, <3>3, <3>4
  <2>2. QED
    BY <1>3, <2>1 DEF Writing, Step, Rest
<1>4. QED
    BY <1>1, <1>2, <1>3 DEF Going

(* A call that goes on, and one that ends.                                  *)
LEMMA GoesOn ==
    ASSUME Calling, UNCHANGED <<tool, result>>, AgeIsOldest, Data', Going'
    PROVE  TInv'
<1>1. Calling' /\ result.age = {}
    BY DEF Calling, NoResult
<1>2. AgeIsOldest'
    BY <1>1 DEF AgeIsOldest
<1>3. QED
    BY <1>1, <1>2 DEF TInv

LEMMA Over ==
    ASSUME NEW k, NEW a, Calling, UNCHANGED tool, k # "none", Ends(k, a)
    PROVE  ~Calling' /\ result'.kind = k /\ result'.age = a
    BY DEF Calling, Ends, NoResult

-----------------------------------------------------------------------------
(* The logs of a call.                                                      *)

(* A log with one more entry.                                               *)
LEMMA OneMore ==
    ASSUME NEW S, NEW log \in Seq(S), NEW T, NEW e, e \in T
    PROVE  /\ Append(log, e) \in Seq(S \cup T)
           /\ Len(log) \in Nat /\ Len(Append(log, e)) = Len(log) + 1
           /\ \A i \in 1 .. Len(log) : Append(log, e)[i] = log[i]
           /\ Append(log, e)[Len(log) + 1] = e
<1>1. log \in Seq(S \cup T) /\ e \in S \cup T
    BY SeqMonotonic
<1>2. QED
    BY <1>1, AppendProperties, LenProperties

LEMMA SameLength == \A a, b \in Nat : 1 .. a = 1 .. b => a = b
<1>1. SUFFICES ASSUME NEW a \in Nat, NEW b \in Nat, 1 .. a = 1 .. b, a # b
               PROVE  FALSE
    OBVIOUS
<1>2. a \in 1 .. a <=> a \in 1 .. b
    BY <1>1
<1>3. b \in 1 .. a <=> b \in 1 .. b
    BY <1>1
<1>4. a < b \/ b < a
    BY <1>1
<1>5. QED
    BY <1>2, <1>3, <1>4

LEMMA ReadAdded ==
    ASSUME NEW r, NEW n, NEW log, ReadLog(r, n, log),
           NEW x, Grants(x, r, n), NEW u \in BOOLEAN, NEW a \in Nat
    PROVE  LET e == [of |-> x, used |-> u, age |-> a]
           IN  /\ ReadLog(r, n, Append(log, e))
               /\ \A t, F : /\ Covered(t, F, log)
                            /\ u => t = "eve_corp_mining" \/ x \in F \cup Undated(t)
                            => Covered(t, F, Append(log, e))
<1>1. PICK X : log \in Seq([of : X, used : BOOLEAN, age : Nat])
    BY DEF ReadLog
<1>2. DEFINE e == [of |-> x, used |-> u, age |-> a]
             S == [of : X, used : BOOLEAN, age : Nat]
             T == [of : {x}, used : BOOLEAN, age : Nat]
             Y == X \cup {x}
             new == Append(log, e)
<1>3. e \in T /\ e.of = x /\ e.used = u
    OBVIOUS
<1>4. S \cup T \subseteq [of : Y, used : BOOLEAN, age : Nat]
    OBVIOUS
<1>5. /\ new \in Seq(S \cup T) /\ Len(log) \in Nat /\ Len(new) = Len(log) + 1
      /\ \A i \in 1 .. Len(log) : new[i] = log[i]
      /\ new[Len(log) + 1] = e
  <2>1. HIDE DEF e, S, T
  <2>2. log \in Seq(S)
    BY <1>1 DEF S
  <2>3. QED
    BY <1>3, <2>2, OneMore
<1>6. new \in Seq([of : Y, used : BOOLEAN, age : Nat])
    BY <1>4, <1>5, SeqMonotonic
<1>7. HIDE DEF e, S, T, new, Y
<1>8. \A i \in 1 .. Len(new) :
        (i \in 1 .. Len(log) /\ new[i] = log[i]) \/ new[i] = e
    BY <1>5
<1>9. ReadLog(r, n, new)
  <2>1. \A i \in 1 .. Len(new) : Grants(new[i].of, r, n)
    BY <1>3, <1>8 DEF ReadLog
  <2>2. QED
    BY <1>6, <2>1 DEF ReadLog
<1>10. ASSUME NEW t, NEW F, Covered(t, F, log),
              u => t = "eve_corp_mining" \/ x \in F \cup Undated(t)
       PROVE  Covered(t, F, new)
    BY <1>3, <1>8, <1>10 DEF Covered
<1>11. QED
    BY <1>9, <1>10 DEF new, e

UsedUpTo(log, k) == [i \in DOMAIN log |-> [log[i] EXCEPT !.used = @ /\ i <= k]]

LEMMA SectionUnused ==
    ASSUME NEW r, NEW n, NEW log, ReadLog(r, n, log), NEW k
    PROVE  /\ ReadLog(r, n, UsedUpTo(log, k))
           /\ \A t, F : Covered(t, F, log) => Covered(t, F, UsedUpTo(log, k))
<1>1. PICK X : log \in Seq([of : X, used : BOOLEAN, age : Nat])
    BY DEF ReadLog
<1>2. DEFINE S == [of : X, used : BOOLEAN, age : Nat]
             left == [i \in DOMAIN log |-> [log[i] EXCEPT !.used = @ /\ i <= k]]
<1>3. DOMAIN log = 1 .. Len(log) /\ Len(log) \in Nat /\ \A i \in 1 .. Len(log) : log[i] \in S
    BY <1>1, LenProperties, ElementOfSeq
<1>4. \A i \in 1 .. Len(log) :
        left[i] \in S /\ left[i].of = log[i].of /\ (left[i].used => log[i].used)
  <2>1. SUFFICES ASSUME NEW i \in 1 .. Len(log)
                 PROVE  left[i] \in S /\ left[i].of = log[i].of /\ (left[i].used => log[i].used)
    OBVIOUS
  <2>2. log[i] \in S /\ left[i] = [log[i] EXCEPT !.used = @ /\ i <= k]
    BY <1>3
  <2>3. PICK o \in X, u \in BOOLEAN, a \in Nat : log[i] = [of |-> o, used |-> u, age |-> a]
    BY <2>2
  <2>4. log[i].used = u /\ log[i].of = o
    BY <2>3
  <2>5. PICK v \in BOOLEAN : v = (u /\ i <= k)
    OBVIOUS
  <2>6. left[i] = [of |-> o, used |-> v, age |-> a]
    BY <2>2, <2>3, <2>5
  <2>7. left[i] \in S /\ left[i].of = o /\ left[i].used = v
    BY <2>6
  <2>8. QED
    BY <2>4, <2>5, <2>7
<1>5. left \in [1 .. Len(log) -> S]
    BY <1>3, <1>4
<1>6. left \in Seq(S) /\ Len(left) = Len(log)
  <2>1. HIDE DEF left, S
  <2>2. left \in Seq(S)
    BY <1>3, <1>5, SeqDef
  <2>3. DOMAIN left = 1 .. Len(left) /\ DOMAIN left = 1 .. Len(log) /\ Len(left) \in Nat
    BY <1>5, <2>2, LenProperties
  <2>4. QED
    BY <1>3, <2>2, <2>3, SameLength
<1>7. HIDE DEF left
<1>8. ReadLog(r, n, left)
    BY <1>3, <1>4, <1>6 DEF ReadLog
<1>9. \A t, F : Covered(t, F, log) => Covered(t, F, left)
    BY <1>4, <1>6 DEF Covered
<1>10. QED
    BY <1>8, <1>9 DEF left, UsedUpTo

LEMMA WriteAdded ==
    ASSUME NEW r, NEW n, NEW log, WriteLog(r, n, log),
           NEW x, Grants(x, r, n), NEW u \in BOOLEAN, NEW a \in BOOLEAN
    PROVE  LET new == Append(log, [of |-> x, ok |-> u, applied |-> a, recorded |-> "no"])
           IN  /\ WriteLog(r, n, new)
               /\ \A d : d \in {"write", "answer"} /\ Logged(d, log) => Logged("record", new)
<1>1. PICK X : log \in Seq([of : X, ok : BOOLEAN, applied : BOOLEAN, recorded : Outcomes])
    BY DEF WriteLog
<1>2. DEFINE e == [of |-> x, ok |-> u, applied |-> a, recorded |-> "no"]
             S == [of : X, ok : BOOLEAN, applied : BOOLEAN, recorded : Outcomes]
             T == [of : {x}, ok : BOOLEAN, applied : BOOLEAN, recorded : Outcomes]
             Y == X \cup {x}
             new == Append(log, e)
<1>3. e \in T /\ e.of = x
    BY DEF Outcomes
<1>4. S \cup T \subseteq [of : Y, ok : BOOLEAN, applied : BOOLEAN, recorded : Outcomes]
    OBVIOUS
<1>5. /\ new \in Seq(S \cup T) /\ Len(log) \in Nat /\ Len(new) = Len(log) + 1
      /\ \A i \in 1 .. Len(log) : new[i] = log[i]
      /\ new[Len(log) + 1] = e
  <2>1. HIDE DEF e, S, T
  <2>2. log \in Seq(S)
    BY <1>1 DEF S
  <2>3. QED
    BY <1>3, <2>2, OneMore
<1>6. new \in Seq([of : Y, ok : BOOLEAN, applied : BOOLEAN, recorded : Outcomes])
    BY <1>4, <1>5, SeqMonotonic
<1>7. HIDE DEF e, S, T, new, Y
<1>8. \A i \in 1 .. Len(new) :
        \/ i \in 1 .. Len(log) /\ new[i] = log[i]
        \/ i = Len(new) /\ new[i] = e
  <2>1. SUFFICES ASSUME NEW i \in 1 .. Len(new)
                 PROVE  \/ i \in 1 .. Len(log) /\ new[i] = log[i]
                        \/ i = Len(new) /\ new[i] = e
    OBVIOUS
  <2>2. i \in 1 .. Len(log) \/ i = Len(log) + 1
    BY <1>5, <2>1
  <2>3. QED
    BY <1>5, <2>2
<1>9. WriteLog(r, n, new)
  <2>1. \A i \in 1 .. Len(new) : Grants(new[i].of, r, n)
    BY <1>3, <1>8 DEF WriteLog
  <2>2. QED
    BY <1>6, <2>1 DEF WriteLog
<1>10. ASSUME NEW d \in {"write", "answer"}, Logged(d, log)
       PROVE  Logged("record", new)
  <2>1. \A i \in 1 .. Len(log) : log[i].recorded # "no" /\ log[i].ok
    BY <1>10 DEF Logged
  <2>2. new # <<>>
    BY <1>5, <1>6, EmptySeq
  <2>3. \A i \in 1 .. Len(new) : (new[i].recorded # "no" /\ new[i].ok) \/ i = Len(new)
    BY <1>8, <2>1
  <2>4. QED
    BY <2>2, <2>3 DEF Logged
<1>11. QED
    BY <1>9, <1>10 DEF new, e

LEMMA WriteRecorded ==
    ASSUME NEW r, NEW n, NEW log, WriteLog(r, n, log), Logged("record", log),
           NEW u \in {"yes", "failed"}
    PROVE  WriteLog(r, n, recordWrite(log, u)) /\ Logged("check", recordWrite(log, u))
<1>1. PICK X : log \in Seq([of : X, ok : BOOLEAN, applied : BOOLEAN, recorded : Outcomes])
    BY DEF WriteLog
<1>2. DEFINE S == [of : X, ok : BOOLEAN, applied : BOOLEAN, recorded : Outcomes]
             new == recordWrite(log, u)
<1>3. /\ DOMAIN log = 1 .. Len(log) /\ Len(log) \in Nat /\ Len(log) >= 1
      /\ \A i \in 1 .. Len(log) : log[i] \in S
  <2>1. log # <<>>
    BY DEF Logged
  <2>2. DOMAIN log = 1 .. Len(log) /\ Len(log) \in Nat /\ Len(log) # 0
    BY <1>1, <2>1, LenProperties, EmptySeq
  <2>3. \A i \in 1 .. Len(log) : log[i] \in S
    BY <1>1, ElementOfSeq
  <2>4. QED
    BY <2>2, <2>3
<1>4. \A i \in 1 .. Len(log) :
        /\ new[i] \in S /\ new[i].of = log[i].of /\ new[i].ok = log[i].ok
        /\ new[i].recorded = (IF i = Len(log) THEN u ELSE log[i].recorded)
  <2>1. SUFFICES ASSUME NEW i \in 1 .. Len(log)
                 PROVE  /\ new[i] \in S /\ new[i].of = log[i].of /\ new[i].ok = log[i].ok
                        /\ new[i].recorded = (IF i = Len(log) THEN u ELSE log[i].recorded)
    OBVIOUS
  <2>2. new[i] = IF i = Len(log) THEN [log[i] EXCEPT !.recorded = u] ELSE log[i]
    BY <1>3 DEF recordWrite
  <2>3. PICK o \in X, y \in BOOLEAN, v \in BOOLEAN, w \in Outcomes :
          log[i] = [of |-> o, ok |-> y, applied |-> v, recorded |-> w]
    BY <1>3
  <2>4. /\ log[i] \in S
        /\ log[i].of = o /\ log[i].ok = y /\ log[i].recorded = w
    BY <2>3
  <2>5. CASE i = Len(log)
    <3>1. new[i] = [log[i] EXCEPT !.recorded = u]
      BY <2>2, <2>5
    <3>2. u \in Outcomes
      BY DEF Outcomes
    <3>3. new[i] = [of |-> o, ok |-> y, applied |-> v, recorded |-> u]
      <4>1. HIDE DEF new
      <4>2. QED
        BY <2>3, <3>1
    <3>4. new[i] \in S /\ new[i].of = o /\ new[i].ok = y /\ new[i].recorded = u
      <4>1. HIDE DEF new
      <4>2. QED
        BY <3>2, <3>3
    <3>5. QED
      BY <2>4, <2>5, <3>4
  <2>6. CASE i # Len(log)
    BY <2>2, <2>4, <2>6
  <2>7. QED
    BY <2>5, <2>6
<1>5. new \in [1 .. Len(log) -> S]
    BY <1>3, <1>4 DEF recordWrite
<1>6. new \in Seq(S) /\ Len(new) = Len(log)
  <2>1. HIDE DEF new, S
  <2>2. new \in Seq(S)
    BY <1>3, <1>5, SeqDef
  <2>3. DOMAIN new = 1 .. Len(new) /\ DOMAIN new = 1 .. Len(log) /\ Len(new) \in Nat
    BY <1>5, <2>2, LenProperties
  <2>4. QED
    BY <1>3, <2>2, <2>3, SameLength
<1>7. HIDE DEF new
<1>8. WriteLog(r, n, new)
    BY <1>4, <1>6 DEF WriteLog
<1>9. new # <<>>
    BY <1>3, <1>6, EmptySeq
<1>10. Logged("check", new)
    BY <1>4, <1>6, <1>9 DEF Logged
<1>11. QED
    BY <1>8, <1>10 DEF new

-----------------------------------------------------------------------------
(* Each step keeps the invariant.                                           *)

(* A call that still asks.                                                  *)
LEMMA AsksOn ==
    ASSUME Calling, Data, AgeIsOldest, ~confirmed, wrote = <<>>,
           UNCHANGED <<tool, world, listed, confirmed, wrote, result>>,
           seen' \in {{}, roles}, ReadLog(roles, npc, reads'),
           NEW F, Covered(tool, F, reads'), Shape(tool, roles, npc, F, todo')
    PROVE  TInv'
<1>1. tool' = tool /\ roles' = roles /\ npc' = npc
    BY DEF world
<1>2. Data'
    BY <1>1 DEF Data
<1>3. Asking'
    BY <1>1 DEF Asking
<1>4. Going'
    BY <1>3 DEF Going
<1>5. QED
    BY <1>2, <1>4, GoesOn

(* A call that has changed nothing ends.                                    *)
LEMMA AskingEnds ==
    ASSUME Calling, Data, ~confirmed, wrote = <<>>,
           UNCHANGED <<tool, world, seen, listed, confirmed, wrote>>,
           NEW kind, NEW age, kind \notin {"none", "partial"}, Ends(kind, age),
           ReadLog(roles, npc, reads'),
           Verdicts(tool, roles, npc, seen, listed, kind),
           tool # "eve_corp_mining" =>
             \A a \in age : \A i \in 1 .. Len(reads') :
               reads'[i].used /\ reads'[i].of \notin Undated(tool) => reads'[i].age <= a
    PROVE  TInv'
<1>1. tool' = tool /\ roles' = roles /\ npc' = npc
    BY DEF world
<1>2. ~Calling' /\ result'.kind = kind /\ result'.age = age
    BY Over
<1>3. Data'
    BY <1>1 DEF Data
<1>4. AgeIsOldest'
  <2>1. DOMAIN reads' = 1 .. Len(reads')
    BY LenProperties DEF ReadLog
  <2>2. QED
    BY <1>1, <1>2, <2>1 DEF AgeIsOldest
<1>5. Verdicts(tool, roles, npc, seen, listed, result.kind)'
    BY <1>1, <1>2
<1>6. WritesAccounted' /\ ConsentReachesESI'
    BY <1>2 DEF WritesAccounted, ConsentReachesESI
<1>7. QED
    BY <1>2, <1>3, <1>4, <1>5, <1>6 DEF TInv, Ended

LEMMA TInvInit == Init => TInv
<1>1. SUFFICES ASSUME Init PROVE TInv
    OBVIOUS
<1>2. ~Calling
    BY <1>1 DEF Init, Calling
<1>3. result.kind = "none" /\ result.age = {}
    BY <1>1 DEF Init, NoResult
<1>4. \A S : <<>> \in Seq(S)
    BY EmptySeq
<1>5. ReadLog(roles, npc, reads) /\ WriteLog(roles, npc, wrote)
  <2>1. reads = <<>> /\ wrote = <<>>
    BY <1>1 DEF Init
  <2>2. QED
    BY <2>1, <1>4 DEF ReadLog, WriteLog
<1>6. tool \in ToolNames
    BY <1>1 DEF Init, ToolNames
<1>7. Data
  <2>1. roles = {} /\ npc = FALSE /\ seen = {} /\ listed = {} /\ confirmed = FALSE
    BY <1>1 DEF Init
  <2>2. QED
    BY <2>1, <1>5, <1>6 DEF Data
<1>8. AgeIsOldest
    BY <1>3 DEF AgeIsOldest
<1>9. Ended
  <2>1. wrote = <<>> /\ confirmed = FALSE
    BY <1>1 DEF Init
  <2>2. QED
    BY <1>3, <2>1 DEF Ended, Verdicts, WritesAccounted, ConsentReachesESI
<1>10. QED
    BY <1>2, <1>7, <1>8, <1>9 DEF TInv

LEMMA StartStep == ASSUME NEW t \in DOMAIN Programs, Start(t) PROVE TInv'
<1>1. PICK w \in Worlds(t) : roles' = w[1] /\ npc' = w[2]
    BY DEF Start
<1>2. /\ tool' = t /\ todo' = Programs[t] /\ seen' = {} /\ reads' = <<>> /\ listed' = {}
      /\ confirmed' = FALSE /\ wrote' = <<>> /\ result' = NoResult
    BY DEF Start
<1>3. result'.kind = "none" /\ result'.age = {}
    BY <1>2 DEF NoResult
<1>4. \A S : <<>> \in Seq(S)
    BY EmptySeq
<1>5. ReadLog(roles, npc, reads)' /\ WriteLog(roles, npc, wrote)'
    BY <1>2, <1>4 DEF ReadLog, WriteLog
<1>6. tool' \in ToolNames
    BY <1>2 DEF ToolNames
<1>7. roles' \in RoleSets \cup {{}} /\ npc' \in BOOLEAN
  <2>1. (\E r \in RoleSets : w = <<r, FALSE>>) \/ w = <<{}, TRUE>> \/ w = <<{}, FALSE>>
    BY <1>1 DEF Worlds
  <2>2. CASE \E r \in RoleSets : w = <<r, FALSE>>
    <3>1. PICK r \in RoleSets : w = <<r, FALSE>>
      BY <2>2
    <3>2. w[1] = r /\ w[2] = FALSE
      BY <3>1
    <3>3. QED
      BY <1>1, <3>2
  <2>3. CASE w = <<{}, TRUE>>
    <3>1. w[1] = {} /\ w[2] = TRUE
      BY <2>3
    <3>2. QED
      BY <1>1, <3>1
  <2>4. CASE w = <<{}, FALSE>>
    <3>1. w[1] = {} /\ w[2] = FALSE
      BY <2>4
    <3>2. QED
      BY <1>1, <3>1
  <2>5. QED
    BY <2>1, <2>2, <2>3, <2>4
<1>8. Data'
    BY <1>2, <1>5, <1>6, <1>7 DEF Data
<1>9. AgeIsOldest'
    BY <1>3 DEF AgeIsOldest
<1>10. Ended'
    BY <1>2, <1>3 DEF Ended, Verdicts, WritesAccounted, ConsentReachesESI
<1>11. Going'
  <2>1. PICK F : Shape(t, w[1], w[2], F, Programs[t])
    BY Handlers
  <2>2. Covered(t, F, <<>>)
    BY DEF Covered
  <2>3. Asking'
    BY <1>1, <1>2, <2>1, <2>2 DEF Asking
  <2>4. QED
    BY <1>2, <2>3 DEF Going
<1>12. QED
    BY <1>8, <1>9, <1>10, <1>11 DEF TInv

LEMMA PassStep == ASSUME TInv, Pass PROVE TInv'
<1>1. Calling /\ Data /\ AgeIsOldest /\ Going
    BY DEF Pass, At, TInv
<1>2. /\ Step.do \in {"gate", "scope", "npc", "role"} /\ Admitted(Step) /\ todo' = Rest
      /\ UNCHANGED <<tool, world, seen, reads, told, listed, confirmed, wrote, result>>
    BY DEF Pass, At, Gates
<1>3. PICK F : /\ ~confirmed /\ wrote = <<>>
               /\ Covered(tool, F, reads) /\ Onward(tool, roles, npc, F, todo)
    BY <1>1, <1>2, Modes
<1>4. Shape(tool, roles, npc, F, Rest)
  <2>1. ~Turns(tool, roles, npc, F, todo)
    <3>1. ~Stops(tool, roles, npc, Head(todo))
      BY <1>1, <1>2, RolesRead DEF Stops, Admitted, Step, Data
    <3>2. QED
      BY <1>2, <3>1 DEF Turns, Dated, Step
  <2>2. QED
    BY <1>2, <1>3, <2>1 DEF Onward, Step, Rest
<1>5. seen' \in {{}, roles} /\ ReadLog(roles, npc, reads')
    BY <1>1, <1>2 DEF Data
<1>6. QED
    BY <1>1, <1>2, <1>3, <1>4, <1>5, AsksOn

LEMMA RefuseStep == ASSUME TInv, Refuse PROVE TInv'
<1>1. Calling /\ Data /\ AgeIsOldest /\ Going
    BY DEF Refuse, At, TInv
<1>2. DEFINE kind == IF Step.do = "gate" THEN Step.of ELSE Step.do
<1>3. /\ Step.do \in {"gate", "scope", "npc", "role"}
      /\ Step.do = "gate" \/ ~Admitted(Step)
      /\ Ends(kind, {})
      /\ UNCHANGED <<tool, world, seen, reads, told, listed, confirmed, wrote>>
    BY DEF Refuse, At, Gates
<1>4. PICK F : /\ ~confirmed /\ wrote = <<>>
               /\ Covered(tool, F, reads) /\ Onward(tool, roles, npc, F, todo)
    BY <1>1, <1>3, Modes
<1>5. kind \notin {"none", "ok", "partial"}
      /\ (kind \in {"role", "npc"} /\ seen = roles => \A x \in About[tool] : ~Grants(x, roles, npc))
  <2>1. CASE Plain(tool, roles, npc, F, Step)
    <3>1. CASE Step.do = "gate"
      BY <2>1, <3>1 DEF Plain, Dated
    <3>2. CASE Step.do # "gate"
      BY <2>1, <3>2, <1>3 DEF Plain, Dated, Admitted
    <3>3. QED
      BY <3>1, <3>2
  <2>2. CASE Turns(tool, roles, npc, F, todo)
    <3>1. Stops(tool, roles, npc, Step)
      BY <2>2, <1>3 DEF Turns, Dated, Step
    <3>2. \A x \in About[tool] : npc => ~Grants(x, roles, npc)
      BY <3>1, NothingOpen, <1>1, <1>3 DEF Stops, Data
    <3>3. Step.do \in {"npc", "role"}
      BY <3>1, <1>3 DEF Stops
    <3>4. QED
      BY <3>1, <3>2, <3>3 DEF Stops
  <2>3. QED
    BY <1>3, <1>4, <2>1, <2>2 DEF Onward, Step
<1>6. HIDE DEF kind
<1>7. Verdicts(tool, roles, npc, seen, listed, kind)
    BY <1>5 DEF Verdicts
<1>8. ReadLog(roles, npc, reads')
    BY <1>1, <1>3 DEF Data
<1>9. QED
    BY <1>1, <1>3, <1>4, <1>5, <1>7, <1>8, AskingEnds

LEMMA AnAge == \A x : AgesOf(x) \subseteq Nat
<1>1. Ages # {} /\ Ages \subseteq Nat
    BY AgesAssumption
<1>2. Min(Ages) \in Ages
    BY <1>1, MinIsOne
<1>3. QED
    BY <1>1, <1>2 DEF AgesOf

(* A read that a call makes is one that it may make.                        *)
LEMMA Reading ==
    ASSUME Going, Step.do = "read"
    PROVE  /\ ~confirmed /\ wrote = <<>>
           /\ \E F : /\ Covered(tool, F, reads)
                     /\ Step.fatal \in BOOLEAN /\ MayRead(tool, roles, npc, F, Step.of)
                     /\ Shape(tool, roles, npc, F, Rest)
                     /\ \A k \in 1 .. Len(todo) :
                          todo[k].do = "end" =>
                            Shape(tool, roles, npc, F, SubSeq(todo, k + 1, Len(todo)))
<1>1. PICK F : /\ ~confirmed /\ wrote = <<>>
               /\ Covered(tool, F, reads) /\ Onward(tool, roles, npc, F, todo)
    BY Modes
<1>2. ~Turns(tool, roles, npc, F, todo)
    BY DEF Turns, Dated, Stops, Step
<1>3. Plain(tool, roles, npc, F, Step) /\ Shape(tool, roles, npc, F, Rest)
      /\ \A k \in 1 .. Len(todo) :
           todo[k].do = "end" => Shape(tool, roles, npc, F, SubSeq(todo, k + 1, Len(todo)))
    BY <1>1, <1>2 DEF Onward, Step, Rest
<1>4. Step.fatal \in BOOLEAN /\ MayRead(tool, roles, npc, F, Step.of)
    BY <1>3 DEF Plain, Dated
<1>5. QED
    BY <1>1, <1>3, <1>4

LEMMA ReadAnswersStep == ASSUME TInv, ReadAnswers PROVE TInv'
<1>1. Calling /\ Data /\ AgeIsOldest /\ Going /\ Step.do = "read"
    BY DEF ReadAnswers, At, TInv
<1>2. PICK a \in AgesOf(Step.of) :
        reads' = Append(reads, [of |-> Step.of, used |-> TRUE, age |-> a])
    BY DEF ReadAnswers
<1>3. /\ seen' = (IF Step.of = "own_roles" THEN roles ELSE seen) /\ todo' = Rest
      /\ UNCHANGED <<tool, world, told, listed, confirmed, wrote, result>>
    BY DEF ReadAnswers
<1>4. PICK F : /\ ~confirmed /\ wrote = <<>> /\ Covered(tool, F, reads)
               /\ MayRead(tool, roles, npc, F, Step.of) /\ Shape(tool, roles, npc, F, Rest)
    BY <1>1, Reading
<1>5. a \in Nat
    BY <1>2, AnAge
<1>6. ReadLog(roles, npc, reads) /\ Grants(Step.of, roles, npc)
    BY <1>1, <1>4 DEF Data, MayRead
<1>7. ReadLog(roles, npc, reads') /\ Covered(tool, F, reads')
  <2>1. tool = "eve_corp_mining" \/ Step.of \in F \cup Undated(tool)
    BY <1>4 DEF MayRead
  <2>2. QED
    BY <1>2, <1>4, <1>5, <1>6, <2>1, ReadAdded
<1>8. seen' \in {{}, roles}
    BY <1>1, <1>3 DEF Data
<1>9. QED
    BY <1>1, <1>3, <1>4, <1>7, <1>8, AsksOn

LEMMA ReadFailsStep == ASSUME TInv, ReadFails PROVE TInv'
<1>1. Calling /\ Data /\ AgeIsOldest /\ Going /\ Step.do = "read"
    BY DEF ReadFails, At, TInv
<1>2. UNCHANGED <<tool, world, seen, listed, confirmed, wrote>>
    BY DEF ReadFails
<1>3. PICK F : /\ ~confirmed /\ wrote = <<>> /\ Covered(tool, F, reads)
               /\ MayRead(tool, roles, npc, F, Step.of) /\ Shape(tool, roles, npc, F, Rest)
               /\ \A k \in 1 .. Len(todo) :
                    todo[k].do = "end" =>
                      Shape(tool, roles, npc, F, SubSeq(todo, k + 1, Len(todo)))
    BY <1>1, Reading
<1>4. ReadLog(roles, npc, Failed) /\ Covered(tool, F, Failed)
  <2>1. ReadLog(roles, npc, reads) /\ Grants(Step.of, roles, npc)
    BY <1>1, <1>3 DEF Data, MayRead
  <2>2. QED
    BY <1>3, <2>1, ReadAdded DEF Failed
<1>5. seen' \in {{}, roles}
    BY <1>1, <1>2 DEF Data
<1>6. CASE reads' = Failed /\ todo' = Rest /\ UNCHANGED <<told, result>>
    BY <1>1, <1>2, <1>3, <1>4, <1>5, <1>6, AsksOn
<1>7. ASSUME Open # {}, UNCHANGED result,
             reads' = Unused(todo[Min(Open)].before),
             todo' = SubSeq(todo, Min(Open) + 1, Len(todo))
      PROVE  TInv'
  <2>1. Min(Open) \in 1 .. Len(todo) /\ todo[Min(Open)].do = "end"
    <3>1. IsSeq(todo)
      BY <1>1, <1>3, Modes
    <3>2. DOMAIN todo = 1 .. Len(todo) /\ Len(todo) \in Nat
      BY <3>1, LenProperties DEF IsSeq
    <3>3. Open \subseteq Nat
      BY <3>2 DEF Open
    <3>4. Min(Open) \in Open
      BY <1>7, <3>3, MinIsOne
    <3>5. QED
      BY <3>2, <3>4 DEF Open
  <2>2. Shape(tool, roles, npc, F, todo')
    BY <1>3, <1>7, <2>1
  <2>3. ReadLog(roles, npc, reads') /\ Covered(tool, F, reads')
    <3>1. reads' = UsedUpTo(Failed, todo[Min(Open)].before)
      BY <1>7 DEF Unused, UsedUpTo
    <3>2. QED
      BY <1>4, <3>1, SectionUnused
  <2>4. QED
    BY <1>1, <1>2, <1>3, <1>5, <1>7, <2>2, <2>3, AsksOn
<1>8. CASE reads' = Failed /\ Ends("esi", {})
  <2>1. Verdicts(tool, roles, npc, seen, listed, "esi")
    BY DEF Verdicts
  <2>2. "esi" \notin {"none", "partial"}
    OBVIOUS
  <2>3. QED
    BY <1>1, <1>2, <1>3, <1>4, <1>8, <2>1, <2>2, AskingEnds
<1>9. QED
    BY <1>6, <1>7, <1>8 DEF ReadFails

(* What is left of the writing part after one of its steps.                 *)
LEMMA ChainRest ==
    ASSUME NEW r, NEW n, NEW p, Chain(r, n, p), p[1].do \in {"write", "record", "check"}
    PROVE  /\ Chain(r, n, Tail(p))
           /\ p[1].do = "write" => Head(Tail(p)).do = "record" /\ Grants(p[1].of, r, n)
           /\ p[1].do = "record" => Head(Tail(p)).do = "check"
           /\ p[1].do = "check" => Head(Tail(p)).do \in {"write", "answer"}
<1>1. PICK S : p \in Seq(S) /\ p # <<>>
    BY DEF Chain, IsSeq
<1>2. Len(p) \in Nat /\ Len(p) # 0
    BY <1>1, EmptySeq, LenProperties
<1>3. /\ Tail(p) \in Seq(S) /\ Len(Tail(p)) = Len(p) - 1
      /\ \A i \in 1 .. Len(Tail(p)) : Tail(p)[i] = p[i + 1]
    BY <1>1, HeadTailProperties
<1>4. Link(r, n, p, 1)
    BY <1>2 DEF Chain
<1>5. /\ 1 < Len(p)
      /\ p[1].do = "write" => p[2].do = "record" /\ Grants(p[1].of, r, n)
      /\ p[1].do = "record" => p[2].do = "check"
      /\ p[1].do = "check" => p[2].do \in {"write", "answer"}
    BY <1>4 DEF Link
<1>6. Tail(p) # <<>> /\ Head(Tail(p)) = p[2]
  <2>1. PICK q : q = Tail(p)
    OBVIOUS
  <2>2. q \in Seq(S) /\ Len(q) # 0 /\ q[1] = p[2]
    <3>1. 1 \in 1 .. Len(Tail(p)) /\ 1 + 1 = 2
      BY <1>2, <1>3, <1>5
    <3>2. Len(Tail(p)) # 0 /\ Tail(p)[1] = p[2]
      BY <1>3, <3>1
    <3>3. QED
      BY <1>3, <2>1, <3>2
  <2>3. q # <<>> /\ Head(q) = q[1]
    BY <2>2, EmptySeq
  <2>4. QED
    BY <2>1, <2>2, <2>3
<1>7. ASSUME NEW i \in 1 .. Len(Tail(p))
      PROVE  Link(r, n, Tail(p), i)
  <2>1. i + 1 \in 1 .. Len(p) /\ Tail(p)[i] = p[i + 1]
    BY <1>2, <1>3, <1>7
  <2>2. Link(r, n, p, i + 1)
    BY <2>1 DEF Chain
  <2>3. CASE i < Len(Tail(p))
    <3>1. i + 1 \in 1 .. Len(Tail(p)) /\ Tail(p)[i + 1] = p[(i + 1) + 1]
      BY <1>2, <1>3, <1>7, <2>3
    <3>2. QED
      BY <2>1, <2>2, <2>3, <3>1 DEF Link
  <2>4. CASE ~(i < Len(Tail(p)))
    <3>1. ~(i + 1 < Len(p))
      BY <1>2, <1>3, <1>7, <2>4
    <3>2. QED
      BY <2>1, <2>2, <3>1 DEF Link
  <2>5. QED
    BY <2>3, <2>4
<1>8. QED
    BY <1>3, <1>5, <1>6, <1>7 DEF Chain, IsSeq

(* A step of the writing part.                                              *)
LEMMA WritesOn ==
    ASSUME Calling, Data, AgeIsOldest, Going, confirmed,
           UNCHANGED <<tool, world, seen, reads, listed, confirmed, result>>,
           WriteLog(roles, npc, wrote'),
           Chain(roles, npc, todo'), Logged(Head(todo').do, wrote')
    PROVE  TInv'
<1>1. tool' = tool /\ roles' = roles /\ npc' = npc
    BY DEF world
<1>2. Data'
    BY <1>1 DEF Data
<1>3. Writing'
    BY <1>1 DEF Writing
<1>4. Going'
    BY <1>3 DEF Going
<1>5. QED
    BY <1>2, <1>4, GoesOn

LEMMA BranchStep == ASSUME TInv, Branch PROVE TInv'
<1>1. Calling /\ Data /\ AgeIsOldest /\ Going
    BY DEF Branch, At, TInv
<1>2. /\ Step.do \in {"either", "if", "ifnpc", "section", "end"}
      /\ UNCHANGED <<tool, world, seen, reads, told, listed, confirmed, wrote, result>>
    BY DEF Branch, At
<1>3. ASSUME ~confirmed, wrote = <<>>, IsSeq(todo), NEW F,
             Covered(tool, F, reads), Onward(tool, roles, npc, F, todo)
      PROVE  TInv'
  <2>1. \A p : IsSeq(p) => <<>> \o p = p
    BY Nothing
  <2>2. IsSeq(Rest)
    <3>1. PICK S : todo \in Seq(S) /\ todo # <<>>
      BY <1>1, <1>3, Modes DEF IsSeq
    <3>2. QED
      BY <3>1, HeadTailProperties DEF Rest, IsSeq
  <2>3. seen' \in {{}, roles} /\ ReadLog(roles, npc, reads')
    BY <1>1, <1>2 DEF Data
  <2>4. ASSUME NEW G, F \subseteq G, Shape(tool, roles, npc, G, todo')
        PROVE  TInv'
    <3>1. Covered(tool, G, reads')
      BY <1>2, <1>3, <2>4 DEF Covered
    <3>2. QED
      BY <1>1, <1>2, <1>3, <2>3, <2>4, <3>1, AsksOn
  <2>5. CASE Step.do = "either" /\ \E path \in Step.paths : todo' = path \o Rest
    <3>1. \A x \in Step.paths : \E G : F \subseteq G /\ Shape(tool, roles, npc, G, x \o Rest)
      BY <1>3, <2>5 DEF Onward, Plain, Turns, Dated, Stops, Step, Rest
    <3>2. QED
      BY <2>4, <2>5, <3>1
  <2>6. CASE /\ Step.do = "if"
             /\ todo' = (IF Step.scope \subseteq RequestedScopes /\ HasRole(seen, Step.any)
                           THEN Step.then ELSE <<>>) \o Rest
    <3>1. /\ Shape(tool, roles, npc, F, Rest)
          /\ HasRole(roles, Step.any) => Shape(tool, roles, npc, F, Step.then \o Rest)
      BY <1>3, <2>6 DEF Onward, Plain, Turns, Dated, Stops, Step, Rest
    <3>2. HasRole(seen, Step.any) => HasRole(roles, Step.any)
      BY <1>1, RolesRead DEF Data
    <3>3. todo' = Rest \/ (HasRole(seen, Step.any) /\ todo' = Step.then \o Rest)
      BY <2>1, <2>2, <2>6
    <3>4. QED
      BY <2>4, <3>1, <3>2, <3>3
  <2>7. CASE Step.do = "ifnpc" /\ todo' = (IF npc THEN Step.then ELSE <<>>) \o Rest
    <3>1. CASE ~npc
      <4>1. Shape(tool, roles, npc, F, Rest)
        BY <1>3, <2>7, <3>1 DEF Onward, Plain, Turns, Dated, Stops, Step, Rest
      <4>2. todo' = Rest
        BY <2>1, <2>2, <2>7, <3>1
      <4>3. QED
        BY <2>4, <4>1, <4>2
    <3>2. CASE npc
      <4>1. tool = "eve_corp_overview" /\ Step.then = ListTools \o Answer({})
        BY <1>3, <2>7, <3>2 DEF Onward, Plain, Turns, Dated, Stops, Step, Rest
      <4>2. DEFINE l == [do |-> "list"]
                   s == [do |-> "answer", fused |-> {}, rule |-> "oldest"]
      <4>3. /\ l.do = "list" /\ s.do = "answer" /\ s.rule = "oldest" /\ s.fused = {}
            /\ <<s>> # <<>> /\ <<l>> # <<>> /\ Head(<<s>>) = s
        OBVIOUS
      <4>4. ListTools = <<l>> /\ Answer({}) = <<s>>
        BY DEF ListTools, Answer
      <4>5. HIDE DEF l, s
      <4>6. IsSeq(<<l>>) /\ IsSeq(<<s>>)
        BY OneStep
      <4>7. DEFINE q == <<s>> \o Rest
      <4>8. IsSeq(q) /\ q # <<>> /\ Head(q) = s
        BY <2>2, <4>3, <4>6, Joined, TakeFirst
      <4>9. todo' = (<<l>> \o <<s>>) \o Rest
        BY <2>7, <3>2, <4>1, <4>4
      <4>10. (<<l>> \o <<s>>) \o Rest = <<l>> \o q
        BY <2>2, <4>6, Associative
      <4>11. HIDE DEF q
      <4>12. Head(<<l>> \o q) = l /\ Tail(<<l>> \o q) = q
        BY <4>8, HeadAndRest
      <4>13. IsSeq(<<l>> \o q) /\ <<l>> \o q # <<>>
        BY <4>3, <4>6, <4>8, Joined, TakeFirst
      <4>14. Turns(tool, roles, npc, F, <<l>> \o q)
        BY <4>1, <4>3, <4>8, <4>12 DEF Turns, Dated
      <4>15. Shape(tool, roles, npc, F, <<l>> \o q)
        BY <4>13, <4>14, TurnShape
      <4>16. QED
        BY <2>4, <4>9, <4>10, <4>15
    <3>3. QED
      BY <3>1, <3>2
  <2>8. CASE /\ Step.do = "section"
             /\ todo' = Step.body \o SectionEnd(Step.of, Len(reads)) \o Rest
    <3>1. \A e : e.do = "end" =>
            Shape(tool, roles, npc, F, (Step.body \o <<e>>) \o Rest)
      BY <1>3, <2>8 DEF Onward, Plain, Turns, Dated, Stops, Step, Rest
    <3>2. DEFINE e == [do |-> "end", of |-> Step.of, before |-> Len(reads)]
    <3>3. e.do = "end" /\ SectionEnd(Step.of, Len(reads)) = <<e>>
      BY DEF SectionEnd
    <3>4. todo' = (Step.body \o <<e>>) \o Rest
      BY <2>8, <3>3
    <3>5. HIDE DEF e
    <3>6. QED
      BY <2>4, <3>1, <3>3, <3>4
  <2>9. CASE Step.do = "end" /\ todo' = Rest
    <3>1. Shape(tool, roles, npc, F, Rest)
      BY <1>3, <2>9 DEF Onward, Plain, Turns, Dated, Stops, Step, Rest
    <3>2. QED
      BY <2>4, <2>9, <3>1
  <2>10. QED
    BY <2>5, <2>6, <2>7, <2>8, <2>9 DEF Branch
<1>4. ASSUME confirmed, Step.do = "either", wrote = <<>>,
             \A x \in Step.paths : Fresh(roles, npc, x \o Rest)
      PROVE  TInv'
  <2>1. PICK x \in Step.paths : todo' = x \o Rest
    BY <1>4 DEF Branch
  <2>2. Chain(roles, npc, todo') /\ todo'[1].do \in {"write", "answer"}
    BY <1>4, <2>1 DEF Fresh
  <2>3. Head(todo').do \in {"write", "answer"}
    BY <2>2 DEF Chain
  <2>4. Logged(Head(todo').do, wrote')
    BY <1>2, <1>4, <2>3 DEF Logged
  <2>5. WriteLog(roles, npc, wrote')
    BY <1>1, <1>2 DEF Data
  <2>6. QED
    BY <1>1, <1>2, <1>4, <2>2, <2>4, <2>5, WritesOn
<1>5. QED
    BY <1>1, <1>2, <1>3, <1>4, Modes

LEMMA ListStep == ASSUME TInv, List PROVE TInv'
<1>1. Calling /\ Data /\ AgeIsOldest /\ Going /\ Step.do = "list"
    BY DEF List, At, TInv
<1>2. /\ listed' = (IF npc THEN {} ELSE availableCorpTools(seen)) /\ todo' = Rest
      /\ UNCHANGED <<tool, world, seen, reads, told, confirmed, wrote, result>>
    BY DEF List
<1>3. PICK F : /\ ~confirmed /\ wrote = <<>>
               /\ Covered(tool, F, reads) /\ Onward(tool, roles, npc, F, todo)
    BY <1>1, Modes
<1>4. /\ tool = "eve_corp_overview" /\ Rest # <<>> /\ Dated(tool, F, Head(Rest))
    BY <1>1, <1>3 DEF Onward, Plain, Turns, Dated, Stops, Step, Rest
<1>5. tool' = tool /\ roles' = roles /\ npc' = npc
    BY <1>2 DEF world
<1>6. Going'
  <2>1. Listing'
    BY <1>2, <1>3, <1>4, <1>5 DEF Listing
  <2>2. QED
    BY <1>2, <1>3, <2>1 DEF Going
<1>7. Data'
  <2>1. listed' \subseteq DOMAIN CorpTools
    BY <1>2, ListedAreTools
  <2>2. QED
    BY <1>1, <1>2, <1>5, <2>1 DEF Data
<1>8. QED
    BY <1>1, <1>2, <1>6, <1>7, GoesOn

LEMMA PreviewStep == ASSUME TInv, Preview PROVE TInv'
<1>1. Calling /\ Data /\ Going /\ Step.do = "authorize"
    BY DEF Preview, At, TInv
<1>2. PICK kind \in {"preview", "blocked"} : Ends(kind, {})
    BY DEF Preview
<1>3. UNCHANGED <<tool, world, seen, reads, told, listed, confirmed, wrote>>
    BY DEF Preview
<1>4. ~confirmed /\ wrote = <<>>
    BY <1>1, Modes
<1>5. Verdicts(tool, roles, npc, seen, listed, kind)
    BY <1>2 DEF Verdicts
<1>6. kind \notin {"none", "partial"}
    BY <1>2
<1>7. ReadLog(roles, npc, reads')
    BY <1>1, <1>3 DEF Data
<1>8. QED
    BY <1>1, <1>2, <1>3, <1>4, <1>5, <1>6, <1>7, AskingEnds

LEMMA ConfirmStep == ASSUME TInv, Confirm PROVE TInv'
<1>1. Calling /\ Data /\ AgeIsOldest /\ Going /\ Step.do = "authorize"
    BY DEF Confirm, At, TInv
<1>2. /\ confirmed' = TRUE /\ todo' = Rest
      /\ UNCHANGED <<tool, world, seen, reads, told, listed, wrote, result>>
    BY DEF Confirm
<1>3. PICK F : wrote = <<>> /\ Onward(tool, roles, npc, F, todo)
    BY <1>1, Modes
<1>4. After(roles, npc, Rest) /\ tool # "eve_corp_overview"
    BY <1>1, <1>3 DEF Onward, Plain, Turns, Dated, Stops, Step, Rest
<1>5. roles' = roles /\ npc' = npc
    BY <1>2 DEF world
<1>6. ASSUME Fresh(roles, npc, Rest) PROVE Writing'
  <2>1. Chain(roles, npc, todo') /\ Head(todo').do \in {"write", "answer"}
    BY <1>2, <1>6 DEF Fresh, Chain
  <2>2. Logged(Head(todo').do, <<>>)
    BY <2>1 DEF Logged
  <2>3. QED
    BY <1>2, <1>3, <1>5, <2>1, <2>2 DEF Writing
<1>7. Writing'
    BY <1>2, <1>3, <1>4, <1>5, <1>6 DEF Writing, After
<1>8. Going'
    BY <1>2, <1>4, <1>7 DEF Going
<1>9. Data'
    BY <1>1, <1>2, <1>5 DEF Data
<1>10. QED
    BY <1>1, <1>2, <1>8, <1>9, GoesOn

LEMMA WriteStep == ASSUME TInv, Write PROVE TInv'
<1>1. Calling /\ Data /\ AgeIsOldest /\ Going /\ Step.do = "write"
    BY DEF Write, At, TInv
<1>2. PICK ok \in BOOLEAN, applied \in BOOLEAN :
        wrote' = Append(wrote, [of |-> Step.of, ok |-> ok, applied |-> applied,
                                recorded |-> "no"])
    BY DEF Write
<1>3. /\ todo' = Rest
      /\ UNCHANGED <<tool, world, seen, reads, told, listed, confirmed, result>>
    BY DEF Write
<1>4. confirmed /\ Chain(roles, npc, todo) /\ Logged("write", wrote) /\ Step = todo[1]
    BY <1>1, Modes DEF Onward, Plain, Turns, Dated, Stops, Step
<1>5. Chain(roles, npc, Rest) /\ Head(Rest).do = "record" /\ Grants(Step.of, roles, npc)
    BY <1>1, <1>4, ChainRest DEF Rest
<1>6. WriteLog(roles, npc, wrote') /\ Logged("record", wrote')
  <2>1. WriteLog(roles, npc, wrote)
    BY <1>1 DEF Data
  <2>2. QED
    BY <1>2, <1>4, <1>5, <2>1, WriteAdded
<1>7. QED
    BY <1>1, <1>3, <1>4, <1>5, <1>6, WritesOn

LEMMA RecordStep == ASSUME TInv, Record PROVE TInv'
<1>1. Calling /\ Data /\ AgeIsOldest /\ Going /\ Step.do = "record"
    BY DEF Record, At, TInv
<1>2. PICK outcome \in {"yes", "failed"} : wrote' = recordWrite(wrote, outcome)
    BY DEF Record
<1>3. /\ todo' = Rest
      /\ UNCHANGED <<tool, world, seen, reads, told, listed, confirmed, result>>
    BY DEF Record
<1>4. confirmed /\ Chain(roles, npc, todo) /\ Logged("record", wrote) /\ Step = todo[1]
    BY <1>1, Modes DEF Onward, Plain, Turns, Dated, Stops, Step
<1>5. Chain(roles, npc, Rest) /\ Head(Rest).do = "check"
    BY <1>1, <1>4, ChainRest DEF Rest
<1>6. WriteLog(roles, npc, wrote') /\ Logged("check", wrote')
  <2>1. WriteLog(roles, npc, wrote)
    BY <1>1 DEF Data
  <2>2. QED
    BY <1>2, <1>4, <2>1, WriteRecorded
<1>7. QED
    BY <1>1, <1>3, <1>4, <1>5, <1>6, WritesOn

LEMMA CheckStep == ASSUME TInv, Check PROVE TInv'
<1>1. Calling /\ Data /\ AgeIsOldest /\ Going /\ Step.do = "check"
    BY DEF Check, At, TInv
<1>2. UNCHANGED <<tool, world, seen, reads, told, listed, confirmed, wrote>>
    BY DEF Check
<1>3. confirmed /\ Chain(roles, npc, todo) /\ Logged("check", wrote) /\ Step = todo[1]
    BY <1>1, Modes DEF Onward, Plain, Turns, Dated, Stops, Step
<1>4. PICK X :
        wrote \in Seq([of : X, ok : BOOLEAN, applied : BOOLEAN, recorded : Outcomes])
    BY <1>1 DEF Data, WriteLog
<1>5. /\ DOMAIN wrote = 1 .. Len(wrote) /\ Len(wrote) \in Nat /\ wrote # <<>>
      /\ Last(wrote) = wrote[Len(wrote)]
      /\ \A i \in 1 .. Len(wrote) : wrote[i].recorded # "no"
      /\ \A i \in 1 .. Len(wrote) : wrote[i].ok \/ i = Len(wrote)
    BY <1>3, <1>4, LenProperties DEF Logged, Last
<1>6. CASE Last(wrote).ok /\ todo' = Rest /\ UNCHANGED result
  <2>1. Chain(roles, npc, Rest) /\ Head(Rest).do \in {"write", "answer"}
    BY <1>1, <1>3, ChainRest DEF Rest
  <2>2. Logged(Head(Rest).do, wrote)
    BY <1>5, <1>6, <2>1 DEF Logged
  <2>3. WriteLog(roles, npc, wrote')
    BY <1>1, <1>2 DEF Data
  <2>4. QED
    BY <1>1, <1>2, <1>3, <1>6, <2>1, <2>2, <2>3, WritesOn
<1>7. ASSUME NEW kind, ~Last(wrote).ok, Ends(kind, {}),
             kind = IF \E i \in DOMAIN wrote : wrote[i].ok THEN "partial" ELSE "esi"
      PROVE  TInv'
  <2>1. kind \in {"partial", "esi"}
    BY <1>7
  <2>2. ~Calling' /\ result'.kind = kind /\ result'.age = {}
    BY <1>1, <1>2, <1>7, <2>1, Over
  <2>3. tool' = tool /\ roles' = roles /\ npc' = npc
    BY <1>2 DEF world
  <2>4. Data'
    BY <1>1, <1>2, <2>3 DEF Data
  <2>5. AgeIsOldest'
    BY <2>2 DEF AgeIsOldest
  <2>6. Verdicts(tool, roles, npc, seen, listed, result.kind)'
    BY <2>1, <2>2 DEF Verdicts
  <2>7. WritesAccounted' /\ ConsentReachesESI'
    BY <1>2, <1>3, <1>5, <1>7, <2>1, <2>2 DEF WritesAccounted, ConsentReachesESI
  <2>8. QED
    BY <2>2, <2>4, <2>5, <2>6, <2>7 DEF TInv, Ended
<1>8. QED
    BY <1>6, <1>7 DEF Check

(* The answer of the overview lists what is open.                           *)
LEMMA OverviewVerdicts ==
    ASSUME Listing, Data
    PROVE  Verdicts(tool, roles, npc, seen, listed, "ok")
<1>1. SUFFICES ASSUME seen = roles
               PROVE  \A u \in DOMAIN About :
                        u \in listed <=> \E x \in About[u] : Grants(x, roles, npc)
    BY DEF Verdicts
<1>2. listed = IF npc THEN {} ELSE availableCorpTools(roles)
    BY <1>1 DEF Listing
<1>3. CASE npc = TRUE
    BY <1>2, <1>3, NothingOpen
<1>4. CASE npc = FALSE
    BY <1>2, <1>4, ListedIsOpen
<1>5. QED
    BY <1>3, <1>4 DEF Data

(* An answer is as old as what it is made of.                               *)
LEMMA OldestOf ==
    ASSUME Data, NEW F, Covered(tool, F, reads), NEW f \in {{}, F}, tool # "eve_corp_mining"
    PROVE  \A a \in staleNote(f) : \A i \in 1 .. Len(reads) :
             reads[i].used /\ reads[i].of \notin Undated(tool) => reads[i].age <= a
<1>1. DOMAIN reads = 1 .. Len(reads)
    BY LenProperties DEF Data, ReadLog
<1>2. SUFFICES ASSUME NEW a \in staleNote(f), NEW i \in 1 .. Len(reads),
                      reads[i].used, reads[i].of \notin Undated(tool)
               PROVE  reads[i].age <= a
    OBVIOUS
<1>3. a \in AgesFused(f) /\ \A b \in AgesFused(f) : b <= a
    BY <1>2 DEF staleNote
<1>4. f = F
    BY <1>3 DEF AgesFused
<1>5. reads[i].of \in F
    BY <1>2 DEF Covered
<1>6. reads[i].age \in AgesFused(f)
    BY <1>1, <1>2, <1>4, <1>5 DEF AgesFused
<1>7. QED
    BY <1>3, <1>6

LEMMA AnsweredStep == ASSUME TInv, Answered PROVE TInv'
<1>1. Calling /\ Data /\ AgeIsOldest /\ Going /\ Step.do = "answer"
    BY DEF Answered, At, TInv
<1>2. PICK age :
        /\ age = IF Step.rule = "ledger" THEN miningLedgerAge(Step.fused)
                 ELSE staleNote(Step.fused)
        /\ Ends("ok", age)
    BY DEF Answered
<1>3. UNCHANGED <<tool, world, seen, reads, told, listed, confirmed, wrote>>
    BY DEF Answered
<1>4. ReadLog(roles, npc, reads')
    BY <1>1, <1>3 DEF Data
<1>5. ASSUME ~confirmed, wrote = <<>>, NEW F, Covered(tool, F, reads),
             Dated(tool, F, Step), Verdicts(tool, roles, npc, seen, listed, "ok")
      PROVE  TInv'
  <2>1. tool # "eve_corp_mining" => age = staleNote(Step.fused) /\ Step.fused \in {{}, F}
    BY <1>2, <1>5 DEF Dated
  <2>2. tool # "eve_corp_mining" =>
          \A a \in age : \A i \in 1 .. Len(reads') :
            reads'[i].used /\ reads'[i].of \notin Undated(tool) => reads'[i].age <= a
    BY <1>1, <1>3, <1>5, <2>1, OldestOf
  <2>3. "ok" \notin {"none", "partial"}
    OBVIOUS
  <2>4. QED
    BY <1>1, <1>2, <1>3, <1>4, <1>5, <2>2, <2>3, AskingEnds
<1>6. ASSUME ~confirmed, wrote = <<>>, NEW F, Covered(tool, F, reads),
             Onward(tool, roles, npc, F, todo)
      PROVE  TInv'
  <2>1. tool # "eve_corp_overview" /\ Dated(tool, F, Step)
    BY <1>1, <1>6 DEF Onward, Plain, Turns, Stops, Step
  <2>2. Verdicts(tool, roles, npc, seen, listed, "ok")
    BY <2>1 DEF Verdicts
  <2>3. QED
    BY <1>5, <1>6, <2>1, <2>2
<1>7. ASSUME ~confirmed, wrote = <<>>, Listing
      PROVE  TInv'
  <2>1. PICK F : Covered(tool, F, reads) /\ Dated(tool, F, Step)
    BY <1>7 DEF Listing, Step
  <2>2. QED
    BY <1>1, <1>5, <1>7, <2>1, OverviewVerdicts
<1>8. ASSUME confirmed, Chain(roles, npc, todo), Logged("answer", wrote),
             Link(roles, npc, todo, 1), Step = todo[1]
      PROVE  TInv'
  <2>1. age = {}
    <3>1. Step.rule = "oldest" /\ Step.fused = {}
      BY <1>1, <1>8 DEF Link
    <3>2. AgesFused({}) = {}
      BY DEF AgesFused
    <3>3. QED
      BY <1>2, <3>1, <3>2 DEF staleNote
  <2>2. ~Calling' /\ result'.kind = "ok" /\ result'.age = {}
    BY <1>1, <1>2, <1>3, <2>1, Over
  <2>3. tool' = tool /\ roles' = roles /\ npc' = npc
    BY <1>3 DEF world
  <2>4. Data'
    BY <1>1, <1>3, <2>3 DEF Data
  <2>5. AgeIsOldest'
    BY <2>2 DEF AgeIsOldest
  <2>6. tool # "eve_corp_overview"
    BY <1>1, <1>8 DEF Going
  <2>7. Verdicts(tool, roles, npc, seen, listed, result.kind)'
    BY <2>2, <2>3, <2>6 DEF Verdicts
  <2>8. WritesAccounted' /\ ConsentReachesESI'
    <3>1. \A i \in 1 .. Len(wrote) : wrote[i].recorded # "no" /\ wrote[i].ok
      BY <1>8 DEF Logged
    <3>2. DOMAIN wrote = 1 .. Len(wrote)
      BY <1>1, LenProperties DEF Data, WriteLog
    <3>3. QED
      BY <1>3, <1>8, <2>2, <3>1, <3>2 DEF WritesAccounted, ConsentReachesESI
  <2>9. QED
    BY <2>2, <2>4, <2>5, <2>7, <2>8 DEF TInv, Ended
<1>9. QED
    BY <1>1, <1>6, <1>7, <1>8, Modes

LEMMA TInvStep == TInv /\ [Next]_vars => TInv'
<1>1. SUFFICES ASSUME TInv, [Next]_vars PROVE TInv'
    OBVIOUS
<1>2. CASE UNCHANGED vars
  <2>1. UNCHANGED <<tool, roles, npc, todo, seen, reads, listed, confirmed, wrote, result>>
    BY <1>2 DEF vars, world
  <2>2. Data' /\ AgeIsOldest'
    BY <1>1, <2>1 DEF TInv, Data, AgeIsOldest
  <2>3. Calling' <=> Calling
    BY <2>1 DEF Calling
  <2>4. Going => Going'
    BY <2>1 DEF Going, Asking, Listing, Writing
  <2>5. Ended /\ ~Calling => Ended'
    BY <2>1, <2>3 DEF Ended, WritesAccounted, ConsentReachesESI
  <2>6. QED
    BY <1>1, <2>2, <2>3, <2>4, <2>5 DEF TInv
<1>3. CASE \E t \in DOMAIN Programs : Start(t)
    BY <1>3, StartStep
<1>4. QED
    BY <1>1, <1>2, <1>3, PassStep, RefuseStep, ReadAnswersStep, ReadFailsStep, BranchStep,
       ListStep, PreviewStep, ConfirmStep, WriteStep, RecordStep, CheckStep, AnsweredStep
       DEF Next

THEOREM TInvHolds == Spec => []TInv
<1>1. QED
    BY TInvInit, TInvStep, PTL DEF Spec

-----------------------------------------------------------------------------
(* The theorems.                                                            *)

(* A call that goes on has steps left: every handler ends in an answer or a *)
(* refusal, whatever its arguments, its reads and the character's roles.    *)
THEOREM TypeCorrect == Spec => []TypeOK
<1>1. TInv => TypeOK
  <2>1. SUFFICES ASSUME TInv PROVE TypeOK
    OBVIOUS
  <2>2. Data /\ (Calling => todo # <<>>)
    BY <2>1, Modes DEF TInv
  <2>3. \A i \in DOMAIN reads : reads[i].used \in BOOLEAN /\ reads[i].age \in Nat
    <3>1. PICK X : reads \in Seq([of : X, used : BOOLEAN, age : Nat])
      BY <2>2 DEF Data, ReadLog
    <3>2. \A i \in DOMAIN reads : reads[i] \in [of : X, used : BOOLEAN, age : Nat]
      BY <3>1, LenProperties, ElementOfSeq
    <3>3. QED
      BY <3>2
  <2>4. \A i \in DOMAIN wrote : /\ wrote[i].ok \in BOOLEAN /\ wrote[i].applied \in BOOLEAN
                                /\ wrote[i].recorded \in {"no", "yes", "failed"}
    <3>1. PICK X :
            wrote \in Seq([of : X, ok : BOOLEAN, applied : BOOLEAN, recorded : Outcomes])
      BY <2>2 DEF Data, WriteLog
    <3>2. \A i \in DOMAIN wrote :
            wrote[i] \in [of : X, ok : BOOLEAN, applied : BOOLEAN, recorded : Outcomes]
      BY <3>1, LenProperties, ElementOfSeq
    <3>3. QED
      BY <3>2 DEF Outcomes
  <2>5. tool \in DOMAIN Programs \cup {""}
    BY <2>2 DEF Data, ToolNames
  <2>6. QED
    BY <2>2, <2>3, <2>4, <2>5 DEF Data, TypeOK
<1>2. QED
    BY <1>1, TInvHolds, PTL

(* No call asks for what CCP refuses to the character: whatever the roles,  *)
(* each read of each handler is behind the gate that opens it.              *)
THEOREM NeverDoomed == Spec => []NoDoomedRequest
<1>1. TInv => NoDoomedRequest
  <2>1. SUFFICES ASSUME TInv PROVE NoDoomedRequest
    OBVIOUS
  <2>2. ReadLog(roles, npc, reads) /\ WriteLog(roles, npc, wrote)
    BY <2>1 DEF TInv, Data
  <2>3. DOMAIN reads = 1 .. Len(reads) /\ DOMAIN wrote = 1 .. Len(wrote)
    BY <2>2, LenProperties DEF ReadLog, WriteLog
  <2>4. QED
    BY <2>2, <2>3, CCPGrantsIs DEF NoDoomedRequest, ReadLog, WriteLog
<1>2. QED
    BY <1>1, TInvHolds, PTL

(* The overview lists the tools that are open and no others, and a refusal  *)
(* for a role, once the roles are read, is one that CCP would have given.   *)
THEOREM VerdictsExact == Spec => []RoleVerdictsExact
<1>1. TInv => RoleVerdictsExact
  <2>1. SUFFICES ASSUME TInv PROVE RoleVerdictsExact
    OBVIOUS
  <2>2. CASE Calling
    <3>1. result.kind = "none"
      BY <2>2 DEF Calling, NoResult
    <3>2. QED
      BY <3>1 DEF RoleVerdictsExact
  <2>3. CASE ~Calling
    <3>1. Verdicts(tool, roles, npc, seen, listed, result.kind)
      BY <2>1, <2>3 DEF TInv, Ended
    <3>2. QED
      BY <3>1, CCPGrantsIs DEF Verdicts, RoleVerdictsExact
  <2>4. QED
    BY <2>2, <2>3
<1>2. QED
    BY <1>1, TInvHolds, PTL

(* data_age is no younger than any read the answer is made of, but for the  *)
(* ones that Withheld lists for the tool: a read that no entry of it names  *)
(* dates the answer, whatever the roles, the branches and the failed reads. *)
THEOREM OldestAge == Spec => []AgeIsOldest
<1>1. TInv => AgeIsOldest
    BY DEF TInv
<1>2. QED
    BY <1>1, TInvHolds, PTL

(* When the call ends each mutation that was sent has its row, or its loss  *)
(* was logged, the kind of its result says which of them were accepted, and *)
(* only the last one may have been carried out and be taken as refused.     *)
THEOREM Accounted == Spec => []WritesAccounted
<1>1. TInv => WritesAccounted
  <2>1. SUFFICES ASSUME TInv PROVE WritesAccounted
    OBVIOUS
  <2>2. CASE Calling
    <3>1. result.kind = "none"
      BY <2>2 DEF Calling, NoResult
    <3>2. Going /\ DOMAIN wrote = 1 .. Len(wrote)
      BY <2>1, <2>2, LenProperties DEF TInv, Data, WriteLog
    <3>3. \A i \in DOMAIN wrote : wrote[i].ok \/ i = Len(wrote)
      <4>1. wrote = <<>> \/ Logged(Head(todo).do, wrote)
        BY <3>2 DEF Going, Writing
      <4>2. CASE wrote = <<>>
        BY <4>2
      <4>3. CASE Logged(Head(todo).do, wrote)
        BY <3>2, <4>3 DEF Logged
      <4>4. QED
        BY <4>1, <4>2, <4>3
    <3>4. QED
      BY <2>2, <3>1, <3>3 DEF WritesAccounted
  <2>3. CASE ~Calling
    BY <2>1, <2>3 DEF TInv, Ended
  <2>4. QED
    BY <2>2, <2>3
<1>2. QED
    BY <1>1, TInvHolds, PTL

(* Nothing is sent that the player did not confirm, and what the player     *)
(* confirmed is sent.                                                       *)
THEOREM ConsentReaches == Spec => []ConsentReachesESI
<1>1. TInv => ConsentReachesESI
  <2>1. SUFFICES ASSUME TInv PROVE ConsentReachesESI
    OBVIOUS
  <2>2. CASE Calling
    <3>1. Going
      BY <2>1, <2>2 DEF TInv
    <3>2. QED
      BY <2>2, <3>1 DEF Going, ConsentReachesESI
  <2>3. CASE ~Calling
    BY <2>1, <2>3 DEF TInv, Ended
  <2>4. QED
    BY <2>2, <2>3
<1>2. QED
    BY <1>1, TInvHolds, PTL
=============================================================================
