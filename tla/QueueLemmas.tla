---------------------------- MODULE QueueLemmas -----------------------------
(***************************************************************************)
(* What the proofs about the front ends need of sequences: how many events *)
(* of a kind a queue holds, how it is split at an event, what is left of   *)
(* the keys when one is taken, and what becomes of a text that is          *)
(* rewritten step by step.                                                 *)
(***************************************************************************)
EXTENDS ClientText, SequenceTheorems, FiniteSetTheorems, TLAPS

\* Every set of natural numbers has a least one.
LEMMA LeastNumber ==
  ASSUME NEW T, T \subseteq Nat, T # {}
  PROVE  \E x \in T : \A y \in T : x <= y
<1>. DEFINE R == OpToRel(<, Nat)
<1>1. IsWellFoundedOn(R, Nat)
  BY NatLessThanWellFounded
<1>2. \A x, y \in Nat : x < y => <<x, y>> \in R
  BY Zenon DEF OpToRel
<1>. HIDE DEF R
<1>3. PICK x \in T : \A y \in T : ~(<<y, x>> \in R)
  BY <1>1, WFMin
<1>4. \A y \in T : y \in Nat /\ ~(y < x)
  BY <1>2, <1>3, Zenon
<1>. QED  BY <1>4

-----------------------------------------------------------------------------
(* Counting. *)

\* Counting gives a number no greater than the length.
LEMMA CountType ==
  ASSUME NEW X, NEW q \in Seq(X), NEW S
  PROVE  /\ IsFiniteSet({i \in 1 .. Len(q) : q[i] \in S})
         /\ HowMany(q, S) \in Nat /\ HowMany(q, S) <= Len(q)
<1>. DEFINE I == {i \in 1 .. Len(q) : q[i] \in S}
<1>1. IsFiniteSet(1 .. Len(q)) /\ Cardinality(1 .. Len(q)) = Len(q)
  <2>. Len(q) \in Nat
    BY LenProperties
  <2>. QED  BY FS_Interval
<1>2. IsFiniteSet(I) /\ Cardinality(I) <= Len(q)
  BY <1>1, FS_Subset
<1>3. Cardinality(I) \in Nat
  BY <1>2, FS_CardinalityType
<1>. QED  BY <1>2, <1>3 DEF HowMany

\* A queue that has some has one at a place, and the other way round.
LEMMA CountSome ==
  ASSUME NEW X, NEW q \in Seq(X), NEW S
  PROVE  HowMany(q, S) = 0 <=> \A i \in 1 .. Len(q) : q[i] \notin S
<1>. DEFINE I == {i \in 1 .. Len(q) : q[i] \in S}
<1>1. IsFiniteSet(I)
  BY CountType
<1>2. Cardinality(I) = 0 <=> I = {}
  BY <1>1, FS_EmptySet
<1>. QED  BY <1>2 DEF HowMany

\* Every item is counted.
LEMMA CountAll ==
  ASSUME NEW X, NEW q \in Seq(X), NEW S, \A i \in 1 .. Len(q) : q[i] \in S
  PROVE  HowMany(q, S) = Len(q)
<1>1. {i \in 1 .. Len(q) : q[i] \in S} = 1 .. Len(q)
  OBVIOUS
<1>2. Cardinality(1 .. Len(q)) = Len(q)
  <2>. Len(q) \in Nat
    BY LenProperties
  <2>. QED  BY FS_Interval
<1>. QED  BY <1>1, <1>2 DEF HowMany

\* The counts of two queues add up when one is put behind the other.
LEMMA CountConcat ==
  ASSUME NEW X, NEW q \in Seq(X), NEW r \in Seq(X), NEW S
  PROVE  HowMany(q \o r, S) = HowMany(q, S) + HowMany(r, S)
<1>. DEFINE p == q \o r
            I == {i \in 1 .. Len(q) : q[i] \in S}
            J == {i \in 1 .. Len(r) : r[i] \in S}
            K == {i \in 1 .. Len(p) : p[i] \in S}
            M == {i + Len(q) : i \in J}
            f == [i \in J |-> i + Len(q)]
<1>1. /\ p \in Seq(X) /\ Len(q) \in Nat /\ Len(r) \in Nat /\ Len(p) = Len(q) + Len(r)
      /\ \A i \in 1 .. Len(q) : p[i] = q[i]
      /\ \A i \in 1 .. Len(r) : p[Len(q) + i] = r[i]
  BY ConcatProperties, LenProperties
<1>2. IsFiniteSet(I) /\ IsFiniteSet(J)
  BY CountType
<1>. HIDE DEF p
<1>3. M = {i \in Len(q) + 1 .. Len(p) : p[i] \in S}
  <2>1. ASSUME NEW i \in J  PROVE i + Len(q) \in Len(q) + 1 .. Len(p) /\ p[i + Len(q)] \in S
    BY <1>1
  <2>2. ASSUME NEW k \in Len(q) + 1 .. Len(p), p[k] \in S  PROVE k \in M
    <3>1. k - Len(q) \in 1 .. Len(r) /\ k = (k - Len(q)) + Len(q) /\ k = Len(q) + (k - Len(q))
      BY <1>1, <2>2
    <3>2. p[k] = r[k - Len(q)]
      BY <1>1, <3>1
    <3>3. k - Len(q) \in J
      BY <2>2, <3>1, <3>2
    <3>. QED  BY <3>1, <3>3
  <2>. QED  BY <2>1, <2>2
<1>4. K = I \cup M /\ I \cap M = {}
  <2>1. 1 .. Len(p) = (1 .. Len(q)) \cup (Len(q) + 1 .. Len(p))
    BY <1>1
  <2>2. (1 .. Len(q)) \cap (Len(q) + 1 .. Len(p)) = {}
    BY <1>1
  <2>3. I = {i \in 1 .. Len(q) : p[i] \in S}
    BY <1>1
  <2>. QED  BY <1>3, <2>1, <2>2, <2>3
<1>5. IsFiniteSet(M) /\ Cardinality(M) = Cardinality(J)
  <2>1. f \in Bijection(J, M)
    <3>1. f \in Surjection(J, M)
      BY DEF Surjection
    <3>2. \A i, j \in J : i + Len(q) = j + Len(q) => i = j
      BY <1>1
    <3>3. f \in Injection(J, M)
      BY <3>2 DEF Injection, IsInjective
    <3>. QED  BY <3>1, <3>3 DEF Bijection
  <2>2. ExistsBijection(J, M)
    BY <2>1 DEF ExistsBijection
  <2>. HIDE DEF I, J, M, f
  <2>. QED  BY <1>2, <2>2, FS_Bijection
<1>6. Cardinality(K) = Cardinality(I) + Cardinality(M) - Cardinality(I \cap M)
  BY <1>2, <1>4, <1>5, FS_Union
<1>7. Cardinality(I \cap M) = 0 /\ Cardinality(I) \in Nat /\ Cardinality(M) \in Nat
  BY <1>2, <1>4, <1>5, FS_EmptySet, FS_CardinalityType
<1>8. HowMany(p, S) = Cardinality(K) /\ HowMany(q, S) = Cardinality(I) /\ HowMany(r, S) = Cardinality(J)
  BY DEF HowMany
<1>. HIDE DEF I, J, K, M
<1>. QED  BY <1>5, <1>6, <1>7, <1>8 DEF p

\* A sequence of one item.
LEMMA CountOne ==
  ASSUME NEW X, NEW e \in X, NEW S
  PROVE  /\ <<e>> \in Seq(X) /\ Len(<<e>>) = 1 /\ <<e>>[1] = e
         /\ HowMany(<<e>>, S) = IF e \in S THEN 1 ELSE 0
<1>. DEFINE q == <<e>>
<1>1. q \in Seq(X) /\ Len(q) = 1 /\ q[1] = e
  OBVIOUS
<1>. HIDE DEF q
<1>2. \A i \in 1 .. Len(q) : q[i] = e
  BY <1>1
<1>3. CASE e \in S
  <2>1. \A i \in 1 .. Len(q) : q[i] \in S
    BY <1>2, <1>3
  <2>2. HowMany(q, S) = Len(q)
    BY <1>1, <2>1, CountAll
  <2>. QED  BY <1>1, <1>3, <2>2 DEF q
<1>4. CASE e \notin S
  <2>1. \A i \in 1 .. Len(q) : q[i] \notin S
    BY <1>2, <1>4
  <2>2. HowMany(q, S) = 0
    BY <1>1, <2>1, CountSome
  <2>. QED  BY <1>1, <1>4, <2>2 DEF q
<1>. QED  BY <1>1, <1>3, <1>4 DEF q

\* An event that is put at the end.
LEMMA CountAppend ==
  ASSUME NEW X, NEW q \in Seq(X), NEW e \in X, NEW S
  PROVE  /\ e \in S => HowMany(Append(q, e), S) = HowMany(q, S) + 1
         /\ e \notin S => HowMany(Append(q, e), S) = HowMany(q, S)
<1>1. Append(q, e) = q \o <<e>> /\ Append(q, e) \in Seq(X)
  BY AppendIsConcat, AppendProperties
<1>2. <<e>> \in Seq(X) /\ HowMany(<<e>>, S) = IF e \in S THEN 1 ELSE 0
  BY CountOne
<1>. DEFINE r == <<e>>
<1>. HIDE DEF r
<1>3. HowMany(q \o r, S) = HowMany(q, S) + HowMany(r, S)
  BY <1>2, CountConcat DEF r
<1>4. HowMany(q, S) \in Nat
  BY CountType
<1>. QED  BY <1>1, <1>2, <1>3, <1>4 DEF r

\* A queue is its first event and the rest.
LEMMA HeadAndTail ==
  ASSUME NEW X, NEW q \in Seq(X), q # <<>>
  PROVE  /\ Head(q) \in X /\ Tail(q) \in Seq(X) /\ q = <<Head(q)>> \o Tail(q)
         /\ Len(Tail(q)) = Len(q) - 1
<1>1. Head(q) \in X /\ Tail(q) \in Seq(X) /\ Len(Tail(q)) = Len(q) - 1
  BY HeadTailProperties
<1>2. q = <<Head(q)>> \o Tail(q)
  <2>. DEFINE r == <<Head(q)>> \o Tail(q)
  <2>1. <<Head(q)>> \in Seq(X) /\ Len(<<Head(q)>>) = 1 /\ <<Head(q)>>[1] = Head(q)
    BY <1>1, CountOne
  <2>2. /\ r \in Seq(X) /\ Len(r) = 1 + Len(Tail(q)) /\ r[1] = Head(q)
        /\ \A i \in 1 .. Len(Tail(q)) : r[1 + i] = Tail(q)[i]
    BY <1>1, <2>1, ConcatProperties
  <2>3. /\ Len(q) \in Nat \ {0} /\ q[1] = Head(q)
        /\ \A i \in 1 .. Len(Tail(q)) : Tail(q)[i] = q[i + 1]
    BY HeadTailProperties, LenProperties, EmptySeq
  <2>. HIDE DEF r
  <2>4. ASSUME NEW i \in 1 .. Len(q)  PROVE r[i] = q[i]
    <3>1. CASE i = 1
      BY <2>2, <2>3, <3>1
    <3>2. CASE i # 1
      <4>1. i - 1 \in 1 .. Len(Tail(q)) /\ 1 + (i - 1) = i /\ (i - 1) + 1 = i
        BY <1>1, <2>3, <3>2
      <4>. QED  BY <2>2, <2>3, <4>1
    <3>. QED  BY <3>1, <3>2
  <2>5. Len(r) = Len(q)
    BY <1>1, <2>2, <2>3
  <2>. QED  BY <2>2, <2>4, <2>5, SeqEqual DEF r
<1>. QED  BY <1>1, <1>2

\* An event that is taken from the front.
LEMMA CountTail ==
  ASSUME NEW X, NEW q \in Seq(X), q # <<>>, NEW S
  PROVE  /\ Head(q) \in S => HowMany(q, S) = HowMany(Tail(q), S) + 1
         /\ Head(q) \notin S => HowMany(q, S) = HowMany(Tail(q), S)
<1>1. Head(q) \in X /\ Tail(q) \in Seq(X) /\ q = <<Head(q)>> \o Tail(q)
  BY HeadAndTail
<1>. DEFINE h == <<Head(q)>>
            t == Tail(q)
<1>3. h \in Seq(X) /\ HowMany(h, S) = IF Head(q) \in S THEN 1 ELSE 0
  BY <1>1, CountOne
<1>4. t \in Seq(X) /\ q = h \o t
  BY <1>1
<1>. HIDE DEF h, t
<1>5. HowMany(h \o t, S) = HowMany(h, S) + HowMany(t, S) /\ HowMany(t, S) \in Nat
  BY <1>3, <1>4, CountConcat, CountType
<1>6. HowMany(q, S) = HowMany(t, S) + IF Head(q) \in S THEN 1 ELSE 0
  BY <1>3, <1>4, <1>5
<1>. QED  BY <1>5, <1>6 DEF t
-----------------------------------------------------------------------------
(* A queue that is split at an event.  Joined hides the concatenation from the *)
(* prover, which would write out what is at each place.                        *)
Joined(a, b) == a \o b

\* What is joined is a sequence.
LEMMA JoinedType ==
  ASSUME NEW X, NEW a \in Seq(X), NEW b \in Seq(X)
  PROVE  Joined(a, b) \in Seq(X) /\ Len(Joined(a, b)) = Len(a) + Len(b)
  BY ConcatProperties DEF Joined

\* Three sequences may be joined in either order.
LEMMA JoinedThrice ==
  ASSUME NEW X, NEW a \in Seq(X), NEW b \in Seq(X), NEW c \in Seq(X)
  PROVE  Joined(Joined(a, b), c) = Joined(a, Joined(b, c))
  BY ConcatAssociative DEF Joined

\* Nothing is joined.
LEMMA JoinedEmpty ==
  ASSUME NEW X, NEW b \in Seq(X)
  PROVE  Joined(<<>>, b) = b /\ Joined(b, <<>>) = b
  BY ConcatEmptySeq DEF Joined

\* What is counted in both parts.
LEMMA JoinedCount ==
  ASSUME NEW X, NEW a \in Seq(X), NEW b \in Seq(X), NEW S
  PROVE  HowMany(Joined(a, b), S) = HowMany(a, S) + HowMany(b, S)
  BY CountConcat DEF Joined

\* To append is to join one item.
LEMMA JoinedAppend ==
  ASSUME NEW X, NEW b \in Seq(X), NEW e \in X
  PROVE  <<e>> \in Seq(X) /\ Append(b, e) = Joined(b, <<e>>)
  BY AppendIsConcat, CountOne DEF Joined

\* Where two parts are joined, each item is that of one of them.
LEMMA JoinedItems ==
  ASSUME NEW X, NEW a \in Seq(X), NEW b \in Seq(X)
  PROVE  LET u == Joined(a, b)
         IN  /\ u \in Seq(X) /\ Len(u) = Len(a) + Len(b) /\ Len(a) \in Nat /\ Len(b) \in Nat
             /\ \A i \in 1 .. Len(a) + Len(b) : u[i] = IF i <= Len(a) THEN a[i] ELSE b[i - Len(a)]
  BY ConcatProperties, LenProperties DEF Joined

\* What is joined to the same sequence is the same if the whole is.
LEMMA JoinedCancel ==
  ASSUME NEW X, NEW a \in Seq(X), NEW b \in Seq(X), NEW d \in Seq(X), Joined(a, b) = Joined(a, d)
  PROVE  b = d
<1>1. a \o b = a \o d
  BY DEF Joined
<1>. QED  BY <1>1, ConcatSimplifications

\* If two ways to split a sequence differ, there is a piece between the places.
LEMMA JoinedSplit ==
  ASSUME NEW X, NEW a \in Seq(X), NEW b \in Seq(X), NEW c \in Seq(X), NEW d \in Seq(X),
         Joined(a, b) = Joined(c, d), Len(a) <= Len(c)
  PROVE  \E r \in Seq(X) : c = Joined(a, r) /\ b = Joined(r, d)
<1>. DEFINE r == SubSeq(c, Len(a) + 1, Len(c))
            u == Joined(a, b)
<1>1. Len(a) \in Nat /\ Len(c) \in Nat /\ \A i \in 1 .. Len(c) : c[i] \in X
  BY LenProperties, ElementOfSeq
<1>2. /\ r \in Seq(X) /\ Len(r) = Len(c) - Len(a)
      /\ \A i \in 1 .. Len(c) - Len(a) : r[i] = c[Len(a) + i]
  <2>1. \A i \in Len(a) + 1 .. Len(c) : c[i] \in X
    BY <1>1
  <2>2. Len(a) + 1 \in Int /\ Len(c) \in Int /\ Len(c) - (Len(a) + 1) + 1 = Len(c) - Len(a)
    BY <1>1
  <2>3. /\ r \in Seq(X) /\ Len(r) = IF Len(a) + 1 <= Len(c) THEN Len(c) - (Len(a) + 1) + 1 ELSE 0
        /\ \A i \in 1 .. Len(c) - (Len(a) + 1) + 1 : r[i] = c[Len(a) + 1 + i - 1]
    BY <2>1, <2>2, SubSeqProperties
  <2>. QED  BY <1>1, <2>3
<1>3. /\ \A i \in 1 .. Len(a) + Len(b) : u[i] = IF i <= Len(a) THEN a[i] ELSE b[i - Len(a)]
      /\ \A i \in 1 .. Len(c) + Len(d) : u[i] = IF i <= Len(c) THEN c[i] ELSE d[i - Len(c)]
      /\ Len(b) \in Nat /\ Len(d) \in Nat
      /\ Len(a) + Len(b) = Len(c) + Len(d)
  <2>1. /\ Len(u) = Len(a) + Len(b) /\ Len(b) \in Nat
        /\ \A i \in 1 .. Len(a) + Len(b) : u[i] = IF i <= Len(a) THEN a[i] ELSE b[i - Len(a)]
    BY JoinedItems
  <2>2. /\ Len(u) = Len(c) + Len(d) /\ Len(d) \in Nat
        /\ \A i \in 1 .. Len(c) + Len(d) : u[i] = IF i <= Len(c) THEN c[i] ELSE d[i - Len(c)]
    <3>. DEFINE v == Joined(c, d)
    <3>1. /\ Len(v) = Len(c) + Len(d) /\ Len(d) \in Nat
          /\ \A i \in 1 .. Len(c) + Len(d) : v[i] = IF i <= Len(c) THEN c[i] ELSE d[i - Len(c)]
      BY JoinedItems
    <3>2. u = v
      OBVIOUS
    <3>. HIDE DEF u, v
    <3>. QED  BY <3>1, <3>2
  <2>. HIDE DEF u
  <2>. QED  BY <2>1, <2>2
<1>. HIDE DEF r
<1>4. c = Joined(a, r)
  <2>. DEFINE p == Joined(a, r)
  <2>1. /\ p \in Seq(X) /\ Len(p) = Len(a) + Len(r)
        /\ \A i \in 1 .. Len(a) + Len(r) : p[i] = IF i <= Len(a) THEN a[i] ELSE r[i - Len(a)]
    BY <1>2, JoinedItems
  <2>. HIDE DEF p, u
  <2>2. ASSUME NEW i \in 1 .. Len(c)  PROVE p[i] = c[i]
    <3>1. i \in 1 .. Len(a) + Len(r) /\ i \in 1 .. Len(c) + Len(d)
      BY <1>1, <1>2, <1>3
    <3>2. CASE i <= Len(a)
      <4>1. i \in 1 .. Len(a) + Len(b) /\ i <= Len(c)
        BY <1>1, <1>3, <3>2
      <4>. QED  BY <1>3, <2>1, <3>1, <3>2, <4>1
    <3>3. CASE ~(i <= Len(a))
      <4>1. i - Len(a) \in 1 .. Len(c) - Len(a) /\ Len(a) + (i - Len(a)) = i
        BY <1>1, <3>3
      <4>. QED  BY <1>2, <2>1, <3>1, <3>3, <4>1
    <3>. QED  BY <3>2, <3>3
  <2>3. Len(p) = Len(c)
    BY <1>1, <1>2, <2>1
  <2>4. p = c
    BY <2>1, <2>2, <2>3, SeqEqual
  <2>. QED  BY <2>4 DEF p
<1>5. b = Joined(r, d)
  <2>1. Joined(a, b) = Joined(Joined(a, r), d)
    BY <1>4
  <2>2. Joined(Joined(a, r), d) = Joined(a, Joined(r, d)) /\ Joined(r, d) \in Seq(X)
    BY <1>2, JoinedThrice, JoinedType
  <2>. QED  BY <2>1, <2>2, JoinedCancel
<1>. QED  BY <1>2, <1>4, <1>5

\* What is in the whole is in the parts.
LEMMA JoinedParts ==
  ASSUME NEW X, NEW a \in Seq(X), NEW b \in Seq(X), NEW Y, Joined(a, b) \in Seq(Y)
  PROVE  a \in Seq(Y) /\ b \in Seq(Y)
<1>. DEFINE c == Joined(a, b)
<1>1. /\ Len(c) = Len(a) + Len(b) /\ Len(a) \in Nat /\ Len(b) \in Nat
      /\ \A i \in 1 .. Len(c) : c[i] = IF i <= Len(a) THEN a[i] ELSE b[i - Len(a)]
  BY ConcatProperties, LenProperties DEF Joined
<1>. HIDE DEF c
<1>2. \A i \in 1 .. Len(c) : c[i] \in Y
  BY ElementOfSeq DEF c
<1>3. ASSUME NEW i \in 1 .. Len(a)  PROVE a[i] \in Y
  <2>1. i \in 1 .. Len(c) /\ i <= Len(a)
    BY <1>1
  <2>. QED  BY <1>1, <1>2, <2>1
<1>4. ASSUME NEW i \in 1 .. Len(b)  PROVE b[i] \in Y
  <2>1. Len(a) + i \in 1 .. Len(c) /\ ~(Len(a) + i <= Len(a)) /\ (Len(a) + i) - Len(a) = i
    BY <1>1
  <2>2. c[Len(a) + i] = b[i]
    BY <1>1, <2>1
  <2>. QED  BY <1>2, <2>1, <2>2
<1>5. ASSUME NEW s \in Seq(X), \A i \in 1 .. Len(s) : s[i] \in Y  PROVE s \in Seq(Y)
  <2>1. Len(s) \in Nat /\ s = [i \in 1 .. Len(s) |-> s[i]]
    BY LenProperties
  <2>2. [i \in 1 .. Len(s) |-> s[i]] \in Seq(Y)
    BY <1>5, <2>1, IsASeq
  <2>. QED  BY <2>1, <2>2
<1>. QED  BY <1>3, <1>4, <1>5

\* The first event is that of f.
LEMMA FirstAndRest ==
  ASSUME NEW X, NEW f \in Seq(X), Len(f) = 1, NEW s \in Seq(X)
  PROVE  LET q == Joined(f, s)
         IN  q \in Seq(X) /\ q # <<>> /\ Head(q) = f[1] /\ Tail(q) = s
<1>. DEFINE q == Joined(f, s)
<1>1. q \in Seq(X) /\ Len(q) = 1 + Len(s) /\ Len(s) \in Nat
  <2>1. q \in Seq(X) /\ Len(q) = Len(f) + Len(s)
    BY ConcatProperties DEF Joined
  <2>2. Len(s) \in Nat
    BY LenProperties
  <2>. QED  BY <2>1, <2>2
<1>2. \A i \in 1 .. 1 + Len(s) : q[i] = IF i <= 1 THEN f[i] ELSE s[i - 1]
  <2>1. \A i \in 1 .. Len(f) + Len(s) : q[i] = IF i <= Len(f) THEN f[i] ELSE s[i - Len(f)]
    BY ConcatProperties DEF Joined
  <2>. QED  BY <2>1, Zenon
<1>. HIDE DEF q
<1>3. q # <<>> /\ q[1] = f[1]
  <2>1. q # <<>>
    BY <1>1, EmptySeq
  <2>2. 1 \in 1 .. 1 + Len(s)
    BY <1>1
  <2>. QED  BY <1>2, <2>1, <2>2
<1>4. Head(q) = f[1]
  <2>1. 1 \in 1 .. Len(q)
    BY <1>1
  <2>2. Head(SubSeq(q, 1, Len(q))) = q[1]
    BY <1>1, <2>1, HeadTailOfSubSeq
  <2>. QED  BY <1>1, <1>3, <2>2, SubSeqFull
<1>5. /\ Tail(q) \in Seq(X) /\ Len(Tail(q)) = Len(q) - 1
      /\ \A i \in 1 .. Len(Tail(q)) : Tail(q)[i] = q[i + 1]
  BY <1>1, <1>3, HeadTailProperties
<1>. DEFINE r == Tail(q)
<1>6. Len(r) = Len(s)
  BY <1>1, <1>5
<1>7. ASSUME NEW i \in 1 .. Len(r)  PROVE r[i] = s[i]
  <2>1. i + 1 \in 1 .. 1 + Len(s) /\ ~(i + 1 <= 1) /\ (i + 1) - 1 = i
    BY <1>1, <1>6
  <2>. QED  BY <1>2, <1>5, <2>1
<1>8. r \in Seq(X)
  BY <1>5
<1>9. r = s
  <2>. HIDE DEF r
  <2>. QED  BY <1>6, <1>7, <1>8, SeqEqual
<1>. QED  BY <1>1, <1>3, <1>4, <1>9, Zenon DEF q


\* Behind l comes f, which is one event, and then t.
LEMMA SplitAtHead ==
  ASSUME NEW X, NEW l \in Seq(X), NEW f \in Seq(X), Len(f) = 1, NEW t \in Seq(X),
         NEW q, q = Joined(Joined(l, f), t), Len(l) = 0
  PROVE  q = Joined(f, t)
<1>1. l = <<>>
  BY EmptySeq
<1>2. Joined(l, f) = f
  BY <1>1, JoinedEmpty
<1>. QED  BY <1>2

\* The head is before the middle, which stays where it is.
LEMMA SplitLater ==
  ASSUME NEW X, NEW l \in Seq(X), NEW f \in Seq(X), Len(f) = 1, NEW t \in Seq(X),
         NEW q, q = Joined(Joined(l, f), t), Len(l) # 0
  PROVE  Head(q) = Head(l) /\ Tail(q) = Joined(Joined(Tail(l), f), t)
<1>. DEFINE ft == Joined(f, t)
            h == <<Head(l)>>
            k == Tail(l)
            r == Joined(k, ft)
<1>1. ft \in Seq(X)
  BY JoinedType
<1>2. q = Joined(l, ft)
  BY JoinedThrice
<1>3. Head(l) \in X /\ k \in Seq(X) /\ l = Joined(h, k)
  <2>1. l # <<>>
    BY EmptySeq
  <2>. QED  BY <2>1, HeadAndTail DEF Joined
<1>4. h \in Seq(X) /\ Len(h) = 1 /\ h[1] = Head(l)
  BY <1>3, CountOne
<1>. HIDE DEF h, k
<1>5. r = Joined(Joined(k, f), t)
  BY <1>3, JoinedThrice
<1>. HIDE DEF ft
<1>6. r \in Seq(X)
  BY <1>1, <1>3, JoinedType
<1>7. q = Joined(h, r)
  BY <1>1, <1>2, <1>3, <1>4, JoinedThrice
<1>. HIDE DEF r
<1>8. Head(Joined(h, r)) = h[1] /\ Tail(Joined(h, r)) = r
  BY <1>4, <1>6, FirstAndRest
<1>. QED  BY <1>4, <1>5, <1>7, <1>8, Zenon DEF k

\* What is counted in the three parts.
LEMMA SplitCount ==
  ASSUME NEW X, NEW l \in Seq(X), NEW f \in Seq(X), Len(f) = 1, NEW t \in Seq(X),
         NEW q, q = Joined(Joined(l, f), t), NEW S
  PROVE  /\ q \in Seq(X) /\ Len(q) = Len(l) + 1 + Len(t)
         /\ HowMany(q, S) = HowMany(l, S) + HowMany(f, S) + HowMany(t, S)
<1>. DEFINE lp == Joined(l, f)
<1>1. lp \in Seq(X) /\ Len(lp) = Len(l) + Len(f)
  BY JoinedType
<1>2. HowMany(lp, S) = HowMany(l, S) + HowMany(f, S)
  BY JoinedCount
<1>3. q = Joined(lp, t)
  OBVIOUS
<1>. HIDE DEF lp
<1>4. q \in Seq(X) /\ Len(q) = Len(lp) + Len(t)
  BY <1>1, <1>3, JoinedType
<1>5. HowMany(q, S) = HowMany(lp, S) + HowMany(t, S)
  BY <1>1, <1>3, JoinedCount
<1>. QED  BY <1>1, <1>2, <1>4, <1>5

\* What is appended joins the last part.
LEMMA SplitAppend ==
  ASSUME NEW X, NEW l \in Seq(X), NEW f \in Seq(X), Len(f) = 1, NEW t \in Seq(X),
         NEW q, q = Joined(Joined(l, f), t), NEW e \in X
  PROVE  Append(q, e) = Joined(Joined(l, f), Append(t, e))
<1>. DEFINE lp == Joined(l, f)
            g == <<e>>
<1>1. lp \in Seq(X) /\ q = Joined(lp, t)
  BY JoinedType
<1>. HIDE DEF lp
<1>2. q \in Seq(X)
  BY <1>1, JoinedType
<1>3. g \in Seq(X) /\ Append(q, e) = Joined(q, g) /\ Append(t, e) = Joined(t, g)
  BY <1>2, JoinedAppend
<1>. HIDE DEF g
<1>4. Joined(Joined(lp, t), g) = Joined(lp, Joined(t, g))
  BY <1>1, <1>3, JoinedThrice
<1>. QED  BY <1>1, <1>3, <1>4, Zenon DEF lp

-----------------------------------------------------------------------------
(* Keys that are taken. *)

\* Removing an item: what is left, and what is counted of it.
LEMMA RemoveAtProperties ==
  ASSUME NEW X, NEW s \in Seq(X), NEW i \in 1 .. Len(s), NEW S
  PROVE  /\ RemoveAt(s, i) \in Seq(X) /\ Len(RemoveAt(s, i)) = Len(s) - 1
         /\ HowMany(s, S) = HowMany(RemoveAt(s, i), S) + IF s[i] \in S THEN 1 ELSE 0
<1>. DEFINE a == SubSeq(s, 1, i - 1)
            m == SubSeq(s, i, i)
            b == SubSeq(s, i + 1, Len(s))
<1>1. Len(s) \in Nat /\ \A k \in 1 .. Len(s) : s[k] \in X
  BY LenProperties, ElementOfSeq
<1>2. a \in Seq(X) /\ Len(a) = i - 1
  <2>1. 1 \in Int /\ i - 1 \in Int /\ \A k \in 1 .. i - 1 : s[k] \in X
    BY <1>1
  <2>2. a \in Seq(X) /\ Len(a) = IF 1 <= i - 1 THEN i - 1 - 1 + 1 ELSE 0
    BY <2>1, SubSeqProperties
  <2>. QED  BY <1>1, <2>2
<1>3. b \in Seq(X) /\ Len(b) = Len(s) - i
  <2>1. i + 1 \in Int /\ Len(s) \in Int /\ \A k \in i + 1 .. Len(s) : s[k] \in X
    BY <1>1
  <2>2. b \in Seq(X) /\ Len(b) = IF i + 1 <= Len(s) THEN Len(s) - (i + 1) + 1 ELSE 0
    BY <2>1, SubSeqProperties
  <2>. QED  BY <1>1, <2>2
<1>4. m = <<s[i]>>
  <2>1. \A k \in i .. i : s[k] \in X
    BY <1>1
  <2>2. /\ m \in Seq(X) /\ Len(m) = IF i <= i THEN i - i + 1 ELSE 0
        /\ \A k \in 1 .. i - i + 1 : m[k] = s[i + k - 1]
    BY <1>1, <2>1, SubSeqProperties
  <2>3. Len(m) = 1 /\ m[1] = s[i]
    <3>1. i - i + 1 = 1 /\ i + 1 - 1 = i
      BY <1>1
    <3>2. 1 \in 1 .. i - i + 1
      BY <3>1
    <3>3. m[1] = s[i + 1 - 1]
      BY <2>2, <3>2
    <3>. QED  BY <2>2, <3>1, <3>3
  <2>. DEFINE n == <<s[i]>>
  <2>4. n \in Seq(X) /\ Len(n) = 1 /\ n[1] = s[i]
    BY <1>1, CountOne
  <2>. HIDE DEF m, n
  <2>5. \A k \in 1 .. Len(m) : m[k] = n[k]
    BY <2>3, <2>4
  <2>6. m = n
    BY <2>2, <2>3, <2>4, <2>5, SeqEqual
  <2>. QED  BY <2>6 DEF n
<1>5. m \in Seq(X) /\ HowMany(m, S) = IF s[i] \in S THEN 1 ELSE 0
  BY <1>1, <1>4, CountOne
<1>6. s = (a \o m) \o b
  <2>1. a \o m = SubSeq(s, 1, i)
    BY <1>1, ConcatAdjacentSubSeq
  <2>2. SubSeq(s, 1, i) \o b = SubSeq(s, 1, Len(s))
    BY <1>1, ConcatAdjacentSubSeq
  <2>3. SubSeq(s, 1, Len(s)) = s
    BY SubSeqFull
  <2>. QED  BY <2>1, <2>2, <2>3
<1>. HIDE DEF a, b, m
<1>7. a \o m \in Seq(X) /\ a \o b \in Seq(X) /\ Len(a \o b) = Len(a) + Len(b)
  BY <1>2, <1>3, <1>5, ConcatProperties
<1>8. HowMany((a \o m) \o b, S) = (HowMany(a, S) + HowMany(m, S)) + HowMany(b, S)
  <2>1. HowMany((a \o m) \o b, S) = HowMany(a \o m, S) + HowMany(b, S)
    BY <1>3, <1>7, CountConcat
  <2>2. HowMany(a \o m, S) = HowMany(a, S) + HowMany(m, S)
    BY <1>2, <1>5, CountConcat
  <2>. QED  BY <2>1, <2>2
<1>9. HowMany(a \o b, S) = HowMany(a, S) + HowMany(b, S)
  BY <1>2, <1>3, CountConcat
<1>10. HowMany(a, S) \in Nat /\ HowMany(b, S) \in Nat
  BY <1>2, <1>3, CountType
<1>11. RemoveAt(s, i) = a \o b
  BY DEF RemoveAt, a, b
<1>12. Len(a \o b) = Len(s) - 1
  BY <1>1, <1>2, <1>3, <1>7
<1>13. HowMany(s, S) = HowMany(a \o b, S) + IF s[i] \in S THEN 1 ELSE 0
  BY <1>5, <1>6, <1>8, <1>9, <1>10
<1>. QED  BY <1>7, <1>11, <1>12, <1>13

\* RemoveFirst removes one key that is there, and nothing if it is not.
LEMMA RemoveFirstIsRemoveAt ==
  ASSUME NEW X, NEW s \in Seq(X), NEW e
  PROVE  \/ /\ \A i \in 1 .. Len(s) : s[i] # e
            /\ RemoveFirst(s, e) = s
         \/ \E i \in 1 .. Len(s) : s[i] = e /\ RemoveFirst(s, e) = RemoveAt(s, i)
<1>1. CASE \A i \in 1 .. Len(s) : s[i] # e
  BY <1>1, Zenon DEF RemoveFirst
<1>2. CASE \E i \in 1 .. Len(s) : s[i] = e
  <2>. DEFINE I == {i \in 1 .. Len(s) : s[i] = e}
  <2>1. I \subseteq Nat /\ I # {}
    BY <1>2
  <2>2. Min(I) \in I
    <3>1. \E x \in I : \A y \in I : x <= y
      BY <2>1, LeastNumber
    <3>. QED  BY <3>1 DEF Min
  <2>3. RemoveFirst(s, e) = RemoveAt(s, Min(I))
    BY <1>2, <2>1 DEF RemoveFirst, SelectInSeq
  <2>. QED  BY <2>2, <2>3
<1>. QED  BY <1>1, <1>2
-----------------------------------------------------------------------------
(* Texts. *)

\* What is left of a text without its last letters.
LEMMA CutProperties ==
  ASSUME NEW X, NEW t \in Seq(X), NEW b \in Nat
  PROVE  LET c == SubSeq(t, 1, Len(t) - b)
         IN  /\ c \in Seq(X) /\ Len(c) = IF b <= Len(t) THEN Len(t) - b ELSE 0
             /\ \A i \in 1 .. Len(c) : c[i] = t[i]
<1>1. /\ Len(t) \in Nat /\ 1 \in Int /\ Len(t) - b \in Int
      /\ \A i \in 1 .. Len(t) - b : t[i] \in X
  BY LenProperties, ElementOfSeq
<1>. DEFINE c == SubSeq(t, 1, Len(t) - b)
<1>2. /\ c \in Seq(X) /\ Len(c) = IF 1 <= Len(t) - b THEN Len(t) - b - 1 + 1 ELSE 0
      /\ \A i \in 1 .. Len(t) - b - 1 + 1 : c[i] = t[1 + i - 1]
  BY <1>1, SubSeqProperties
<1>. HIDE DEF c
<1>3. Len(c) = IF b <= Len(t) THEN Len(t) - b ELSE 0
  BY <1>1, <1>2
<1>4. ASSUME NEW i \in 1 .. Len(c)  PROVE c[i] = t[i]
  <2>1. i \in 1 .. Len(t) - b - 1 + 1 /\ 1 + i - 1 = i
    BY <1>1, <1>3
  <2>2. c[i] = t[1 + i - 1]
    BY <1>2, <2>1
  <2>. QED  BY <2>1, <2>2
<1>. QED  BY <1>2, <1>3, <1>4 DEF c

\* A text that is rewritten is a text; without a deletion it is continued.
LEMMA RewrittenType ==
  ASSUME NEW X, NEW t \in Seq(X), NEW b \in Nat, NEW s \in Seq(X)
  PROVE  /\ Rewritten(t, b, s) \in Seq(X)
         /\ Rewritten(t, b, <<>>) \in Seq(X)
         /\ Rewritten(t, b, <<>>) = SubSeq(t, 1, Len(t) - b)
         /\ Rewritten(t, 0, s) = t \o s /\ Rewritten(t, 0, <<>>) = t
<1>. DEFINE c == SubSeq(t, 1, Len(t) - b)
<1>1. c \in Seq(X)
  BY CutProperties
<1>2. c \o s \in Seq(X) /\ c \o <<>> = c
  BY <1>1, ConcatProperties, ConcatEmptySeq
<1>3. SubSeq(t, 1, Len(t) - 0) = t
  <2>. Len(t) - 0 = Len(t)
    BY LenProperties
  <2>. QED  BY SubSeqFull
<1>4. t \o <<>> = t
  BY ConcatEmptySeq
<1>. QED  BY <1>1, <1>2, <1>3, <1>4 DEF Rewritten

\* Letters that are deleted one after the other and those deleted at once.
LEMMA RewrittenTwice ==
  ASSUME NEW X, NEW t \in Seq(X), NEW a \in Nat, NEW b \in Nat, NEW s \in Seq(X)
  PROVE  Rewritten(Rewritten(t, a, <<>>), b, s) = Rewritten(t, a + b, s)
<1>. DEFINE c == SubSeq(t, 1, Len(t) - a)
            d == SubSeq(c, 1, Len(c) - b)
            e == SubSeq(t, 1, Len(t) - (a + b))
<1>1. Rewritten(t, a, <<>>) = c
  BY RewrittenType
<1>2. Len(t) \in Nat /\ a + b \in Nat
  BY LenProperties
<1>3. /\ c \in Seq(X) /\ Len(c) = IF a <= Len(t) THEN Len(t) - a ELSE 0
      /\ \A i \in 1 .. Len(c) : c[i] = t[i]
  BY CutProperties
<1>4. /\ e \in Seq(X) /\ Len(e) = IF a + b <= Len(t) THEN Len(t) - (a + b) ELSE 0
      /\ \A i \in 1 .. Len(e) : e[i] = t[i]
  BY <1>2, CutProperties
<1>. HIDE DEF c, e
<1>5. /\ d \in Seq(X) /\ Len(d) = IF b <= Len(c) THEN Len(c) - b ELSE 0
      /\ \A i \in 1 .. Len(d) : d[i] = c[i]
  BY <1>3, CutProperties
<1>. HIDE DEF d
<1>6. d = e
  <2>1. Len(d) = Len(e) /\ \A i \in 1 .. Len(d) : i \in 1 .. Len(c)
    BY <1>2, <1>3, <1>4, <1>5
  <2>2. \A i \in 1 .. Len(d) : d[i] = e[i]
    BY <1>3, <1>4, <1>5, <2>1
  <2>. QED  BY <1>4, <1>5, <2>1, <2>2, SeqEqual
<1>. QED  BY <1>1, <1>6 DEF Rewritten, d, e

\* One letter now and the others after it.
LEMMA RewrittenBack ==
  ASSUME NEW X, NEW t \in Seq(X), NEW b \in Nat \ {0}, NEW s \in Seq(X)
  PROVE  Rewritten(Rewritten(t, 1, <<>>), b - 1, s) = Rewritten(t, b, s)
<1>. DEFINE m == b - 1
<1>1. m \in Nat /\ 1 \in Nat /\ 1 + m = b
  OBVIOUS
<1>. HIDE DEF m
<1>2. Rewritten(Rewritten(t, 1, <<>>), m, s) = Rewritten(t, 1 + m, s)
  BY <1>1, RewrittenTwice
<1>. QED  BY <1>1, <1>2 DEF m

\* Letters are deleted first and inserted afterwards.
LEMMA RewrittenInTwo ==
  ASSUME NEW X, NEW t \in Seq(X), NEW b \in Nat, NEW s \in Seq(X)
  PROVE  Rewritten(t, b, <<>>) \o s = Rewritten(t, b, s)
<1>1. Rewritten(t, b, <<>>) = SubSeq(t, 1, Len(t) - b)
  BY RewrittenType
<1>. QED  BY <1>1 DEF Rewritten

\* The letters of a key.
LEMMA LettersType ==
  ASSUME NEW X, NEW n \in X
  PROVE  /\ \A c \in Nat : Letters(n, c) \in Seq(X)
         /\ Letters(n, 0) = <<>>
         /\ \A t \in Seq(X) : Append(t, n) = Rewritten(t, 0, Letters(n, 1))
<1>1. \A c \in Nat : Letters(n, c) \in Seq(X) /\ Len(Letters(n, c)) = c
  BY DEF Letters
<1>2. Letters(n, 0) = <<>>
  BY <1>1, EmptySeq
<1>3. Letters(n, 1) = <<n>>
  <2>. DEFINE l == Letters(n, 1)
              m == <<n>>
  <2>1. l \in Seq(X) /\ Len(l) = 1
    BY <1>1
  <2>2. m \in Seq(X) /\ Len(m) = 1 /\ m[1] = n
    BY CountOne
  <2>3. l[1] = n
    <3>1. l = [i \in 1 .. 1 |-> n]
      BY DEF Letters
    <3>. QED  BY <3>1
  <2>. HIDE DEF l, m
  <2>4. \A i \in 1 .. Len(l) : l[i] = m[i]
    BY <2>1, <2>2, <2>3
  <2>5. l = m
    BY <2>1, <2>2, <2>4, SeqEqual
  <2>. QED  BY <2>5 DEF l, m
<1>4. ASSUME NEW t \in Seq(X)  PROVE Append(t, n) = Rewritten(t, 0, Letters(n, 1))
  <2>1. Append(t, n) = t \o <<n>>
    BY AppendIsConcat
  <2>2. Rewritten(t, 0, Letters(n, 1)) = t \o Letters(n, 1)
    <3>. DEFINE l == Letters(n, 1)
    <3>1. l \in Seq(X) /\ 0 \in Nat
      BY <1>1
    <3>. HIDE DEF l
    <3>2. Rewritten(t, 0, l) = t \o l
      BY <3>1, RewrittenType
    <3>. QED  BY <3>2 DEF l
  <2>. QED  BY <1>3, <2>1, <2>2
<1>. QED  BY <1>1, <1>2, <1>4
=============================================================================
