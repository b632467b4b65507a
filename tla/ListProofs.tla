---------------------------- MODULE ListProofs ----------------------------
(***************************************************************************)
(* What the operators on lists return: which elements Picked keeps, in     *)
(* which order, and that no other sequence keeps the same ones; how an     *)
(* element put in moves the others; what Total adds up.  Picked and Total  *)
(* go through a list place by place; what holds of all places is shown     *)
(* from the least natural number of a set, because no induction theorem of *)
(* the library can be used here.                                           *)
(***************************************************************************)
EXTENDS TaskList, Totals, SequencesExt, SequenceTheorems, WellFoundedInduction, TLAPS

\* A set of natural numbers has a least one.
LEMMA Least ==
  ASSUME NEW S \in SUBSET Nat, S # {}
  PROVE  \E m \in S : \A n \in S : m <= n
  <1> DEFINE R == OpToRel(<, Nat)
  <1>1. IsWellFoundedOn(R, Nat)
    BY NatLessThanWellFounded
  <1>2. \A x, y \in Nat : x < y => <<x, y>> \in R
    BY DEF OpToRel
  <1> HIDE DEF R
  <1>3. PICK m \in S : \A n \in S : ~(<<n, m>> \in R)
    BY <1>1, WFMin
  <1>4. \A n \in S : ~(n < m)
    BY <1>2, <1>3
  <1> QED
    BY <1>4

\* A set with 0, and with the next of each of its numbers, has them all.
LEMMA Induction ==
  ASSUME NEW Good \in SUBSET Nat, 0 \in Good, \A n \in Good : n + 1 \in Good
  PROVE  Good = Nat
  <1> SUFFICES ASSUME Nat \ Good # {} PROVE FALSE
    OBVIOUS
  <1>1. PICK m \in Nat \ Good : \A n \in Nat \ Good : m <= n
    BY Least
  <1>2. m # 0 /\ m - 1 \in Nat
    BY <1>1
  <1>3. m - 1 \in Good
    BY <1>1, <1>2
  <1> QED
    BY <1>1, <1>3

\* The recursive function inside Picked exists: it is built place by place.
LEMMA PickedDef ==
  ASSUME NEW q, NEW I, Len(q) \in Nat
  PROVE  \E picked :
           /\ picked = [n \in 0..Len(q) |->
                IF n = 0 THEN << >>
                ELSE IF n \in I THEN Append(picked[n - 1], q[n]) ELSE picked[n - 1]]
           /\ Picked(q, I) = picked[Len(q)]
  <1> DEFINE Step(p, n) == IF n \in I THEN Append(p, q[n]) ELSE p
             Conforms(f, m) == f = [n \in 0..m |-> IF n = 0 THEN << >> ELSE Step(f[n - 1], n)]
             Good == {m \in Nat : \E f : Conforms(f, m)}
  <1>1. 0 \in Good
    <2>1. Conforms([n \in 0..0 |-> << >>], 0)
      OBVIOUS
    <2> QED
      BY <2>1
  <1>2. ASSUME NEW m \in Good PROVE m + 1 \in Good
    <2>1. PICK f : Conforms(f, m)
      OBVIOUS
    <2> DEFINE g == [n \in 0..(m + 1) |-> IF n = m + 1 THEN Step(f[m], m + 1) ELSE f[n]]
    <2> HIDE DEF Step
    <2>2. \A n \in 0..(m + 1) : g[n] = IF n = 0 THEN << >> ELSE Step(g[n - 1], n)
      <3>1. ASSUME NEW n \in 0..m PROVE f[n] = IF n = 0 THEN << >> ELSE Step(f[n - 1], n)
        BY <2>1
      <3> QED
        BY <3>1
    <2>3. Conforms(g, m + 1)
      BY <2>2
    <2>4. \E f1 : Conforms(f1, m + 1)
      <3> HIDE DEF g, Conforms
      <3> QED
        BY <2>3
    <2> QED
      BY <2>4
  <1>3. Len(q) \in Good
    <2> HIDE DEF Good
    <2>1. Good \in SUBSET Nat
      BY DEF Good
    <2> QED
      BY <1>1, <1>2, <2>1, Induction
  <1> QED
    BY <1>3 DEF Picked

\* The places told by h are told from the head on, each later than the last.
Increases(h) == \A j, k \in DOMAIN h : j < k => h[j] < h[k]

\* h goes through the places in I, n of them, in their order.
Enumerates(h, n, I) ==
  h \in [1..n -> I] /\ Increases(h) /\ \A i \in I : \E k \in 1..n : h[k] = i

\* Picked keeps the elements at the places in I, all of them and in their order.
LEMMA PickedOrder ==
  ASSUME NEW S, NEW q \in Seq(S), NEW I \in SUBSET (1..Len(q))
  PROVE  /\ Picked(q, I) \in Seq(S)
         /\ \E h : /\ Enumerates(h, Len(Picked(q, I)), I)
                   /\ \A k \in 1..Len(Picked(q, I)) : Picked(q, I)[k] = q[h[k]]
  <1> DEFINE Upto(n) == I \cap (1..n)
             Fits(r, n) == /\ r \in Seq(S)
                           /\ \E h : /\ Enumerates(h, Len(r), Upto(n))
                                     /\ \A k \in 1..Len(r) : r[k] = q[h[k]]
  <1>1. Len(q) \in Nat
    OBVIOUS
  <1>2. PICK picked :
           /\ picked = [n \in 0..Len(q) |->
                IF n = 0 THEN << >>
                ELSE IF n \in I THEN Append(picked[n - 1], q[n]) ELSE picked[n - 1]]
           /\ Picked(q, I) = picked[Len(q)]
    BY <1>1, PickedDef
  <1>7. /\ picked[0] = << >>
        /\ \A n \in 1..Len(q) :
             picked[n] = IF n \in I THEN Append(picked[n - 1], q[n]) ELSE picked[n - 1]
    <2>1. \A n \in 0..Len(q) : picked[n] =
            IF n = 0 THEN << >>
            ELSE IF n \in I THEN Append(picked[n - 1], q[n]) ELSE picked[n - 1]
      BY <1>2
    <2> QED
      BY <1>1, <2>1
  <1>10. Picked(q, I) = picked[Len(q)]
    BY <1>2
  <1>8. \A i \in I : i \in 1..Len(q) /\ i \in Int
    BY <1>1
  <1>3. Fits(picked[0], 0)
    <2>1. Upto(0) = {}
      BY <1>1, <1>8
    <2> HIDE DEF Upto
    <2>2. /\ Enumerates(<< >>, 0, Upto(0)) /\ << >> \in Seq(S) /\ Len(<< >>) = 0
          /\ \A k \in 1..Len(<< >>) : << >>[k] = q[<< >>[k]]
      BY <2>1 DEF Enumerates, Increases
    <2> QED
      BY <1>7, <2>2
  <1>4. ASSUME NEW n \in 1..Len(q), Fits(picked[n - 1], n - 1)
        PROVE  Fits(picked[n], n)
    <2>1. picked[n] = IF n \in I THEN Append(picked[n - 1], q[n]) ELSE picked[n - 1]
      BY <1>7
    <2>2. CASE n \in I
      <3> DEFINE r == picked[n - 1]
      <3>1. PICK h : /\ Enumerates(h, Len(r), Upto(n - 1))
                     /\ \A k \in 1..Len(r) : r[k] = q[h[k]]
        BY <1>4
      <3> DEFINE h1 == [k \in 1..(Len(r) + 1) |-> IF k = Len(r) + 1 THEN n ELSE h[k]]
      <3>2. r \in Seq(S) /\ Len(r) \in Nat /\ q[n] \in S
        BY <1>4
      <3> HIDE DEF r
      <3>3. /\ Append(r, q[n]) \in Seq(S) /\ Len(Append(r, q[n])) = Len(r) + 1
            /\ \A k \in 1..(Len(r) + 1) : Append(r, q[n])[k] = IF k = Len(r) + 1 THEN q[n] ELSE r[k]
        BY <3>2
      <3>4. \A k \in 1..Len(r) : h[k] \in I /\ h[k] \in 1..(n - 1) /\ h[k] \in 1..n /\ h[k] < n
        <4>1. \A k \in 1..Len(r) : h[k] \in Upto(n - 1)
          BY <3>1 DEF Enumerates
        <4> QED
          BY <1>1, <4>1
      <3>5. h1 \in [1..(Len(r) + 1) -> Upto(n)]
        <4>1. \A k \in 1..(Len(r) + 1) : k = Len(r) + 1 \/ k \in 1..Len(r)
          BY <3>2
        <4>2. n \in Upto(n) /\ \A k \in 1..Len(r) : h[k] \in Upto(n)
          BY <1>1, <2>2, <3>4
        <4> HIDE DEF Upto
        <4> QED
          BY <4>1, <4>2
      <3>6. Increases(h1)
        <4> SUFFICES ASSUME NEW j \in 1..(Len(r) + 1), NEW k \in 1..(Len(r) + 1), j < k
                     PROVE  h1[j] < h1[k]
          BY DEF Increases
        <4>1. j \in 1..Len(r) /\ h1[j] = h[j]
          BY <3>2
        <4>2. CASE k = Len(r) + 1
          BY <3>2, <3>4, <4>1, <4>2
        <4>3. CASE k \in 1..Len(r)
          BY <3>1, <3>2, <4>1, <4>3 DEF Enumerates, Increases
        <4> QED
          BY <3>2, <4>2, <4>3
      <3>7. \A i \in Upto(n) : \E k \in 1..(Len(r) + 1) : h1[k] = i
        <4> TAKE i \in Upto(n)
        <4>1. CASE i = n
          BY <3>2, <4>1
        <4>2. CASE i # n
          <5>1. i \in Upto(n - 1)
            BY <4>2
          <5>2. PICK k \in 1..Len(r) : h[k] = i
            BY <3>1, <5>1 DEF Enumerates
          <5> QED
            BY <3>2, <5>2
        <4> QED
          BY <4>1, <4>2
      <3>8. Enumerates(h1, Len(r) + 1, Upto(n))
        BY <3>5, <3>6, <3>7 DEF Enumerates
      <3>9. \A k \in 1..(Len(r) + 1) : Append(r, q[n])[k] = q[h1[k]]
        BY <3>1, <3>2, <3>3
      <3>10. picked[n] = Append(r, q[n])
        BY <2>1, <2>2 DEF r
      <3> HIDE DEF h1, Upto
      <3> QED
        BY <3>3, <3>8, <3>9, <3>10
    <2>3. CASE n \notin I
      <3>1. Upto(n) = Upto(n - 1)
        BY <1>1, <1>8, <2>3
      <3> HIDE DEF Upto
      <3> QED
        BY <1>4, <2>1, <2>3, <3>1
    <2> QED
      BY <2>2, <2>3
  <1>5. Fits(picked[Len(q)], Len(q))
    <2> DEFINE Good == {n \in Nat : n <= Len(q) => Fits(picked[n], n)}
    <2> HIDE DEF Fits
    <2>1. 0 \in Good
      BY <1>3
    <2>2. ASSUME NEW n \in Good PROVE n + 1 \in Good
      <3> SUFFICES ASSUME n + 1 <= Len(q) PROVE Fits(picked[n + 1], n + 1)
        OBVIOUS
      <3>1. n + 1 \in 1..Len(q) /\ (n + 1) - 1 = n /\ n <= Len(q)
        BY <1>1
      <3>2. Fits(picked[n], n)
        BY <3>1
      <3> QED
        BY <1>4, <3>1, <3>2
    <2>3. Good \in SUBSET Nat
      OBVIOUS
    <2> HIDE DEF Good
    <2>4. Good = Nat
      BY <2>1, <2>2, <2>3, Induction
    <2> QED
      BY <1>1, <2>4 DEF Good
  <1>6. Upto(Len(q)) = I
    BY <1>1, <1>8
  <1> HIDE DEF Upto
  <1>9. Fits(Picked(q, I), Len(q))
    BY <1>5, <1>10
  <1> QED
    BY <1>6, <1>9

\* Of the places in I, the last up to n, or 0 if there is none: where a search
\* from the tail stops.
LEMMA LastPlace ==
  ASSUME NEW n \in Nat, NEW I
  PROVE  \E k \in 0..n : (k > 0 => k \in I) /\ \A j \in (k + 1)..n : j \notin I
  <1> DEFINE Free == {k \in 0..n : \A j \in (k + 1)..n : j \notin I}
  <1>1. n \in Free /\ Free \in SUBSET Nat
    OBVIOUS
  <1>2. PICK k \in Free : \A l \in Free : k <= l
    <2> HIDE DEF Free
    <2> QED
      BY <1>1, Least
  <1>3. k > 0 => k \in I
    <2> SUFFICES ASSUME k > 0, k \notin I PROVE FALSE
      OBVIOUS
    <2>1. \A j \in ((k - 1) + 1)..n : j = k \/ j \in (k + 1)..n
      OBVIOUS
    <2>2. k - 1 \in Free
      BY <2>1
    <2> QED
      BY <1>2, <2>2
  <1> QED
    BY <1>3

\* One element put in behind the k-th.
LEMMA Inserted ==
  ASSUME NEW S, NEW q \in Seq(S), NEW k \in 0..Len(q), NEW e \in S
  PROVE  /\ InsertAt(q, k + 1, e) \in Seq(S)
         /\ Len(InsertAt(q, k + 1, e)) = Len(q) + 1
         /\ \A i \in 1..(Len(q) + 1) :
              InsertAt(q, k + 1, e)[i] = IF i <= k THEN q[i] ELSE IF i = k + 1 THEN e ELSE q[i - 1]
  <1> DEFINE a == SubSeq(q, 1, k)
             c == SubSeq(q, k + 1, Len(q))
  <1>1. Len(q) \in Nat /\ \A i \in 1..Len(q) : q[i] \in S
    OBVIOUS
  <1>2. /\ a \in Seq(S) /\ Len(a) = k
        /\ \A i \in 1..k : a[i] = q[i]
    BY <1>1, SubSeqProperties
  <1>3. /\ c \in Seq(S) /\ Len(c) = Len(q) - k
        /\ \A i \in 1..(Len(q) - k) : c[i] = q[k + i]
    BY <1>1, SubSeqProperties
  <1>4. InsertAt(q, k + 1, e) = (a \o <<e>>) \o c
    <2>1. (k + 1) - 1 = k
      OBVIOUS
    <2> QED
      BY <2>1 DEF InsertAt
  <1> HIDE DEF a, c
  <1>5. /\ a \o <<e>> \in Seq(S) /\ Len(a \o <<e>>) = k + 1
        /\ \A i \in 1..(k + 1) : (a \o <<e>>)[i] = IF i <= k THEN q[i] ELSE e
    BY <1>1, <1>2
  <1> DEFINE b == a \o <<e>>
  <1> HIDE DEF b
  <1>6. b \in Seq(S) /\ Len(b) = k + 1 /\ \A i \in 1..(k + 1) : b[i] = IF i <= k THEN q[i] ELSE e
    BY <1>5 DEF b
  <1>7. /\ b \o c \in Seq(S) /\ Len(b \o c) = Len(q) + 1
        /\ \A i \in 1..(Len(q) + 1) : (b \o c)[i] = IF i <= k + 1 THEN b[i] ELSE c[i - (k + 1)]
    BY <1>1, <1>3, <1>6, ConcatProperties
  <1>8. ASSUME NEW i \in 1..(Len(q) + 1)
        PROVE  (b \o c)[i] = IF i <= k THEN q[i] ELSE IF i = k + 1 THEN e ELSE q[i - 1]
    <2>1. CASE i <= k + 1
      BY <1>1, <1>6, <1>7, <2>1
    <2>2. CASE i > k + 1
      <3>1. i - (k + 1) \in 1..(Len(q) - k) /\ k + (i - (k + 1)) = i - 1
        BY <1>1, <2>2
      <3>2. (b \o c)[i] = c[i - (k + 1)]
        BY <1>1, <1>7, <2>2
      <3> QED
        BY <1>1, <1>3, <2>2, <3>1, <3>2
    <2>3. i <= k + 1 \/ i > k + 1
      BY <1>1
    <2> QED
      BY <2>1, <2>2, <2>3
  <1> DEFINE d == b \o c
  <1>9. InsertAt(q, k + 1, e) = d
    BY <1>4 DEF b
  <1>10. d \in Seq(S) /\ Len(d) = Len(q) + 1
    BY <1>7
  <1>11. \A i \in 1..(Len(q) + 1) :
           d[i] = IF i <= k THEN q[i] ELSE IF i = k + 1 THEN e ELSE q[i - 1]
    BY <1>8
  <1> HIDE DEF d
  <1> QED
    BY <1>9, <1>10, <1>11

-----------------------------------------------------------------------------
(***************************************************************************)
(* A set of places can be gone through in one way only, so a sequence that *)
(* has the elements at those places in their order is Picked.              *)
(***************************************************************************)

\* One half of the step: what is told at k + 1 by h is told there by g.
LEMMA NextPlace ==
  ASSUME NEW I \in SUBSET Nat, NEW n \in Nat, NEW m \in Nat, NEW h, NEW g,
         Enumerates(h, n, I), Enumerates(g, m, I), NEW k \in Nat,
         \A j \in 1..k : j <= n => j <= m /\ h[j] = g[j],
         \A j \in 1..k : j <= m => j <= n /\ h[j] = g[j],
         k + 1 <= n
  PROVE  k + 1 <= m /\ g[k + 1] <= h[k + 1]
  <1>1. h[k + 1] \in I
    BY DEF Enumerates
  <1>2. PICK l \in 1..m : g[l] = h[k + 1]
    BY <1>1 DEF Enumerates
  <1>3. l > k
    <2> SUFFICES ASSUME l <= k PROVE FALSE
      BY <1>2
    <2>1. l \in 1..k /\ l <= n /\ h[l] = g[l]
      BY <1>2
    <2>2. l \in 1..n /\ k + 1 \in 1..n /\ l < k + 1
      BY <2>1
    <2>3. h[l] < h[k + 1] /\ h[l] \in Nat
      BY <2>2 DEF Enumerates, Increases
    <2> QED
      BY <1>2, <2>1, <2>3
  <1>4. g[k + 1] \in Nat /\ g[l] \in Nat /\ (k + 1 < l => g[k + 1] < g[l])
    <2>1. k + 1 \in 1..m /\ l \in 1..m
      BY <1>2, <1>3
    <2> QED
      BY <2>1 DEF Enumerates, Increases
  <1> QED
    BY <1>2, <1>3, <1>4

\* Both halves, place by place: there is one way to go through I.
LEMMA OneEnumeration ==
  ASSUME NEW I \in SUBSET Nat, NEW n \in Nat, NEW m \in Nat, NEW h, NEW g,
         Enumerates(h, n, I), Enumerates(g, m, I)
  PROVE  n = m /\ h = g
  <1> DEFINE Agree(j) == (j <= n <=> j <= m) /\ (j <= n => h[j] = g[j])
             Good == {k \in Nat : \A j \in 1..k : Agree(j)}
  <1>1. 0 \in Good
    OBVIOUS
  <1>2. ASSUME NEW k \in Good PROVE k + 1 \in Good
    <2>1. k \in Nat /\ \A j \in 1..k : Agree(j)
      OBVIOUS
    <2>2. /\ \A j \in 1..k : j <= n => j <= m /\ h[j] = g[j]
          /\ \A j \in 1..k : j <= m => j <= n /\ h[j] = g[j]
          /\ \A j \in 1..k : j <= n => j <= m /\ g[j] = h[j]
          /\ \A j \in 1..k : j <= m => j <= n /\ g[j] = h[j]
      BY <2>1
    <2> HIDE DEF Good
    <2>3. k + 1 <= n => k + 1 <= m /\ g[k + 1] <= h[k + 1]
      BY <2>1, <2>2, NextPlace
    <2>4. k + 1 <= m => k + 1 <= n /\ h[k + 1] <= g[k + 1]
      BY <2>1, <2>2, NextPlace
    <2>5. (k + 1 <= n => h[k + 1] \in Nat) /\ (k + 1 <= m => g[k + 1] \in Nat)
      <3>1. (k + 1 <= n => k + 1 \in 1..n) /\ (k + 1 <= m => k + 1 \in 1..m)
        BY <2>1
      <3>2. (\A j \in 1..n : h[j] \in Nat) /\ (\A j \in 1..m : g[j] \in Nat)
        BY DEF Enumerates
      <3> QED
        BY <3>1, <3>2
    <2>6. Agree(k + 1)
      BY <2>1, <2>3, <2>4, <2>5
    <2>7. \A j \in 1..(k + 1) : j \in 1..k \/ j = k + 1
      BY <2>1
    <2>8. \A j \in 1..(k + 1) : Agree(j)
      <3> HIDE DEF Agree
      <3> QED
        BY <2>1, <2>6, <2>7
    <2> QED
      BY <2>1, <2>8 DEF Good
  <1>3. Good \in SUBSET Nat
    OBVIOUS
  <1> HIDE DEF Good
  <1>4. Good = Nat
    BY <1>1, <1>2, <1>3, Induction
  <1>5. n \in Good /\ m \in Good
    BY <1>4
  <1>6. \A j \in 1..n : j <= m /\ h[j] = g[j]
    BY <1>5 DEF Good
  <1>7. \A j \in 1..m : j <= n
    BY <1>5 DEF Good
  <1>8. n = m
    <2>1. n > m => n \in 1..n
      OBVIOUS
    <2>2. m > n => m \in 1..m
      OBVIOUS
    <2> QED
      BY <1>6, <1>7, <2>1, <2>2
  <1>9. h \in [1..n -> I] /\ g \in [1..n -> I]
    BY <1>8 DEF Enumerates
  <1> QED
    BY <1>6, <1>8, <1>9

\* So Picked is known as soon as some way to go through I is.
LEMMA PickedIs ==
  ASSUME NEW S, NEW q \in Seq(S), NEW I \in SUBSET (1..Len(q)),
         NEW r, NEW n \in Nat, NEW h, Enumerates(h, n, I),
         r = [k \in 1..n |-> q[h[k]]]
  PROVE  Picked(q, I) = r
  <1> DEFINE p == Picked(q, I)
  <1>1. p \in Seq(S) /\ \E g : /\ Enumerates(g, Len(p), I)
                               /\ \A k \in 1..Len(p) : p[k] = q[g[k]]
    BY PickedOrder
  <1> HIDE DEF p
  <1>2. PICK g : Enumerates(g, Len(p), I) /\ \A k \in 1..Len(p) : p[k] = q[g[k]]
    BY <1>1
  <1>3. Len(p) \in Nat /\ p = [k \in 1..Len(p) |-> p[k]] /\ I \in SUBSET Nat
    BY <1>1
  <1>4. Len(p) = n /\ g = h
    BY <1>2, <1>3, OneEnumeration
  <1>5. p = r
    BY <1>2, <1>3, <1>4
  <1> QED
    BY <1>5 DEF p

\* Some of the places gone through, in turn.
LEMMA Composed ==
  ASSUME NEW I \in SUBSET Nat, NEW n \in Nat, NEW h, Enumerates(h, n, I),
         NEW K \in SUBSET (1..n), NEW m \in Nat, NEW g, Enumerates(g, m, K),
         NEW J, \A i \in J : \E k \in K : h[k] = i, \A k \in K : h[k] \in J,
         NEW f \in [1..m -> Nat], \A k \in 1..m : f[k] = h[g[k]]
  PROVE  Enumerates(f, m, J)
  <1>1. \A k \in 1..m : g[k] \in K /\ g[k] \in 1..n
    BY DEF Enumerates
  <1>2. f \in [1..m -> J]
    BY <1>1
  <1>3. ASSUME NEW j \in 1..m, NEW k \in 1..m, j < k PROVE f[j] < f[k]
    <2>1. g[j] < g[k]
      BY <1>3 DEF Enumerates, Increases
    <2> QED
      BY <1>1, <2>1 DEF Enumerates, Increases
  <1>4. ASSUME NEW i \in J PROVE \E k \in 1..m : f[k] = i
    <2>1. PICK l \in K : h[l] = i
      OBVIOUS
    <2>2. PICK k \in 1..m : g[k] = l
      BY <2>1 DEF Enumerates
    <2> QED
      BY <2>1, <2>2
  <1> QED
    BY <1>2, <1>3, <1>4 DEF Enumerates, Increases

-----------------------------------------------------------------------------
(***************************************************************************)
(* What Total returns: whoever adds the elements up one by one gets it.    *)
(***************************************************************************)
RunningSums(f, s) ==
  /\ f \in [0..Len(s) -> Int]
  /\ f[0] = 0
  /\ \A n \in 1..Len(s) : f[n] = f[n - 1] + s[n]

\* The running sums inside Total exist: they are built element by element.
LEMMA TotalDef ==
  ASSUME NEW s \in Seq(Int)
  PROVE  \E f : RunningSums(f, s) /\ Total(s) = f[Len(s)]
  <1> DEFINE Step(p, n) == p + s[n]
             Conforms(f, m) == f = [n \in 0..m |-> IF n = 0 THEN 0 ELSE Step(f[n - 1], n)]
             Good == {m \in Nat : \E f : Conforms(f, m)}
  <1>1. 0 \in Good
    <2>1. Conforms([n \in 0..0 |-> 0], 0)
      OBVIOUS
    <2> QED
      BY <2>1
  <1>2. ASSUME NEW m \in Good PROVE m + 1 \in Good
    <2>1. PICK f : Conforms(f, m)
      OBVIOUS
    <2> DEFINE g == [n \in 0..(m + 1) |-> IF n = m + 1 THEN Step(f[m], m + 1) ELSE f[n]]
    <2> HIDE DEF Step
    <2>2. \A n \in 0..(m + 1) : g[n] = IF n = 0 THEN 0 ELSE Step(g[n - 1], n)
      <3>1. ASSUME NEW n \in 0..m PROVE f[n] = IF n = 0 THEN 0 ELSE Step(f[n - 1], n)
        BY <2>1
      <3> QED
        BY <3>1
    <2>3. Conforms(g, m + 1)
      BY <2>2
    <2>4. \E f1 : Conforms(f1, m + 1)
      <3> HIDE DEF g, Conforms
      <3> QED
        BY <2>3
    <2> QED
      BY <2>4
  <1>3. Len(s) \in Nat /\ Len(s) \in Good
    <2> HIDE DEF Good
    <2>1. Good \in SUBSET Nat
      BY DEF Good
    <2>2. Good = Nat
      BY <1>1, <1>2, <2>1, Induction
    <2> QED
      BY <2>2
  <1>4. PICK f : /\ f = [n \in 0..Len(s) |-> IF n = 0 THEN 0 ELSE f[n - 1] + s[n]]
                 /\ Total(s) = f[Len(s)]
    BY <1>3 DEF Total
  <1>5. f[0] = 0 /\ \A n \in 1..Len(s) : f[n] = f[n - 1] + s[n]
    <2>1. \A n \in 0..Len(s) : f[n] = IF n = 0 THEN 0 ELSE f[n - 1] + s[n]
      BY <1>4
    <2> QED
      BY <1>3, <2>1
  <1>6. \A n \in 0..Len(s) : f[n] \in Int
    <2> DEFINE Whole == {n \in Nat : n <= Len(s) => f[n] \in Int}
    <2>1. 0 \in Whole
      BY <1>5
    <2>2. ASSUME NEW n \in Whole PROVE n + 1 \in Whole
      <3> SUFFICES ASSUME n + 1 <= Len(s) PROVE f[n + 1] \in Int
        OBVIOUS
      <3>1. n + 1 \in 1..Len(s) /\ (n + 1) - 1 = n /\ f[n] \in Int
        BY <1>3
      <3>2. s[n + 1] \in Int
        BY <3>1
      <3>3. f[n + 1] = f[n] + s[n + 1]
        BY <1>5, <3>1
      <3> QED
        BY <3>1, <3>2, <3>3
    <2>3. Whole \in SUBSET Nat
      OBVIOUS
    <2> HIDE DEF Whole
    <2>4. Whole = Nat
      BY <2>1, <2>2, <2>3, Induction
    <2> QED
      BY <1>3, <2>4 DEF Whole
  <1>7. RunningSums(f, s)
    <2>1. f \in [0..Len(s) -> Int]
      BY <1>4, <1>6
    <2> QED
      BY <1>5, <2>1 DEF RunningSums
  <1> QED
    BY <1>4, <1>7

\* There is one way to add up.
LEMMA TotalIs ==
  ASSUME NEW s \in Seq(Int), NEW g, RunningSums(g, s)
  PROVE  Total(s) = g[Len(s)] /\ Total(s) \in Int
  <1>1. PICK f : RunningSums(f, s) /\ Total(s) = f[Len(s)]
    BY TotalDef
  <1> DEFINE Same == {n \in Nat : n <= Len(s) => f[n] = g[n]}
  <1>2. 0 \in Same
    BY <1>1 DEF RunningSums
  <1>3. ASSUME NEW n \in Same PROVE n + 1 \in Same
    <2> SUFFICES ASSUME n + 1 <= Len(s) PROVE f[n + 1] = g[n + 1]
      OBVIOUS
    <2>1. n + 1 \in 1..Len(s) /\ (n + 1) - 1 = n /\ f[n] = g[n]
      OBVIOUS
    <2>2. f[n + 1] = f[n] + s[n + 1]
      BY <1>1, <2>1 DEF RunningSums
    <2>3. g[n + 1] = g[n] + s[n + 1]
      BY <2>1 DEF RunningSums
    <2> QED
      BY <2>1, <2>2, <2>3
  <1>4. Same \in SUBSET Nat
    OBVIOUS
  <1> HIDE DEF Same
  <1>5. Same = Nat
    BY <1>2, <1>3, <1>4, Induction
  <1>6. Len(s) \in Same /\ Len(s) \in Nat
    BY <1>5
  <1> QED
    BY <1>1, <1>6 DEF Same, RunningSums

LEMMA TotalEmpty == Total(<< >>) = 0
  <1>1. RunningSums([n \in 0..0 |-> 0], << >>) /\ << >> \in Seq(Int) /\ Len(<< >>) = 0
    BY DEF RunningSums
  <1> QED
    BY <1>1, TotalIs

LEMMA TotalAppend ==
  ASSUME NEW s \in Seq(Int), NEW x \in Int
  PROVE  Total(Append(s, x)) = Total(s) + x
  <1>1. PICK f : RunningSums(f, s) /\ Total(s) = f[Len(s)]
    BY TotalDef
  <1> DEFINE n == Len(s)
             t == Append(s, x)
             g == [k \in 0..(n + 1) |-> IF k = n + 1 THEN f[n] + x ELSE f[k]]
  <1>2. /\ n \in Nat /\ t \in Seq(Int) /\ Len(t) = n + 1
        /\ \A k \in 1..n : t[k] = s[k] /\ s[k] \in Int
        /\ t[n + 1] = x
    OBVIOUS
  <1>3. \A k \in 0..n : f[k] \in Int
    BY <1>1 DEF RunningSums
  <1>4. \A k \in 1..n : f[k] = f[k - 1] + s[k]
    BY <1>1 DEF RunningSums
  <1>5. f[0] = 0
    BY <1>1 DEF RunningSums
  <1>6. f[n] = Total(s)
    BY <1>1
  <1> HIDE DEF n, t
  <1>7. \A k \in 1..(n + 1) : g[k] = g[k - 1] + t[k]
    <2> TAKE k \in 1..(n + 1)
    <2>1. CASE k = n + 1
      BY <1>2, <1>3, <2>1
    <2>2. CASE k # n + 1
      BY <1>2, <1>3, <1>4, <2>2
    <2> QED
      BY <2>1, <2>2
  <1>8. g \in [0..(n + 1) -> Int] /\ g[0] = 0
    BY <1>2, <1>3, <1>5
  <1>9. RunningSums(g, t)
    BY <1>2, <1>7, <1>8 DEF RunningSums
  <1>10. g[n + 1] = Total(s) + x
    BY <1>2, <1>6
  <1> HIDE DEF g
  <1>11. Total(t) = g[n + 1]
    BY <1>2, <1>9, TotalIs
  <1> QED
    BY <1>10, <1>11 DEF t

\* The first one leaves.
LEMMA TotalTail ==
  ASSUME NEW s \in Seq(Int), s # << >>
  PROVE  Total(Tail(s)) = Total(s) - s[1]
  <1>1. PICK f : RunningSums(f, s) /\ Total(s) = f[Len(s)]
    BY TotalDef
  <1> DEFINE n == Len(s)
             t == Tail(s)
             g == [k \in 0..(n - 1) |-> f[k + 1] - s[1]]
  <1>2. /\ n \in Nat /\ n > 0 /\ t \in Seq(Int) /\ Len(t) = n - 1
        /\ \A k \in 1..n : s[k] \in Int
        /\ \A k \in 1..(n - 1) : t[k] = s[k + 1]
    OBVIOUS
  <1>3. \A k \in 0..n : f[k] \in Int
    BY <1>1 DEF RunningSums
  <1>4. \A k \in 1..n : f[k] = f[k - 1] + s[k]
    BY <1>1 DEF RunningSums
  <1>5. f[0] = 0 /\ f[1] = s[1]
    <2>1. f[0] = 0
      BY <1>1 DEF RunningSums
    <2> QED
      BY <1>2, <1>4, <2>1
  <1>6. f[n] = Total(s)
    BY <1>1
  <1> HIDE DEF n, t
  <1>7. \A k \in 1..(n - 1) : g[k] = g[k - 1] + t[k]
    <2> TAKE k \in 1..(n - 1)
    <2>1. k + 1 \in 1..n /\ (k + 1) - 1 = k /\ (k - 1) + 1 = k
      BY <1>2
    <2>2. f[k + 1] = f[k] + s[k + 1]
      BY <1>4, <2>1
    <2>3. f[k] \in Int /\ f[k + 1] \in Int /\ s[1] \in Int /\ s[k + 1] \in Int
      BY <1>2, <1>3
    <2>4. g[k] = f[k + 1] - s[1] /\ g[k - 1] = f[k] - s[1] /\ t[k] = s[k + 1]
      BY <1>2, <2>1
    <2> HIDE DEF g
    <2> QED
      BY <2>2, <2>3, <2>4
  <1>8. g \in [0..(n - 1) -> Int] /\ g[0] = 0
    <2>1. \A k \in 0..(n - 1) : f[k + 1] - s[1] \in Int
      BY <1>2, <1>3
    <2> QED
      BY <1>2, <1>5, <2>1
  <1>9. RunningSums(g, t)
    BY <1>2, <1>7, <1>8 DEF RunningSums
  <1>10. g[n - 1] = Total(s) - s[1]
    BY <1>2, <1>6
  <1> HIDE DEF g
  <1>11. Total(t) = g[n - 1]
    BY <1>2, <1>9, TotalIs
  <1> QED
    BY <1>10, <1>11 DEF t

\* One is exchanged for another.
LEMMA TotalExcept ==
  ASSUME NEW s \in Seq(Int), NEW i \in 1..Len(s), NEW x \in Int
  PROVE  Total([s EXCEPT ![i] = x]) = Total(s) - s[i] + x
  <1>1. PICK f : RunningSums(f, s) /\ Total(s) = f[Len(s)]
    BY TotalDef
  <1> DEFINE n == Len(s)
             t == [s EXCEPT ![i] = x]
             g == [k \in 0..n |-> IF k < i THEN f[k] ELSE f[k] - s[i] + x]
  <1>2. /\ n \in Nat /\ t \in Seq(Int) /\ Len(t) = n /\ i \in 1..n
        /\ \A k \in 1..n : s[k] \in Int
        /\ \A k \in 1..n : t[k] = IF k = i THEN x ELSE s[k]
    OBVIOUS
  <1>3. \A k \in 0..n : f[k] \in Int
    BY <1>1 DEF RunningSums
  <1>4. \A k \in 1..n : f[k] = f[k - 1] + s[k]
    BY <1>1 DEF RunningSums
  <1>5. f[0] = 0
    BY <1>1 DEF RunningSums
  <1>6. f[n] = Total(s)
    BY <1>1
  <1> HIDE DEF n, t
  <1>7. \A k \in 1..n : g[k] = g[k - 1] + t[k]
    <2> TAKE k \in 1..n
    <2>1. /\ f[k] = f[k - 1] + s[k] /\ f[k - 1] \in Int /\ s[k] \in Int /\ s[i] \in Int
          /\ k - 1 \in 0..n /\ k \in 0..n
      BY <1>2, <1>3, <1>4
    <2>2. CASE k < i
      BY <1>2, <2>1, <2>2
    <2>3. CASE k = i
      BY <1>2, <2>1, <2>3
    <2>4. CASE k > i
      <3>1. ~(k < i) /\ ~(k - 1 < i) /\ t[k] = s[k]
        BY <1>2, <2>4
      <3>2. g[k] = f[k] - s[i] + x /\ g[k - 1] = f[k - 1] - s[i] + x
        BY <1>2, <2>1, <3>1
      <3> HIDE DEF g
      <3> QED
        BY <2>1, <3>1, <3>2
    <2> QED
      BY <1>2, <2>2, <2>3, <2>4
  <1>8. g \in [0..n -> Int] /\ g[0] = 0
    BY <1>2, <1>3, <1>5
  <1>9. RunningSums(g, t)
    BY <1>2, <1>7, <1>8 DEF RunningSums
  <1>10. g[n] = Total(s) - s[i] + x
    BY <1>2, <1>6
  <1> HIDE DEF g
  <1>11. Total(t) = g[n]
    BY <1>2, <1>9, TotalIs
  <1> QED
    BY <1>10, <1>11 DEF t

\* A quotient with a rest below the divisor is the quotient.
LEMMA RestOf ==
  ASSUME NEW M \in Nat \ {0}, NEW y \in Int, NEW k \in Int, NEW t \in 0..(M - 1), y = M * k + t
  PROVE  y % M = t
  <1> DEFINE d == y \div M
             u == y % M
  <1>1. d \in Int /\ u \in 0..(M - 1) /\ y = M * d + u
    OBVIOUS
  <1> HIDE DEF d, u
  <1>2. M * (k - d) = u - t
    BY <1>1
  <1>3. ASSUME k > d PROVE FALSE
    <2>1. k - d - 1 \in Nat /\ M * (k - d - 1) \in Nat /\ M * (k - d) = M * (k - d - 1) + M
      BY <1>1, <1>3
    <2> QED
      BY <1>1, <1>2, <2>1
  <1>4. ASSUME d > k PROVE FALSE
    <2>1. d - k - 1 \in Nat /\ M * (d - k - 1) \in Nat /\ M * (k - d) = -(M * (d - k - 1) + M)
      BY <1>1, <1>4
    <2> QED
      BY <1>1, <1>2, <2>1
  <1>5. k = d
    BY <1>1, <1>3, <1>4
  <1> QED
    BY <1>1, <1>2, <1>5 DEF u
=============================================================================
