------------------------------- MODULE Lemmas -------------------------------
(***************************************************************************)
(* What the proofs about more than one component cite: the least and the   *)
(* greatest member of a set of numbers, induction over a set, multiples;   *)
(* sequences and how they are flattened; and what the operators of         *)
(* LRUEntries preserve, for every set of keys and values and every size.   *)
(***************************************************************************)
EXTENDS LRUEntries, FiniteSetTheorems, WellFoundedInduction, TLAPS

-----------------------------------------------------------------------------
(* Natural numbers *)

\* Every set of numbers that is not empty has a least member.
LEMMA LeastElement ==
  ASSUME NEW S \in SUBSET Nat, S # {}
  PROVE  \E x \in S : \A y \in S : x <= y
<1> DEFINE R == {ss \in Nat \X Nat : ss[1] < ss[2]}
<1>1. IsWellFoundedOn(R, Nat)
  BY NatLessThanWellFounded, Zenon DEF OpToRel
<1>2. \E x \in S : \A y \in S : ~ (<<y, x>> \in R)
  <2> HIDE DEF R
  <2> QED BY <1>1, WFMin
<1>3. \A x, y \in Nat : y < x => <<y, x>> \in R
  OBVIOUS
<1> HIDE DEF R
<1>4. PICK x \in S : \A y \in S : ~ (<<y, x>> \in R)
  BY <1>2
<1>5. \A y \in S : y \in Nat /\ x \in Nat /\ ~ (y < x)
  BY <1>3, <1>4
<1> QED BY <1>5

\* So has, if it is bounded, a greatest one.
LEMMA GreatestElement ==
  ASSUME NEW S \in SUBSET Nat, S # {}, NEW n \in Nat, \A x \in S : x <= n
  PROVE  \E x \in S : \A y \in S : y <= x
<1> DEFINE D == {d \in Nat : \E x \in S : d = n - x}
<1>1. D \in SUBSET Nat /\ D # {}
  <2>1. PICK x \in S : TRUE
    OBVIOUS
  <2>2. n - x \in D
    BY <2>1
  <2> QED BY <2>2
<1> HIDE DEF D
<1>2. PICK d \in D : \A e \in D : d <= e
  BY <1>1, LeastElement
<1>3. PICK x \in S : d = n - x
  BY <1>2 DEF D
<1>4. ASSUME NEW y \in S PROVE y <= x
  <2>1. n - y \in D
    BY DEF D
  <2>2. x \in Nat /\ y \in Nat
    OBVIOUS
  <2> QED BY <1>2, <1>3, <2>1, <2>2
<1> QED BY <1>4

\* Induction: S is the set of the numbers that have the property in question.
LEMMA SetInduction ==
  ASSUME NEW S \in SUBSET Nat, 0 \in S, \A n \in Nat : n \in S => n + 1 \in S
  PROVE  S = Nat
<1> SUFFICES ASSUME Nat \ S # {} PROVE FALSE
  OBVIOUS
<1>1. PICK x \in Nat \ S : \A y \in Nat \ S : x <= y
  BY LeastElement
<1>2. x # 0 /\ x - 1 \in Nat /\ x - 1 \notin Nat \ S
  BY <1>1
<1> QED BY <1>1, <1>2

-----------------------------------------------------------------------------
(* Multiples of p: the pages of a file. *)

\* A number is in one page, between its start and its end.
LEMMA InPage ==
  ASSUME NEW p \in Nat \ {0}, NEW a \in Nat
  PROVE  /\ a \div p \in Nat
         /\ (a \div p) * p <= a
         /\ a < (a \div p + 1) * p
         /\ (a \div p + 1) * p = (a \div p) * p + p
         /\ a % p = a - (a \div p) * p
         /\ a % p \in 0..(p - 1)
  OBVIOUS

LEMMA TimesMonotone ==
  ASSUME NEW p \in Nat, NEW m \in Int, NEW n \in Int, m <= n
  PROVE  m * p <= n * p
<1>1. n * p = m * p + (n - m) * p /\ (n - m) * p >= 0
  <2>1. PICK d \in Nat : n = m + d
    BY n - m \in Nat
  <2>2. (m + d) * p = m * p + d * p /\ d * p >= 0
    OBVIOUS
  <2> QED BY <2>1, <2>2
<1> QED BY <1>1

LEMMA InPageUnique ==
  ASSUME NEW p \in Nat \ {0}, NEW a \in Nat, NEW q \in Int,
         q * p <= a, a < q * p + p
  PROVE  a \div p = q
<1> DEFINE r == a \div p
<1>1. r \in Nat /\ r * p <= a /\ a < (r + 1) * p
  BY InPage
<1>2. (q + 1) * p = q * p + p /\ (r + 1) * p = r * p + p
  OBVIOUS
<1> HIDE DEF r
<1>3. ~ (r + 1 <= q)
  BY <1>1, TimesMonotone
<1>4. ~ (q + 1 <= r)
  BY <1>1, <1>2, TimesMonotone
<1>5. r = q
  BY <1>1, <1>3, <1>4
<1> QED BY <1>5 DEF r

LEMMA PageMonotone ==
  ASSUME NEW p \in Nat \ {0}, NEW a \in Nat, NEW b \in Nat, a <= b
  PROVE  a \div p <= b \div p
<1> DEFINE q == a \div p
           r == b \div p
<1>1. q \in Nat /\ r \in Nat /\ q * p <= a /\ b < (r + 1) * p
  BY InPage
<1> HIDE DEF q, r
<1>2. ~ (r + 1 <= q)
  BY <1>1, TimesMonotone
<1>3. q <= r
  BY <1>1, <1>2
<1> QED BY <1>3 DEF q, r

LEMMA Multiple ==
  ASSUME NEW p \in Nat \ {0}, NEW q \in Nat
  PROVE  (q * p) % p = 0 /\ (q * p) \div p = q
<1>1. q * p \in Nat /\ q * p < q * p + p
  OBVIOUS
<1>2. (q * p) \div p = q
  BY <1>1, InPageUnique
<1> QED BY <1>1, <1>2, InPage

LEMMA IsMultiple ==
  ASSUME NEW p \in Nat \ {0}, NEW a \in Nat, a % p = 0
  PROVE  \E q \in Nat : a = q * p
<1>1. a \div p \in Nat /\ a = (a \div p) * p
  BY InPage
<1> QED BY <1>1

LEMMA MultiplesAdd ==
  ASSUME NEW p \in Nat \ {0}, NEW a \in Nat, NEW b \in Nat, a % p = 0, b % p = 0
  PROVE  (a + b) % p = 0
<1>1. PICK q \in Nat : a = q * p
  BY IsMultiple
<1>2. PICK r \in Nat : b = r * p
  BY IsMultiple
<1>3. a + b = (q + r) * p /\ q + r \in Nat
  BY <1>1, <1>2
<1> QED BY <1>3, Multiple

\* The page of a number ends at or before every multiple that is greater.
LEMMA NextMultiple ==
  ASSUME NEW p \in Nat \ {0}, NEW a \in Nat, NEW b \in Nat, a < b, b % p = 0
  PROVE  (a \div p + 1) * p <= b
<1> DEFINE q == a \div p
           r == b \div p
<1>1. q \in Nat /\ r \in Nat /\ q * p <= a /\ b = r * p
  BY InPage
<1> HIDE DEF q, r
<1>2. ~ (r <= q)
  BY <1>1, TimesMonotone
<1>3. (q + 1) * p <= r * p
  BY <1>1, <1>2, TimesMonotone
<1> QED BY <1>1, <1>3 DEF q, r

\* The numbers of the page that ends at e.
LEMMA SamePage ==
  ASSUME NEW p \in Nat \ {0}, NEW e \in Nat, e % p = 0,
         NEW a \in Nat, e - p <= a, a < e, NEW b \in Nat, e - p <= b, b < e
  PROVE  a \div p = b \div p
<1>1. PICK r \in Nat : e = r * p
  BY IsMultiple
<1>2. (r - 1) * p = e - p
  BY <1>1
<1>3. a \div p = r - 1 /\ b \div p = r - 1
  BY <1>1, <1>2, InPageUnique
<1> QED BY <1>3

-----------------------------------------------------------------------------
(* Sequences *)

LEMMA SeqFacts ==
  ASSUME NEW R, NEW s \in Seq(R)
  PROVE  /\ Len(s) \in Nat /\ DOMAIN s = 1..Len(s)
         /\ s = [k \in 1..Len(s) |-> s[k]]
         /\ \A k \in 1..Len(s) : s[k] \in R
         /\ Len(s) = 0 <=> s = << >>
OBVIOUS

LEMMA AppendFacts ==
  ASSUME NEW R, NEW s \in Seq(R), NEW e \in R
  PROVE  /\ Append(s, e) \in Seq(R) /\ Len(Append(s, e)) = Len(s) + 1
         /\ \A k \in 1..Len(s) : Append(s, e)[k] = s[k]
         /\ Append(s, e)[Len(s) + 1] = e
OBVIOUS

LEMMA ConcatFacts ==
  ASSUME NEW R, NEW s \in Seq(R), NEW t \in Seq(R)
  PROVE  /\ s \o t \in Seq(R)
         /\ Len(s \o t) = Len(s) + Len(t)
         /\ \A k \in 1..Len(s) : (s \o t)[k] = s[k]
         /\ \A k \in 1..Len(t) : (s \o t)[Len(s) + k] = t[k]
OBVIOUS

LEMMA SubSeqFacts ==
  ASSUME NEW R, NEW s \in Seq(R), NEW n \in Nat, n <= Len(s)
  PROVE  /\ SubSeq(s, 1, n) \in Seq(R) /\ Len(SubSeq(s, 1, n)) = n
         /\ \A k \in 1..n : SubSeq(s, 1, n)[k] = s[k]
OBVIOUS

LEMMA SameSeq ==
  ASSUME NEW R, NEW s \in Seq(R), NEW t \in Seq(R), Len(s) = Len(t),
         \A k \in 1..Len(s) : s[k] = t[k]
  PROVE  s = t
<1>1. s = [k \in 1..Len(s) |-> s[k]] /\ t = [k \in 1..Len(t) |-> t[k]]
  BY SeqFacts
<1> QED BY <1>1

LEMMA ListFacts ==
  ASSUME NEW R, NEW s \in Seq(R)
  PROVE  /\ Len(s) \in Nat /\ DOMAIN s = 1..Len(s)
         /\ s = [k \in 1..Len(s) |-> s[k]]
         /\ \A k \in 1..Len(s) : s[k] \in R
         /\ Len(s) = 0 <=> s = << >>
         /\ \A e \in R : /\ Append(s, e) \in Seq(R)
                         /\ Len(Append(s, e)) = Len(s) + 1
                         /\ \A k \in 1..Len(s) : Append(s, e)[k] = s[k]
                         /\ Append(s, e)[Len(s) + 1] = e
OBVIOUS

LEMMA IsSeq ==
  ASSUME NEW R, NEW n \in Nat, NEW f, f = [k \in 1..n |-> f[k]], \A k \in 1..n : f[k] \in R
  PROVE  f \in Seq(R) /\ Len(f) = n
OBVIOUS

\* What flatten is in FlattenSeq of SequencesExt, a recursive function.
Flattens(f, s, n) ==
  f = [i \in 1..n |-> IF i = 1 THEN s[i] ELSE f[i - 1] \o s[i]]

LEMMA FlattensExists ==
  ASSUME NEW s, NEW n \in Nat
  PROVE  \E f : Flattens(f, s, n)
<1> DEFINE S == {m \in Nat : \E f : Flattens(f, s, m)}
<1>1. 0 \in S
  <2>1. Flattens(<< >>, s, 0)
    BY DEF Flattens
  <2> QED BY <2>1
<1>2. ASSUME NEW m \in Nat, m \in S PROVE m + 1 \in S
  <2>1. PICK f : Flattens(f, s, m)
    BY <1>2
  <2> DEFINE g == [i \in 1..(m + 1) |->
                     IF i # m + 1 THEN f[i] ELSE IF i = 1 THEN s[i] ELSE f[i - 1] \o s[i]]
             h == [i \in 1..(m + 1) |-> IF i = 1 THEN s[i] ELSE g[i - 1] \o s[i]]
  <2>2. ASSUME NEW i \in 1..(m + 1) PROVE g[i] = h[i]
    <3>1. i = 1 \/ (i - 1 \in 1..(m + 1) /\ i - 1 # m + 1)
      OBVIOUS
    <3>2. i # 1 => g[i - 1] = f[i - 1]
      BY <3>1
    <3>3. CASE i = m + 1
      BY <3>2, <3>3
    <3>4. CASE i # m + 1
      <4>1. i \in 1..m
        BY <3>4
      <4>2. f[i] = IF i = 1 THEN s[i] ELSE f[i - 1] \o s[i]
        BY <2>1, <4>1 DEF Flattens
      <4> QED BY <3>2, <3>4, <4>2
    <3> QED BY <3>3, <3>4
  <2>3. g = [i \in 1..(m + 1) |-> g[i]] /\ h = [i \in 1..(m + 1) |-> h[i]]
    OBVIOUS
  <2>4. g = h
    <3> HIDE DEF g, h
    <3> QED BY <2>2, <2>3
  <2>5. Flattens(g, s, m + 1)
    <3> HIDE DEF g
    <3> QED BY <2>4 DEF Flattens, h
  <2> QED BY <2>5
<1> HIDE DEF S
<1>3. n \in S
  BY <1>1, <1>2, SetInduction DEF S
<1> QED BY <1>3 DEF S

\* What is flattened so far depends on what has been looked at so far.
LEMMA FlattensSame ==
  ASSUME NEW n \in Nat, NEW m \in Nat, n <= m, NEW s, NEW t, NEW f, NEW g,
         Flattens(f, s, n), Flattens(g, t, m), \A i \in 1..n : s[i] = t[i]
  PROVE  \A i \in 1..n : f[i] = g[i]
<1> DEFINE S == {k \in Nat : k + 1 \in 1..n => f[k + 1] = g[k + 1]}
<1>0. \A i \in 1..n : /\ f[i] = IF i = 1 THEN s[i] ELSE f[i - 1] \o s[i]
                      /\ g[i] = IF i = 1 THEN t[i] ELSE g[i - 1] \o t[i]
  <2>1. \A i \in 1..n : i \in 1..m
    OBVIOUS
  <2> QED BY <2>1 DEF Flattens
<1>1. 0 \in S
  BY <1>0
<1>2. ASSUME NEW k \in Nat, k \in S PROVE k + 1 \in S
  <2> SUFFICES ASSUME k + 2 \in 1..n PROVE f[k + 2] = g[k + 2]
    OBVIOUS
  <2>1. k + 1 \in 1..n /\ (k + 2) - 1 = k + 1 /\ k + 2 # 1
    OBVIOUS
  <2>2. f[k + 1] = g[k + 1]
    BY <1>2, <2>1
  <2> QED BY <1>0, <2>1, <2>2
<1>3. S = Nat
  <2> HIDE DEF S
  <2> QED BY <1>1, <1>2, SetInduction DEF S
<1>4. ASSUME NEW i \in 1..n PROVE f[i] = g[i]
  <2>1. i - 1 \in Nat /\ (i - 1) + 1 = i
    OBVIOUS
  <2>2. i - 1 \in S
    BY <1>3, <2>1
  <2> QED BY <2>1, <2>2
<1> QED BY <1>4

-----------------------------------------------------------------------------
(* The lists and maps of an LRU *)

In(s, x) == \E i \in 1..Len(s) : s[i] = x

\* Position finds the place of an element, the only one it has.
LEMMA PositionFinds ==
  ASSUME NEW S, NEW s \in Seq(S), NEW k, In(s, k)
  PROVE  Position(s, k) \in 1..Len(s) /\ s[Position(s, k)] = k
BY DEF In, Position

\* ListRemove takes out one element and leaves the others, each once.
LEMMA ListRemoveLemma ==
  ASSUME NEW S, NEW s \in Seq(S), NoRepetition(s), NEW k, In(s, k)
  PROVE  /\ ListRemove(s, k) \in Seq(S)
         /\ Len(ListRemove(s, k)) = Len(s) - 1
         /\ NoRepetition(ListRemove(s, k))
         /\ \A x : In(ListRemove(s, k), x) <=> In(s, x) /\ x # k
<1> DEFINE p == Position(s, k)
           r == ListRemove(s, k)
<1>1. p \in 1..Len(s) /\ s[p] = k
  BY PositionFinds
<1>2. Len(s) \in Nat /\ Len(s) - 1 \in Nat
  BY <1>1
<1>3. r = [j \in 1..(Len(s) - 1) |-> IF j < p THEN s[j] ELSE s[j + 1]]
  BY DEF ListRemove
<1> HIDE DEF p, r
<1>4. r \in Seq(S) /\ Len(r) = Len(s) - 1
  <2>1. \A j \in 1..(Len(s) - 1) : (IF j < p THEN s[j] ELSE s[j + 1]) \in S
    BY <1>1, <1>2
  <2> QED BY <2>1, <1>2, <1>3
<1>5. \A j \in 1..Len(r) : r[j] = s[IF j < p THEN j ELSE j + 1]
  BY <1>3, <1>4
<1>6. NoRepetition(r)
  BY <1>1, <1>2, <1>4, <1>5 DEF NoRepetition
<1>7. ASSUME NEW x, In(r, x) PROVE In(s, x) /\ x # k
  <2>1. PICK j \in 1..Len(r) : r[j] = x
    BY <1>7 DEF In
  <2>2. (IF j < p THEN j ELSE j + 1) \in 1..Len(s) \ {p}
    BY <1>1, <1>2, <1>4
  <2> QED BY <2>1, <2>2, <1>1, <1>5 DEF In, NoRepetition
<1>8. ASSUME NEW x, In(s, x), x # k PROVE In(r, x)
  <2>1. PICK i \in 1..Len(s) : s[i] = x
    BY <1>8 DEF In
  <2>2. i # p
    BY <2>1, <1>1, <1>8
  <2>3. CASE i < p
    <3>1. i \in 1..Len(r) /\ r[i] = s[i]
      BY <2>3, <1>1, <1>2, <1>4, <1>5
    <3> QED BY <3>1, <2>1 DEF In
  <2>4. CASE i > p
    <3>1. i - 1 \in 1..Len(r) /\ r[i - 1] = s[i]
      BY <2>4, <1>1, <1>2, <1>4, <1>5
    <3> QED BY <3>1, <2>1 DEF In
  <2> QED BY <2>2, <2>3, <2>4, <1>1
<1> QED BY <1>4, <1>6, <1>7, <1>8 DEF r

\* PushFront adds an element that was not there, in front.
LEMMA PushFrontLemma ==
  ASSUME NEW S, NEW s \in Seq(S), NoRepetition(s), NEW k \in S, ~ In(s, k)
  PROVE  /\ PushFront(s, k) \in Seq(S)
         /\ Len(PushFront(s, k)) = Len(s) + 1
         /\ NoRepetition(PushFront(s, k))
         /\ \A x : In(PushFront(s, k), x) <=> In(s, x) \/ x = k
<1> DEFINE r == PushFront(s, k)
<1>1. r = [j \in 1..(Len(s) + 1) |-> IF j = 1 THEN k ELSE s[j - 1]]
  BY DEF PushFront
<1> HIDE DEF r
<1>2. r \in Seq(S) /\ Len(r) = Len(s) + 1
  <2>1. \A j \in 1..(Len(s) + 1) : (IF j = 1 THEN k ELSE s[j - 1]) \in S
    OBVIOUS
  <2> QED BY <2>1, <1>1
<1>3. r[1] = k /\ \A j \in 1..Len(s) : j + 1 \in 1..Len(r) /\ r[j + 1] = s[j]
  BY <1>1, <1>2
<1>4. \A j \in 1..Len(r) : j = 1 \/ (j - 1 \in 1..Len(s) /\ r[j] = s[j - 1])
  BY <1>1, <1>2
<1>5. NoRepetition(r)
  <2> SUFFICES ASSUME NEW i \in 1..Len(r), NEW j \in 1..Len(r), r[i] = r[j]
               PROVE  i = j
    BY DEF NoRepetition
  <2>1. \A n \in 1..Len(s) : s[n] # k
    BY DEF In
  <2>2. CASE i = 1
    <3>1. j = 1 \/ (j - 1 \in 1..Len(s) /\ r[j] = s[j - 1])
      BY <1>4
    <3> QED BY <1>3, <2>1, <2>2, <3>1
  <2>3. CASE j = 1
    <3>1. i = 1 \/ (i - 1 \in 1..Len(s) /\ r[i] = s[i - 1])
      BY <1>4
    <3> QED BY <1>3, <2>1, <2>3, <3>1
  <2>4. CASE i # 1 /\ j # 1
    <3>1. i - 1 \in 1..Len(s) /\ j - 1 \in 1..Len(s) /\ s[i - 1] = s[j - 1]
      BY <2>4, <1>4
    <3>2. i - 1 = j - 1
      BY <3>1 DEF NoRepetition
    <3> QED BY <3>2
  <2> QED BY <2>2, <2>3, <2>4
<1>6. ASSUME NEW x PROVE In(r, x) <=> In(s, x) \/ x = k
  <2>1. ASSUME In(r, x) PROVE In(s, x) \/ x = k
    <3>1. PICK j \in 1..Len(r) : r[j] = x
      BY <2>1 DEF In
    <3>2. CASE j = 1
      BY <3>1, <3>2, <1>3
    <3>3. CASE j # 1
      BY <3>1, <3>3, <1>4 DEF In
    <3> QED BY <3>2, <3>3
  <2>2. ASSUME In(s, x) PROVE In(r, x)
    BY <2>2, <1>3 DEF In
  <2>3. In(r, k)
    <3>1. 1 \in 1..Len(r)
      BY <1>2
    <3> QED BY <3>1, <1>3 DEF In
  <2> QED BY <2>1, <2>2, <2>3
<1> QED BY <1>2, <1>5, <1>6 DEF r

\* MoveToFront rearranges the list and loses nothing.
LEMMA MoveToFrontLemma ==
  ASSUME NEW S, NEW s \in Seq(S), NoRepetition(s), NEW k \in S, In(s, k)
  PROVE  /\ MoveToFront(s, k) \in Seq(S)
         /\ Len(MoveToFront(s, k)) = Len(s)
         /\ NoRepetition(MoveToFront(s, k))
         /\ \A x : In(MoveToFront(s, k), x) <=> In(s, x)
<1> DEFINE r == ListRemove(s, k)
<1>1. /\ r \in Seq(S)
      /\ Len(r) = Len(s) - 1
      /\ NoRepetition(r)
      /\ \A x : In(r, x) <=> In(s, x) /\ x # k
  BY ListRemoveLemma
<1> HIDE DEF r
<1>2. /\ PushFront(r, k) \in Seq(S)
      /\ Len(PushFront(r, k)) = Len(r) + 1
      /\ NoRepetition(PushFront(r, k))
      /\ \A x : In(PushFront(r, k), x) <=> In(r, x) \/ x = k
  BY <1>1, PushFrontLemma
<1>3. MoveToFront(s, k) = PushFront(r, k)
  BY DEF MoveToFront, r
<1> QED BY <1>1, <1>2, <1>3

-----------------------------------------------------------------------------
(* The cache as a whole *)

\* A cache that lru.go can be trusted with.
Good(c, Keys, Values) == c \in CacheOf(Keys, Values) /\ MapAndListAgree(c)

\* The map holds what the list holds, in terms of In.
LEMMA AgreeLemma ==
  ASSUME NEW c
  PROVE  MapAndListAgree(c) <=> /\ \A x : In(c.evictList, x) <=> x \in Cached(c)
                                /\ NoRepetition(c.evictList)
BY DEF MapAndListAgree, In

\* A map from some of the keys to values.
MapOK(f, Keys, Values) == DOMAIN f \subseteq Keys /\ f \in [DOMAIN f -> Values]

\* The fields of a cache, and a cache from its fields.
LEMMA CacheFields ==
  ASSUME NEW Keys, NEW Values, NEW c \in CacheOf(Keys, Values)
  PROVE  /\ c = [items |-> c.items, evictList |-> c.evictList]
         /\ c.evictList \in Seq(Keys)
         /\ Cached(c) \subseteq Keys
         /\ MapOK(c.items, Keys, Values)
         /\ \A x \in Cached(c) : c.items[x] \in Values
BY DEF CacheOf, Cached, MapOK

\* A record with such fields is a cache.
LEMMA CacheFromFields ==
  ASSUME NEW Keys, NEW Values, NEW f, NEW l \in Seq(Keys),
         MapOK(f, Keys, Values)
  PROVE  [items |-> f, evictList |-> l] \in CacheOf(Keys, Values)
BY DEF CacheOf, MapOK

\* The empty cache.
LEMMA EmptyLemma ==
  ASSUME NEW Keys, NEW Values
  PROVE  Good(Empty, Keys, Values) /\ Cached(Empty) = {}
<1>1. << >> \in [{} -> Values] /\ << >> \in Seq(Keys)
  OBVIOUS
<1>2. Empty \in CacheOf(Keys, Values)
  BY <1>1, CacheFromFields DEF Empty, MapOK
<1>3. Empty.evictList = << >> /\ Cached(Empty) = {}
  BY <1>1 DEF Empty, Cached
<1>4. MapAndListAgree(Empty)
  BY <1>3 DEF MapAndListAgree, NoRepetition
<1> QED BY <1>2, <1>3, <1>4 DEF Good

\* removeElement, on a key that is there: the key goes, the rest stays.
LEMMA RemoveElementLemma ==
  ASSUME NEW Keys, NEW Values, NEW c, Good(c, Keys, Values),
         NEW k, IsCached(c, k)
  PROVE  /\ Good(removeElement(c, k), Keys, Values)
         /\ Cached(removeElement(c, k)) = Cached(c) \ {k}
         /\ \A x \in Cached(c) \ {k} : removeElement(c, k).items[x] = c.items[x]
         /\ Len(removeElement(c, k).evictList) = Len(c.evictList) - 1
<1> DEFINE r == removeElement(c, k)
<1>1. /\ c.evictList \in Seq(Keys) /\ NoRepetition(c.evictList)
      /\ In(c.evictList, k)
      /\ \A x : In(c.evictList, x) <=> x \in Cached(c)
      /\ Cached(c) \subseteq Keys
      /\ \A x \in Cached(c) : c.items[x] \in Values
  BY CacheFields, AgreeLemma DEF Good, IsCached
<1>2. /\ ListRemove(c.evictList, k) \in Seq(Keys)
      /\ Len(ListRemove(c.evictList, k)) = Len(c.evictList) - 1
      /\ NoRepetition(ListRemove(c.evictList, k))
      /\ \A x : In(ListRemove(c.evictList, k), x) <=> In(c.evictList, x) /\ x # k
  BY <1>1, ListRemoveLemma
<1>3. /\ r.items = [x \in Cached(c) \ {k} |-> c.items[x]]
      /\ r.evictList = ListRemove(c.evictList, k)
      /\ r = [items |-> r.items, evictList |-> r.evictList]
  BY DEF removeElement, Delete, Cached
<1>4. Cached(r) = Cached(c) \ {k}
  BY <1>3 DEF Cached
<1>5. r \in CacheOf(Keys, Values)
  <2>1. MapOK(r.items, Keys, Values) /\ r.evictList \in Seq(Keys)
    BY <1>1, <1>2, <1>3 DEF MapOK
  <2> HIDE DEF r
  <2> QED BY <2>1, <1>3, CacheFromFields
<1>6. MapAndListAgree(r)
  BY <1>1, <1>2, <1>3, <1>4, AgreeLemma
<1> QED BY <1>2, <1>3, <1>4, <1>5, <1>6 DEF Good

\* Using a cached key keeps every entry.
LEMMA UseLemma ==
  ASSUME NEW Keys, NEW Values, NEW c, Good(c, Keys, Values), NEW k
  PROVE  /\ Good(Use(c, k), Keys, Values)
         /\ Use(c, k).items = c.items
         /\ Len(Use(c, k).evictList) = Len(c.evictList)
<1>1. CASE ~ IsCached(c, k)
  BY <1>1 DEF Use
<1>2. CASE IsCached(c, k)
  <2> DEFINE l == MoveToFront(c.evictList, k)
  <2>1. /\ c = [items |-> c.items, evictList |-> c.evictList]
        /\ c.evictList \in Seq(Keys) /\ NoRepetition(c.evictList)
        /\ In(c.evictList, k)
        /\ \A x : In(c.evictList, x) <=> x \in Cached(c)
        /\ MapOK(c.items, Keys, Values) /\ k \in Keys
    BY <1>2, CacheFields, AgreeLemma DEF Good, IsCached
  <2>2. /\ l \in Seq(Keys) /\ Len(l) = Len(c.evictList) /\ NoRepetition(l)
        /\ \A x : In(l, x) <=> In(c.evictList, x)
    BY <2>1, MoveToFrontLemma
  <2>3. Use(c, k) = [items |-> c.items, evictList |-> l]
    BY <1>2, <2>1 DEF Use
  <2> HIDE DEF l
  <2>4. Use(c, k) \in CacheOf(Keys, Values)
    BY <2>1, <2>2, <2>3, CacheFromFields
  <2>5. MapAndListAgree(Use(c, k))
    BY <2>1, <2>2, <2>3, AgreeLemma DEF Cached
  <2> QED BY <2>2, <2>3, <2>4, <2>5 DEF Good
<1> QED BY <1>1, <1>2

\* Inserting a new key adds its entry, one element more in the list.
LEMMA InsertLemma ==
  ASSUME NEW Keys, NEW Values, NEW c, Good(c, Keys, Values),
         NEW k \in Keys, NEW v \in Values, ~ IsCached(c, k)
  PROVE  /\ Good(Insert(c, k, v), Keys, Values)
         /\ Cached(Insert(c, k, v)) = Cached(c) \cup {k}
         /\ Insert(c, k, v).items[k] = v
         /\ \A x \in Cached(c) : Insert(c, k, v).items[x] = c.items[x]
         /\ Len(Insert(c, k, v).evictList) = Len(c.evictList) + 1
         /\ Insert(c, k, v).evictList = PushFront(c.evictList, k)
<1> DEFINE r == Insert(c, k, v)
           l == PushFront(c.evictList, k)
           f == Put(c.items, k, v)
<1>1. /\ c.evictList \in Seq(Keys) /\ NoRepetition(c.evictList)
      /\ ~ In(c.evictList, k)
      /\ \A x : In(c.evictList, x) <=> x \in Cached(c)
  BY CacheFields, AgreeLemma DEF Good, IsCached
<1>2. /\ l \in Seq(Keys) /\ Len(l) = Len(c.evictList) + 1 /\ NoRepetition(l)
      /\ \A x : In(l, x) <=> In(c.evictList, x) \/ x = k
  BY <1>1, PushFrontLemma
<1>3. /\ DOMAIN f = Cached(c) \cup {k}
      /\ MapOK(f, Keys, Values)
      /\ f[k] = v
      /\ \A x \in Cached(c) : x # k => f[x] = c.items[x]
  BY CacheFields DEF Good, Put, Cached, MapOK
<1>4. r = [items |-> f, evictList |-> l] /\ r.evictList = PushFront(c.evictList, k)
  BY DEF Insert
<1> HIDE DEF r, l, f
<1>5. r \in CacheOf(Keys, Values)
  BY <1>2, <1>3, <1>4, CacheFromFields
<1>6. Cached(r) = Cached(c) \cup {k}
  BY <1>3, <1>4 DEF Cached
<1>7. MapAndListAgree(r)
  BY <1>1, <1>2, <1>4, <1>6, AgreeLemma
<1>8. \A x \in Cached(c) : r.items[x] = c.items[x]
  BY <1>3, <1>4 DEF IsCached
<1> QED BY <1>2, <1>3, <1>4, <1>5, <1>6, <1>7, <1>8 DEF Good, r

\* Replacing the value of a cached key keeps the keys.
LEMMA ReplaceLemma ==
  ASSUME NEW Keys, NEW Values, NEW c, Good(c, Keys, Values),
         NEW k, NEW v \in Values, IsCached(c, k)
  PROVE  /\ Good(Replace(c, k, v), Keys, Values)
         /\ Cached(Replace(c, k, v)) = Cached(c)
         /\ Replace(c, k, v).items[k] = v
         /\ \A x \in Cached(c) \ {k} : Replace(c, k, v).items[x] = c.items[x]
         /\ Len(Replace(c, k, v).evictList) = Len(c.evictList)
<1> DEFINE r == Replace(c, k, v)
           l == MoveToFront(c.evictList, k)
           f == Put(c.items, k, v)
<1>1. /\ c.evictList \in Seq(Keys) /\ NoRepetition(c.evictList)
      /\ In(c.evictList, k)
      /\ \A x : In(c.evictList, x) <=> x \in Cached(c)
      /\ k \in Keys
  BY CacheFields, AgreeLemma DEF Good, IsCached
<1>2. /\ l \in Seq(Keys) /\ Len(l) = Len(c.evictList) /\ NoRepetition(l)
      /\ \A x : In(l, x) <=> In(c.evictList, x)
  BY <1>1, MoveToFrontLemma
<1>3. /\ DOMAIN f = Cached(c) \cup {k}
      /\ MapOK(f, Keys, Values)
      /\ f[k] = v
      /\ \A x \in Cached(c) : x # k => f[x] = c.items[x]
  BY <1>1, CacheFields DEF Good, Put, Cached, MapOK
<1>4. r = [items |-> f, evictList |-> l]
  BY DEF Replace
<1> HIDE DEF r, l, f
<1>5. r \in CacheOf(Keys, Values)
  BY <1>2, <1>3, <1>4, CacheFromFields
<1>6. Cached(r) = Cached(c)
  BY <1>3, <1>4 DEF Cached, IsCached
<1>7. MapAndListAgree(r)
  BY <1>1, <1>2, <1>4, <1>6, AgreeLemma
<1> QED BY <1>2, <1>3, <1>4, <1>5, <1>6, <1>7 DEF Good, r

\* Adding under a new key to a full cache: the entry that goes is at the back
\* of the list, was there before, and is not the one that is added.
LEMMA BackLemma ==
  ASSUME NEW Keys, NEW Values, NEW c, Good(c, Keys, Values),
         NEW k \in Keys, NEW v \in Values, ~ IsCached(c, k),
         c.evictList # << >>
  PROVE  LET b == Back(Insert(c, k, v).evictList)
         IN b \in Cached(c) /\ b # k /\ b = Back(c.evictList)
<1> DEFINE s == c.evictList
           l == PushFront(s, k)
<1>1. s \in Seq(Keys) /\ Len(s) \in Nat \ {0}
  BY CacheFields DEF Good
<1>2. Insert(c, k, v).evictList = l
  BY DEF Insert
<1>3. Len(l) = Len(s) + 1 /\ l[Len(l)] = s[Len(s)]
  BY <1>1 DEF PushFront
<1>4. Back(l) = Back(s) /\ In(s, Back(s))
  BY <1>1, <1>3 DEF Back, In
<1>5. Back(s) \in Cached(c)
  BY <1>4, AgreeLemma DEF Good
<1> QED BY <1>2, <1>4, <1>5 DEF IsCached

\* Add keeps the map and the list in agreement and the size within its bound;
\* every other entry stays as it is or goes through the callback.
LEMMA AddedLemma ==
  ASSUME NEW Keys, NEW Values, NEW c, Good(c, Keys, Values),
         NEW size \in Nat \ {0}, WithinSize(c, size),
         NEW k \in Keys, NEW v \in Values
  PROVE  LET after == Added(c, k, v, size)
             out == AddEvicts(c, k, v, size)
         IN /\ Good(after, Keys, Values)
            /\ WithinSize(after, size)
            /\ IsCached(after, k) /\ after.items[k] = v
            /\ Cached(after) \subseteq Cached(c) \cup {k}
            /\ out \subseteq Keys \X Values
            /\ \A p \in out : ~ IsCached(after, p[1])
            /\ \A p \in out : \E x \in Cached(c) \ {k} : p = <<x, c.items[x]>>
            /\ \A x \in Cached(c) \ {k} :
                 \/ IsCached(after, x) /\ after.items[x] = c.items[x]
                 \/ <<x, c.items[x]>> \in out
<1> DEFINE after == Added(c, k, v, size)
           out == AddEvicts(c, k, v, size)
           inserted == Insert(c, k, v)
           b == Back(inserted.evictList)
<1>1. CASE IsCached(c, k)
  <2>1. after = Replace(c, k, v) /\ out = {}
    BY <1>1 DEF Added, AddEvicts
  <2>2. /\ Good(Replace(c, k, v), Keys, Values)
        /\ Cached(Replace(c, k, v)) = Cached(c)
        /\ Replace(c, k, v).items[k] = v
        /\ \A x \in Cached(c) \ {k} : Replace(c, k, v).items[x] = c.items[x]
        /\ Len(Replace(c, k, v).evictList) = Len(c.evictList)
    BY <1>1, ReplaceLemma
  <2> QED BY <1>1, <2>1, <2>2 DEF WithinSize, IsCached
<1>2. CASE ~ IsCached(c, k)
  <2>1. /\ Good(inserted, Keys, Values)
        /\ Cached(inserted) = Cached(c) \cup {k}
        /\ inserted.items[k] = v
        /\ \A x \in Cached(c) : inserted.items[x] = c.items[x]
        /\ Len(inserted.evictList) = Len(c.evictList) + 1
    BY <1>2, InsertLemma
  <2>2. Len(c.evictList) \in Nat
    BY CacheFields DEF Good
  <2>3. CASE ~ Overflows(inserted, size)
    <3>1. after = inserted /\ out = {}
      BY <1>2, <2>3 DEF Added, AddEvicts
    <3>2. WithinSize(inserted, size)
      BY <2>1, <2>2, <2>3 DEF Overflows, WithinSize
    <3> QED BY <3>1, <3>2, <2>1 DEF IsCached
  <2>4. CASE Overflows(inserted, size)
    <3>1. after = removeElement(inserted, b) /\ out = {<<b, inserted.items[b]>>}
      BY <1>2, <2>4 DEF Added, AddEvicts, Entries
    <3>2. c.evictList # << >>
      BY <2>1, <2>4 DEF Overflows
    <3>3. b \in Cached(c) /\ b # k
      BY <1>2, <3>2, BackLemma
    <3>4. IsCached(inserted, b)
      BY <2>1, <3>3 DEF IsCached
    <3> HIDE DEF inserted, b, after, out
    <3>5. /\ Good(after, Keys, Values)
          /\ Cached(after) = Cached(inserted) \ {b}
          /\ \A x \in Cached(inserted) \ {b} : after.items[x] = inserted.items[x]
          /\ Len(after.evictList) = Len(inserted.evictList) - 1
      BY <2>1, <3>1, <3>4, RemoveElementLemma
    <3>6. WithinSize(after, size)
      BY <2>1, <2>2, <3>5 DEF WithinSize
    <3>7. inserted.items[b] = c.items[b] /\ <<b, c.items[b]>> \in Keys \X Values
      BY <2>1, <3>3, CacheFields DEF Good
    <3>8. \A x \in Cached(c) \ {k} :
            \/ IsCached(after, x) /\ after.items[x] = c.items[x]
            \/ <<x, c.items[x]>> \in out
      BY <2>1, <3>1, <3>5, <3>7 DEF IsCached
    <3>9. IsCached(after, k) /\ after.items[k] = v
      BY <2>1, <3>3, <3>5 DEF IsCached
    <3>10. out \subseteq Keys \X Values /\ \A p \in out : ~ IsCached(after, p[1])
      BY <3>1, <3>5, <3>7 DEF IsCached
    <3>11. Cached(after) \subseteq Cached(c) \cup {k}
      BY <2>1, <3>5
    <3>12. \A p \in out : \E x \in Cached(c) \ {k} : p = <<x, c.items[x]>>
      BY <3>1, <3>3, <3>7
    <3> QED BY <3>5, <3>6, <3>8, <3>9, <3>10, <3>11, <3>12 DEF after, out
  <2> QED BY <2>3, <2>4
<1> QED BY <1>1, <1>2
-----------------------------------------------------------------------------
(* The order of the list *)

\* x is somewhere in front of y.
Before(s, x, y) ==
  \E i, j \in 1..Len(s) : i < j /\ s[i] = x /\ s[j] = y

\* ListRemove keeps the order of what stays.
LEMMA ListRemoveOrder ==
  ASSUME NEW S, NEW s \in Seq(S), NoRepetition(s), NEW k, In(s, k), NEW x, NEW y
  PROVE  Before(ListRemove(s, k), x, y) <=> Before(s, x, y) /\ x # k /\ y # k
<1> DEFINE p == Position(s, k)
           r == ListRemove(s, k)
           n == Len(s)
<1>1. p \in 1..n /\ s[p] = k /\ n \in Nat
  BY PositionFinds
<1>2. r = [j \in 1..(n - 1) |-> IF j < p THEN s[j] ELSE s[j + 1]]
  BY DEF ListRemove
<1>3. Len(r) = n - 1
  BY ListRemoveLemma
<1> HIDE DEF p, r, n
<1>4. /\ \A j \in 1..Len(r) : j < p => j \in 1..n /\ r[j] = s[j]
      /\ \A j \in 1..Len(r) : ~ (j < p) => j + 1 \in 1..n /\ r[j] = s[j + 1]
  BY <1>1, <1>2, <1>3
<1>5. ASSUME Before(r, x, y) PROVE Before(s, x, y) /\ x # k /\ y # k
  <2>1. PICK i \in 1..Len(r), j \in 1..Len(r) : i < j /\ r[i] = x /\ r[j] = y
    BY <1>5 DEF Before
  <2> DEFINE a == IF i < p THEN i ELSE i + 1
             b == IF j < p THEN j ELSE j + 1
  <2>2. a \in 1..n /\ b \in 1..n /\ a < b /\ a # p /\ b # p
    BY <1>1, <1>4, <2>1
  <2>3. s[a] = x /\ s[b] = y
    BY <1>4, <2>1
  <2> HIDE DEF a, b
  <2> QED BY <1>1, <2>2, <2>3 DEF Before, NoRepetition, n
<1>6. ASSUME Before(s, x, y), x # k, y # k PROVE Before(r, x, y)
  <2>1. PICK i \in 1..n, j \in 1..n : i < j /\ s[i] = x /\ s[j] = y
    BY <1>6 DEF Before, n
  <2> DEFINE a == IF i < p THEN i ELSE i - 1
             b == IF j < p THEN j ELSE j - 1
  <2>2. i # p /\ j # p
    BY <1>1, <1>6, <2>1
  <2>3. a \in 1..Len(r) /\ b \in 1..Len(r) /\ a < b
    BY <1>1, <1>3, <2>1, <2>2
  <2>4. r[a] = s[i] /\ r[b] = s[j]
    BY <1>1, <1>2, <1>3, <2>1, <2>2, <2>3
  <2> HIDE DEF a, b
  <2> QED BY <2>1, <2>3, <2>4 DEF Before
<1> QED BY <1>5, <1>6 DEF r

\* PushFront puts the new element in front of all others.
LEMMA PushFrontOrder ==
  ASSUME NEW S, NEW s \in Seq(S), NEW k, NEW x, NEW y
  PROVE  Before(PushFront(s, k), x, y) <=> Before(s, x, y) \/ (x = k /\ In(s, y))
<1> DEFINE r == PushFront(s, k)
<1>1. /\ Len(s) \in Nat
      /\ r = [j \in 1..(Len(s) + 1) |-> IF j = 1 THEN k ELSE s[j - 1]]
  BY DEF PushFront
<1> HIDE DEF r
<1>2. Len(r) = Len(s) + 1
  BY <1>1
<1>3. r[1] = k /\ \A j \in 1..Len(s) : j + 1 \in 1..Len(r) /\ r[j + 1] = s[j]
  BY <1>1, <1>2
<1>4. \A j \in 1..Len(r) : j = 1 \/ (j - 1 \in 1..Len(s) /\ r[j] = s[j - 1])
  BY <1>1, <1>2
<1>5. ASSUME Before(r, x, y) PROVE Before(s, x, y) \/ (x = k /\ In(s, y))
  <2>1. PICK i \in 1..Len(r), j \in 1..Len(r) : i < j /\ r[i] = x /\ r[j] = y
    BY <1>5 DEF Before
  <2>2. j - 1 \in 1..Len(s) /\ s[j - 1] = y
    BY <1>4, <2>1
  <2>3. CASE i = 1
    BY <1>3, <2>1, <2>2, <2>3 DEF In
  <2>4. CASE i # 1
    <3>1. i - 1 \in 1..Len(s) /\ s[i - 1] = x /\ i - 1 < j - 1
      BY <1>4, <2>1, <2>4
    <3> QED BY <2>2, <3>1 DEF Before
  <2> QED BY <2>3, <2>4
<1>6. ASSUME Before(s, x, y) PROVE Before(r, x, y)
  <2>1. PICK i \in 1..Len(s), j \in 1..Len(s) : i < j /\ s[i] = x /\ s[j] = y
    BY <1>6 DEF Before
  <2>2. i + 1 \in 1..Len(r) /\ j + 1 \in 1..Len(r) /\ i + 1 < j + 1
    BY <1>3, <2>1
  <2> QED BY <1>3, <2>1, <2>2 DEF Before
<1>7. ASSUME x = k, In(s, y) PROVE Before(r, x, y)
  <2>1. PICK j \in 1..Len(s) : s[j] = y
    BY <1>7 DEF In
  <2>2. 1 \in 1..Len(r) /\ j + 1 \in 1..Len(r) /\ 1 < j + 1
    BY <1>2, <1>3, <2>1
  <2> QED BY <1>3, <1>7, <2>1, <2>2 DEF Before
<1> QED BY <1>5, <1>6, <1>7 DEF r

\* MoveToFront puts an element in front of all others.
LEMMA MoveToFrontOrder ==
  ASSUME NEW S, NEW s \in Seq(S), NoRepetition(s), NEW k, In(s, k), NEW x, NEW y
  PROVE  Before(MoveToFront(s, k), x, y) <=>
           \/ Before(s, x, y) /\ x # k /\ y # k
           \/ x = k /\ In(s, y) /\ y # k
<1> DEFINE r == ListRemove(s, k)
<1>1. /\ r \in Seq(S)
      /\ In(r, y) <=> In(s, y) /\ y # k
  BY ListRemoveLemma
<1>2. Before(r, x, y) <=> Before(s, x, y) /\ x # k /\ y # k
  BY ListRemoveOrder
<1> HIDE DEF r
<1>3. Before(PushFront(r, k), x, y) <=> Before(r, x, y) \/ (x = k /\ In(r, y))
  BY <1>1, PushFrontOrder
<1> QED BY <1>1, <1>2, <1>3 DEF MoveToFront, r

\* The element at the back is behind all others, and the only such one.
LEMMA BackIsLast ==
  ASSUME NEW S, NEW s \in Seq(S), NoRepetition(s), s # << >>
  PROVE  /\ In(s, Back(s))
         /\ \A x : In(s, x) /\ x # Back(s) => Before(s, x, Back(s))
         /\ \A x : ~ Before(s, Back(s), x)
<1>1. Len(s) \in 1..Len(s)
  OBVIOUS
<1>2. In(s, Back(s))
  BY <1>1 DEF In, Back
<1>3. ASSUME NEW x, In(s, x), x # Back(s) PROVE Before(s, x, Back(s))
  <2>1. PICK i \in 1..Len(s) : s[i] = x
    BY <1>3 DEF In
  <2>2. i < Len(s)
    BY <1>1, <1>3, <2>1 DEF Back
  <2> QED BY <1>1, <2>1, <2>2 DEF Before, Back
<1>4. ASSUME NEW x, Before(s, Back(s), x) PROVE FALSE
  <2>1. PICK i \in 1..Len(s), j \in 1..Len(s) : i < j /\ s[i] = Back(s) /\ s[j] = x
    BY <1>4 DEF Before
  <2>2. i = Len(s)
    BY <1>1, <2>1 DEF Back, NoRepetition
  <2> QED BY <2>1, <2>2
<1> QED BY <1>2, <1>3, <1>4

\* The list has as many elements as the map has entries.
LEMMA CountLemma ==
  ASSUME NEW Keys, NEW Values, NEW c, Good(c, Keys, Values)
  PROVE  IsFiniteSet(Cached(c)) /\ Cardinality(Cached(c)) = Len(c.evictList)
<1> DEFINE s == c.evictList
           D == 1..Len(s)
<1>1. /\ s \in Seq(Keys) /\ NoRepetition(s) /\ Len(s) \in Nat
      /\ \A x : In(s, x) <=> x \in Cached(c)
  BY CacheFields, AgreeLemma DEF Good
<1>2. s \in [D -> Cached(c)]
  BY <1>1 DEF In
<1>3. s \in Bijection(D, Cached(c))
  <2>1. \A x \in Cached(c) : \E i \in D : s[i] = x
    BY <1>1 DEF In
  <2>2. \A i, j \in D : s[i] = s[j] => i = j
    BY <1>1 DEF NoRepetition
  <2> HIDE DEF s, D
  <2> QED BY <1>2, <2>1, <2>2 DEF Bijection, Injection, Surjection, IsInjective
<1>4. IsFiniteSet(D) /\ Cardinality(D) = Len(s)
  <2>1. ASSUME NEW n \in Nat PROVE IsFiniteSet(1..n) /\ Cardinality(1..n) = n
    <3>1. Cardinality(1..n) = IF 1 > n THEN 0 ELSE n - 1 + 1
      BY FS_Interval
    <3> QED BY <3>1, FS_Interval
  <2> QED BY <1>1, <2>1
<1> HIDE DEF D
<1>5. ExistsBijection(D, Cached(c))
  BY <1>3 DEF ExistsBijection
<1> QED BY <1>4, <1>5, FS_Bijection
=============================================================================
