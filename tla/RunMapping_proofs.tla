-------------------------- MODULE RunMapping_proofs --------------------------
(***************************************************************************)
(* RunMapping, for every runlist, every size of a compression unit and of  *)
(* a cluster, and every size of the file.                                  *)
(***************************************************************************)
EXTENDS RunMapping, Lemmas

-----------------------------------------------------------------------------
(* The inductive invariant *)

PartSet == [offset : Int, length : Nat]

ReaderSet == [fileOffset : Nat, length : Nat, kind : {"disk", "sparse", "compressed"},
              parts : Seq(PartSet)]

\* A reader maps something; a plain one reads one run, and the runs of a
\* compressed one fit in its unit.
ReaderShape(r) ==
  /\ r.length > 0
  /\ r.kind # "compressed" => Len(r.parts) = 1
  /\ Len(r.parts) # 1 => SumOfLengths(r.parts) <= r.length

TypeInv ==
  /\ orig \in Seq(Runs)
  /\ flags \in SUBSET {"compressed", "sparse"}
  /\ sizes.actual \in Nat /\ sizes.initialized \in 0..sizes.actual
  /\ sizes.actual <= SumOfLengths(orig) * ClusterSize
  /\ runs \in Seq(Runs) /\ Len(runs) = Len(orig)
  /\ idx \in Nat /\ idx >= 1
  /\ file_offset \in Nat
  /\ readers \in Seq(ReaderSet)
  /\ \A i \in 1..Len(readers) : ReaderShape(readers[i])

\* The readers lie one after the other.
ContiguousInv ==
  /\ \A i \in 1..Len(readers) : readers[i].fileOffset = LengthOfFirst(i - 1, readers)
  /\ file_offset = SumOfLengths(readers)

\* The runs that are left are those of the file, but the first of them may
\* have been cut in front.
RunsInv ==
  /\ \A j \in (idx + 1)..Len(orig) : runs[j] = orig[j]
  /\ idx <= Len(orig) =>
       /\ runs[idx].delta = orig[idx].delta
       /\ runs[idx].length <= orig[idx].length
       /\ runs[idx].offset = orig[idx].offset + (orig[idx].length - runs[idx].length)

\* What is mapped is all that comes before the run the loop is at.
PlaceInv ==
  /\ idx <= Len(orig) =>
       file_offset = Start(idx) + (orig[idx].length - runs[idx].length)
  /\ idx > Len(orig) => file_offset = SumOfLengths(orig)

\* In a compressed file units are mapped whole.
WholeUnits ==
  IsCompressed => /\ file_offset % Unit = 0
                  /\ \A i \in 1..Len(readers) : /\ readers[i].fileOffset % Unit = 0
                                                /\ readers[i].length % Unit = 0

HoleAt(c) == IsHoleOfFile(orig[RunOf(c)])

\* A plain reader reads the clusters of the file, a compressed one those of a
\* unit.
PlainAgrees(r) ==
  \A c \in r.fileOffset..(r.fileOffset + r.length - 1) :
    /\ HoleAt(c) <=> r.kind = "sparse"
    /\ ClusterAt(c) = r.parts[1].offset + (c - r.fileOffset)

UnitAgrees(r) ==
  /\ IsCompressed /\ r.length = Unit
  /\ ClustersOf(r.parts) = RealIn(r.fileOffset, Unit)
  /\ Len(RealIn(r.fileOffset, Unit)) \in 1..(Unit - 1)

Agrees(r) == IF r.kind = "compressed" THEN UnitAgrees(r) ELSE PlainAgrees(r)

FileInv ==
  AsDocumented => /\ PlaceInv
                  /\ WholeUnits
                  /\ \A r \in ToSet(readers) : Agrees(r)

IInv == TypeInv /\ ContiguousInv /\ RunsInv /\ FileInv
-----------------------------------------------------------------------------
(* Sums of lengths *)

\* What sum is in LengthOfFirst.
Sums(f, rs, n) ==
  f = [i \in 0..n |-> IF i = 0 THEN 0 ELSE f[i - 1] + rs[i].length]

LEMMA SumsExist ==
  ASSUME NEW rs, NEW n \in Nat
  PROVE  \E f : Sums(f, rs, n)
<1> DEFINE S == {m \in Nat : \E f : Sums(f, rs, m)}
<1>1. 0 \in S
  <2> DEFINE f == [i \in 0..0 |-> 0]
  <2>1. Sums(f, rs, 0)
    BY DEF Sums
  <2> QED BY <2>1
<1>2. ASSUME NEW m \in Nat, m \in S PROVE m + 1 \in S
  <2>1. PICK f : Sums(f, rs, m)
    BY <1>2
  <2> DEFINE g == [i \in 0..(m + 1) |-> IF i = m + 1 THEN f[m] + rs[i].length ELSE f[i]]
             h == [i \in 0..(m + 1) |-> IF i = 0 THEN 0 ELSE g[i - 1] + rs[i].length]
  <2>2. \A i \in 0..m : f[i] = IF i = 0 THEN 0 ELSE f[i - 1] + rs[i].length
    BY <2>1 DEF Sums
  <2>3. ASSUME NEW i \in 0..(m + 1) PROVE g[i] = h[i]
    <3>1. i = 0 \/ (i - 1 \in 0..(m + 1) /\ i - 1 # m + 1)
      OBVIOUS
    <3>2. i # 0 => g[i - 1] = f[i - 1]
      BY <3>1
    <3>3. CASE i = m + 1
      BY <3>2, <3>3
    <3>4. CASE i # m + 1
      BY <2>2, <3>2, <3>4
    <3> QED BY <3>3, <3>4
  <2>4. g = [i \in 0..(m + 1) |-> g[i]] /\ h = [i \in 0..(m + 1) |-> h[i]]
    OBVIOUS
  <2>5. g = h
    <3> HIDE DEF g, h
    <3> QED BY <2>3, <2>4
  <2>6. Sums(g, rs, m + 1)
    <3> HIDE DEF g
    <3> QED BY <2>5 DEF Sums, h
  <2> QED BY <2>6
<1> HIDE DEF S
<1>3. n \in S
  BY <1>1, <1>2, SetInduction DEF S
<1> QED BY <1>3 DEF S

LEMMA LengthIs ==
  ASSUME NEW rs, NEW n \in Nat
  PROVE  \E f : Sums(f, rs, n) /\ LengthOfFirst(n, rs) = f[n]
<1> DEFINE f == CHOOSE f : f = [i \in 0..n |-> IF i = 0 THEN 0 ELSE f[i - 1] + rs[i].length]
<1>1. LengthOfFirst(n, rs) = f[n]
  BY DEF LengthOfFirst
<1>2. Sums(f, rs, n)
  BY SumsExist DEF Sums
<1> QED BY <1>1, <1>2

\* The lengths of the first n are numbers.
HasLengths(rs, n) == \A i \in 1..n : rs[i].length \in Nat

LEMMA SumsSame ==
  ASSUME NEW n \in Nat, NEW m \in Nat, n <= m, NEW rs, NEW f, NEW g,
         Sums(f, rs, n), Sums(g, rs, m)
  PROVE  f[n] = g[n]
<1> DEFINE S == {k \in Nat : k <= n => f[k] = g[k]}
<1>0. \A i \in 0..n : /\ f[i] = IF i = 0 THEN 0 ELSE f[i - 1] + rs[i].length
                      /\ g[i] = IF i = 0 THEN 0 ELSE g[i - 1] + rs[i].length
  <2>1. \A i \in 0..n : i \in 0..m
    OBVIOUS
  <2> QED BY <2>1 DEF Sums
<1>1. 0 \in S
  BY <1>0
<1>2. ASSUME NEW k \in Nat, k \in S PROVE k + 1 \in S
  <2> SUFFICES ASSUME k + 1 <= n PROVE f[k + 1] = g[k + 1]
    OBVIOUS
  <2>1. k + 1 \in 0..n /\ (k + 1) - 1 = k /\ k + 1 # 0
    OBVIOUS
  <2>2. f[k] = g[k]
    BY <1>2, <2>1
  <2> QED BY <1>0, <2>1, <2>2
<1>3. S = Nat
  <2> HIDE DEF S
  <2> QED BY <1>1, <1>2, SetInduction DEF S
<1>4. n \in S
  BY <1>3
<1> QED BY <1>4

LEMMA LengthNone ==
  ASSUME NEW rs
  PROVE  LengthOfFirst(0, rs) = 0
<1>1. PICK f : Sums(f, rs, 0) /\ LengthOfFirst(0, rs) = f[0]
  BY LengthIs
<1> QED BY <1>1 DEF Sums

LEMMA LengthNext ==
  ASSUME NEW rs, NEW n \in Nat
  PROVE  LengthOfFirst(n + 1, rs) = LengthOfFirst(n, rs) + rs[n + 1].length
<1>1. PICK f : Sums(f, rs, n) /\ LengthOfFirst(n, rs) = f[n]
  BY LengthIs
<1>2. PICK g : Sums(g, rs, n + 1) /\ LengthOfFirst(n + 1, rs) = g[n + 1]
  <2>1. n + 1 \in Nat
    OBVIOUS
  <2> QED BY <2>1, LengthIs
<1>3. f[n] = g[n]
  <2>1. n + 1 \in Nat /\ n <= n + 1
    OBVIOUS
  <2> QED BY <1>1, <1>2, <2>1, SumsSame
<1>4. g[n + 1] = g[n] + rs[n + 1].length
  <2>1. n + 1 \in 0..(n + 1) /\ n + 1 # 0 /\ (n + 1) - 1 = n
    OBVIOUS
  <2> QED BY <1>2, <2>1 DEF Sums
<1> QED BY <1>1, <1>2, <1>3, <1>4

\* The length up to the end of the n-th.
LEMMA LengthThrough ==
  ASSUME NEW rs, NEW n \in Nat, n >= 1
  PROVE  LengthOfFirst(n, rs) = LengthOfFirst(n - 1, rs) + rs[n].length
<1>1. n - 1 \in Nat /\ (n - 1) + 1 = n
  OBVIOUS
<1>2. LengthOfFirst((n - 1) + 1, rs) = LengthOfFirst(n - 1, rs) + rs[(n - 1) + 1].length
  BY <1>1, LengthNext
<1> QED BY <1>1, <1>2

LEMMA LengthNat ==
  ASSUME NEW rs, NEW n \in Nat, HasLengths(rs, n), NEW m \in 0..n
  PROVE  LengthOfFirst(m, rs) \in Nat
<1> DEFINE S == {k \in Nat : k <= n => LengthOfFirst(k, rs) \in Nat}
<1>1. 0 \in S
  BY LengthNone
<1>2. ASSUME NEW k \in Nat, k \in S PROVE k + 1 \in S
  <2> SUFFICES ASSUME k + 1 <= n PROVE LengthOfFirst(k + 1, rs) \in Nat
    OBVIOUS
  <2>1. LengthOfFirst(k, rs) \in Nat /\ rs[k + 1].length \in Nat
    BY <1>2 DEF HasLengths
  <2> QED BY <2>1, LengthNext
<1>3. S = Nat
  <2> HIDE DEF S
  <2> QED BY <1>1, <1>2, SetInduction DEF S
<1>4. m \in S
  BY <1>3
<1> QED BY <1>4

LEMMA LengthMonotone ==
  ASSUME NEW rs, NEW n \in Nat, HasLengths(rs, n), NEW m \in 0..n, NEW k \in 0..n, m <= k
  PROVE  LengthOfFirst(m, rs) <= LengthOfFirst(k, rs)
<1> DEFINE S == {d \in Nat : m + d <= n => LengthOfFirst(m, rs) <= LengthOfFirst(m + d, rs)}
<1>0. m \in Nat /\ LengthOfFirst(m, rs) \in Nat
  BY LengthNat
<1>1. 0 \in S
  BY <1>0
<1>2. ASSUME NEW d \in Nat, d \in S PROVE d + 1 \in S
  <2> SUFFICES ASSUME m + d + 1 <= n
               PROVE  LengthOfFirst(m, rs) <= LengthOfFirst(m + (d + 1), rs)
    OBVIOUS
  <2>1. m + d \in Nat /\ m + d \in 0..n /\ m + d + 1 \in 1..n /\ m + (d + 1) = (m + d) + 1
    BY <1>0
  <2>2. LengthOfFirst(m, rs) <= LengthOfFirst(m + d, rs)
    BY <1>2, <2>1
  <2>3. LengthOfFirst(m + d, rs) \in Nat /\ rs[m + d + 1].length \in Nat
    BY <2>1, LengthNat DEF HasLengths
  <2>4. LengthOfFirst((m + d) + 1, rs) = LengthOfFirst(m + d, rs) + rs[(m + d) + 1].length
    BY <2>1, LengthNext
  <2> QED BY <1>0, <2>1, <2>2, <2>3, <2>4
<1>3. S = Nat
  <2> HIDE DEF S
  <2> QED BY <1>1, <1>2, SetInduction DEF S
<1>4. k - m \in Nat /\ m + (k - m) = k
  BY <1>0
<1>5. k - m \in S
  BY <1>3, <1>4
<1> QED BY <1>4, <1>5

LEMMA LengthSame ==
  ASSUME NEW rs, NEW ts, NEW n \in Nat, \A i \in 1..n : rs[i].length = ts[i].length
  PROVE  LengthOfFirst(n, rs) = LengthOfFirst(n, ts)
<1> DEFINE S == {k \in Nat : k <= n => LengthOfFirst(k, rs) = LengthOfFirst(k, ts)}
<1>1. 0 \in S
  BY LengthNone
<1>2. ASSUME NEW k \in Nat, k \in S PROVE k + 1 \in S
  <2> SUFFICES ASSUME k + 1 <= n PROVE LengthOfFirst(k + 1, rs) = LengthOfFirst(k + 1, ts)
    OBVIOUS
  <2>1. LengthOfFirst(k, rs) = LengthOfFirst(k, ts) /\ k + 1 \in 1..n
    BY <1>2
  <2>2. /\ LengthOfFirst(k + 1, rs) = LengthOfFirst(k, rs) + rs[k + 1].length
        /\ LengthOfFirst(k + 1, ts) = LengthOfFirst(k, ts) + ts[k + 1].length
    BY LengthNext
  <2> QED BY <2>1, <2>2
<1>3. S = Nat
  <2> HIDE DEF S
  <2> QED BY <1>1, <1>2, SetInduction DEF S
<1>4. n \in S
  BY <1>3
<1> QED BY <1>4

\* What is within the sum lies in one of the lengths, and in no other.
LEMMA LiesInOne ==
  ASSUME NEW rs, NEW n \in Nat, HasLengths(rs, n), NEW c \in Nat, c < LengthOfFirst(n, rs)
  PROVE  \E i \in 1..n : /\ LengthOfFirst(i - 1, rs) <= c
                         /\ c < LengthOfFirst(i - 1, rs) + rs[i].length
<1> DEFINE T == {k \in 0..n : c < LengthOfFirst(k, rs)}
<1>1. n \in T /\ T \in SUBSET Nat /\ T # {}
  OBVIOUS
<1> HIDE DEF T
<1>2. PICK k \in T : \A j \in T : k <= j
  BY <1>1, LeastElement
<1>3. k \in 0..n /\ c < LengthOfFirst(k, rs)
  BY <1>2 DEF T
<1>4. k # 0
  BY <1>3, LengthNone
<1>5. k - 1 \in 0..n /\ k \in 1..n /\ ~ (k <= k - 1)
  BY <1>3, <1>4
<1>6. ~ (c < LengthOfFirst(k - 1, rs))
  BY <1>2, <1>5 DEF T
<1>7. LengthOfFirst(k - 1, rs) \in Nat
  BY <1>5, LengthNat
<1>8. LengthOfFirst(k, rs) = LengthOfFirst(k - 1, rs) + rs[k].length
  BY <1>5, LengthThrough
<1> QED BY <1>3, <1>5, <1>6, <1>7, <1>8

LEMMA LiesInOnlyOne ==
  ASSUME NEW rs, NEW n \in Nat, HasLengths(rs, n), NEW c \in Int,
         NEW i \in 1..n, LengthOfFirst(i - 1, rs) <= c,
         c < LengthOfFirst(i - 1, rs) + rs[i].length,
         NEW j \in 1..n, LengthOfFirst(j - 1, rs) <= c,
         c < LengthOfFirst(j - 1, rs) + rs[j].length
  PROVE  i = j
<1>1. ASSUME NEW k \in 1..n, NEW l \in 1..n, k < l
      PROVE  LengthOfFirst(k - 1, rs) + rs[k].length <= LengthOfFirst(l - 1, rs)
  <2>1. k \in 0..n /\ l - 1 \in 0..n /\ k <= l - 1 /\ k \in Nat /\ k >= 1
    BY <1>1
  <2>2. LengthOfFirst(k, rs) <= LengthOfFirst(l - 1, rs)
    BY <2>1, LengthMonotone
  <2> QED BY <2>1, <2>2, LengthThrough
<1>2. /\ LengthOfFirst(i - 1, rs) \in Nat /\ LengthOfFirst(j - 1, rs) \in Nat
      /\ rs[i].length \in Nat /\ rs[j].length \in Nat
  <2>1. i - 1 \in 0..n /\ j - 1 \in 0..n
    OBVIOUS
  <2> QED BY <2>1, LengthNat DEF HasLengths
<1>3. ~ (i < j)
  BY <1>1, <1>2
<1>4. ~ (j < i)
  BY <1>1, <1>2
<1> QED BY <1>3, <1>4

LEMMA LengthsOfAll ==
  ASSUME NEW R, \A e \in R : e.length \in Nat, NEW rs \in Seq(R)
  PROVE  /\ Len(rs) \in Nat /\ HasLengths(rs, Len(rs))
         /\ SumOfLengths(rs) \in Nat
<1>1. Len(rs) \in Nat /\ \A i \in 1..Len(rs) : rs[i] \in R
  BY SeqFacts
<1>2. HasLengths(rs, Len(rs))
  BY <1>1 DEF HasLengths
<1>3. Len(rs) \in 0..Len(rs)
  BY <1>1
<1> QED BY <1>1, <1>2, <1>3, LengthNat DEF SumOfLengths

LEMMA LengthAppend ==
  ASSUME NEW R, NEW rs \in Seq(R), NEW e \in R
  PROVE  /\ SumOfLengths(Append(rs, e)) = SumOfLengths(rs) + e.length
         /\ \A n \in 0..Len(rs) : LengthOfFirst(n, Append(rs, e)) = LengthOfFirst(n, rs)
<1> DEFINE ts == Append(rs, e)
<1>1. /\ Len(rs) \in Nat /\ Len(ts) = Len(rs) + 1 /\ ts[Len(rs) + 1] = e
      /\ \A k \in 1..Len(rs) : ts[k] = rs[k]
  OBVIOUS
<1> HIDE DEF ts
<1>2. ASSUME NEW n \in 0..Len(rs) PROVE LengthOfFirst(n, ts) = LengthOfFirst(n, rs)
  <2>1. n \in Nat /\ \A i \in 1..n : ts[i].length = rs[i].length
    BY <1>1
  <2> QED BY <2>1, LengthSame
<1>3. Len(rs) \in 0..Len(rs)
  BY <1>1
<1>4. LengthOfFirst(Len(rs) + 1, ts) = LengthOfFirst(Len(rs), ts) + ts[Len(rs) + 1].length
  BY <1>1, LengthNext
<1> QED BY <1>1, <1>2, <1>3, <1>4 DEF SumOfLengths, ts
-----------------------------------------------------------------------------
(* FlattenSeq *)

LEMMA FlattenIs ==
  ASSUME NEW R, NEW s \in Seq(R), s # << >>
  PROVE  \E f : Flattens(f, s, Len(s)) /\ FlattenSeq(s) = f[Len(s)]
<1> DEFINE f == CHOOSE f : f = [i \in 1..Len(s) |-> IF i = 1 THEN s[i] ELSE f[i - 1] \o s[i]]
<1>1. Len(s) \in Nat /\ Len(s) # 0
  BY ListFacts
<1>2. FlattenSeq(s) = f[Len(s)]
  BY <1>1 DEF FlattenSeq
<1>3. Flattens(f, s, Len(s))
  BY <1>1, FlattensExists DEF Flattens
<1> QED BY <1>2, <1>3

LEMMA FlattenNone == FlattenSeq(<< >>) = << >>
BY DEF FlattenSeq

LEMMA FlattenAppend ==
  ASSUME NEW R, NEW s \in Seq(Seq(R)), NEW e \in Seq(R)
  PROVE  FlattenSeq(Append(s, e)) = FlattenSeq(s) \o e
<1> DEFINE t == Append(s, e)
           n == Len(s)
<1>1. /\ t \in Seq(Seq(R)) /\ t # << >> /\ n \in Nat /\ Len(t) = n + 1
      /\ \A i \in 1..n : s[i] = t[i]
      /\ t[n + 1] = e /\ n + 1 \in 1..(n + 1)
  <2> DEFINE Q == Seq(R)
  <2>1. s \in Seq(Q) /\ e \in Q
    OBVIOUS
  <2> HIDE DEF Q
  <2>2. /\ n \in Nat /\ t \in Seq(Q) /\ Len(t) = n + 1 /\ t[n + 1] = e
        /\ \A i \in 1..n : t[i] = s[i]
    BY <2>1, ListFacts
  <2>3. t # << >>
    <3> SUFFICES ASSUME t = << >> PROVE FALSE
      OBVIOUS
    <3>1. Len(<< >>) = 0
      OBVIOUS
    <3> HIDE DEF t, n
    <3> QED BY <2>2, <3>1
  <2> QED BY <2>2, <2>3 DEF Q
<1>2. PICK g : Flattens(g, t, n + 1) /\ FlattenSeq(t) = g[n + 1]
  <2> HIDE DEF t
  <2> QED BY <1>1, FlattenIs
<1> HIDE DEF t
<1>3. g[n + 1] = IF n + 1 = 1 THEN t[n + 1] ELSE g[(n + 1) - 1] \o t[n + 1]
  BY <1>1, <1>2 DEF Flattens
<1>4. CASE s = << >>
  <2>1. n = 0 /\ FlattenSeq(s) = << >>
    BY <1>1, <1>4, ListFacts, FlattenNone
  <2>2. << >> \o e = e
    OBVIOUS
  <2> QED BY <1>1, <1>2, <1>3, <2>1, <2>2 DEF t
<1>5. CASE s # << >>
  <2>1. PICK f : Flattens(f, s, n) /\ FlattenSeq(s) = f[n]
    BY <1>5, FlattenIs
  <2>2. n # 0
    BY <1>5, ListFacts
  <2>3. f[n] = g[n]
    <3>1. n \in 1..n /\ n + 1 \in Nat /\ n <= n + 1
      BY <1>1, <2>2
    <3> HIDE DEF n
    <3>2. \A i \in 1..n : f[i] = g[i]
      BY <1>1, <1>2, <2>1, <3>1, FlattensSame
    <3> QED BY <3>1, <3>2
  <2>4. (n + 1) - 1 = n /\ n + 1 # 1
    BY <1>1, <2>2
  <2> QED BY <1>1, <1>2, <1>3, <2>1, <2>3, <2>4 DEF t
<1> QED BY <1>4, <1>5

LEMMA FlattenNext ==
  ASSUME NEW R, NEW n \in Nat, NEW g, \A k \in 1..(n + 1) : g[k] \in Seq(R)
  PROVE  /\ [k \in 1..n |-> g[k]] \in Seq(Seq(R))
         /\ FlattenSeq([k \in 1..(n + 1) |-> g[k]])
              = FlattenSeq([k \in 1..n |-> g[k]]) \o g[n + 1]
<1> DEFINE Q == Seq(R)
           s == [k \in 1..n |-> g[k]]
           t == [k \in 1..(n + 1) |-> g[k]]
           u == Append(s, g[n + 1])
<1>1. /\ g[n + 1] \in Q /\ \A k \in 1..n : g[k] \in Q
      /\ \A k \in 1..(n + 1) : g[k] \in Q /\ (k \in 1..n \/ k = n + 1)
  BY DEF Q
<1> HIDE DEF Q
<1>2. /\ s \in Seq(Q) /\ Len(s) = n /\ t \in Seq(Q) /\ Len(t) = n + 1
      /\ \A k \in 1..n : s[k] = g[k]
      /\ \A k \in 1..(n + 1) : t[k] = g[k]
  BY <1>1
<1> HIDE DEF s, t
<1>3. /\ u \in Seq(Q) /\ Len(u) = n + 1 /\ u[n + 1] = g[n + 1]
      /\ \A k \in 1..n : u[k] = g[k]
  BY <1>1, <1>2, ListFacts
<1> HIDE DEF u
<1>4. t = u
  BY <1>1, <1>2, <1>3, SameSeq
<1>5. FlattenSeq(u) = FlattenSeq(s) \o g[n + 1]
  BY <1>1, <1>2, FlattenAppend DEF u, Q
<1> QED BY <1>2, <1>4, <1>5 DEF Q, s, t

-----------------------------------------------------------------------------
(* Ranges end to end *)

RangeSet == [offset : Int, length : Nat, sparse : BOOLEAN]

\* Ranges of Q, end to end from a to b.
Chain(rs, Q, a, b) ==
  /\ rs \in Seq(Q)
  /\ IF Len(rs) = 0 THEN a = b ELSE rs[1].offset = a /\ End(rs[Len(rs)]) = b
  /\ \A i \in 1..Len(rs) : i > 1 => rs[i].offset = End(rs[i - 1])

LEMMA ChainNone ==
  ASSUME NEW Q, NEW a
  PROVE  Chain(<< >>, Q, a, a)
BY DEF Chain

LEMMA ChainOne ==
  ASSUME NEW Q, NEW q \in Q
  PROVE  Chain(<<q>>, Q, q.offset, End(q))
BY DEF Chain

LEMMA ChainConcat ==
  ASSUME NEW Q, NEW s, NEW t, NEW a, NEW b, NEW c,
         Chain(s, Q, a, b), Chain(t, Q, b, c)
  PROVE  Chain(s \o t, Q, a, c)
<1> DEFINE r == s \o t
           m == Len(s)
           n == Len(t)
<1>1. /\ s \in Seq(Q) /\ t \in Seq(Q) /\ m \in Nat /\ n \in Nat
      /\ r \in Seq(Q) /\ Len(r) = m + n
      /\ \A k \in 1..m : r[k] = s[k]
      /\ \A k \in 1..n : r[m + k] = t[k]
  BY ConcatFacts, SeqFacts DEF Chain
<1>2. /\ IF m = 0 THEN a = b ELSE s[1].offset = a /\ End(s[m]) = b
      /\ \A i \in 1..m : i > 1 => s[i].offset = End(s[i - 1])
      /\ IF n = 0 THEN b = c ELSE t[1].offset = b /\ End(t[n]) = c
      /\ \A i \in 1..n : i > 1 => t[i].offset = End(t[i - 1])
  BY DEF Chain
<1> HIDE DEF r, m, n
<1>3. IF Len(r) = 0 THEN a = c ELSE r[1].offset = a /\ End(r[Len(r)]) = c
  <2>1. CASE n = 0
    <3>1. m # 0 => r[1] = s[1] /\ r[m] = s[m]
      BY <1>1
    <3> QED BY <1>1, <1>2, <2>1, <3>1
  <2>2. CASE n # 0
    <3>1. r[m + n] = t[n] /\ r[m + 1] = t[1]
      BY <1>1, <2>2
    <3>2. m # 0 => r[1] = s[1]
      BY <1>1
    <3> QED BY <1>1, <1>2, <2>2, <3>1, <3>2
  <2> QED BY <2>1, <2>2
<1>4. ASSUME NEW i \in 1..Len(r), i > 1 PROVE r[i].offset = End(r[i - 1])
  <2>1. CASE i <= m
    <3>1. i \in 1..m /\ i - 1 \in 1..m
      BY <1>1, <1>4, <2>1
    <3> QED BY <1>1, <1>2, <1>4, <3>1
  <2>2. CASE i = m + 1
    <3>1. n # 0 /\ m # 0 /\ i - 1 = m
      BY <1>1, <1>4, <2>2
    <3>2. r[m + 1] = t[1] /\ r[m] = s[m]
      BY <1>1, <3>1
    <3> QED BY <1>2, <2>2, <3>1, <3>2
  <2>3. CASE i > m + 1
    <3>1. /\ i - m \in 1..n /\ (i - m) - 1 \in 1..n /\ i - m > 1
          /\ m + (i - m) = i /\ m + ((i - m) - 1) = i - 1
      BY <1>1, <1>4, <2>3
    <3>2. r[i] = t[i - m] /\ r[i - 1] = t[(i - m) - 1]
      BY <1>1, <3>1
    <3> QED BY <1>2, <3>1, <3>2
  <2> QED BY <1>1, <2>1, <2>2, <2>3
<1> QED BY <1>1, <1>3, <1>4 DEF Chain, r

LEMMA ChainWider ==
  ASSUME NEW Q, NEW T, Q \subseteq T, NEW s, NEW a, NEW b, Chain(s, Q, a, b)
  PROVE  Chain(s, T, a, b)
<1>1. s \in Seq(T)
  BY DEF Chain
<1> QED BY <1>1 DEF Chain
-----------------------------------------------------------------------------
(* The ranges of one reader *)

\* A range of a reader that is not sparse lies in the reader, which is not.
Within(r) ==
  {q \in RangeSet :
     q.sparse \/ /\ r.kind # "sparse"
                 /\ r.fileOffset * ClusterSize <= q.offset
                 /\ End(q) <= (r.fileOffset + r.length) * ClusterSize}

LEMMA RangeFacts ==
  ASSUME NEW offset, NEW length, NEW sparse
  PROVE  /\ RangeOf(offset, length, sparse).offset = offset
         /\ RangeOf(offset, length, sparse).length = length
         /\ RangeOf(offset, length, sparse).sparse = sparse
         /\ End(RangeOf(offset, length, sparse)) = offset + length
BY DEF RangeOf, End

LEMMA RangeType ==
  ASSUME NEW offset \in Int, NEW length \in Nat, NEW sparse \in BOOLEAN
  PROVE  RangeOf(offset, length, sparse) \in RangeSet
BY DEF RangeOf, RangeSet

\* A range of some clusters of a file.
LEMMA ClusterRange ==
  ASSUME NEW r \in ReaderSet, NEW a \in Nat, NEW n \in Nat, NEW sparse \in BOOLEAN,
         sparse \/ r.kind # "sparse", a + n <= r.length
  PROVE  LET q == RangeOf((r.fileOffset + a) * ClusterSize, n * ClusterSize, sparse)
         IN /\ q \in Within(r)
            /\ q.offset = (r.fileOffset + a) * ClusterSize
            /\ End(q) = (r.fileOffset + (a + n)) * ClusterSize
<1> DEFINE f == r.fileOffset
           q == RangeOf((f + a) * ClusterSize, n * ClusterSize, sparse)
<1>1. f \in Nat /\ r.length \in Nat /\ ClusterSize \in Nat
  BY SizesAssumption DEF ReaderSet
<1> HIDE DEF f
<1>2. /\ (f + a) * ClusterSize \in Nat /\ n * ClusterSize \in Nat
      /\ (f + a) * ClusterSize + n * ClusterSize = (f + (a + n)) * ClusterSize
  BY <1>1
<1>3. /\ q.offset = (f + a) * ClusterSize /\ q.sparse = sparse
      /\ End(q) = (f + (a + n)) * ClusterSize
  BY <1>2, RangeFacts
<1>4. q \in RangeSet
  BY <1>2, RangeType
<1>5. f * ClusterSize <= (f + a) * ClusterSize
  BY <1>1, TimesMonotone
<1>6. (f + (a + n)) * ClusterSize <= (f + r.length) * ClusterSize
  <2>1. f + (a + n) \in Int /\ f + r.length \in Int /\ f + (a + n) <= f + r.length
    BY <1>1
  <2> QED BY <1>1, <2>1, TimesMonotone
<1> HIDE DEF q
<1>7. q \in Within(r)
  BY <1>3, <1>4, <1>5, <1>6 DEF Within, f
<1> QED BY <1>3, <1>7 DEF q, f

LEMMA PartsChain ==
  ASSUME NEW r \in ReaderSet, r.kind # "sparse", SumOfLengths(r.parts) <= r.length
  PROVE  Chain(RangesOfParts(r), Within(r), r.fileOffset * ClusterSize,
               (r.fileOffset + SumOfLengths(r.parts)) * ClusterSize)
<1> DEFINE f == r.fileOffset
           p == r.parts
           n == Len(p)
           W == Within(r)
           g == [i \in DOMAIN p |->
                   IF p[i].length = 0 THEN << >>
                   ELSE <<RangeOf((f + LengthOfFirst(i - 1, p)) * ClusterSize,
                                  p[i].length * ClusterSize, FALSE)>>]
<1>1. /\ f \in Nat /\ r.length \in Nat /\ p \in Seq(PartSet) /\ n \in Nat
      /\ DOMAIN p = 1..n /\ ClusterSize \in Nat
  BY SizesAssumption DEF ReaderSet
<1>2. HasLengths(p, n)
  <2>1. \A e \in PartSet : e.length \in Nat
    BY DEF PartSet
  <2> QED BY <1>1, <2>1, LengthsOfAll
<1> HIDE DEF f, p, n, W
<1>3. LengthOfFirst(n, p) <= r.length
  BY DEF SumOfLengths, p, n
<1>4. ASSUME NEW i \in 1..n
      PROVE  /\ g[i] \in Seq(W)
             /\ Chain(g[i], W, (f + LengthOfFirst(i - 1, p)) * ClusterSize,
                      (f + LengthOfFirst(i, p)) * ClusterSize)
  <2> DEFINE a == LengthOfFirst(i - 1, p)
             l == p[i].length
             q == RangeOf((f + a) * ClusterSize, l * ClusterSize, FALSE)
  <2>1. i \in Nat /\ i >= 1 /\ i - 1 \in 0..n /\ i \in 0..n /\ n \in 0..n /\ i <= n
    BY <1>1
  <2>2. a \in Nat /\ l \in Nat /\ LengthOfFirst(i, p) = a + l /\ a + l <= r.length
    <3>1. a \in Nat /\ LengthOfFirst(n, p) \in Nat
      BY <1>1, <1>2, <2>1, LengthNat
    <3>2. LengthOfFirst(i, p) = a + l
      BY <2>1, LengthThrough
    <3>3. LengthOfFirst(i, p) <= LengthOfFirst(n, p)
      BY <1>1, <1>2, <2>1, LengthMonotone
    <3>4. l \in Nat
      BY <1>2 DEF HasLengths
    <3> QED BY <1>1, <1>3, <3>1, <3>2, <3>3, <3>4
  <2>3. g[i] = IF l = 0 THEN << >> ELSE <<q>>
    BY <1>1
  <2> HIDE DEF a, l, q, g
  <2>4. q \in W /\ q.offset = (f + a) * ClusterSize /\ End(q) = (f + (a + l)) * ClusterSize
    <3>1. FALSE \in BOOLEAN
      OBVIOUS
    <3> QED BY <2>2, <3>1, ClusterRange DEF q, f, W
  <2>5. Chain(g[i], W, (f + a) * ClusterSize, (f + (a + l)) * ClusterSize)
    <3>1. CASE l = 0
      <4>1. (f + (a + l)) * ClusterSize = (f + a) * ClusterSize
        BY <2>2, <3>1
      <4> QED BY <2>3, <3>1, <4>1, ChainNone
    <3>2. CASE l # 0
      BY <2>3, <2>4, <3>2, ChainOne
    <3> QED BY <3>1, <3>2
  <2> QED BY <2>2, <2>5 DEF a, Chain
<1> DEFINE S == {m \in Nat : m <= n =>
                   Chain(FlattenSeq([k \in 1..m |-> g[k]]), W, f * ClusterSize,
                         (f + LengthOfFirst(m, p)) * ClusterSize)}
<1>5. 0 \in S
  <2>1. [k \in 1..0 |-> g[k]] = << >>
    OBVIOUS
  <2>2. (f + LengthOfFirst(0, p)) * ClusterSize = f * ClusterSize
    BY <1>1, LengthNone
  <2> HIDE DEF g
  <2> QED BY <2>1, <2>2, FlattenNone, ChainNone
<1> HIDE DEF g
<1>6. ASSUME NEW m \in Nat, m \in S PROVE m + 1 \in S
  <2> SUFFICES ASSUME m + 1 <= n
               PROVE  Chain(FlattenSeq([k \in 1..(m + 1) |-> g[k]]), W, f * ClusterSize,
                            (f + LengthOfFirst(m + 1, p)) * ClusterSize)
    OBVIOUS
  <2>1. /\ m + 1 \in 1..n /\ (m + 1) - 1 = m
        /\ \A k \in 1..(m + 1) : k \in 1..n
    BY <1>1
  <2>2. FlattenSeq([k \in 1..(m + 1) |-> g[k]])
          = FlattenSeq([k \in 1..m |-> g[k]]) \o g[m + 1]
    <3>1. \A k \in 1..(m + 1) : g[k] \in Seq(W)
      BY <1>4, <2>1
    <3> QED BY <3>1, FlattenNext
  <2>3. Chain(FlattenSeq([k \in 1..m |-> g[k]]), W, f * ClusterSize,
              (f + LengthOfFirst(m, p)) * ClusterSize)
    BY <1>1, <1>6
  <2>4. Chain(g[m + 1], W, (f + LengthOfFirst((m + 1) - 1, p)) * ClusterSize,
              (f + LengthOfFirst(m + 1, p)) * ClusterSize)
    BY <1>4, <2>1
  <2> HIDE DEF S
  <2> QED BY <2>1, <2>2, <2>3, <2>4, ChainConcat
<1>7. n \in S
  <2> HIDE DEF S
  <2> QED BY <1>1, <1>5, <1>6, SetInduction DEF S
<1>8. RangesOfParts(r) = FlattenSeq([k \in 1..n |-> g[k]])
  <2>1. [k \in 1..n |-> g[k]] = g
    BY <1>1 DEF g
  <2>2. RangesOfParts(r) = FlattenSeq(g)
    BY DEF RangesOfParts, g, f, p
  <2> QED BY <2>1, <2>2
<1>9. SumOfLengths(r.parts) = LengthOfFirst(n, p)
  BY DEF SumOfLengths, n, p
<1>10. Chain(FlattenSeq([k \in 1..n |-> g[k]]), W, f * ClusterSize,
             (f + LengthOfFirst(n, p)) * ClusterSize)
  BY <1>1, <1>7
<1> QED BY <1>8, <1>9, <1>10 DEF f, W

\* The ranges of a reader are its bytes.
LEMMA ReaderChain ==
  ASSUME NEW r \in ReaderSet, ReaderShape(r)
  PROVE  Chain(RangesOfReader(r), Within(r), r.fileOffset * ClusterSize,
               (r.fileOffset + r.length) * ClusterSize)
<1> DEFINE W == Within(r)
           total == SumOfLengths(r.parts)
<1>1. r.fileOffset \in Nat /\ r.length \in Nat /\ r.parts \in Seq(PartSet)
  BY DEF ReaderSet
<1>2. CASE Len(r.parts) = 1
  <2> DEFINE sparse == r.kind = "sparse"
             q == RangeOf((r.fileOffset + 0) * ClusterSize, r.length * ClusterSize, sparse)
  <2>1. /\ q \in W /\ q.offset = (r.fileOffset + 0) * ClusterSize
        /\ End(q) = (r.fileOffset + (0 + r.length)) * ClusterSize
    <3>1. /\ 0 \in Nat /\ r.length \in Nat /\ sparse \in BOOLEAN /\ 0 + r.length <= r.length
          /\ sparse \/ r.kind # "sparse"
      BY <1>1
    <3> HIDE DEF sparse
    <3> QED BY <3>1, ClusterRange
  <2>2. r.fileOffset + 0 = r.fileOffset /\ 0 + r.length = r.length
    BY <1>1
  <2>3. RangesOfReader(r) = <<q>>
    BY <1>2, <2>2 DEF RangesOfReader
  <2> HIDE DEF q
  <2> QED BY <2>1, <2>2, <2>3, ChainOne
<1>3. CASE Len(r.parts) # 1
  <2> DEFINE unused == r.length - total
             q == RangeOf((r.fileOffset + total) * ClusterSize, unused * ClusterSize, TRUE)
             rest == IF unused > 0 THEN <<q>> ELSE << >>
  <2>1. total <= r.length /\ r.kind # "sparse"
    BY <1>3 DEF ReaderShape
  <2>2. total \in Nat
    <3>1. \A e \in PartSet : e.length \in Nat
      BY DEF PartSet
    <3> QED BY <1>1, <3>1, LengthsOfAll
  <2>3. Chain(RangesOfParts(r), W, r.fileOffset * ClusterSize,
              (r.fileOffset + total) * ClusterSize)
    BY <2>1, PartsChain
  <2>4. RangesOfReader(r) = RangesOfParts(r) \o rest
    BY <1>3 DEF RangesOfReader
  <2> HIDE DEF total, W
  <2>5. unused \in Nat /\ total + unused = r.length
    BY <1>1, <2>1, <2>2
  <2> HIDE DEF unused
  <2>6. /\ q \in W /\ q.offset = (r.fileOffset + total) * ClusterSize
        /\ End(q) = (r.fileOffset + (total + unused)) * ClusterSize
    <3>1. TRUE \in BOOLEAN /\ total + unused <= r.length
      BY <1>1, <2>5
    <3> QED BY <2>2, <2>5, <3>1, ClusterRange DEF W
  <2> HIDE DEF q
  <2>7. Chain(rest, W, (r.fileOffset + total) * ClusterSize,
              (r.fileOffset + r.length) * ClusterSize)
    <3>1. CASE unused > 0
      BY <2>5, <2>6, <3>1, ChainOne
    <3>2. CASE ~ (unused > 0)
      <4>1. total = r.length
        BY <2>2, <2>5, <3>2
      <4> QED BY <3>2, <4>1, ChainNone
    <3> QED BY <3>1, <3>2
  <2> HIDE DEF rest
  <2> QED BY <2>3, <2>4, <2>7, ChainConcat DEF W
<1> QED BY <1>2, <1>3
-----------------------------------------------------------------------------
(* The runs that are real *)

\* Of the first n runs.
LEMMA RealFacts ==
  ASSUME NEW rs \in Seq(Runs)
  PROVE  /\ RealOf(rs) \in Seq(Runs)
         /\ Len(RealOf(rs)) <= Len(rs)
         /\ SumOfLengths(RealOf(rs)) <= SumOfLengths(rs)
<1> DEFINE n == Len(rs)
           g == [i \in DOMAIN rs |-> IF IsHole(rs[i]) THEN << >> ELSE <<rs[i]>>]
           F(m) == FlattenSeq([k \in 1..m |-> g[k]])
           S == {m \in Nat : m <= n => /\ F(m) \in Seq(Runs)
                                       /\ Len(F(m)) <= m
                                       /\ SumOfLengths(F(m)) <= LengthOfFirst(m, rs)}
<1>1. /\ n \in Nat /\ DOMAIN rs = 1..n /\ \A i \in 1..n : rs[i] \in Runs
  BY SeqFacts
<1>2. \A e \in Runs : e.length \in Nat
  BY DEF Runs
<1>3. HasLengths(rs, n)
  BY <1>2, LengthsOfAll
<1>4. \A i \in 1..n : g[i] = IF IsHole(rs[i]) THEN << >> ELSE <<rs[i]>>
  BY <1>1
<1>5. \A i \in 1..n : g[i] \in Seq(Runs)
  <2> TAKE i \in 1..n
  <2> HIDE DEF g, n
  <2>1. rs[i] \in Runs /\ g[i] = IF IsHole(rs[i]) THEN << >> ELSE <<rs[i]>>
    BY <1>1, <1>4
  <2>2. << >> \in Seq(Runs) /\ <<rs[i]>> \in Seq(Runs)
    BY <2>1
  <2> QED BY <2>1, <2>2
<1>6. RealOf(rs) = F(n)
  <2>1. [k \in 1..n |-> g[k]] = g
    BY <1>1
  <2>2. RealOf(rs) = FlattenSeq(g)
    BY DEF RealOf
  <2> HIDE DEF g
  <2> QED BY <2>1, <2>2
<1>7. 0 \in S
  <2>1. [k \in 1..0 |-> g[k]] = << >>
    OBVIOUS
  <2>2. << >> \in Seq(Runs) /\ Len(<< >>) = 0
    OBVIOUS
  <2> HIDE DEF g
  <2>3. F(0) = << >>
    BY <2>1, FlattenNone
  <2> HIDE DEF F
  <2>4. SumOfLengths(F(0)) = 0 /\ LengthOfFirst(0, rs) = 0
    BY <2>2, <2>3, LengthNone DEF SumOfLengths
  <2>5. F(0) \in Seq(Runs) /\ Len(F(0)) <= 0 /\ SumOfLengths(F(0)) <= LengthOfFirst(0, rs)
    <3>1. 0 <= 0
      OBVIOUS
    <3> QED BY <2>2, <2>3, <2>4, <3>1
  <2> HIDE DEF n
  <2> QED BY <2>5
<1> HIDE DEF n, g
<1>8. ASSUME NEW m \in Nat, m \in S PROVE m + 1 \in S
  <2> SUFFICES ASSUME m + 1 <= n
               PROVE  /\ F(m + 1) \in Seq(Runs)
                      /\ Len(F(m + 1)) <= m + 1
                      /\ SumOfLengths(F(m + 1)) <= LengthOfFirst(m + 1, rs)
    OBVIOUS
  <2>1. /\ m + 1 \in 1..n /\ m \in 0..n /\ m + 1 \in Nat
        /\ \A k \in 1..(m + 1) : k \in 1..n
    BY <1>1
  <2>2. F(m + 1) = F(m) \o g[m + 1]
    <3>1. \A k \in 1..(m + 1) : g[k] \in Seq(Runs)
      BY <1>5, <2>1
    <3> QED BY <3>1, FlattenNext
  <2>3. /\ F(m) \in Seq(Runs) /\ Len(F(m)) <= m
        /\ SumOfLengths(F(m)) <= LengthOfFirst(m, rs)
    BY <1>1, <1>8
  <2> HIDE DEF F
  <2>4. LengthOfFirst(m, rs) \in Nat /\ SumOfLengths(F(m)) \in Nat /\ Len(F(m)) \in Nat
    BY <1>1, <1>2, <1>3, <2>1, <2>3, LengthNat, LengthsOfAll
  <2>5. LengthOfFirst(m + 1, rs) = LengthOfFirst(m, rs) + rs[m + 1].length
    BY LengthNext
  <2>6. rs[m + 1] \in Runs /\ rs[m + 1].length \in Nat
    BY <1>1, <1>2, <2>1
  <2>7. CASE IsHole(rs[m + 1])
    <3>1. F(m + 1) = F(m)
      <4>1. g[m + 1] = << >>
        BY <1>4, <2>1, <2>7
      <4> QED BY <2>2, <2>3, <4>1
    <3> QED BY <2>3, <2>4, <2>5, <2>6, <3>1
  <2>8. CASE ~ IsHole(rs[m + 1])
    <3>1. F(m + 1) = Append(F(m), rs[m + 1])
      <4>1. g[m + 1] = <<rs[m + 1]>>
        BY <1>4, <2>1, <2>8
      <4> QED BY <2>2, <2>3, <2>6, <4>1
    <3>2. /\ F(m + 1) \in Seq(Runs) /\ Len(F(m + 1)) = Len(F(m)) + 1
          /\ SumOfLengths(F(m + 1)) = SumOfLengths(F(m)) + rs[m + 1].length
      <4> DEFINE f == F(m)
                 e == rs[m + 1]
      <4>1. f \in Seq(Runs) /\ e \in Runs
        BY <2>3, <2>6
      <4> HIDE DEF f, e
      <4>2. SumOfLengths(Append(f, e)) = SumOfLengths(f) + e.length
        BY <4>1, LengthAppend
      <4>3. Append(f, e) \in Seq(Runs) /\ Len(Append(f, e)) = Len(f) + 1
        BY <4>1, AppendFacts
      <4> QED BY <3>1, <4>2, <4>3 DEF f, e
    <3> QED BY <2>3, <2>4, <2>5, <2>6, <3>2
  <2> QED BY <2>7, <2>8
<1>9. n \in S
  <2> HIDE DEF S
  <2> QED BY <1>1, <1>7, <1>8, SetInduction DEF S
<1> QED BY <1>1, <1>6, <1>9 DEF SumOfLengths, n

LEMMA PartsFacts ==
  ASSUME NEW rs \in Seq(Runs)
  PROVE  /\ Parts(rs) \in Seq(PartSet) /\ Len(Parts(rs)) = Len(rs)
         /\ \A i \in 1..Len(rs) : /\ Parts(rs)[i].offset = rs[i].offset
                                  /\ Parts(rs)[i].length = rs[i].length
         /\ SumOfLengths(Parts(rs)) = SumOfLengths(rs)
         /\ \A n \in 0..Len(rs) : LengthOfFirst(n, Parts(rs)) = LengthOfFirst(n, rs)
<1> DEFINE n == Len(rs)
           p == Parts(rs)
<1>1. /\ n \in Nat /\ DOMAIN rs = 1..n
      /\ \A i \in 1..n : rs[i] \in Runs /\ rs[i].offset \in Int /\ rs[i].length \in Nat
  <2>1. n \in Nat /\ DOMAIN rs = 1..n /\ \A i \in 1..n : rs[i] \in Runs
    BY SeqFacts
  <2>2. \A e \in Runs : e.offset \in Int /\ e.length \in Nat
    BY DEF Runs
  <2> QED BY <2>1, <2>2
<1>2. p = [i \in 1..n |-> [offset |-> rs[i].offset, length |-> rs[i].length]]
  BY <1>1 DEF Parts
<1> HIDE DEF n, p
<1>3. \A i \in 1..n : /\ p[i] = [offset |-> rs[i].offset, length |-> rs[i].length]
                      /\ p[i] \in PartSet
                      /\ p[i].offset = rs[i].offset /\ p[i].length = rs[i].length
  <2> SUFFICES ASSUME NEW i \in 1..n
               PROVE  /\ p[i] = [offset |-> rs[i].offset, length |-> rs[i].length]
                      /\ p[i] \in PartSet
                      /\ p[i].offset = rs[i].offset /\ p[i].length = rs[i].length
    OBVIOUS
  <2>1. PICK o, l : o = rs[i].offset /\ l = rs[i].length
    OBVIOUS
  <2>2. p[i] = [offset |-> o, length |-> l]
    BY <1>2, <2>1
  <2>3. o \in Int /\ l \in Nat
    BY <1>1, <2>1
  <2>4. p[i] \in PartSet
    BY <2>2, <2>3 DEF PartSet
  <2>5. p[i].offset = o /\ p[i].length = l
    BY <2>2
  <2> QED BY <2>1, <2>2, <2>4, <2>5
<1>4. p \in Seq(PartSet) /\ Len(p) = n
  BY <1>1, <1>2, <1>3, IsSeq
<1>5. \A i \in 1..n : p[i].length = rs[i].length
  BY <1>3
<1>6. ASSUME NEW m \in 0..n PROVE LengthOfFirst(m, p) = LengthOfFirst(m, rs)
  <2>1. m \in Nat /\ \A i \in 1..m : p[i].length = rs[i].length
    BY <1>1, <1>5
  <2> QED BY <2>1, LengthSame
<1>7. n \in 0..n
  BY <1>1
<1> QED BY <1>3, <1>4, <1>6, <1>7 DEF SumOfLengths, n, p

LEMMA OneSeq ==
  ASSUME NEW R, NEW x \in R
  PROVE  <<x>> \in Seq(R)
OBVIOUS

\* The elements of sequences of at most one, of which the first m have one.
LEMMA FlattenTo ==
  ASSUME NEW R, NEW e \in Seq(R), NEW n \in Nat, Len(e) <= n, NEW g,
         g = [k \in 1..n |-> g[k]],
         \A k \in 1..n : g[k] = IF k <= Len(e) THEN <<e[k]>> ELSE << >>
  PROVE  FlattenSeq(g) = e
<1> DEFINE m == Len(e)
           F(j) == FlattenSeq([k \in 1..j |-> g[k]])
           E(j) == [k \in 1..j |-> e[k]]
           least(j) == IF j <= m THEN j ELSE m
           S == {j \in Nat : j <= n => F(j) = E(least(j))}
<1>0. /\ m \in Nat /\ m <= n /\ m \in 0..n
      /\ e = [k \in 1..m |-> e[k]]
      /\ \A k \in 1..m : e[k] \in R
      /\ \A k \in 1..n : g[k] = IF k <= m THEN <<e[k]>> ELSE << >>
  BY SeqFacts
<1> HIDE DEF m
<1>1. \A k \in 1..n : g[k] \in Seq(R)
  <2> TAKE k \in 1..n
  <2>1. CASE k <= m
    <3>1. k \in 1..m
      BY <1>0, <2>1
    <3>2. e[k] \in R
      BY <1>0, <3>1
    <3>3. g[k] = <<e[k]>>
      BY <1>0, <2>1
    <3> DEFINE x == e[k]
    <3> HIDE DEF x
    <3>4. x \in R /\ g[k] = <<x>>
      BY <3>2, <3>3 DEF x
    <3> QED BY <3>4, OneSeq
  <2>2. CASE ~ (k <= m)
    <3>1. g[k] = << >>
      BY <1>0, <2>2
    <3> QED BY <3>1
  <2> QED BY <2>1, <2>2
<1>2. ASSUME NEW j \in 0..m PROVE E(j) \in Seq(R) /\ Len(E(j)) = j
  <2>1. j \in Nat /\ \A k \in 1..j : e[k] \in R
    BY <1>0
  <2> QED BY <2>1
<1>3. 0 \in S
  <2>1. [k \in 1..0 |-> g[k]] = << >> /\ [k \in 1..0 |-> e[k]] = << >>
    OBVIOUS
  <2>2. F(0) = << >> /\ E(0) = << >>
    BY <2>1, FlattenNone
  <2>3. least(0) = 0
    BY <1>0
  <2> HIDE DEF F, E, least
  <2> QED BY <2>2, <2>3
<1>4. ASSUME NEW j \in Nat, j \in S PROVE j + 1 \in S
  <2> SUFFICES ASSUME j + 1 <= n PROVE F(j + 1) = E(least(j + 1))
    OBVIOUS
  <2>1. /\ j + 1 \in 1..n /\ \A k \in 1..(j + 1) : k \in 1..n
    OBVIOUS
  <2>2. F(j + 1) = F(j) \o g[j + 1]
    <3>1. \A k \in 1..(j + 1) : g[k] \in Seq(R)
      BY <1>1, <2>1
    <3> QED BY <3>1, FlattenNext
  <2>3. F(j) = E(least(j))
    BY <1>4
  <2> HIDE DEF F
  <2>4. CASE j + 1 <= m
    <3>1. least(j) = j /\ least(j + 1) = j + 1 /\ j \in 0..m /\ j + 1 \in 0..m
      BY <1>0, <2>4
    <3>2. g[j + 1] = <<e[j + 1]>> /\ e[j + 1] \in R
      <4>1. j + 1 \in 1..m
        BY <1>0, <2>4
      <4>2. e[j + 1] \in R
        BY <1>0, <4>1
      <4>3. g[j + 1] = <<e[j + 1]>>
        BY <1>0, <2>1, <2>4
      <4> QED BY <4>2, <4>3
    <3>3. E(j) \in Seq(R) /\ Len(E(j)) = j /\ E(j + 1) \in Seq(R) /\ Len(E(j + 1)) = j + 1
      BY <1>2, <3>1
    <3>4. /\ \A k \in 1..j : E(j)[k] = e[k]
          /\ \A k \in 1..(j + 1) : E(j + 1)[k] = e[k]
      OBVIOUS
    <3> HIDE DEF E
    <3> DEFINE t == Append(E(j), e[j + 1])
    <3>5. /\ t \in Seq(R) /\ Len(t) = j + 1 /\ t[j + 1] = e[j + 1]
          /\ \A k \in 1..j : t[k] = e[k]
      BY <3>2, <3>3, <3>4, AppendFacts
    <3>6. E(j) \o <<e[j + 1]>> = t
      BY <3>2, <3>3
    <3> HIDE DEF t
    <3>7. t = E(j + 1)
      BY <3>3, <3>4, <3>5, SameSeq
    <3> QED BY <2>2, <2>3, <3>1, <3>2, <3>6, <3>7
  <2>5. CASE ~ (j + 1 <= m)
    <3>1. least(j) = m /\ least(j + 1) = m /\ m \in 0..m
      BY <1>0, <2>5
    <3>2. g[j + 1] = << >>
      BY <1>0, <2>1, <2>5
    <3>3. E(m) \in Seq(R)
      BY <1>2, <3>1
    <3> HIDE DEF E
    <3>4. E(m) \o << >> = E(m)
      BY <3>3
    <3> QED BY <2>2, <2>3, <3>1, <3>2, <3>4
  <2> QED BY <2>4, <2>5
<1>5. n \in S
  <2> HIDE DEF S
  <2> QED BY <1>3, <1>4, SetInduction DEF S
<1>6. least(n) = m /\ m \in 0..m
  BY <1>0
<1>7. F(n) = E(m)
  <2>1. F(n) = E(least(n))
    BY <1>5
  <2> HIDE DEF F, E, least
  <2> QED BY <1>6, <2>1
<1> QED BY <1>0, <1>7
-----------------------------------------------------------------------------
(* The clusters of some parts *)

LEMMA ClustersFacts ==
  ASSUME NEW p \in Seq(PartSet)
  PROVE  /\ ClustersOf(p) \in Seq(Int) /\ Len(ClustersOf(p)) = SumOfLengths(p)
         /\ \A i \in 1..Len(p), c \in Nat :
              LengthOfFirst(i - 1, p) <= c /\ c < LengthOfFirst(i - 1, p) + p[i].length =>
                ClustersOf(p)[c + 1] = p[i].offset + (c - LengthOfFirst(i - 1, p))
<1> DEFINE n == Len(p)
           Of(i) == [j \in 1..p[i].length |-> p[i].offset + j - 1]
           g == [i \in DOMAIN p |-> Of(i)]
           F(m) == FlattenSeq([k \in 1..m |-> g[k]])
           L(m) == LengthOfFirst(m, p)
           Right(m) == \A i \in 1..m, c \in Nat : L(i - 1) <= c /\ c < L(i - 1) + p[i].length =>
                         F(m)[c + 1] = p[i].offset + (c - L(i - 1))
           S == {m \in Nat : m <= n => F(m) \in Seq(Int) /\ Len(F(m)) = L(m) /\ Right(m)}
<1>1. n \in Nat /\ DOMAIN p = 1..n /\ \A i \in 1..n : p[i] \in PartSet
  BY SeqFacts
<1>2. \A e \in PartSet : e.offset \in Int /\ e.length \in Nat
  BY DEF PartSet
<1>3. HasLengths(p, n)
  BY <1>2, LengthsOfAll
<1>4. ASSUME NEW i \in 1..n
      PROVE  /\ Of(i) \in Seq(Int) /\ Len(Of(i)) = p[i].length
             /\ \A j \in 1..p[i].length : Of(i)[j] = p[i].offset + j - 1
  <2> DEFINE o == p[i].offset
             l == p[i].length
  <2>1. o \in Int /\ l \in Nat
    BY <1>1, <1>2
  <2>2. Of(i) = [j \in 1..l |-> o + j - 1]
    OBVIOUS
  <2> HIDE DEF o, l, Of
  <2>3. \A j \in 1..l : Of(i)[j] = o + j - 1 /\ Of(i)[j] \in Int
    BY <2>1, <2>2
  <2>4. Of(i) = [j \in 1..l |-> Of(i)[j]]
    BY <2>2, <2>3
  <2>5. Of(i) \in Seq(Int) /\ Len(Of(i)) = l
    BY <2>1, <2>3, <2>4, IsSeq
  <2> QED BY <2>3, <2>5 DEF o, l
<1>5. \A i \in 1..n : g[i] = Of(i)
  BY <1>1
<1>6. ClustersOf(p) = F(n)
  <2>1. [k \in 1..n |-> g[k]] = g
    BY <1>1
  <2>2. ClustersOf(p) = FlattenSeq(g)
    BY DEF ClustersOf
  <2> HIDE DEF g
  <2> QED BY <2>1, <2>2
<1> HIDE DEF n, Of, g
<1>7. 0 \in S
  <2>1. [k \in 1..0 |-> g[k]] = << >>
    OBVIOUS
  <2>2. F(0) = << >>
    BY <2>1, FlattenNone
  <2>3. << >> \in Seq(Int) /\ Len(<< >>) = 0
    OBVIOUS
  <2>4. L(0) = 0
    BY LengthNone
  <2>5. Right(0)
    OBVIOUS
  <2> HIDE DEF F, L, Right
  <2> QED BY <2>2, <2>3, <2>4, <2>5
<1>8. ASSUME NEW m \in Nat, m \in S PROVE m + 1 \in S
  <2> SUFFICES ASSUME m + 1 <= n
               PROVE  F(m + 1) \in Seq(Int) /\ Len(F(m + 1)) = L(m + 1) /\ Right(m + 1)
    OBVIOUS
  <2>1. /\ m + 1 \in 1..n /\ m \in 0..n /\ m + 1 \in Nat
        /\ \A k \in 1..(m + 1) : k \in 1..n
    BY <1>1
  <2>2. F(m + 1) = F(m) \o Of(m + 1)
    <3>1. \A k \in 1..(m + 1) : g[k] \in Seq(Int)
      BY <1>4, <1>5, <2>1
    <3>2. F(m + 1) = F(m) \o g[m + 1]
      BY <3>1, FlattenNext
    <3> HIDE DEF F
    <3> QED BY <1>5, <2>1, <3>2
  <2>3. F(m) \in Seq(Int) /\ Len(F(m)) = L(m) /\ Right(m)
    BY <1>1, <1>8
  <2>4. L(m) \in Nat /\ L(m + 1) = L(m) + p[m + 1].length /\ p[m + 1].length \in Nat
    <3>1. L(m) \in Nat
      BY <1>1, <1>3, <2>1, LengthNat
    <3>2. L(m + 1) = L(m) + p[m + 1].length
      BY LengthNext
    <3> QED BY <1>1, <1>2, <2>1, <3>1, <3>2
  <2>5. /\ Of(m + 1) \in Seq(Int) /\ Len(Of(m + 1)) = p[m + 1].length
        /\ \A j \in 1..p[m + 1].length : Of(m + 1)[j] = p[m + 1].offset + j - 1
    BY <1>4, <2>1
  <2>6. p[m + 1].offset \in Int
    BY <1>1, <1>2, <2>1
  <2>7. ASSUME NEW i \in 1..m
        PROVE  L(i - 1) \in Nat /\ p[i].length \in Nat /\ L(i - 1) + p[i].length <= L(m)
    <3>1. i \in 0..n /\ i - 1 \in 0..n /\ i <= m /\ i >= 1 /\ i \in Nat /\ i \in 1..n
      BY <1>1, <2>1
    <3>2. L(i) <= L(m) /\ L(i - 1) \in Nat /\ p[i].length \in Nat
      BY <1>1, <1>2, <1>3, <2>1, <3>1, LengthMonotone, LengthNat
    <3>3. L(i) = L(i - 1) + p[i].length
      BY <3>1, LengthThrough
    <3> QED BY <3>2, <3>3
  <2>8. /\ F(m + 1) \in Seq(Int) /\ Len(F(m + 1)) = L(m + 1)
        /\ \A k \in 1..L(m) : F(m + 1)[k] = F(m)[k]
        /\ \A k \in 1..p[m + 1].length : F(m + 1)[L(m) + k] = Of(m + 1)[k]
    <3> DEFINE a == F(m)
               b == Of(m + 1)
    <3>1. a \in Seq(Int) /\ b \in Seq(Int) /\ Len(a) = L(m) /\ Len(b) = p[m + 1].length
      BY <2>3, <2>5
    <3>2. F(m + 1) = a \o b
      BY <2>2
    <3> HIDE DEF a, b, F, L, Right, S
    <3>3. /\ a \o b \in Seq(Int) /\ Len(a \o b) = Len(a) + Len(b)
          /\ \A k \in 1..Len(a) : (a \o b)[k] = a[k]
          /\ \A k \in 1..Len(b) : (a \o b)[Len(a) + k] = b[k]
      <4> DEFINE Z == Int
      <4>1. a \in Seq(Z) /\ b \in Seq(Z)
        BY <3>1
      <4> HIDE DEF Z
      <4>2. /\ a \o b \in Seq(Z) /\ Len(a \o b) = Len(a) + Len(b)
            /\ \A k \in 1..Len(a) : (a \o b)[k] = a[k]
            /\ \A k \in 1..Len(b) : (a \o b)[Len(a) + k] = b[k]
        BY <4>1, ConcatFacts
      <4> QED BY <4>2 DEF Z
    <3> QED BY <2>4, <3>1, <3>2, <3>3 DEF a, b
  <2>9. Right(m + 1)
    <3> HIDE DEF F, L
    <3> SUFFICES ASSUME NEW i \in 1..(m + 1), NEW c \in Nat,
                        L(i - 1) <= c, c < L(i - 1) + p[i].length
                 PROVE  F(m + 1)[c + 1] = p[i].offset + (c - L(i - 1))
      OBVIOUS
    <3>1. CASE i = m + 1
      <4>1. /\ c - L(m) + 1 \in 1..p[m + 1].length /\ L(m) + (c - L(m) + 1) = c + 1
            /\ L(i - 1) = L(m)
        BY <2>1, <2>4, <3>1
      <4>2. F(m + 1)[L(m) + (c - L(m) + 1)] = Of(m + 1)[c - L(m) + 1]
        BY <2>8, <4>1
      <4>3. Of(m + 1)[c - L(m) + 1] = p[m + 1].offset + (c - L(m) + 1) - 1
        BY <2>5, <4>1
      <4> QED BY <2>4, <2>6, <3>1, <4>1, <4>2, <4>3
    <3>2. CASE i # m + 1
      <4>1. i \in 1..m
        BY <3>2
      <4>2. c + 1 \in 1..L(m)
        <5>1. L(i - 1) \in Nat /\ p[i].length \in Nat /\ L(i - 1) + p[i].length <= L(m)
          BY <2>7, <4>1
        <5>2. c < L(i - 1) + p[i].length /\ L(m) \in Nat
          BY <2>4
        <5> QED BY <5>1, <5>2
      <4>3. F(m)[c + 1] = p[i].offset + (c - L(i - 1))
        BY <2>3, <4>1
      <4> QED BY <2>8, <4>2, <4>3
    <3> QED BY <3>1, <3>2
  <2> HIDE DEF F, L, Right
  <2> QED BY <2>8, <2>9
<1>9. n \in S
  <2> HIDE DEF S
  <2> QED BY <1>1, <1>7, <1>8, SetInduction DEF S
<1>10. F(n) \in Seq(Int) /\ Len(F(n)) = L(n) /\ Right(n)
  BY <1>1, <1>9
<1>11. SumOfLengths(p) = L(n)
  BY DEF SumOfLengths, n
<1> HIDE DEF F
<1> QED BY <1>6, <1>10, <1>11 DEF n

-----------------------------------------------------------------------------
(* Steps: the readers *)

\* A reader that is mapped is the next.
LEMMA MapStep ==
  ASSUME TypeInv, ContiguousInv, NEW r \in ReaderSet, ReaderShape(r),
         r.fileOffset = file_offset, Map(r)
  PROVE  /\ file_offset' = file_offset + r.length /\ file_offset' \in Nat
         /\ readers' \in Seq(ReaderSet) /\ Len(readers') = Len(readers) + 1
         /\ \A i \in 1..Len(readers) : readers'[i] = readers[i]
         /\ readers'[Len(readers) + 1] = r
         /\ \A i \in 1..Len(readers') : ReaderShape(readers'[i])
         /\ ContiguousInv'
<1>1. readers \in Seq(ReaderSet) /\ file_offset \in Nat /\ Len(readers) \in Nat
  BY DEF TypeInv
<1>2. r.length \in Nat
  BY DEF ReaderSet
<1>3. readers' = Append(readers, r) /\ file_offset' = file_offset + r.length
  BY DEF Map
<1>4. /\ readers' \in Seq(ReaderSet) /\ Len(readers') = Len(readers) + 1
      /\ \A i \in 1..Len(readers) : readers'[i] = readers[i]
      /\ readers'[Len(readers) + 1] = r
  BY <1>1, <1>3, AppendFacts
<1>5. \A i \in 1..Len(readers') : i \in 1..Len(readers) \/ i = Len(readers) + 1
  BY <1>1, <1>4
<1>6. /\ SumOfLengths(readers') = SumOfLengths(readers) + r.length
      /\ \A n \in 0..Len(readers) : LengthOfFirst(n, readers') = LengthOfFirst(n, readers)
  BY <1>1, <1>3, LengthAppend
<1>7. \A i \in 1..Len(readers') : ReaderShape(readers'[i])
  BY <1>4, <1>5 DEF TypeInv
<1>8. \A i \in 1..Len(readers') : readers'[i].fileOffset = LengthOfFirst(i - 1, readers')
  <2> TAKE i \in 1..Len(readers')
  <2>1. i - 1 \in 0..Len(readers)
    BY <1>1, <1>4
  <2>2. LengthOfFirst(i - 1, readers') = LengthOfFirst(i - 1, readers)
    BY <1>6, <2>1
  <2>3. CASE i \in 1..Len(readers)
    BY <1>4, <2>2, <2>3 DEF ContiguousInv
  <2>4. CASE i = Len(readers) + 1
    <3>1. LengthOfFirst(i - 1, readers) = file_offset
      BY <1>1, <2>4 DEF ContiguousInv, SumOfLengths
    <3> QED BY <1>4, <2>2, <2>4, <3>1
  <2> QED BY <1>5, <2>3, <2>4
<1>9. ContiguousInv'
  BY <1>3, <1>6, <1>8 DEF ContiguousInv
<1> QED BY <1>1, <1>2, <1>3, <1>4, <1>7, <1>9

\* The reader of a run.
LEMMA PlainStep ==
  ASSUME TypeInv, NEW run \in Runs, NEW length \in Nat, length > 0, NEW sparse \in BOOLEAN
  PROVE  LET r == PlainReader(run, length, sparse)
         IN /\ r \in ReaderSet /\ ReaderShape(r)
            /\ r.fileOffset = file_offset /\ r.length = length
            /\ r.kind = (IF sparse THEN "sparse" ELSE "disk")
            /\ r.parts[1].offset = run.offset
<1> DEFINE part == [offset |-> run.offset, length |-> length]
           r == PlainReader(run, length, sparse)
<1>1. part \in PartSet /\ part.offset = run.offset
  BY DEF Runs, PartSet
<1>2. r = [fileOffset |-> file_offset, length |-> length,
           kind |-> IF sparse THEN "sparse" ELSE "disk", parts |-> <<part>>]
  BY DEF PlainReader, Reader
<1> HIDE DEF part, r
<1>3. <<part>> \in Seq(PartSet) /\ Len(<<part>>) = 1 /\ <<part>>[1] = part
  BY <1>1
<1>4. file_offset \in Nat
  BY DEF TypeInv
<1>5. /\ r.fileOffset = file_offset /\ r.length = length /\ r.parts = <<part>>
      /\ r.kind = (IF sparse THEN "sparse" ELSE "disk")
  BY <1>2
<1>6. r \in ReaderSet
  BY <1>2, <1>3, <1>4 DEF ReaderSet
<1>7. ReaderShape(r)
  BY <1>3, <1>5 DEF ReaderShape
<1> QED BY <1>1, <1>3, <1>5, <1>6, <1>7 DEF r
-----------------------------------------------------------------------------
(* What is said of the file does not change *)

SameFile == orig' = orig /\ flags' = flags

LEMMA SameStart ==
  ASSUME SameFile, NEW i
  PROVE  Start(i)' = Start(i)
BY DEF SameFile, Start

LEMMA SameRunOf ==
  ASSUME SameFile, NEW c
  PROVE  RunOf(c)' = RunOf(c)
BY DEF SameFile, RunOf, Start

LEMMA SameHoleAt ==
  ASSUME SameFile, NEW c
  PROVE  (HoleAt(c)' <=> HoleAt(c)) /\ ClusterAt(c)' = ClusterAt(c)
BY SameRunOf, SameStart DEF SameFile, HoleAt, IsHoleOfFile, ClusterAt

LEMMA SameRealIn ==
  ASSUME SameFile, NEW first, NEW n
  PROVE  RealIn(first, n)' = RealIn(first, n)
BY DEF SameFile, RealIn, IsHoleOfFile, RunOf, ClusterAt, Start

LEMMA SameAgrees ==
  ASSUME SameFile, NEW r
  PROVE  Agrees(r)' <=> Agrees(r)
BY DEF SameFile, Agrees, PlainAgrees, UnitAgrees, HoleAt, RealIn, IsHoleOfFile, RunOf, ClusterAt, Start, IsCompressed

LEMMA SameShape ==
  ASSUME SameFile
  PROVE  AsDocumented' <=> AsDocumented
BY DEF SameFile, AsDocumented, WellFormed, IsCompressed, Units, RunsIn, Start
-----------------------------------------------------------------------------
(* Where the runs start *)

LEMMA StartFacts ==
  ASSUME TypeInv
  PROVE  /\ Len(orig) \in Nat /\ HasLengths(orig, Len(orig)) /\ SumOfLengths(orig) \in Nat
         /\ \A i \in 1..Len(orig) : /\ orig[i] \in Runs
                                    /\ orig[i].offset \in Int /\ orig[i].length \in Nat
                                    /\ Start(i + 1) = Start(i) + orig[i].length
         /\ \A i \in 1..(Len(orig) + 1) : Start(i) \in Nat /\ Start(i) <= SumOfLengths(orig)
         /\ \A i, j \in 1..(Len(orig) + 1) : i <= j => Start(i) <= Start(j)
         /\ Start(1) = 0 /\ Start(Len(orig) + 1) = SumOfLengths(orig)
<1> DEFINE n == Len(orig)
<1>1. n \in Nat /\ \A i \in 1..n : orig[i] \in Runs
  BY SeqFacts DEF TypeInv
<1>2. \A e \in Runs : e.offset \in Int /\ e.length \in Nat
  BY DEF Runs
<1>3. HasLengths(orig, n) /\ SumOfLengths(orig) \in Nat
  BY <1>2, LengthsOfAll DEF TypeInv
<1> HIDE DEF n
<1>4. ASSUME NEW i \in 1..n PROVE Start(i + 1) = Start(i) + orig[i].length
  <2>1. i \in Nat /\ i >= 1 /\ (i + 1) - 1 = i
    BY <1>1
  <2> QED BY <2>1, LengthThrough DEF Start
<1>5. ASSUME NEW i \in 1..(n + 1), NEW j \in 1..(n + 1), i <= j
      PROVE  Start(i) \in Nat /\ Start(i) <= Start(j)
  <2>1. i - 1 \in 0..n /\ j - 1 \in 0..n /\ i - 1 <= j - 1
    BY <1>1, <1>5
  <2> QED BY <1>1, <1>3, <2>1, LengthNat, LengthMonotone DEF Start
<1>6. Start(1) = 0 /\ Start(n + 1) = SumOfLengths(orig)
  <2>1. 1 - 1 = 0 /\ (n + 1) - 1 = n
    BY <1>1
  <2> QED BY <2>1, LengthNone DEF Start, SumOfLengths, n
<1>7. ASSUME NEW i \in 1..(n + 1) PROVE Start(i) \in Nat /\ Start(i) <= SumOfLengths(orig)
  <2>1. n + 1 \in 1..(n + 1) /\ i <= n + 1
    BY <1>1
  <2> QED BY <1>5, <1>6, <2>1
<1> QED BY <1>1, <1>2, <1>3, <1>4, <1>5, <1>6, <1>7 DEF n

\* The run of a cluster is the only one that has it.
LEMMA RunOfIs ==
  ASSUME TypeInv, NEW c \in Int, NEW i \in 1..Len(orig),
         Start(i) <= c, c < Start(i) + orig[i].length
  PROVE  RunOf(c) = i /\ ClusterAt(c) = orig[i].offset + (c - Start(i))
<1> DEFINE n == Len(orig)
           Has(j) == Start(j) <= c /\ c < Start(j) + orig[j].length
<1>1. n \in Nat /\ HasLengths(orig, n) /\ orig[i].offset \in Int /\ Start(i) \in Nat
  BY StartFacts
<1>2. DOMAIN orig = 1..n
  BY DEF TypeInv
<1>3. RunOf(c) = CHOOSE j \in 1..n : Has(j)
  BY <1>2 DEF RunOf
<1> HIDE DEF Has
<1>4. i \in 1..n /\ Has(i)
  BY DEF Has
<1>5. RunOf(c) \in 1..n /\ Has(RunOf(c))
  BY <1>3, <1>4
<1> HIDE DEF n
<1>6. RunOf(c) = i
  <2>1. ASSUME NEW j \in 1..n, Has(j) PROVE j = i
    BY <1>1, <1>4, <2>1, LiesInOnlyOne DEF Has, Start
  <2> QED BY <1>5, <2>1
<1>7. ClusterAt(c) = orig[i].offset + c - Start(i)
  BY <1>6 DEF ClusterAt
<1> QED BY <1>1, <1>6, <1>7

\* Every cluster of the file is in a run.
LEMMA RunOfSome ==
  ASSUME TypeInv, NEW c \in Nat, c < SumOfLengths(orig)
  PROVE  \E i \in 1..Len(orig) : Start(i) <= c /\ c < Start(i) + orig[i].length
<1>1. Len(orig) \in Nat /\ HasLengths(orig, Len(orig))
  BY StartFacts
<1>2. c < LengthOfFirst(Len(orig), orig)
  BY DEF SumOfLengths
<1> QED BY <1>1, <1>2, LiesInOne DEF Start

\* What is left of the run the loop is at.
LEMMA RunLeft ==
  ASSUME TypeInv, RunsInv, idx <= Len(orig)
  PROVE  /\ idx \in 1..Len(orig) /\ idx \in 1..Len(runs)
         /\ runs[idx] \in Runs /\ runs[idx].offset \in Int /\ runs[idx].length \in Nat
         /\ IsHole(runs[idx]) <=> IsHole(orig[idx])
         /\ PlaceInv => /\ file_offset + runs[idx].length = Start(idx + 1)
                        /\ Start(idx) <= file_offset
                        /\ runs[idx].offset = orig[idx].offset + (file_offset - Start(idx))
<1>1. idx \in 1..Len(orig) /\ idx \in 1..Len(runs)
  BY StartFacts DEF TypeInv
<1>2. runs[idx] \in Runs
  BY <1>1 DEF TypeInv
<1>3. runs[idx].offset \in Int /\ runs[idx].length \in Nat
  BY <1>2 DEF Runs
<1>4. /\ runs[idx].delta = orig[idx].delta
      /\ runs[idx].length <= orig[idx].length
      /\ runs[idx].offset = orig[idx].offset + (orig[idx].length - runs[idx].length)
  BY DEF RunsInv
<1>5. /\ orig[idx].offset \in Int /\ orig[idx].length \in Nat /\ Start(idx) \in Nat
      /\ Start(idx + 1) = Start(idx) + orig[idx].length
  BY <1>1, StartFacts
<1>6. ASSUME PlaceInv
      PROVE  /\ file_offset + runs[idx].length = Start(idx + 1)
             /\ Start(idx) <= file_offset
             /\ runs[idx].offset = orig[idx].offset + (file_offset - Start(idx))
  <2>1. file_offset = Start(idx) + (orig[idx].length - runs[idx].length)
    BY <1>6 DEF PlaceInv
  <2> QED BY <1>3, <1>4, <1>5, <2>1
<1> QED BY <1>1, <1>2, <1>3, <1>4, <1>6 DEF IsHole

\* A reader of what is left of the run reads the clusters of the file.
LEMMA PlainReaderAgrees ==
  ASSUME TypeInv, RunsInv, PlaceInv, idx <= Len(orig), NEW r \in ReaderSet,
         r.fileOffset = file_offset, r.length <= runs[idx].length,
         r.parts[1].offset = runs[idx].offset,
         r.kind = "sparse" <=> IsHoleOfFile(runs[idx])
  PROVE  PlainAgrees(r)
<1> SUFFICES ASSUME NEW c \in r.fileOffset..(r.fileOffset + r.length - 1)
             PROVE  /\ HoleAt(c) <=> r.kind = "sparse"
                    /\ ClusterAt(c) = r.parts[1].offset + (c - r.fileOffset)
  BY DEF PlainAgrees
<1>1. r.length \in Nat /\ file_offset \in Nat
  BY DEF ReaderSet, TypeInv
<1>2. /\ idx \in 1..Len(orig) /\ runs[idx].offset \in Int /\ runs[idx].length \in Nat
      /\ IsHole(runs[idx]) <=> IsHole(orig[idx])
      /\ file_offset + runs[idx].length = Start(idx + 1)
      /\ Start(idx) <= file_offset
      /\ runs[idx].offset = orig[idx].offset + (file_offset - Start(idx))
  BY RunLeft
<1>3. /\ Start(idx) \in Nat /\ orig[idx].offset \in Int /\ orig[idx].length \in Nat
      /\ Start(idx + 1) = Start(idx) + orig[idx].length
  BY <1>2, StartFacts
<1>4. c \in Int /\ Start(idx) <= c /\ c < Start(idx) + orig[idx].length
  <2> DEFINE l == r.length
  <2>1. l \in Nat /\ l <= runs[idx].length /\ c \in file_offset..(file_offset + l - 1)
    BY <1>1
  <2> HIDE DEF l
  <2>2. c \in Int /\ file_offset <= c /\ c < file_offset + l
    BY <1>1, <2>1
  <2>3. file_offset + runs[idx].length = Start(idx) + orig[idx].length
    BY <1>2, <1>3
  <2>4. c < Start(idx) + orig[idx].length
    <3>1. runs[idx].length \in Nat
      BY <1>2
    <3> QED BY <1>1, <2>1, <2>2, <2>3, <3>1
  <2>5. Start(idx) <= c
    <3>1. Start(idx) <= file_offset
      BY <1>2
    <3> QED BY <1>1, <1>3, <2>2, <3>1
  <2> QED BY <2>2, <2>4, <2>5
<1>5. RunOf(c) = idx /\ ClusterAt(c) = orig[idx].offset + (c - Start(idx))
  BY <1>2, <1>4, RunOfIs
<1>6. HoleAt(c) <=> r.kind = "sparse"
  BY <1>2, <1>5 DEF HoleAt, IsHoleOfFile
<1>7. ClusterAt(c) = r.parts[1].offset + (c - r.fileOffset)
  BY <1>1, <1>2, <1>3, <1>4, <1>5
<1> QED BY <1>6, <1>7
-----------------------------------------------------------------------------
(* The runs that are gathered *)

LEMMA SubSeqLength ==
  ASSUME NEW rs \in Seq(Runs), NEW a \in 1..Len(rs), NEW b \in a..Len(rs)
  PROVE  /\ SubSeq(rs, a, b) \in Seq(Runs) /\ Len(SubSeq(rs, a, b)) = b - a + 1
         /\ \A k \in 1..(b - a + 1) : SubSeq(rs, a, b)[k] = rs[a + k - 1]
         /\ \A m \in 0..(b - a + 1) :
              LengthOfFirst(m, SubSeq(rs, a, b))
                = LengthOfFirst((a - 1) + m, rs) - LengthOfFirst(a - 1, rs)
<1> DEFINE t == SubSeq(rs, a, b)
           n == b - a + 1
           L(m) == LengthOfFirst(m, rs)
           S == {m \in Nat : m <= n => LengthOfFirst(m, t) = L((a - 1) + m) - L(a - 1)}
<1>1. Len(rs) \in Nat /\ a \in Nat /\ a >= 1 /\ b \in Nat /\ a <= b /\ b <= Len(rs) /\ n \in Nat
  OBVIOUS
<1>2. t \in Seq(Runs) /\ Len(t) = n /\ \A k \in 1..n : t[k] = rs[a + k - 1]
  OBVIOUS
<1>3. \A e \in Runs : e.length \in Nat
  BY DEF Runs
<1>4. HasLengths(rs, Len(rs))
  BY <1>3, LengthsOfAll
<1>5. \A m \in 0..n : L((a - 1) + m) \in Nat
  <2> TAKE m \in 0..n
  <2>1. (a - 1) + m \in 0..Len(rs)
    BY <1>1
  <2> QED BY <1>1, <1>4, <2>1, LengthNat
<1> HIDE DEF t, n
<1>6. 0 \in S
  <2>1. (a - 1) + 0 = a - 1 /\ 0 \in 0..n
    BY <1>1
  <2>2. L(a - 1) \in Nat /\ LengthOfFirst(0, t) = 0
    BY <1>5, <2>1, LengthNone
  <2> HIDE DEF L
  <2> QED BY <2>1, <2>2
<1>7. ASSUME NEW m \in Nat, m \in S PROVE m + 1 \in S
  <2> SUFFICES ASSUME m + 1 <= n
               PROVE  LengthOfFirst(m + 1, t) = L((a - 1) + (m + 1)) - L(a - 1)
    OBVIOUS
  <2>1. /\ (a - 1) + m \in Nat /\ (a - 1) + (m + 1) = ((a - 1) + m) + 1
        /\ m + 1 \in 1..n /\ m \in 0..n /\ 0 \in 0..n /\ (a - 1) + 0 = a - 1
        /\ a + (m + 1) - 1 = ((a - 1) + m) + 1
    BY <1>1
  <2>2. LengthOfFirst(m, t) = L((a - 1) + m) - L(a - 1)
    BY <1>1, <1>7
  <2>3. LengthOfFirst(m + 1, t) = LengthOfFirst(m, t) + t[m + 1].length
    BY LengthNext
  <2>4. L(((a - 1) + m) + 1) = L((a - 1) + m) + rs[((a - 1) + m) + 1].length
    BY <2>1, LengthNext
  <2>5. t[m + 1] = rs[((a - 1) + m) + 1]
    <3>1. t[m + 1] = rs[a + (m + 1) - 1]
      BY <1>2, <2>1
    <3> QED BY <2>1, <3>1
  <2>6. t[m + 1].length \in Nat
    <3>1. t[m + 1] \in Runs
      BY <1>2, <2>1
    <3> QED BY <1>3, <3>1
  <2>7. L((a - 1) + m) \in Nat /\ L(a - 1) \in Nat
    BY <1>5, <2>1
  <2> HIDE DEF L
  <2> QED BY <2>1, <2>2, <2>3, <2>4, <2>5, <2>6, <2>7
<1>8. S = Nat
  <2> HIDE DEF S
  <2> QED BY <1>6, <1>7, SetInduction DEF S
<1>9. ASSUME NEW m \in 0..n PROVE LengthOfFirst(m, t) = L((a - 1) + m) - L(a - 1)
  <2>1. m \in Nat /\ m <= n
    BY <1>1
  <2> QED BY <1>8, <2>1
<1> QED BY <1>2, <1>9 DEF t, n

LEMMA GatheredFacts ==
  ASSUME TypeInv, idx <= Len(runs)
  PROVE  /\ LastGathered \in idx..Len(runs)
         /\ idx \in 1..Len(runs)
         /\ Gathered \in Seq(Runs) /\ Len(Gathered) = LastGathered - idx + 1
<1>1. runs \in Seq(Runs) /\ idx \in 1..Len(runs) /\ Len(runs) \in Nat
  BY DEF TypeInv
<1>2. LastGathered \in idx..Len(runs)
  <2> DEFINE reaches == {i \in idx..Len(runs) :
                          LengthOfFirst(i, runs) - LengthOfFirst(idx - 1, runs) >= Unit}
  <2>1. LastGathered = IF reaches = {} THEN Len(runs) ELSE Min(reaches)
    BY DEF LastGathered
  <2>2. CASE reaches = {}
    BY <1>1, <2>1, <2>2
  <2>3. CASE reaches # {}
    <3>1. reaches \in SUBSET Nat /\ reaches \subseteq idx..Len(runs)
      BY <1>1
    <3> HIDE DEF reaches
    <3>2. \E x \in reaches : \A y \in reaches : x <= y
      BY <2>3, <3>1, LeastElement
    <3>3. Min(reaches) \in reaches
      BY <3>2 DEF Min
    <3> QED BY <2>1, <2>3, <3>1, <3>3
  <2> QED BY <2>2, <2>3
<1>3. Gathered \in Seq(Runs) /\ Len(Gathered) = LastGathered - idx + 1
  BY <1>1, <1>2, SubSeqLength DEF Gathered
<1> QED BY <1>1, <1>2, <1>3

\* From the run the loop is at, the runs are as long as those of the file.
LEMMA RestLength ==
  ASSUME TypeInv, RunsInv, PlaceInv, idx <= Len(orig), NEW j \in idx..Len(orig)
  PROVE  LengthOfFirst(j, runs) - LengthOfFirst(idx - 1, runs) = Start(j + 1) - file_offset
<1> DEFINE L(m) == LengthOfFirst(m, runs)
           n == Len(orig)
           S == {d \in Nat : idx + d <= n =>
                   L(idx + d) - L(idx - 1) = Start((idx + d) + 1) - file_offset}
<1>1. /\ idx \in Nat /\ idx >= 1 /\ idx <= n /\ n \in Nat /\ file_offset \in Nat
      /\ runs \in Seq(Runs) /\ Len(runs) = n /\ idx - 1 \in 0..n
  BY StartFacts DEF TypeInv
<1>2. \A e \in Runs : e.length \in Nat
  BY DEF Runs
<1>3. HasLengths(runs, n)
  BY <1>1, <1>2, LengthsOfAll
<1> HIDE DEF n
<1>4. \A m \in 0..n : L(m) \in Nat
  BY <1>1, <1>3, LengthNat
<1>5. 0 \in S
  <2>1. file_offset + runs[idx].length = Start(idx + 1) /\ runs[idx].length \in Nat
    BY RunLeft
  <2>2. L(idx) = L(idx - 1) + runs[idx].length
    BY <1>1, LengthThrough
  <2>3. idx + 0 = idx /\ L(idx - 1) \in Nat
    BY <1>1, <1>4
  <2>4. L(idx) - L(idx - 1) = Start(idx + 1) - file_offset
    <3> HIDE DEF L
    <3> QED BY <1>1, <2>1, <2>2, <2>3
  <2> HIDE DEF L
  <2> QED BY <2>3, <2>4
<1>6. ASSUME NEW d \in Nat, d \in S PROVE d + 1 \in S
  <2> SUFFICES ASSUME idx + (d + 1) <= n
               PROVE  L(idx + (d + 1)) - L(idx - 1) = Start((idx + (d + 1)) + 1) - file_offset
    OBVIOUS
  <2> DEFINE k == idx + d
  <2>1. /\ k \in Nat /\ k + 1 = idx + (d + 1) /\ k + 1 \in 1..n /\ k + 1 \in (idx + 1)..n
        /\ k \in 0..n /\ idx + d <= n
    BY <1>1
  <2>2. L(k) - L(idx - 1) = Start(k + 1) - file_offset
    BY <1>6, <2>1
  <2> HIDE DEF k
  <2>3. L(k + 1) = L(k) + runs[k + 1].length
    BY <2>1, LengthNext
  <2>4. runs[k + 1] = orig[k + 1]
    BY <2>1 DEF RunsInv, n
  <2>5. /\ orig[k + 1].length \in Nat /\ Start((k + 1) + 1) = Start(k + 1) + orig[k + 1].length
    BY <2>1, StartFacts DEF n
  <2>6. Start(k + 1) \in Nat
    <3>1. k + 1 \in 1..(n + 1)
      BY <1>1, <2>1
    <3> QED BY <3>1, StartFacts DEF n
  <2>7. L(k) \in Nat /\ L(idx - 1) \in Nat
    BY <1>1, <1>4, <2>1
  <2> HIDE DEF L
  <2>8. L(k + 1) - L(idx - 1) = Start((k + 1) + 1) - file_offset
    <3> DEFINE l == orig[k + 1].length
               s == Start(k + 1)
    <3>1. runs[k + 1].length = l
      BY <2>4
    <3>2. /\ L(k + 1) = L(k) + l /\ Start((k + 1) + 1) = s + l
          /\ L(k) - L(idx - 1) = s - file_offset
      BY <2>2, <2>3, <2>5, <3>1
    <3>3. l \in Nat /\ s \in Nat
      BY <2>5, <2>6
    <3> HIDE DEF l, s, S
    <3> QED BY <1>1, <2>7, <3>2, <3>3
  <2> QED BY <2>1, <2>8
<1>7. j - idx \in Nat /\ idx + (j - idx) = j /\ j <= n
  BY <1>1 DEF n
<1>8. j - idx \in S
  <2> HIDE DEF S
  <2> QED BY <1>5, <1>6, <1>7, SetInduction DEF S
<1> QED BY <1>7, <1>8
-----------------------------------------------------------------------------
(* A compression unit of a documented shape *)

\* The unit at file_offset is real runs from idx and a hole that ends it.
UnitEndsWith(last) ==
  /\ last \in (idx + 1)..Len(orig)
  /\ IsHole(orig[last]) /\ orig[last].length > 0
  /\ Start(last + 1) = file_offset + Unit
  /\ \A j \in idx..(last - 1) : ~ IsHole(orig[j])

LEMMA UnitEnds ==
  ASSUME TypeInv, RunsInv, FileInv, AsDocumented, IsCompressed, idx < Len(runs),
         runs[idx].length > 0, runs[idx].length < Unit
  PROVE  \E last \in (idx + 1)..Len(orig) : UnitEndsWith(last)
<1> DEFINE f == file_offset
           n == Len(orig)
           total == SumOfLengths(orig)
           u == f \div Unit
<1>1. /\ Unit \in Nat \ {0} /\ f \in Nat /\ n \in Nat /\ total \in Nat
      /\ idx \in Nat /\ idx >= 1 /\ idx < n /\ PlaceInv /\ f % Unit = 0
  BY SizesAssumption, StartFacts DEF TypeInv, FileInv, WholeUnits
<1>2. /\ runs[idx].length \in Nat
      /\ IsHole(runs[idx]) <=> IsHole(orig[idx])
      /\ f + runs[idx].length = Start(idx + 1)
      /\ Start(idx) <= f
  BY <1>1, RunLeft
<1>3. total % Unit = 0 /\ WellFormed
  BY DEF AsDocumented, WellFormed
<1>4. /\ Start(idx) \in Nat /\ Start(idx + 1) \in Nat
      /\ Start(idx + 1) = Start(idx) + orig[idx].length /\ orig[idx].length \in Nat
      /\ Start(idx + 1) <= total
  <2>1. idx \in 1..n /\ idx \in 1..(n + 1) /\ idx + 1 \in 1..(n + 1)
    BY <1>1
  <2> QED BY <2>1, StartFacts
<1> HIDE DEF f, n, total
<1>5. f < total
  BY <1>1, <1>2, <1>4
<1>6. u \in Nat /\ f = u * Unit /\ (u + 1) * Unit = f + Unit /\ (u + 1) * Unit <= total
  <2>1. u \in Nat /\ u * Unit <= f /\ (u + 1) * Unit = u * Unit + Unit
        /\ f % Unit = f - u * Unit
    BY <1>1, InPage
  <2>2. (u + 1) * Unit <= total
    BY <1>1, <1>3, <1>5, NextMultiple
  <2>3. f = u * Unit
    <3> DEFINE w == u * Unit
    <3>1. w \in Nat
      BY <1>1, <2>1
    <3> HIDE DEF w, u
    <3> QED BY <1>1, <2>1, <3>1 DEF w
  <2> HIDE DEF u
  <2> QED BY <2>1, <2>2, <2>3
<1> HIDE DEF u
<1>7. u \in Units
  <2>1. u <= u * Unit
    BY <1>1, <1>6
  <2>2. u * Unit <= total
    BY <1>1, <1>5, <1>6
  <2>3. u \in 0..total
    BY <1>1, <1>6, <2>1, <2>2
  <2> QED BY <1>6, <2>3 DEF Units, total
<1>8. ASSUME NEW i \in 1..n
      PROVE  i \in RunsIn(u) <=> /\ orig[i].length > 0
                                 /\ Start(i) < f + Unit
                                 /\ f < Start(i) + orig[i].length
  <2>1. DOMAIN orig = 1..n
    BY DEF TypeInv, n
  <2> QED BY <1>6, <2>1 DEF RunsIn
<1>9. idx \in RunsIn(u)
  <2>1. idx \in 1..n /\ Start(idx) < f + Unit
    BY <1>1, <1>2, <1>4
  <2>2. f < Start(idx) + orig[idx].length
    BY <1>1, <1>2, <1>4
  <2>3. orig[idx].length > 0
    BY <1>1, <1>2, <1>4, <2>2
  <2> QED BY <1>8, <2>1, <2>2, <2>3
<1>10. \E h \in RunsIn(u) : h # idx
  <2> DEFINE e == f + (Unit - 1)
  <2>1. e \in Nat /\ e < total
    BY <1>1, <1>6
  <2>2. PICK h \in 1..n : Start(h) <= e /\ e < Start(h) + orig[h].length
    BY <2>1, RunOfSome DEF n, total
  <2>3. Start(h) \in Nat /\ orig[h].length \in Nat
    <3>1. h \in 1..(n + 1)
      BY <1>1
    <3> QED BY <3>1, StartFacts DEF n
  <2>4. h \in RunsIn(u)
    BY <1>1, <1>8, <2>2, <2>3
  <2>5. h # idx
    <3> SUFFICES ASSUME h = idx PROVE FALSE
      OBVIOUS
    <3>1. e < f + runs[idx].length
      BY <1>2, <1>4, <2>2
    <3> QED BY <1>1, <1>2, <3>1
  <2> QED BY <2>4, <2>5
<1>11. PICK last \in RunsIn(u) :
         IsHole(orig[last]) /\ Start(last) + orig[last].length = (u + 1) * Unit
  BY <1>7, <1>9, <1>10 DEF AsDocumented
<1>12. last \in 1..n
  BY DEF RunsIn, TypeInv, n
<1>13. /\ orig[last].length > 0 /\ Start(last) < f + Unit /\ Start(last) \in Nat
       /\ Start(last + 1) = Start(last) + orig[last].length /\ orig[last].length \in Nat
       /\ Start(last + 1) = f + Unit
  <2>1. last \in 1..(n + 1)
    BY <1>1, <1>12
  <2>2. Start(last + 1) = Start(last) + orig[last].length
    BY <1>12, StartFacts DEF n
  <2> QED BY <1>6, <1>8, <1>11, <1>12, <2>1, <2>2, StartFacts DEF n
<1>14. last \in (idx + 1)..n
  <2>1. last # idx
    <3> SUFFICES ASSUME last = idx PROVE FALSE
      OBVIOUS
    <3>1. f + runs[idx].length = f + Unit
      BY <1>2, <1>13
    <3> QED BY <1>1, <1>2, <3>1
  <2>2. ~ (last < idx)
    <3> SUFFICES ASSUME last < idx PROVE FALSE
      OBVIOUS
    <3>1. last + 1 \in 1..(n + 1) /\ idx \in 1..(n + 1) /\ last + 1 <= idx
      BY <1>1, <1>12
    <3>2. Start(last + 1) <= Start(idx)
      BY <3>1, StartFacts DEF n
    <3> QED BY <1>1, <1>2, <1>4, <1>13, <3>2
  <2> QED BY <1>1, <1>12, <2>1, <2>2
<1>15. ASSUME NEW j \in idx..(last - 1) PROVE ~ IsHole(orig[j])
  <2>1. /\ j \in 1..n /\ j \in Nat /\ last \in Nat /\ j < last
        /\ j \in 1..(n + 1) /\ last \in 1..(n + 1) /\ j <= last
    BY <1>1, <1>14
  <2>2. orig[j].length \in Nat /\ Start(j) \in Nat /\ Start(j) <= Start(last)
    BY <2>1, StartFacts DEF n
  <2>3. CASE orig[j].length = 0
    <3>1. IsCompressed /\ DOMAIN orig = 1..n
      BY DEF TypeInv, n
    <3>2. IsHole(orig[j]) => orig[j].length > 0
      BY <1>3, <2>1, <3>1 DEF WellFormed
    <3> QED BY <2>3, <3>2
  <2>4. CASE orig[j].length # 0
    <3>1. f < Start(j) + orig[j].length
      <4>1. CASE j = idx
        BY <1>8, <1>9, <2>1, <4>1
      <4>2. CASE j # idx
        <5>1. idx + 1 \in 1..(n + 1) /\ idx + 1 <= j
          BY <1>1, <1>14, <4>2
        <5>2. Start(idx + 1) <= Start(j)
          BY <2>1, <5>1, StartFacts DEF n
        <5>3. f < Start(idx + 1)
          BY <1>1, <1>2, <1>4
        <5> DEFINE s == Start(j)
                   l == orig[j].length
                   t == Start(idx + 1)
        <5>4. s \in Nat /\ l \in Nat /\ t <= s /\ t \in Nat /\ f < t
          BY <1>4, <2>2, <5>2, <5>3
        <5> HIDE DEF s, l, t
        <5>5. f < s + l
          BY <1>1, <5>4
        <5> QED BY <5>5 DEF s, l
      <4> QED BY <4>1, <4>2
    <3>2. Start(j) < f + Unit
      BY <1>1, <1>13, <2>2
    <3>3. j \in RunsIn(u)
      BY <1>8, <2>1, <2>2, <2>4, <3>1, <3>2
    <3> QED BY <1>3, <1>7, <2>1, <3>3 DEF WellFormed
  <2> QED BY <2>3, <2>4
<1> QED BY <1>11, <1>13, <1>14, <1>15 DEF UnitEndsWith, f, n
\* Up to the hole, and no further, is gathered.
LEMMA GatheredUnit ==
  ASSUME TypeInv, RunsInv, PlaceInv, idx < Len(runs), NEW last, UnitEndsWith(last)
  PROVE  /\ LastGathered = last
         /\ SumOfLengths(Gathered) = Unit
         /\ \E i \in DOMAIN Gathered : IsHole(Gathered[i])
         /\ RealOf(Gathered) = [k \in 1..(last - idx) |-> runs[idx + k - 1]]
<1> DEFINE f == file_offset
           n == Len(orig)
           L(m) == LengthOfFirst(m, runs)
           reaches == {i \in idx..Len(runs) : L(i) - L(idx - 1) >= Unit}
<1>1. /\ Unit \in Nat \ {0} /\ f \in Nat /\ n \in Nat /\ Len(runs) = n
      /\ idx \in Nat /\ idx >= 1 /\ idx < n /\ runs \in Seq(Runs)
  BY SizesAssumption, StartFacts DEF TypeInv
<1>2. /\ last \in (idx + 1)..n /\ last \in Nat
      /\ IsHole(orig[last]) /\ orig[last].length > 0
      /\ Start(last + 1) = f + Unit
      /\ \A j \in idx..(last - 1) : ~ IsHole(orig[j])
  BY <1>1 DEF UnitEndsWith
<1>3. \A j \in idx..n : L(j) - L(idx - 1) = Start(j + 1) - f
  BY <1>1, RestLength
<1>4. /\ Start(last + 1) = Start(last) + orig[last].length /\ orig[last].length \in Nat
      /\ Start(last) \in Nat
  <2>1. last \in 1..n /\ last \in 1..(n + 1)
    BY <1>1, <1>2
  <2> QED BY <2>1, StartFacts
<1> HIDE DEF f, n
<1>5. last \in reaches
  <2>1. last \in idx..n
    BY <1>1, <1>2
  <2>2. L(last) - L(idx - 1) = Unit
    <3>1. L(last) - L(idx - 1) = Start(last + 1) - f
      BY <1>3, <2>1
    <3> HIDE DEF L
    <3> QED BY <1>1, <1>2, <3>1
  <2> HIDE DEF L
  <2> QED BY <1>1, <2>1, <2>2
<1>6. ASSUME NEW j \in reaches PROVE last <= j
  <2>1. j \in idx..n /\ L(j) - L(idx - 1) >= Unit
    BY <1>1
  <2>2. Start(j + 1) - f >= Unit
    BY <1>3, <2>1
  <2>3. ASSUME j < last PROVE FALSE
    <3>1. j + 1 \in 1..(n + 1) /\ last \in 1..(n + 1) /\ j + 1 <= last
      BY <1>1, <1>2, <2>1, <2>3
    <3>2. Start(j + 1) <= Start(last) /\ Start(j + 1) \in Nat
      BY <3>1, StartFacts DEF n
    <3> QED BY <1>1, <1>2, <1>4, <2>2, <3>2
  <2> QED BY <1>1, <1>2, <2>1, <2>3
<1>7. reaches \subseteq Nat
  BY <1>1
<1>8. LastGathered = last
  <2>1. LastGathered = IF reaches = {} THEN Len(runs) ELSE Min(reaches)
    BY DEF LastGathered
  <2> HIDE DEF reaches
  <2>2. Min(reaches) = last
    <3>1. \A x \in reaches : (\A y \in reaches : x <= y) => x = last
      BY <1>5, <1>6, <1>7
    <3> QED BY <1>5, <1>6, <3>1 DEF Min
  <2> QED BY <1>5, <2>1, <2>2
<1> HIDE DEF reaches
<1> DEFINE m == last - idx
           rs == Gathered
<1>9. /\ rs \in Seq(Runs) /\ Len(rs) = m + 1 /\ m \in Nat /\ m >= 1
      /\ \A k \in 1..(m + 1) : rs[k] = runs[idx + k - 1]
      /\ \A k \in 0..(m + 1) : LengthOfFirst(k, rs) = L((idx - 1) + k) - L(idx - 1)
  <2>1. idx \in 1..Len(runs) /\ last \in idx..Len(runs) /\ last - idx + 1 = m + 1
    BY <1>1, <1>2
  <2>2. rs = SubSeq(runs, idx, last)
    BY <1>8 DEF Gathered
  <2> HIDE DEF rs, m
  <2>3. /\ rs \in Seq(Runs) /\ Len(rs) = m + 1
        /\ \A k \in 1..(m + 1) : rs[k] = runs[idx + k - 1]
        /\ \A k \in 0..(m + 1) : LengthOfFirst(k, rs) = L((idx - 1) + k) - L(idx - 1)
    BY <1>1, <2>1, <2>2, SubSeqLength
  <2>4. m \in Nat /\ m >= 1
    BY <1>1, <1>2 DEF m
  <2> QED BY <2>3, <2>4
<1>10. SumOfLengths(rs) = Unit
  <2>1. (idx - 1) + (m + 1) = last /\ m + 1 \in 0..(m + 1) /\ last \in idx..n
    BY <1>1, <1>2
  <2>2. LengthOfFirst(m + 1, rs) = L(last) - L(idx - 1)
    BY <1>9, <2>1
  <2>3. L(last) - L(idx - 1) = Start(last + 1) - f
    BY <1>3, <2>1
  <2>4. Start(last + 1) - f = Unit
    BY <1>1, <1>2
  <2> HIDE DEF rs, L, m
  <2> QED BY <1>9, <2>2, <2>3, <2>4 DEF SumOfLengths
<1> DEFINE e == [k \in 1..(m + 1) |-> runs[idx + k - 1]]
<1>11. \A k \in 1..(m + 1) : /\ IsHole(rs[k]) <=> k = m + 1
                             /\ rs[k] \in Runs /\ rs[k] = e[k] /\ e[k] = runs[idx + k - 1]
  <2> TAKE k \in 1..(m + 1)
  <2>0. rs[k] = runs[idx + k - 1] /\ e[k] = runs[idx + k - 1]
    BY <1>9
  <2> HIDE DEF rs, e
  <2>1. idx + k - 1 \in idx..last /\ (idx + k - 1 = last <=> k = m + 1) /\ idx + k - 1 \in 1..n
    BY <1>1, <1>2
  <2>2. IsHole(runs[idx + k - 1]) <=> IsHole(orig[idx + k - 1])
    <3>1. CASE k = 1
      <4>1. idx + k - 1 = idx
        BY <1>1, <3>1
      <4> QED BY <1>1, <4>1, RunLeft DEF n
    <3>2. CASE k # 1
      <4>1. idx + k - 1 \in (idx + 1)..n
        BY <1>1, <2>1, <3>2
      <4> QED BY <4>1 DEF RunsInv, n
    <3> QED BY <3>1, <3>2
  <2>3. CASE k = m + 1
    BY <1>2, <2>0, <2>1, <2>2, <2>3, <1>1
  <2>4. CASE k # m + 1
    <3>1. idx + k - 1 \in idx..(last - 1)
      BY <1>1, <1>2, <2>1, <2>4
    <3> QED BY <1>2, <2>0, <2>2, <2>4, <3>1, <1>1, <2>1
  <2>5. runs[idx + k - 1] \in Runs
    BY <1>1, <2>1
  <2> QED BY <2>0, <2>3, <2>4, <2>5
<1> HIDE DEF e, rs, L
<1>12. \E i \in DOMAIN rs : IsHole(rs[i])
  <2>1. m + 1 \in 1..(m + 1) /\ DOMAIN rs = 1..(m + 1)
    BY <1>9
  <2> HIDE DEF m
  <2> QED BY <1>11, <2>1
<1> DEFINE real == [k \in 1..m |-> e[k]]
<1>13. RealOf(rs) = real
  <2> DEFINE g == [i \in DOMAIN rs |-> IF IsHole(rs[i]) THEN << >> ELSE <<rs[i]>>]
             N == m + 1
  <2>1. DOMAIN rs = 1..N /\ N \in Nat /\ m <= N
    BY <1>9
  <2>2. g = [k \in 1..N |-> g[k]] /\ RealOf(rs) = FlattenSeq(g)
    BY <2>1 DEF RealOf
  <2>3. \A k \in 1..m : k \in 1..(m + 1) /\ e[k] \in Runs
    <3>1. \A k \in 1..m : k \in 1..(m + 1)
      BY <1>9
    <3> HIDE DEF m
    <3> QED BY <1>11, <3>1
  <2>4. real \in Seq(Runs) /\ Len(real) = m /\ \A k \in 1..m : real[k] = e[k]
    <3> HIDE DEF m
    <3> QED BY <1>9, <2>3
  <2> HIDE DEF real
  <2>5. \A k \in 1..N : g[k] = IF k <= Len(real) THEN <<real[k]>> ELSE << >>
    <3> TAKE k \in 1..N
    <3>1. g[k] = IF IsHole(rs[k]) THEN << >> ELSE <<rs[k]>>
      BY <2>1
    <3>2. (k <= m <=> k # m + 1) /\ k \in 1..(m + 1) /\ (k <= m => k \in 1..m)
      BY <1>9
    <3>3. k <= m => rs[k] = real[k]
      BY <1>11, <2>4, <3>2
    <3> HIDE DEF g, m, N
    <3> QED BY <1>11, <2>4, <3>1, <3>2, <3>3
  <2> HIDE DEF g, N
  <2>6. FlattenSeq(g) = real
    BY <2>1, <2>2, <2>4, <2>5, FlattenTo
  <2> QED BY <2>2, <2>6
<1>14. [k \in 1..m |-> e[k]] = [k \in 1..m |-> runs[idx + k - 1]]
  <2>1. \A k \in 1..m : k \in 1..(m + 1)
    BY <1>9
  <2>2. \A k \in 1..m : e[k] = runs[idx + k - 1]
    BY <1>11, <2>1
  <2> HIDE DEF m
  <2> QED BY <2>2
<1> QED BY <1>8, <1>10, <1>12, <1>13, <1>14 DEF rs

\* The parts that are read of a unit.
UnitParts ==
  IF Len(RealOf(Gathered)) > 1 THEN Parts(RealOf(Gathered)) ELSE Parts(<<runs[idx]>>)

LEMMA UnitPartsFacts ==
  ASSUME TypeInv, RunsInv, PlaceInv, idx < Len(runs), runs[idx].length > 0,
         NEW last, UnitEndsWith(last)
  PROVE  /\ Len(RealOf(Gathered)) = last - idx
         /\ UnitParts \in Seq(PartSet) /\ Len(UnitParts) = last - idx
         /\ \A k \in 1..(last - idx) : /\ UnitParts[k].offset = runs[idx + k - 1].offset
                                       /\ UnitParts[k].length = runs[idx + k - 1].length
         /\ \A k \in 1..(last - idx) :
              LengthOfFirst(k, UnitParts) = Start(idx + k) - file_offset
         /\ SumOfLengths(UnitParts) = Start(last) - file_offset
         /\ Start(last) - file_offset \in 1..(Unit - 1)
<1> DEFINE f == file_offset
           n == Len(orig)
           m == last - idx
           s == SubSeq(runs, idx, last - 1)
           real == RealOf(Gathered)
<1>1. /\ Unit \in Nat \ {0} /\ f \in Nat /\ n \in Nat /\ Len(runs) = n
      /\ idx \in Nat /\ idx >= 1 /\ idx < n /\ runs \in Seq(Runs)
  BY SizesAssumption, StartFacts DEF TypeInv
<1>2. /\ last \in (idx + 1)..n /\ last \in Nat /\ orig[last].length > 0
      /\ Start(last + 1) = f + Unit
  BY <1>1 DEF UnitEndsWith
<1>3. m \in Nat /\ m >= 1 /\ idx \in 1..Len(runs) /\ last - 1 \in idx..Len(runs)
      /\ (last - 1) - idx + 1 = m
  BY <1>1, <1>2
<1>4. real = [k \in 1..m |-> runs[idx + k - 1]]
  BY GatheredUnit
<1> HIDE DEF f, n, m, real
<1>5. /\ s \in Seq(Runs) /\ Len(s) = m
      /\ \A k \in 1..m : s[k] = runs[idx + k - 1]
      /\ \A k \in 0..m : LengthOfFirst(k, s)
                           = LengthOfFirst((idx - 1) + k, runs) - LengthOfFirst(idx - 1, runs)
  BY <1>1, <1>3, SubSeqLength
<1> HIDE DEF s
<1>6. real = s
  <2>1. s = [k \in 1..m |-> s[k]]
    BY <1>5, SeqFacts
  <2> QED BY <1>4, <1>5, <2>1
<1>7. UnitParts = Parts(s)
  <2>1. CASE m > 1
    BY <1>5, <1>6, <2>1 DEF UnitParts, real
  <2>2. CASE m = 1
    <3>1. s[1] = runs[idx]
      <4>1. 1 \in 1..m /\ idx + 1 - 1 = idx
        BY <1>1, <2>2
      <4>2. s[1] = runs[idx + 1 - 1]
        BY <1>5, <4>1
      <4> QED BY <4>1, <4>2
    <3>2. s = <<runs[idx]>>
      BY <1>5, <2>2, <3>1
    <3>3. Len(RealOf(Gathered)) = 1
      BY <1>5, <1>6, <2>2 DEF real
    <3> HIDE DEF UnitParts
    <3>4. UnitParts = Parts(<<runs[idx]>>)
      BY <3>3 DEF UnitParts
    <3> QED BY <3>2, <3>4
  <2> QED BY <1>3, <2>1, <2>2
<1> DEFINE p == UnitParts
<1>8. /\ p \in Seq(PartSet) /\ Len(p) = m
      /\ \A k \in 1..m : p[k].offset = s[k].offset /\ p[k].length = s[k].length
      /\ \A k \in 0..m : LengthOfFirst(k, p) = LengthOfFirst(k, s)
  BY <1>5, <1>7, PartsFacts
<1> HIDE DEF p
<1>9. ASSUME NEW k \in 1..m PROVE LengthOfFirst(k, p) = Start(idx + k) - f
  <2>1. k \in 0..m /\ idx + k - 1 \in idx..n /\ (idx - 1) + k = idx + k - 1
        /\ (idx + k - 1) + 1 = idx + k
    BY <1>1, <1>2, <1>3
  <2>2. idx <= Len(orig)
    BY <1>1 DEF n
  <2>3. LengthOfFirst(idx + k - 1, runs) - LengthOfFirst(idx - 1, runs)
          = Start((idx + k - 1) + 1) - f
    BY <2>1, <2>2, RestLength DEF n, f
  <2> QED BY <1>5, <1>8, <2>1, <2>3
<1>10. SumOfLengths(p) = Start(last) - f
  <2>1. m \in 1..m /\ idx + m = last
    BY <1>1, <1>2, <1>3 DEF m
  <2> QED BY <1>8, <1>9, <2>1 DEF SumOfLengths
<1>11. Start(last) - f \in 1..(Unit - 1)
  <2>1. last \in 1..n /\ last \in 1..(n + 1) /\ idx + 1 \in 1..(n + 1) /\ idx + 1 <= last
    BY <1>1, <1>2
  <2>2. /\ Start(last) \in Nat /\ Start(idx + 1) \in Nat /\ Start(idx + 1) <= Start(last)
        /\ Start(last + 1) = Start(last) + orig[last].length /\ orig[last].length \in Nat
    BY <2>1, StartFacts DEF n
  <2>3. f + runs[idx].length = Start(idx + 1) /\ runs[idx].length \in Nat
    <3>1. idx <= Len(orig)
      BY <1>1 DEF n
    <3> QED BY <3>1, RunLeft DEF f
  <2>4. f < Start(idx + 1)
    BY <1>1, <2>3
  <2>5. Start(last) < f + Unit
    BY <1>1, <1>2, <2>2
  <2> QED BY <1>1, <2>2, <2>4, <2>5
<1> QED BY <1>5, <1>6, <1>8, <1>9, <1>10, <1>11 DEF p, m, f, real

\* The clusters that are read are those of the unit.
LEMMA UnitReaderAgrees ==
  ASSUME TypeInv, RunsInv, PlaceInv, IsCompressed, idx < Len(runs), runs[idx].length > 0,
         NEW last, UnitEndsWith(last),
         NEW r, r.fileOffset = file_offset, r.length = Unit, r.parts = UnitParts
  PROVE  UnitAgrees(r)
<1> DEFINE f == file_offset
           n == Len(orig)
           m == last - idx
           p == UnitParts
           R == Start(last) - f
           L(k) == LengthOfFirst(k, p)
           e == ClustersOf(p)
<1>1. /\ Unit \in Nat \ {0} /\ f \in Nat /\ n \in Nat /\ Len(runs) = n
      /\ idx \in Nat /\ idx >= 1 /\ idx < n
      /\ \A k \in 1..n : runs[k] \in Runs
  <2>1. runs \in Seq(Runs)
    BY DEF TypeInv
  <2> QED BY <2>1, SizesAssumption, StartFacts DEF TypeInv
<1>2. /\ last \in (idx + 1)..n /\ last \in Nat /\ IsHole(orig[last])
      /\ Start(last + 1) = f + Unit
      /\ \A j \in idx..(last - 1) : ~ IsHole(orig[j])
  BY <1>1 DEF UnitEndsWith
<1>3. /\ p \in Seq(PartSet) /\ Len(p) = m /\ m \in Nat /\ m >= 1
      /\ \A k \in 1..m : p[k].offset = runs[idx + k - 1].offset
      /\ \A k \in 1..m : L(k) = Start(idx + k) - f
      /\ SumOfLengths(p) = R /\ R \in 1..(Unit - 1)
  <2>1. m \in Nat /\ m >= 1
    BY <1>1, <1>2
  <2>2. /\ p \in Seq(PartSet) /\ Len(p) = m
        /\ \A k \in 1..m : p[k].offset = runs[idx + k - 1].offset
        /\ \A k \in 1..m : L(k) = Start(idx + k) - f
        /\ SumOfLengths(p) = R /\ R \in 1..(Unit - 1)
    BY UnitPartsFacts
  <2> QED BY <2>1, <2>2
<1>4. /\ idx <= Len(orig) /\ idx \in 1..n /\ f + runs[idx].length = Start(idx + 1) /\ Start(idx) <= f
      /\ runs[idx].offset = orig[idx].offset + (f - Start(idx))
  <2>1. idx <= Len(orig) /\ idx \in 1..n
    BY <1>1
  <2> QED BY <2>1, RunLeft
<1>5. /\ e \in Seq(Int) /\ Len(e) = R
      /\ \A i \in 1..m, c \in Nat :
           L(i - 1) <= c /\ c < L(i - 1) + p[i].length =>
             e[c + 1] = p[i].offset + (c - L(i - 1))
  BY <1>3, ClustersFacts
<1>6. /\ \A i \in 1..(n + 1) : Start(i) \in Nat /\ Start(i) <= SumOfLengths(orig)
      /\ \A i, j \in 1..(n + 1) : i <= j => Start(i) <= Start(j)
      /\ \A i \in 1..n : /\ Start(i + 1) = Start(i) + orig[i].length
                         /\ orig[i].length \in Nat /\ orig[i].offset \in Int
      /\ SumOfLengths(orig) \in Nat
  BY StartFacts
<1> HIDE DEF f, n, m, p, L, e
<1>7. ASSUME NEW k \in 1..R
      PROVE  e[k] = ClusterAt(f + k - 1) /\ ~ IsHole(orig[RunOf(f + k - 1)])
  <2> DEFINE c == f + k - 1
  <2>1. c \in Nat /\ f <= c /\ c < Start(last) /\ c < SumOfLengths(orig)
    <3>1. last \in 1..(n + 1)
      BY <1>1, <1>2
    <3>2. Start(last) \in Nat /\ Start(last) <= SumOfLengths(orig)
      BY <1>6, <3>1
    <3>3. k \in Nat /\ k >= 1 /\ k <= Start(last) - f
      BY <1>1, <3>2
    <3> QED BY <1>1, <1>6, <3>2, <3>3
  <2>2. PICK i \in 1..n : Start(i) <= c /\ c < Start(i) + orig[i].length
    BY <2>1, RunOfSome DEF n
  <2> HIDE DEF c
  <2>3. RunOf(c) = i /\ ClusterAt(c) = orig[i].offset + (c - Start(i))
    BY <2>1, <2>2, RunOfIs DEF n
  <2>4. i \in 1..(n + 1) /\ i + 1 \in 1..(n + 1) /\ idx \in 1..(n + 1) /\ last \in 1..(n + 1)
    BY <1>1, <1>2
  <2>5. c < Start(i + 1) /\ Start(i) \in Nat /\ Start(i + 1) \in Nat
    BY <1>6, <2>2, <2>4
  <2>6. idx <= i
    <3>1. ASSUME i + 1 <= idx PROVE FALSE
      <4>1. Start(i + 1) <= Start(idx) /\ Start(idx) \in Nat
        BY <1>6, <2>4, <3>1
      <4> QED BY <1>1, <1>4, <2>1, <2>5, <4>1
    <3> QED BY <1>1, <3>1
  <2>7. i < last
    <3>1. ASSUME last <= i PROVE FALSE
      <4>1. Start(last) <= Start(i) /\ Start(last) \in Nat
        BY <1>6, <2>4, <3>1
      <4> QED BY <2>1, <2>2, <2>5, <4>1
    <3> QED BY <1>2, <3>1
  <2>8. ~ IsHole(orig[i])
    <3>1. i \in idx..(last - 1)
      BY <1>1, <1>2, <2>6, <2>7
    <3> QED BY <1>2, <3>1
  <2> DEFINE q == i - idx + 1
  <2>9. q \in 1..m /\ q \in Nat /\ q >= 1 /\ idx + q = i + 1 /\ idx + q - 1 = i /\ (q = 1 <=> i = idx)
    BY <1>1, <1>2, <2>6, <2>7 DEF m
  <2>10. L(q) = Start(i + 1) - f /\ L(q) = L(q - 1) + p[q].length
    BY <1>3, <2>9, LengthThrough DEF L
  <2>11. p[q].offset = runs[i].offset
    BY <1>3, <2>9
  <2>12. k - 1 \in Nat /\ (k - 1) + 1 = k /\ c = f + (k - 1)
    BY <1>1, <1>3 DEF c
  <2> HIDE DEF q
  <2>13. CASE i = idx
    <3>1. L(q - 1) = 0
      <4>1. q - 1 = 0
        BY <2>9, <2>13
      <4> QED BY <4>1, LengthNone DEF L
    <3>2. L(q - 1) <= k - 1 /\ k - 1 < L(q - 1) + p[q].length
      BY <1>1, <2>5, <2>10, <2>12, <3>1
    <3>3. e[k] = p[q].offset + (k - 1)
      <4>1. e[(k - 1) + 1] = p[q].offset + ((k - 1) - L(q - 1))
        BY <1>5, <2>9, <2>12, <3>2
      <4> QED BY <2>12, <3>1, <4>1
    <3>4. e[k] = orig[idx].offset + (f - Start(idx)) + (k - 1)
      BY <1>4, <2>11, <2>13, <3>3
    <3>5. orig[idx].offset \in Int /\ Start(idx) \in Nat
      BY <1>4, <1>6, <2>4
    <3>6. orig[idx].offset + (f - Start(idx)) + (k - 1) = orig[idx].offset + (c - Start(idx))
      BY <1>1, <2>12, <3>5
    <3> QED BY <2>3, <2>8, <2>13, <3>4, <3>6 DEF c
  <2>14. CASE i # idx
    <3>1. L(q - 1) = Start(i) - f
      <4>1. q - 1 \in 1..m /\ idx + (q - 1) = i
        BY <1>1, <1>3, <2>9, <2>14
      <4> QED BY <1>3, <4>1
    <3>2. runs[i].offset = orig[i].offset
      <4>1. i \in (idx + 1)..n
        BY <1>1, <2>6, <2>14
      <4>2. runs[i] = orig[i]
        BY <4>1 DEF RunsInv, n
      <4> QED BY <4>2
    <3>3. L(q - 1) <= k - 1 /\ k - 1 < L(q - 1) + p[q].length
      BY <1>1, <2>2, <2>5, <2>10, <2>12, <3>1
    <3>4. e[k] = orig[i].offset + ((k - 1) - (Start(i) - f))
      <4>1. e[(k - 1) + 1] = p[q].offset + ((k - 1) - L(q - 1))
        BY <1>5, <2>9, <2>12, <3>3
      <4> QED BY <2>11, <2>12, <3>1, <3>2, <4>1
    <3>5. orig[i].offset \in Int
      BY <1>6
    <3>6. orig[i].offset + ((k - 1) - (Start(i) - f)) = orig[i].offset + (c - Start(i))
      BY <1>1, <2>5, <2>12, <3>5
    <3> QED BY <2>3, <2>8, <3>4, <3>6 DEF c
  <2> QED BY <2>13, <2>14
<1>8. ASSUME NEW k \in 1..Unit, ~ (k <= R)
      PROVE  IsHole(orig[RunOf(f + k - 1)])
  <2>1. f + k - 1 \in Int /\ last \in 1..n /\ last \in 1..(n + 1)
    BY <1>1, <1>2
  <2>2. Start(last) <= f + k - 1 /\ f + k - 1 < Start(last) + orig[last].length
    BY <1>1, <1>2, <1>6, <1>8, <2>1
  <2>3. RunOf(f + k - 1) = last
    BY <2>1, <2>2, RunOfIs DEF n
  <2> QED BY <1>2, <2>3
<1> DEFINE g == [k \in 1..Unit |-> IF IsHoleOfFile(orig[RunOf(f + k - 1)]) THEN << >>
                                   ELSE <<ClusterAt(f + k - 1)>>]
<1>9. RealIn(f, Unit) = FlattenSeq(g)
  BY DEF RealIn
<1>10. g = [k \in 1..Unit |-> g[k]]
  OBVIOUS
<1>11. \A k \in 1..Unit : g[k] = IF k <= Len(e) THEN <<e[k]>> ELSE << >>
  <2> TAKE k \in 1..Unit
  <2>1. g[k] = IF IsHoleOfFile(orig[RunOf(f + k - 1)]) THEN << >> ELSE <<ClusterAt(f + k - 1)>>
    OBVIOUS
  <2> HIDE DEF g
  <2>2. IsHoleOfFile(orig[RunOf(f + k - 1)]) <=> IsHole(orig[RunOf(f + k - 1)])
    BY DEF IsHoleOfFile, IsCompressed
  <2>3. CASE k <= R
    <3>1. k \in 1..R
      BY <1>3, <2>3
    <3> QED BY <1>5, <1>7, <2>1, <2>2, <2>3, <3>1
  <2>4. CASE ~ (k <= R)
    BY <1>5, <1>8, <2>1, <2>2, <2>4
  <2> QED BY <2>3, <2>4
<1> HIDE DEF g
<1>12. FlattenSeq(g) = e
  <2> DEFINE Z == Int
  <2>1. Unit \in Nat /\ Len(e) <= Unit /\ e \in Seq(Z)
    BY <1>1, <1>3, <1>5
  <2> HIDE DEF Z
  <2> QED BY <1>10, <1>11, <2>1, FlattenTo
<1> QED BY <1>3, <1>5, <1>9, <1>12 DEF UnitAgrees, e, p, f
-----------------------------------------------------------------------------
(* Steps: the parts of the invariant *)

LEMMA TypeStep ==
  ASSUME TypeInv, UNCHANGED fixed, runs' \in Seq(Runs), Len(runs') = Len(runs),
         idx' \in Nat, idx' >= 1, file_offset' \in Nat,
         readers' \in Seq(ReaderSet), \A i \in 1..Len(readers') : ReaderShape(readers'[i])
  PROVE  TypeInv'
BY DEF TypeInv, fixed

\* The loop goes on to a run that is whole.
LEMMA NextRun ==
  ASSUME TypeInv, RunsInv, orig' = orig, runs' = runs, idx' \in Nat, idx' > idx
  PROVE  /\ RunsInv'
         /\ idx' <= Len(orig) => /\ idx' \in 1..Len(orig) /\ runs[idx'] = orig[idx']
                                 /\ orig[idx'].length \in Nat
<1>1. idx \in Nat /\ idx >= 1 /\ Len(orig) \in Nat
  BY StartFacts DEF TypeInv
<1>2. \A j \in (idx + 1)..Len(orig) : runs[j] = orig[j]
  BY DEF RunsInv
<1>3. \A j \in (idx' + 1)..Len(orig) : j \in (idx + 1)..Len(orig)
  <2> DEFINE n == Len(orig)
             i == idx
             k == idx'
  <2>1. n \in Nat /\ i \in Nat /\ k \in Nat /\ k > i
    BY <1>1
  <2> HIDE DEF n, i, k
  <2>2. \A j \in (k + 1)..n : j \in (i + 1)..n
    BY <2>1
  <2> QED BY <2>2 DEF n, i, k
<1>4. ASSUME idx' <= Len(orig)
      PROVE  /\ idx' \in 1..Len(orig) /\ runs[idx'] = orig[idx']
             /\ orig[idx'].length \in Nat /\ orig[idx'].offset \in Int
  <2>1. idx' \in 1..Len(orig) /\ idx' \in (idx + 1)..Len(orig)
    BY <1>1, <1>4
  <2> QED BY <1>2, <2>1, StartFacts
<1>5. \A j \in (idx' + 1)..Len(orig) : runs[j] = orig[j]
  BY <1>2, <1>3
<1>6. ASSUME idx' <= Len(orig)
      PROVE  /\ runs[idx'].delta = orig[idx'].delta
             /\ runs[idx'].length <= orig[idx'].length
             /\ runs[idx'].offset = orig[idx'].offset + (orig[idx'].length - runs[idx'].length)
  <2>1. runs[idx'] = orig[idx'] /\ orig[idx'].length \in Nat /\ orig[idx'].offset \in Int
    BY <1>4, <1>6
  <2>2. orig[idx'].offset = orig[idx'].offset + (orig[idx'].length - orig[idx'].length)
    BY <2>1
  <2> QED BY <2>1, <2>2
<1> QED BY <1>4, <1>5, <1>6 DEF RunsInv

\* What is mapped is what comes before that run.
LEMMA NextPlace ==
  ASSUME TypeInv, RunsInv, orig' = orig, runs' = runs,
         idx' \in Nat, idx' > idx, idx' <= Len(orig) + 1, file_offset' = Start(idx')
  PROVE  PlaceInv'
<1>1. idx \in Nat /\ idx >= 1 /\ Len(orig) \in Nat /\ idx' \in 1..(Len(orig) + 1)
  BY StartFacts DEF TypeInv
<1> PICK i : i = idx'
  OBVIOUS
<1>2. Start(i)' = Start(i)
  BY DEF Start
<1>3. Start(i) \in Nat /\ Start(Len(orig) + 1) = SumOfLengths(orig)
  BY <1>1, StartFacts
<1>4. CASE i <= Len(orig)
  <2>1. runs[i] = orig[i] /\ orig[i].length \in Nat
    BY <1>4, NextRun
  <2>2. file_offset' = Start(i) + (orig[i].length - runs[i].length)
    BY <1>3, <2>1
  <2>3. ~ (i > Len(orig))
    BY <1>1, <1>4
  <2> QED BY <1>4, <2>2, <2>3 DEF PlaceInv, Start
<1>5. CASE ~ (i <= Len(orig))
  <2>1. i = Len(orig) + 1
    BY <1>1, <1>5
  <2>2. file_offset' = SumOfLengths(orig)
    BY <1>3, <2>1
  <2> QED BY <1>5, <2>2 DEF PlaceInv
<1> QED BY <1>4, <1>5

LEMMA DocumentedStep ==
  ASSUME UNCHANGED fixed
  PROVE  /\ SameFile /\ (AsDocumented' <=> AsDocumented) /\ (IsCompressed' <=> IsCompressed)
BY SameShape DEF SameFile, fixed, IsCompressed

\* A reader is added, or none.
LEMMA FileStepMap ==
  ASSUME TypeInv, FileInv, UNCHANGED fixed, NEW r,
         readers' = Append(readers, r), readers' \in Seq(ReaderSet),
         AsDocumented => /\ PlaceInv'
                         /\ Agrees(r)
                         /\ IsCompressed => /\ file_offset' % Unit = 0
                                            /\ r.fileOffset % Unit = 0
                                            /\ r.length % Unit = 0
  PROVE  FileInv'
<1>1. SameFile /\ (AsDocumented' <=> AsDocumented) /\ (IsCompressed' <=> IsCompressed)
  BY DocumentedStep
<1> SUFFICES ASSUME AsDocumented
             PROVE  PlaceInv' /\ WholeUnits' /\ \A q \in ToSet(readers') : Agrees(q)'
  BY <1>1 DEF FileInv
<1>2. PlaceInv' /\ Agrees(r) /\ WholeUnits /\ \A q \in ToSet(readers) : Agrees(q)
  BY DEF FileInv
<1>3. /\ readers \in Seq(ReaderSet) /\ Len(readers) \in Nat /\ Len(readers') = Len(readers) + 1
      /\ DOMAIN readers = 1..Len(readers) /\ DOMAIN readers' = 1..Len(readers')
      /\ \A i \in 1..Len(readers) : readers'[i] = readers[i]
      /\ readers'[Len(readers) + 1] = r
  BY DEF TypeInv
<1>4. \A i \in 1..Len(readers') : i \in 1..Len(readers) \/ i = Len(readers) + 1
  BY <1>3
<1>5. WholeUnits'
  <2> SUFFICES ASSUME IsCompressed
               PROVE  /\ file_offset' % Unit = 0
                      /\ \A i \in 1..Len(readers') : /\ readers'[i].fileOffset % Unit = 0
                                                     /\ readers'[i].length % Unit = 0
    BY <1>1 DEF WholeUnits
  <2>1. \A i \in 1..Len(readers) : /\ readers[i].fileOffset % Unit = 0
                                   /\ readers[i].length % Unit = 0
    BY <1>2 DEF WholeUnits
  <2>2. ASSUME NEW i \in 1..Len(readers')
        PROVE  readers'[i].fileOffset % Unit = 0 /\ readers'[i].length % Unit = 0
    <3>1. CASE i \in 1..Len(readers)
      BY <1>3, <2>1, <3>1
    <3>2. CASE i = Len(readers) + 1
      BY <1>3, <3>2
    <3> QED BY <1>4, <3>1, <3>2
  <2> QED BY <2>2
<1>6. ASSUME NEW q \in ToSet(readers') PROVE Agrees(q)'
  <2>1. Agrees(q)
    <3>1. PICK i \in 1..Len(readers') : readers'[i] = q
      BY <1>3 DEF ToSet
    <3>2. CASE i \in 1..Len(readers)
      <4>1. q \in ToSet(readers)
        BY <1>3, <3>1, <3>2 DEF ToSet
      <4> QED BY <1>2, <4>1
    <3>3. CASE i = Len(readers) + 1
      BY <1>2, <1>3, <3>1, <3>3
    <3> QED BY <1>4, <3>2, <3>3
  <2> QED BY <1>1, <2>1, SameAgrees
<1> QED BY <1>2, <1>5, <1>6

LEMMA FileStepSkip ==
  ASSUME TypeInv, FileInv, UNCHANGED <<fixed, readers, file_offset>>,
         AsDocumented => PlaceInv'
  PROVE  FileInv'
<1>1. SameFile /\ (AsDocumented' <=> AsDocumented) /\ (IsCompressed' <=> IsCompressed)
  BY DocumentedStep
<1> SUFFICES ASSUME AsDocumented
             PROVE  PlaceInv' /\ WholeUnits' /\ \A q \in ToSet(readers') : Agrees(q)'
  BY <1>1 DEF FileInv
<1>2. PlaceInv' /\ WholeUnits /\ \A q \in ToSet(readers) : Agrees(q)
  BY DEF FileInv
<1>3. WholeUnits'
  BY <1>1, <1>2 DEF WholeUnits
<1>4. ASSUME NEW q \in ToSet(readers') PROVE Agrees(q)'
  <2>1. Agrees(q)
    BY <1>2, <1>4
  <2> QED BY <1>1, <2>1, SameAgrees
<1> QED BY <1>2, <1>3, <1>4
-----------------------------------------------------------------------------
(* Steps: one action at a time *)

\* What each step needs of the state before it.
LEMMA AtRun ==
  ASSUME IInv, InLoop
  PROVE  /\ TypeInv /\ ContiguousInv /\ RunsInv /\ FileInv
         /\ idx \in Nat /\ idx >= 1 /\ idx <= Len(orig) /\ idx <= Len(runs)
         /\ Len(runs) = Len(orig) /\ Len(orig) \in Nat
         /\ runs \in Seq(Runs) /\ runs[idx] \in Runs /\ runs[idx].length \in Nat
         /\ file_offset \in Nat /\ Start(idx + 1) \in Nat
         /\ PlaceInv => file_offset + runs[idx].length = Start(idx + 1)
<1>1. TypeInv /\ ContiguousInv /\ RunsInv /\ FileInv
  BY DEF IInv
<1>2. /\ idx \in Nat /\ idx >= 1 /\ Len(runs) = Len(orig) /\ runs \in Seq(Runs)
      /\ file_offset \in Nat /\ idx <= Len(runs)
  BY <1>1 DEF TypeInv, InLoop
<1>3. Len(orig) \in Nat
  BY <1>1, StartFacts
<1>4. /\ runs[idx] \in Runs /\ runs[idx].length \in Nat
      /\ PlaceInv => file_offset + runs[idx].length = Start(idx + 1)
  BY <1>1, <1>2, RunLeft
<1>5. Start(idx + 1) \in Nat
  <2>1. idx + 1 \in 1..(Len(orig) + 1)
    BY <1>2, <1>3
  <2> QED BY <1>1, <2>1, StartFacts
<1> QED BY <1>1, <1>2, <1>3, <1>4, <1>5

LEMMA SkipEmptyRunStep ==
  ASSUME IInv, SkipEmptyRun
  PROVE  IInv'
<1>1. /\ InLoop /\ runs[idx].length = 0 /\ idx' = idx + 1
      /\ UNCHANGED fixed /\ orig' = orig /\ runs' = runs
      /\ file_offset' = file_offset /\ readers' = readers
  BY DEF SkipEmptyRun, fixed
<1>2. /\ TypeInv /\ ContiguousInv /\ RunsInv /\ FileInv
      /\ idx \in Nat /\ idx >= 1 /\ idx <= Len(orig)
      /\ Len(orig) \in Nat /\ runs \in Seq(Runs) /\ file_offset \in Nat
      /\ PlaceInv => file_offset = Start(idx + 1)
  BY <1>1, AtRun
<1>3. idx' \in Nat /\ idx' >= 1 /\ idx' > idx /\ idx' <= Len(orig) + 1
  BY <1>1, <1>2
<1>4. TypeInv'
  <2>1. readers \in Seq(ReaderSet) /\ \A i \in 1..Len(readers) : ReaderShape(readers[i])
    BY <1>2 DEF TypeInv
  <2> QED BY <1>1, <1>2, <1>3, <2>1, TypeStep
<1>5. ContiguousInv'
  BY <1>1, <1>2 DEF ContiguousInv
<1>6. RunsInv'
  BY <1>1, <1>2, <1>3, NextRun
<1>7. FileInv'
  <2>1. AsDocumented => PlaceInv'
    <3> SUFFICES ASSUME AsDocumented PROVE PlaceInv'
      OBVIOUS
    <3>1. PlaceInv
      BY <1>2 DEF FileInv
    <3>2. file_offset' = Start(idx')
      <4>1. file_offset' = Start(idx + 1)
        BY <1>1, <1>2, <3>1
      <4> QED BY <1>1, <4>1 DEF Start
    <3> QED BY <1>1, <1>2, <1>3, <3>2, NextPlace
  <2> QED BY <1>1, <1>2, <2>1, FileStepSkip
<1> QED BY <1>4, <1>5, <1>6, <1>7 DEF IInv

\* A plain reader of the next clusters is mapped.
LEMMA PlainReaderStep ==
  ASSUME IInv, InLoop, UNCHANGED fixed, NEW length \in Nat, length > 0,
         length <= runs[idx].length, NEW sparse \in BOOLEAN,
         sparse <=> IsHoleOfFile(runs[idx]),
         Map(PlainReader(runs[idx], length, sparse)),
         runs' \in Seq(Runs), Len(runs') = Len(runs), idx' \in Nat, idx' >= 1,
         AsDocumented => /\ PlaceInv'
                         /\ IsCompressed => length % Unit = 0
  PROVE  /\ TypeInv' /\ ContiguousInv' /\ FileInv'
<1>1. /\ TypeInv /\ ContiguousInv /\ RunsInv /\ FileInv
      /\ idx <= Len(orig) /\ runs[idx] \in Runs /\ file_offset \in Nat
  BY AtRun
<1>2. PICK r : r = PlainReader(runs[idx], length, sparse)
  OBVIOUS
<1>3. /\ r \in ReaderSet /\ ReaderShape(r) /\ r.fileOffset = file_offset /\ r.length = length
      /\ r.kind = (IF sparse THEN "sparse" ELSE "disk")
      /\ r.parts[1].offset = runs[idx].offset
  BY <1>1, <1>2, PlainStep
<1>4. Map(r)
  BY <1>2
<1>5. /\ file_offset' = file_offset + r.length /\ file_offset' \in Nat
      /\ readers' \in Seq(ReaderSet)
      /\ \A i \in 1..Len(readers') : ReaderShape(readers'[i])
      /\ ContiguousInv'
  BY <1>1, <1>3, <1>4, MapStep
<1>6. TypeInv'
  BY <1>1, <1>5, TypeStep
<1>7. readers' = Append(readers, r)
  BY <1>4 DEF Map
<1>8. ASSUME AsDocumented
      PROVE  /\ PlaceInv' /\ Agrees(r)
             /\ IsCompressed => /\ file_offset' % Unit = 0
                                /\ r.fileOffset % Unit = 0 /\ r.length % Unit = 0
  <2>1. PlaceInv /\ WholeUnits
    BY <1>1, <1>8 DEF FileInv
  <2>2. r.kind = "sparse" <=> IsHoleOfFile(runs[idx])
    BY <1>3
  <2>3. PlainAgrees(r)
    BY <1>1, <1>3, <2>1, <2>2, PlainReaderAgrees
  <2>4. Agrees(r)
    BY <1>3, <2>3 DEF Agrees
  <2>5. ASSUME IsCompressed
        PROVE  file_offset' % Unit = 0 /\ r.fileOffset % Unit = 0 /\ r.length % Unit = 0
    <3>1. file_offset % Unit = 0 /\ length % Unit = 0
      BY <1>8, <2>1, <2>5 DEF WholeUnits
    <3>2. (file_offset + length) % Unit = 0
      BY <1>1, <3>1, MultiplesAdd, SizesAssumption
    <3> QED BY <1>3, <1>5, <3>1, <3>2
  <2> QED BY <1>8, <2>4, <2>5
<1>9. FileInv'
  BY <1>1, <1>5, <1>7, <1>8, FileStepMap
<1> QED BY <1>5, <1>6, <1>9

LEMMA MapRunStep ==
  ASSUME IInv, MapRun
  PROVE  IInv'
<1> DEFINE sparse == "sparse" \in flags /\ IsHole(runs[idx])
<1>1. /\ InLoop /\ ~ IsCompressed /\ runs[idx].length > 0
      /\ Map(PlainReader(runs[idx], runs[idx].length, sparse))
      /\ idx' = idx + 1 /\ UNCHANGED fixed /\ orig' = orig /\ runs' = runs
  BY DEF MapRun, fixed
<1>2. /\ TypeInv /\ ContiguousInv /\ RunsInv /\ FileInv
      /\ idx \in Nat /\ idx >= 1 /\ idx <= Len(orig) /\ Len(orig) \in Nat
      /\ runs \in Seq(Runs) /\ runs[idx] \in Runs /\ runs[idx].length \in Nat
      /\ PlaceInv => file_offset + runs[idx].length = Start(idx + 1)
  BY <1>1, AtRun
<1>3. idx' \in Nat /\ idx' >= 1 /\ idx' > idx /\ idx' <= Len(orig) + 1
  BY <1>1, <1>2
<1>4. sparse \in BOOLEAN /\ (sparse <=> IsHoleOfFile(runs[idx]))
  <2>1. flags \in SUBSET {"compressed", "sparse"} /\ "compressed" \notin flags
    BY <1>1, <1>2 DEF TypeInv, IsCompressed
  <2>2. flags # {} <=> "sparse" \in flags
    BY <2>1
  <2>3. sparse \in BOOLEAN
    BY DEF IsHole
  <2> QED BY <2>2, <2>3 DEF IsHoleOfFile
<1> HIDE DEF sparse
<1>5. AsDocumented => PlaceInv'
  <2> SUFFICES ASSUME AsDocumented PROVE PlaceInv'
    OBVIOUS
  <2>1. PlaceInv
    BY <1>2 DEF FileInv
  <2>2. file_offset' = Start(idx')
    <3>1. file_offset' = file_offset + runs[idx].length
      BY <1>1 DEF Map, PlainReader, Reader
    <3>2. file_offset' = Start(idx + 1)
      BY <1>2, <2>1, <3>1
    <3> QED BY <1>1, <3>2 DEF Start
  <2> QED BY <1>1, <1>2, <1>3, <2>2, NextPlace
<1>6. TypeInv' /\ ContiguousInv' /\ FileInv'
  <2>1. runs[idx].length <= runs[idx].length
    BY <1>2
  <2> QED BY <1>1, <1>2, <1>3, <1>4, <1>5, <2>1, PlainReaderStep
<1>7. RunsInv'
  BY <1>1, <1>2, <1>3, NextRun
<1> QED BY <1>6, <1>7 DEF IInv

LEMMA MultiplesLeft ==
  ASSUME NEW p \in Nat \ {0}, NEW a \in Nat, NEW b \in Nat, a % p = 0, (a + b) % p = 0
  PROVE  b % p = 0
<1>1. PICK q \in Nat : a = q * p
  BY IsMultiple
<1>2. a + b \in Nat
  OBVIOUS
<1>3. PICK s \in Nat : a + b = s * p
  BY <1>2, IsMultiple
<1>4. b = (s - q) * p
  BY <1>1, <1>3
<1>5. s - q >= 0
  <2>1. CASE s - q < 0
    <3>1. s - q <= -1
      BY <2>1
    <3>2. (s - q) * p <= (-1) * p
      <4>1. s - q \in Int /\ -1 \in Int /\ p \in Nat
        OBVIOUS
      <4> QED BY <3>1, <4>1, TimesMonotone
    <3> QED BY <1>4, <3>2
  <2> QED BY <2>1
<1> QED BY <1>4, <1>5, Multiple

LEMMA HoleWithFlag ==
  ASSUME IsCompressed, NEW run
  PROVE  IsHole(run) \in BOOLEAN /\ (IsHole(run) <=> IsHoleOfFile(run))
BY DEF IsCompressed, IsHoleOfFile, IsHole

LEMMA MapLastRunStep ==
  ASSUME IInv, MapLastRun
  PROVE  IInv'
<1>1. /\ IsCompressed /\ idx = Len(runs) /\ runs[idx].length > 0
      /\ Map(PlainReader(runs[idx], runs[idx].length, IsHole(runs[idx])))
      /\ idx' = idx + 1 /\ UNCHANGED fixed /\ orig' = orig /\ runs' = runs
  BY DEF MapLastRun, fixed
<1>2. InLoop
  BY <1>1 DEF InLoop, IInv, TypeInv
<1>3. /\ TypeInv /\ ContiguousInv /\ RunsInv /\ FileInv
      /\ idx \in Nat /\ idx >= 1 /\ idx <= Len(orig) /\ Len(orig) \in Nat /\ Len(runs) = Len(orig)
      /\ runs \in Seq(Runs) /\ runs[idx] \in Runs /\ runs[idx].length \in Nat
      /\ file_offset \in Nat
      /\ PlaceInv => file_offset + runs[idx].length = Start(idx + 1)
  BY <1>2, AtRun
<1>4. idx' \in Nat /\ idx' >= 1 /\ idx' > idx /\ idx' <= Len(orig) + 1
  BY <1>1, <1>3
<1>5. IsHole(runs[idx]) \in BOOLEAN /\ (IsHole(runs[idx]) <=> IsHoleOfFile(runs[idx]))
  BY <1>1, HoleWithFlag
<1>6. AsDocumented => PlaceInv' /\ (IsCompressed => runs[idx].length % Unit = 0)
  <2> SUFFICES ASSUME AsDocumented PROVE PlaceInv' /\ runs[idx].length % Unit = 0
    OBVIOUS
  <2>1. PlaceInv /\ file_offset % Unit = 0
    BY <1>1, <1>3 DEF FileInv, WholeUnits
  <2>2. file_offset' = Start(idx')
    <3>1. file_offset' = file_offset + runs[idx].length
      BY <1>1 DEF Map, PlainReader, Reader
    <3>2. file_offset' = Start(idx + 1)
      BY <1>3, <2>1, <3>1
    <3> QED BY <1>1, <3>2 DEF Start
  <2>3. PlaceInv'
    BY <1>1, <1>3, <1>4, <2>2, NextPlace
  <2>4. SumOfLengths(orig) % Unit = 0
    BY <1>1 DEF AsDocumented, WellFormed
  <2>5. file_offset + runs[idx].length = SumOfLengths(orig)
    <3>1. Start(idx + 1) = SumOfLengths(orig)
      BY <1>1, <1>3, StartFacts
    <3> QED BY <1>3, <2>1, <3>1
  <2>6. runs[idx].length % Unit = 0
    <3>1. (file_offset + runs[idx].length) % Unit = 0
      BY <2>4, <2>5
    <3> QED BY <1>3, <2>1, <3>1, MultiplesLeft, SizesAssumption
  <2> QED BY <2>3, <2>6
<1>7. TypeInv' /\ ContiguousInv' /\ FileInv'
  <2>1. runs[idx].length <= runs[idx].length
    BY <1>3
  <2> QED BY <1>1, <1>2, <1>3, <1>4, <1>5, <1>6, <2>1, PlainReaderStep
<1>8. RunsInv'
  BY <1>1, <1>3, <1>4, NextRun
<1> QED BY <1>7, <1>8 DEF IInv

\* A run is cut in front.
LEMMA CutRun ==
  ASSUME NEW run \in Runs, NEW w \in Int, run.length - w \in Nat
  PROVE  LET new == [run EXCEPT !.offset = @ + w, !.length = @ - w]
         IN /\ new \in Runs /\ new.delta = run.delta /\ new.offset = run.offset + w
            /\ new.length = run.length - w
<1> DEFINE first == [run EXCEPT !.offset = run.offset + w]
<1>1. /\ run.offset + w \in Int /\ first \in Runs /\ first.delta = run.delta
      /\ first.offset = run.offset + w /\ first.length = run.length
  BY DEF Runs
<1> HIDE DEF first
<1> DEFINE new == [first EXCEPT !.length = run.length - w]
<1>2. /\ new \in Runs /\ new.delta = first.delta /\ new.offset = first.offset
      /\ new.length = run.length - w
  BY <1>1 DEF Runs
<1>3. [run EXCEPT !.offset = @ + w, !.length = @ - w] = new
  BY DEF first
<1> HIDE DEF new
<1> QED BY <1>1, <1>2, <1>3

LEMMA CutOffset ==
  ASSUME NEW o \in Int, NEW l \in Int, NEW k \in Int, NEW w \in Int
  PROVE  (o + (l - k)) + w = o + (l - (k - w))
OBVIOUS

LEMMA MapWholeUnitsStep ==
  ASSUME IInv, MapWholeUnits
  PROVE  IInv'
<1> DEFINE run == runs[idx]
           whole == run.length - (run.length % Unit)
           n == Len(orig)
<1>1. /\ IsCompressed /\ idx < Len(runs) /\ run.length >= Unit
      /\ Map(PlainReader(run, whole, IsHole(run)))
      /\ runs' = [runs EXCEPT ![idx].offset = @ + whole, ![idx].length = @ - whole]
      /\ UNCHANGED fixed /\ orig' = orig /\ idx' = idx
  BY DEF MapWholeUnits, HasWholeUnit, fixed
<1>2. InLoop
  BY <1>1 DEF InLoop, IInv, TypeInv
<1>3. /\ TypeInv /\ ContiguousInv /\ RunsInv /\ FileInv
      /\ idx \in Nat /\ idx >= 1 /\ idx <= n /\ n \in Nat /\ Len(runs) = n
      /\ runs \in Seq(Runs) /\ run \in Runs /\ run.length \in Nat
      /\ file_offset \in Nat
      /\ PlaceInv => file_offset + run.length = Start(idx + 1)
  BY <1>2, AtRun
<1>4. /\ whole \in Nat /\ whole > 0 /\ whole <= run.length /\ whole % Unit = 0
      /\ run.length - whole \in Nat
  <2> DEFINE l == run.length
  <2>1. l \in Nat /\ l >= Unit /\ Unit \in Nat \ {0}
    BY <1>1, <1>3, SizesAssumption
  <2> HIDE DEF l
  <2>2. l % Unit = l - (l \div Unit) * Unit /\ l % Unit \in 0..(Unit - 1) /\ l \div Unit \in Nat
    BY <2>1, InPage
  <2>3. l - (l % Unit) = (l \div Unit) * Unit
    BY <2>1, <2>2
  <2>4. (l - (l % Unit)) % Unit = 0
    BY <2>1, <2>2, <2>3, Multiple
  <2>5. /\ l - (l % Unit) \in Nat /\ l - (l % Unit) > 0 /\ l - (l % Unit) <= l
        /\ l - (l - (l % Unit)) \in Nat
    BY <2>1, <2>2
  <2> QED BY <2>4, <2>5 DEF l
<1>5. IsHole(run) \in BOOLEAN /\ (IsHole(run) <=> IsHoleOfFile(run))
  BY <1>1, HoleWithFlag
<1> HIDE DEF whole, n
<1>6. /\ runs' \in Seq(Runs) /\ Len(runs') = Len(runs)
      /\ runs'[idx].delta = run.delta /\ runs'[idx].offset = run.offset + whole
      /\ runs'[idx].length = run.length - whole
      /\ \A j \in 1..Len(runs) : j # idx => runs'[j] = runs[j]
  <2> DEFINE new == [run EXCEPT !.offset = @ + whole, !.length = @ - whole]
  <2>1. /\ new \in Runs /\ new.delta = run.delta /\ new.offset = run.offset + whole
        /\ new.length = run.length - whole
    <3>1. run \in Runs /\ whole \in Int /\ run.length - whole \in Nat
      BY <1>3, <1>4
    <3> HIDE DEF run
    <3> QED BY ZenonT(30), <3>1, CutRun
  <2>2. runs' = [runs EXCEPT ![idx] = new]
    <3>1. idx \in DOMAIN runs
      BY <1>3
    <3> QED BY <1>1, <3>1
  <2> HIDE DEF new
  <2>3. runs' \in Seq(Runs) /\ Len(runs') = Len(runs)
    BY <1>3, <2>1, <2>2
  <2>4. runs'[idx] = new /\ \A j \in 1..Len(runs) : j # idx => runs'[j] = runs[j]
    BY <1>3, <2>2
  <2> QED BY <2>1, <2>3, <2>4
<1>7. RunsInv'
  <2>1. \A j \in (idx + 1)..n : runs[j] = orig[j] /\ runs'[j] = runs[j]
    <3>1. \A j \in (idx + 1)..n : j \in 1..n /\ j # idx
      BY <1>3
    <3>2. \A j \in (idx + 1)..n : runs[j] = orig[j]
      BY <1>3 DEF RunsInv, n
    <3> QED BY <1>3, <1>6, <3>1, <3>2
  <2>2. /\ run.delta = orig[idx].delta /\ run.length <= orig[idx].length
        /\ run.offset = orig[idx].offset + (orig[idx].length - run.length)
    BY <1>3 DEF RunsInv, n
  <2>3. orig[idx].length \in Nat /\ orig[idx].offset \in Int
    <3>1. idx \in 1..n
      BY <1>3
    <3> QED BY <1>3, <3>1, StartFacts DEF n
  <2>4. /\ runs'[idx].length <= orig[idx].length
        /\ runs'[idx].offset = orig[idx].offset + (orig[idx].length - runs'[idx].length)
    <3>1. run.length - whole <= orig[idx].length
      BY <1>3, <1>4, <2>2, <2>3
    <3>2. run.offset + whole = orig[idx].offset + (orig[idx].length - (run.length - whole))
      <4>1. (orig[idx].offset + (orig[idx].length - run.length)) + whole
              = orig[idx].offset + (orig[idx].length - (run.length - whole))
        <5>1. orig[idx].length \in Int /\ run.length \in Int /\ whole \in Int
          BY <1>3, <1>4, <2>3
        <5> HIDE DEF run
        <5> QED BY <2>3, <5>1, CutOffset
      <4> QED BY <2>2, <4>1
    <3> QED BY <1>6, <3>1, <3>2
  <2> QED BY <1>1, <1>6, <2>1, <2>2, <2>4 DEF RunsInv, n
<1>8. ASSUME AsDocumented
      PROVE  PlaceInv'
  <2>1. PlaceInv
    BY <1>3, <1>8 DEF FileInv
  <2>2. file_offset' = file_offset + whole
    BY <1>1 DEF Map, PlainReader, Reader
  <2>3. file_offset = Start(idx) + (orig[idx].length - run.length)
    BY <1>3, <2>1 DEF PlaceInv, n
  <2>4. orig[idx].length \in Nat /\ Start(idx) \in Nat
    <3>1. idx \in 1..n /\ idx \in 1..(n + 1)
      BY <1>3
    <3> QED BY <1>3, <3>1, StartFacts DEF n
  <2>5. file_offset' = Start(idx) + (orig[idx].length - runs'[idx].length)
    <3>1. file_offset + whole = Start(idx) + (orig[idx].length - (run.length - whole))
      <4>1. /\ Start(idx) \in Int /\ orig[idx].length \in Int
            /\ run.length \in Int /\ whole \in Int
        BY <1>3, <1>4, <2>4
      <4> HIDE DEF run
      <4> QED BY <2>3, <4>1, CutOffset
    <3> QED BY <1>6, <2>2, <3>1
  <2>6. ~ (idx > n)
    BY <1>3
  <2> QED BY <1>1, <1>3, <2>5, <2>6 DEF PlaceInv, Start, n
<1>9. TypeInv' /\ ContiguousInv' /\ FileInv'
  <2>1. idx' \in Nat /\ idx' >= 1
    BY <1>1, <1>3
  <2> HIDE DEF run
  <2> QED BY <1>1, <1>2, <1>4, <1>5, <1>6, <1>8, <2>1, PlainReaderStep DEF run
<1> QED BY <1>7, <1>9 DEF IInv

\* The reader that a gathered unit would get.
UnitReader == Reader(file_offset, Unit, "compressed", UnitParts)

LEMMA UnitReaderShape ==
  ASSUME TypeInv, idx <= Len(runs), SumOfLengths(Gathered) = Unit
  PROVE  /\ UnitReader \in ReaderSet /\ ReaderShape(UnitReader)
         /\ UnitReader.fileOffset = file_offset /\ UnitReader.length = Unit
         /\ UnitReader.kind = "compressed" /\ UnitReader.parts = UnitParts
<1> DEFINE real == RealOf(Gathered)
<1>1. /\ Unit \in Nat \ {0} /\ file_offset \in Nat
      /\ Gathered \in Seq(Runs) /\ runs[idx] \in Runs
  <2>1. idx \in 1..Len(runs) /\ runs \in Seq(Runs) /\ Gathered \in Seq(Runs)
    BY GatheredFacts DEF TypeInv
  <2> QED BY <2>1, SizesAssumption DEF TypeInv
<1>2. /\ real \in Seq(Runs) /\ Len(real) \in Nat /\ SumOfLengths(real) <= Unit
  <2>1. real \in Seq(Runs) /\ SumOfLengths(real) <= SumOfLengths(Gathered)
    BY <1>1, RealFacts
  <2>2. Len(real) \in Nat
    BY <2>1
  <2> QED BY <2>1, <2>2
<1>3. UnitParts = IF Len(real) > 1 THEN Parts(real) ELSE Parts(<<runs[idx]>>)
  BY DEF UnitParts
<1> HIDE DEF real
<1>4. UnitParts \in Seq(PartSet) /\ (Len(UnitParts) # 1 => SumOfLengths(UnitParts) <= Unit)
  <2>1. CASE Len(real) > 1
    <3>1. UnitParts = Parts(real)
      BY <1>3, <2>1
    <3> QED BY <1>2, <3>1, PartsFacts
  <2>2. CASE ~ (Len(real) > 1)
    <3>1. UnitParts = Parts(<<runs[idx]>>)
      BY <1>3, <2>2
    <3>2. <<runs[idx]>> \in Seq(Runs) /\ Len(<<runs[idx]>>) = 1
      BY <1>1
    <3>3. UnitParts \in Seq(PartSet) /\ Len(UnitParts) = 1
      BY <3>1, <3>2, PartsFacts
    <3> QED BY <3>3
  <2> QED BY <2>1, <2>2
<1> QED BY <1>1, <1>4 DEF UnitReader, Reader, ReaderSet, ReaderShape

LEMMA GatherUnitStep ==
  ASSUME IInv, GatherUnit
  PROVE  IInv'
<1> DEFINE n == Len(orig)
           real == RealOf(Gathered)
           maps == (\E i \in DOMAIN Gathered : IsHole(Gathered[i])) /\ SumOfLengths(Gathered) = Unit
<1>1. /\ IsCompressed /\ idx < Len(runs) /\ runs[idx].length > 0 /\ runs[idx].length < Unit
      /\ IF maps THEN Map(UnitReader) ELSE UNCHANGED <<readers, file_offset>>
      /\ idx' = idx + Len(real) + 1
      /\ UNCHANGED fixed /\ orig' = orig /\ runs' = runs
  <2>1. /\ IsCompressed /\ idx < Len(runs) /\ runs[idx].length > 0 /\ ~ HasWholeUnit(runs[idx])
        /\ IF maps THEN Map(UnitReader) ELSE UNCHANGED <<readers, file_offset>>
        /\ idx' = idx + Len(real) + 1
        /\ UNCHANGED fixed /\ orig' = orig /\ runs' = runs
    BY DEF GatherUnit, UnitReader, UnitParts, fixed
  <2>2. InLoop
    BY <2>1 DEF InLoop, IInv, TypeInv
  <2>3. runs[idx].length \in Nat /\ Unit \in Nat
    BY <2>2, AtRun, SizesAssumption
  <2>4. runs[idx].length < Unit
    BY <2>1, <2>3 DEF HasWholeUnit
  <2> QED BY <2>1, <2>4
<1>2. InLoop
  BY <1>1 DEF InLoop, IInv, TypeInv
<1>3. /\ TypeInv /\ ContiguousInv /\ RunsInv /\ FileInv
      /\ idx \in Nat /\ idx >= 1 /\ idx <= n /\ n \in Nat /\ Len(runs) = n
      /\ runs \in Seq(Runs) /\ file_offset \in Nat
  BY <1>2, AtRun
<1>4. Len(real) \in Nat /\ idx' \in Nat /\ idx' >= 1 /\ idx' > idx
  <2>1. idx <= Len(runs)
    BY <1>3
  <2>2. Gathered \in Seq(Runs)
    BY <1>3, <2>1, GatheredFacts
  <2>3. real \in Seq(Runs)
    BY <2>2, RealFacts
  <2>4. Len(real) \in Nat
    BY <2>3
  <2> HIDE DEF real
  <2> QED BY <1>1, <1>3, <2>4
<1> HIDE DEF real, maps, n
<1>5. RunsInv'
  BY <1>1, <1>3, <1>4, NextRun
<1>6. ASSUME AsDocumented
      PROVE  /\ maps /\ Agrees(UnitReader)
             /\ file_offset % Unit = 0
             /\ file_offset' = file_offset + Unit => PlaceInv'
  <2>1. PlaceInv /\ file_offset % Unit = 0
    BY <1>1, <1>3, <1>6 DEF FileInv, WholeUnits
  <2>2. PICK last \in (idx + 1)..Len(orig) : UnitEndsWith(last)
    BY <1>1, <1>3, <1>6, UnitEnds
  <2>3. /\ SumOfLengths(Gathered) = Unit
        /\ \E i \in DOMAIN Gathered : IsHole(Gathered[i])
    BY <1>1, <1>3, <2>1, <2>2, GatheredUnit
  <2>4. maps
    BY <2>3 DEF maps
  <2>5. Len(real) = last - idx
    BY <1>1, <1>3, <2>1, <2>2, UnitPartsFacts DEF real
  <2>6. Agrees(UnitReader)
    <3>1. idx <= Len(runs)
      BY <1>3
    <3>2. /\ UnitReader.fileOffset = file_offset /\ UnitReader.length = Unit
          /\ UnitReader.kind = "compressed" /\ UnitReader.parts = UnitParts
      BY <1>3, <2>3, <3>1, UnitReaderShape
    <3>3. UnitAgrees(UnitReader)
      BY <1>1, <1>3, <2>1, <2>2, <3>2, UnitReaderAgrees
    <3> QED BY <3>2, <3>3 DEF Agrees
  <2>7. ASSUME file_offset' = file_offset + Unit PROVE PlaceInv'
    <3>1. last \in Nat /\ idx' = last + 1 /\ idx' <= Len(orig) + 1
      <4>1. last \in (idx + 1)..n /\ idx' = idx + Len(real) + 1 /\ Len(real) = last - idx
        BY <1>1, <2>2, <2>5 DEF n
      <4> QED BY <1>3, <4>1 DEF n
    <3>2. file_offset' = Start(last + 1)
      BY <2>2, <2>7 DEF UnitEndsWith
    <3>3. file_offset' = Start(idx')
      BY <3>1, <3>2 DEF Start
    <3> QED BY <1>1, <1>3, <1>4, <3>1, <3>3, NextPlace
  <2> QED BY <2>1, <2>4, <2>6, <2>7
<1>7. CASE maps
  <2>1. SumOfLengths(Gathered) = Unit /\ idx <= Len(runs) /\ Map(UnitReader)
    BY <1>1, <1>3, <1>7 DEF maps
  <2>2. PICK r : r = UnitReader
    OBVIOUS
  <2>3. r \in ReaderSet /\ ReaderShape(r) /\ r.fileOffset = file_offset /\ r.length = Unit
    BY <1>3, <2>1, <2>2, UnitReaderShape
  <2>4. Map(r)
    BY <2>1, <2>2
  <2>5. /\ file_offset' = file_offset + r.length /\ file_offset' \in Nat
        /\ readers' \in Seq(ReaderSet)
        /\ \A i \in 1..Len(readers') : ReaderShape(readers'[i])
        /\ ContiguousInv'
    BY <1>3, <2>3, <2>4, MapStep
  <2>6. TypeInv'
    BY <1>1, <1>3, <1>4, <2>5, TypeStep
  <2>7. readers' = Append(readers, r)
    BY <2>4 DEF Map
  <2>8. ASSUME AsDocumented
        PROVE  /\ PlaceInv' /\ Agrees(r)
               /\ IsCompressed => /\ file_offset' % Unit = 0
                                  /\ r.fileOffset % Unit = 0 /\ r.length % Unit = 0
    <3>1. file_offset % Unit = 0 /\ PlaceInv' /\ Agrees(r)
      BY <1>6, <2>2, <2>3, <2>5, <2>8
    <3>2. Unit % Unit = 0 /\ Unit \in Nat \ {0}
      BY SizesAssumption
    <3>3. (file_offset + Unit) % Unit = 0
      BY <1>3, <3>1, <3>2, MultiplesAdd
    <3> QED BY <2>3, <2>5, <3>1, <3>2, <3>3
  <2>9. FileInv'
    BY <1>1, <1>3, <2>5, <2>7, <2>8, FileStepMap
  <2> QED BY <1>5, <2>5, <2>6, <2>9 DEF IInv
<1>8. CASE ~ maps
  <2>1. readers' = readers /\ file_offset' = file_offset
    BY <1>1, <1>8
  <2>2. TypeInv'
    <3>1. readers \in Seq(ReaderSet) /\ \A i \in 1..Len(readers) : ReaderShape(readers[i])
      BY <1>3 DEF TypeInv
    <3> QED BY <1>1, <1>3, <1>4, <2>1, <3>1, TypeStep
  <2>3. ContiguousInv'
    BY <1>3, <2>1 DEF ContiguousInv
  <2>4. FileInv'
    <3>1. AsDocumented => PlaceInv'
      BY <1>6, <1>8
    <3> QED BY <1>1, <1>3, <2>1, <3>1, FileStepSkip
  <2> QED BY <1>5, <2>2, <2>3, <2>4 DEF IInv
<1> QED BY <1>7, <1>8
-----------------------------------------------------------------------------
(* The invariant holds at first and is preserved *)

LEMMA InitIInv == Init => IInv
<1> SUFFICES ASSUME Init PROVE IInv
  OBVIOUS
<1>1. /\ orig \in RunLists /\ flags \in Flags /\ runs = orig /\ idx = 1
      /\ file_offset = 0 /\ readers = << >>
  BY DEF Init
<1>2. orig \in Seq(Runs) /\ flags \in SUBSET {"compressed", "sparse"}
  BY <1>1, RunListsAssumption
<1>3. Len(orig) \in Nat /\ SumOfLengths(orig) \in Nat
      /\ \A i \in 1..Len(orig) : orig[i] \in Runs /\ orig[i].length \in Nat /\ orig[i].offset \in Int
  <2>1. \A e \in Runs : e.length \in Nat /\ e.offset \in Int
    BY DEF Runs
  <2>2. Len(orig) \in Nat /\ SumOfLengths(orig) \in Nat
    BY <1>2, <2>1, LengthsOfAll
  <2>3. \A i \in 1..Len(orig) : orig[i] \in Runs
    BY <1>2, SeqFacts
  <2> QED BY <2>1, <2>2, <2>3
<1>4. /\ sizes.actual \in Nat /\ sizes.initialized \in 0..sizes.actual
      /\ sizes.actual <= SumOfLengths(orig) * ClusterSize
  <2> DEFINE total == SumOfLengths(orig) * ClusterSize
  <2>1. total \in Nat
    BY <1>3, SizesAssumption
  <2>2. PICK a \in Slack, b \in Slack :
          /\ total - b >= a
          /\ sizes = [actual |-> total - b, initialized |-> (total - b) - a]
    BY DEF Init
  <2>3. a \in Nat /\ b \in Nat
    BY SizesAssumption
  <2>4. sizes.actual = total - b /\ sizes.initialized = (total - b) - a
    BY <2>2
  <2> HIDE DEF total
  <2>5. sizes.actual \in Nat /\ sizes.initialized \in 0..sizes.actual /\ sizes.actual <= total
    BY <2>1, <2>2, <2>3, <2>4
  <2> QED BY <2>5 DEF total
<1>5. TypeInv
  <2>1. readers \in Seq(ReaderSet) /\ \A i \in 1..Len(readers) : ReaderShape(readers[i])
    BY <1>1
  <2> QED BY <1>1, <1>2, <1>4, <2>1 DEF TypeInv
<1>6. ContiguousInv
  <2>1. Len(readers) = 0
    BY <1>1
  <2>2. SumOfLengths(readers) = 0
    BY <2>1, LengthNone DEF SumOfLengths
  <2>3. \A i \in 1..Len(readers) : FALSE
    BY <2>1
  <2> QED BY <1>1, <2>2, <2>3 DEF ContiguousInv
<1>7. RunsInv
  <2>1. \A j \in (idx + 1)..Len(orig) : runs[j] = orig[j]
    BY <1>1
  <2>2. idx <= Len(orig) => orig[idx].length \in Nat /\ orig[idx].offset \in Int
    BY <1>1, <1>3
  <2>3. idx <= Len(orig) => orig[idx].offset = orig[idx].offset + (orig[idx].length - orig[idx].length)
    BY <2>2
  <2> QED BY <1>1, <2>1, <2>2, <2>3 DEF RunsInv
<1>8. PlaceInv
  <2>1. Start(1) = 0 /\ Start(Len(orig) + 1) = SumOfLengths(orig)
    BY <1>5, StartFacts
  <2>2. idx <= Len(orig) => orig[idx].length \in Nat
    BY <1>1, <1>3
  <2>3. idx <= Len(orig) => file_offset = Start(idx) + (orig[idx].length - runs[idx].length)
    BY <1>1, <2>1, <2>2
  <2>4. idx > Len(orig) => Len(orig) = 0
    BY <1>1, <1>3
  <2>5. idx > Len(orig) => file_offset = SumOfLengths(orig)
    BY <1>1, <1>3, <2>4, LengthNone DEF SumOfLengths
  <2> QED BY <2>3, <2>5 DEF PlaceInv
<1>9. FileInv
  <2>1. WholeUnits
    <3>1. file_offset % Unit = 0
      BY <1>1, SizesAssumption
    <3>2. \A i \in 1..Len(readers) : FALSE
      BY <1>1
    <3> QED BY <3>1, <3>2 DEF WholeUnits
  <2>2. \A r \in ToSet(readers) : Agrees(r)
    BY <1>1 DEF ToSet
  <2> QED BY <1>8, <2>1, <2>2 DEF FileInv
<1> QED BY <1>5, <1>6, <1>7, <1>9 DEF IInv

LEMMA StepIInv == IInv /\ [Next]_vars => IInv'
<1> SUFFICES ASSUME IInv, [Next]_vars PROVE IInv'
  OBVIOUS
<1>1. CASE SkipEmptyRun
  BY <1>1, SkipEmptyRunStep
<1>2. CASE MapRun
  BY <1>2, MapRunStep
<1>3. CASE MapLastRun
  BY <1>3, MapLastRunStep
<1>4. CASE MapWholeUnits
  BY <1>4, MapWholeUnitsStep
<1>5. CASE GatherUnit
  BY <1>5, GatherUnitStep
<1>6. CASE UNCHANGED vars
  <2>1. TypeInv'
    BY <1>6 DEF vars, IInv, TypeInv
  <2>2. ContiguousInv'
    BY <1>6 DEF vars, IInv, ContiguousInv
  <2>3. RunsInv'
    BY <1>6 DEF vars, IInv, RunsInv
  <2>4. FileInv'
    <3>1. PlaceInv => PlaceInv'
      BY <1>6 DEF vars, PlaceInv, Start
    <3>2. UNCHANGED <<fixed, readers, file_offset>> /\ TypeInv /\ FileInv
      BY <1>6 DEF vars, fixed, IInv
    <3>3. AsDocumented => PlaceInv'
      BY <3>1, <3>2 DEF FileInv
    <3> QED BY <3>2, <3>3, FileStepSkip
  <2> QED BY <2>1, <2>2, <2>3, <2>4 DEF IInv
<1> QED BY <1>1, <1>2, <1>3, <1>4, <1>5, <1>6 DEF Next

LEMMA AlwaysIInv == Spec => []IInv
<1>1. Init => IInv
  BY InitIInv
<1>2. IInv /\ [Next]_vars => IInv'
  BY StepIInv
<1> QED BY <1>1, <1>2, PTL DEF Spec
-----------------------------------------------------------------------------
(* Bytes and clusters *)

\* Byte x comes after the start of cluster q if its cluster does.
LEMMA ByteCluster ==
  ASSUME NEW p \in Nat \ {0}, NEW x \in Nat, NEW q \in Nat
  PROVE  q * p <= x <=> q <= x \div p
<1> DEFINE c == x \div p
<1>1. c \in Nat /\ c * p <= x /\ x < (c + 1) * p
  BY InPage
<1> HIDE DEF c
<1>2. ASSUME q <= c PROVE q * p <= x
  <2>1. q * p <= c * p
    BY <1>1, <1>2, TimesMonotone
  <2>2. q * p \in Int /\ c * p \in Int
    BY <1>1
  <2> QED BY <1>1, <2>1, <2>2
<1>3. ASSUME ~ (q <= c) PROVE ~ (q * p <= x)
  <2>1. c + 1 <= q /\ c + 1 \in Int
    BY <1>1, <1>3
  <2>2. (c + 1) * p <= q * p
    BY <2>1, TimesMonotone
  <2>3. q * p \in Int /\ (c + 1) * p \in Int
    BY <1>1
  <2> QED BY <1>1, <2>2, <2>3
<1> QED BY <1>2, <1>3 DEF c

\* A place relative to the start of a cluster.
LEMMA ByteIn ==
  ASSUME NEW p \in Nat \ {0}, NEW x \in Nat, NEW q \in Nat, q <= x \div p
  PROVE  /\ x - q * p \in Nat
         /\ (x - q * p) \div p = (x \div p) - q
         /\ (x - q * p) % p = x % p
<1> DEFINE c == x \div p
           a == x - q * p
<1>1. /\ c \in Nat /\ c * p <= x /\ x < (c + 1) * p /\ (c + 1) * p = c * p + p
      /\ x % p = x - c * p
  BY InPage
<1>2. q * p <= x /\ q * p \in Nat /\ c * p \in Nat
  BY <1>1, ByteCluster
<1>3. a \in Nat
  BY <1>2
<1> HIDE DEF c
<1>4. (c - q) * p = c * p - q * p /\ c - q \in Int
  BY <1>1
<1>5. (c - q) * p <= a /\ a < (c - q) * p + p
  <2> DEFINE cp == c * p
             qp == q * p
  <2>1. cp \in Nat /\ qp \in Nat /\ cp <= x /\ x < cp + p
    BY <1>1, <1>2
  <2> HIDE DEF cp, qp
  <2>2. cp - qp <= x - qp /\ x - qp < (cp - qp) + p
    BY <2>1
  <2> QED BY <1>4, <2>2 DEF cp, qp
<1>6. a \div p = c - q
  <2> HIDE DEF a
  <2> QED BY <1>3, <1>4, <1>5, InPageUnique
<1>7. a % p = a - (a \div p) * p
  <2> HIDE DEF a
  <2> QED BY <1>3, InPage
<1>8. a % p = x % p
  <2>1. a % p = a - (c * p - q * p)
    BY <1>4, <1>6, <1>7
  <2> DEFINE cp == c * p
             qp == q * p
             m  == a % p
             k  == x % p
  <2>2. m = (x - qp) - (cp - qp) /\ k = x - cp /\ cp \in Nat /\ qp \in Nat
    BY <1>1, <1>2, <2>1
  <2> HIDE DEF cp, qp, m, k
  <2>3. m = k
    BY <2>2
  <2> QED BY <2>3 DEF m, k
<1> QED BY <1>3, <1>6, <1>8 DEF c

\* The unit of n clusters that a byte lies in.
LEMMA UnitOfByte ==
  ASSUME NEW p \in Nat \ {0}, NEW n \in Nat \ {0}, NEW x \in Nat
  PROVE  /\ n * (x \div (n * p)) = n * ((x \div p) \div n)
         /\ n * ((x \div p) \div n) \in Nat
         /\ n * ((x \div p) \div n) <= x \div p
         /\ x \div p < n * ((x \div p) \div n) + n
<1> DEFINE c == x \div p
           q == c \div n
<1>1. c \in Nat
  BY InPage
<1> HIDE DEF c
<1>2. /\ q \in Nat /\ q * n <= c /\ c < (q + 1) * n /\ (q + 1) * n = q * n + n
  BY <1>1, InPage
<1> HIDE DEF q
<1>3. n * q = q * n /\ n * q \in Nat /\ q * n \in Nat /\ q * n + n \in Nat
  BY <1>2
<1>4. (q * n) * p <= x /\ x < (q * n + n) * p
  <2>1. (q * n) * p <= x
    BY <1>2, <1>3, ByteCluster DEF c
  <2>2. ~ (q * n + n <= x \div p)
    BY <1>1, <1>2, <1>3 DEF c
  <2>3. ~ ((q * n + n) * p <= x)
    BY <1>3, <2>2, ByteCluster
  <2>4. (q * n + n) * p \in Nat
    BY <1>3
  <2> QED BY <2>1, <2>3, <2>4
<1>5. /\ n * p \in Nat \ {0} /\ q * (n * p) = (q * n) * p
      /\ q * (n * p) + n * p = (q * n + n) * p
  BY <1>2
<1>6. x \div (n * p) = q
  <2> DEFINE np == n * p
  <2>1. np \in Nat \ {0} /\ q * np <= x /\ x < q * np + np
    BY <1>4, <1>5
  <2> HIDE DEF np
  <2>2. x \div np = q
    BY <1>2, <2>1, InPageUnique
  <2> QED BY <2>2 DEF np
<1>7. n * q <= c /\ c < n * q + n
  BY <1>1, <1>2, <1>3
<1> QED BY <1>3, <1>6, <1>7 DEF q, c

\* What is mapped in whole units covers the unit of a cluster it covers.
LEMMA CoversUnit ==
  ASSUME NEW n \in Nat \ {0}, NEW a \in Nat, NEW l \in Nat, a % n = 0, l % n = 0,
         NEW c \in Nat, a <= c, c < a + l
  PROVE  a <= n * (c \div n) /\ n * (c \div n) + n <= a + l
<1>1. PICK s \in Nat : a = s * n
  BY IsMultiple
<1>2. PICK t \in Nat : l = t * n
  BY IsMultiple
<1>3. a = s * n /\ a + l = (s + t) * n /\ s + t \in Nat
  BY <1>1, <1>2
<1> DEFINE q == c \div n
<1>4. q \in Nat
  BY InPage
<1>5. s <= q /\ ~ (s + t <= q)
  <2>1. s * n <= c /\ ~ ((s + t) * n <= c)
    BY <1>3
  <2> QED BY <1>3, <2>1, ByteCluster
<1> HIDE DEF q
<1>6. s * n <= q * n /\ (q + 1) * n <= (s + t) * n
  <2>1. s <= q /\ q + 1 <= s + t /\ q + 1 \in Int
    BY <1>3, <1>4, <1>5
  <2>2. s * n <= q * n
    BY <1>4, <2>1, TimesMonotone
  <2>3. (q + 1) * n <= (s + t) * n
    BY <1>3, <2>1, TimesMonotone
  <2> QED BY <2>2, <2>3
<1>7. (q + 1) * n = q * n + n /\ n * q = q * n
  BY <1>4
<1> QED BY <1>3, <1>6, <1>7 DEF q
-----------------------------------------------------------------------------
(* Reading through the readers *)

ReaderByte(r, x) ==
  LET at == x - r.fileOffset * ClusterSize
  IN CASE r.kind = "sparse" -> Zero
       [] r.kind = "disk" ->
            Disk(r.parts[1].offset + at \div ClusterSize, at % ClusterSize)
       [] r.kind = "compressed" -> Decompressed(ClustersOf(r.parts), at)

LEMMA ReadersFacts ==
  ASSUME TypeInv
  PROVE  /\ Len(readers) \in Nat /\ DOMAIN readers = 1..Len(readers)
         /\ HasLengths(readers, Len(readers))
         /\ \A i \in 1..Len(readers) :
              /\ readers[i] \in ReaderSet /\ ReaderShape(readers[i])
              /\ readers[i].fileOffset \in Nat /\ readers[i].length \in Nat
              /\ readers[i] \in ToSet(readers)
<1>1. readers \in Seq(ReaderSet) /\ \A i \in 1..Len(readers) : ReaderShape(readers[i])
  BY DEF TypeInv
<1>2. \A e \in ReaderSet : e.fileOffset \in Nat /\ e.length \in Nat
  BY DEF ReaderSet
<1>3. /\ Len(readers) \in Nat /\ DOMAIN readers = 1..Len(readers)
      /\ \A i \in 1..Len(readers) : readers[i] \in ReaderSet
  BY <1>1, SeqFacts
<1>4. HasLengths(readers, Len(readers))
  BY <1>2, <1>3 DEF HasLengths
<1>5. \A i \in 1..Len(readers) : readers[i] \in ToSet(readers)
  BY <1>3 DEF ToSet
<1> QED BY <1>1, <1>2, <1>3, <1>4, <1>5

LEMMA SomeReader ==
  ASSUME TypeInv, ContiguousInv, NEW c \in Nat, c < file_offset
  PROVE  \E i \in 1..Len(readers) : /\ readers[i].fileOffset <= c
                                    /\ c < readers[i].fileOffset + readers[i].length
<1>1. /\ Len(readers) \in Nat /\ HasLengths(readers, Len(readers))
      /\ c < LengthOfFirst(Len(readers), readers)
  BY ReadersFacts DEF ContiguousInv, SumOfLengths
<1>2. PICK i \in 1..Len(readers) : /\ LengthOfFirst(i - 1, readers) <= c
                                   /\ c < LengthOfFirst(i - 1, readers) + readers[i].length
  BY <1>1, LiesInOne
<1>3. readers[i].fileOffset = LengthOfFirst(i - 1, readers)
  BY DEF ContiguousInv
<1> QED BY <1>2, <1>3

\* The reader that covers a byte is the only one.
LEMMA OneReader ==
  ASSUME TypeInv, ContiguousInv, NEW x \in Nat, NEW i \in 1..Len(readers),
         readers[i].fileOffset <= x \div ClusterSize,
         x \div ClusterSize < readers[i].fileOffset + readers[i].length
  PROVE  ReadRuns(x) = ReaderByte(readers[i], x)
<1> DEFINE C == ClusterSize
           c == x \div C
           covering == {j \in DOMAIN readers :
                          /\ readers[j].fileOffset * C <= x
                          /\ x < (readers[j].fileOffset + readers[j].length) * C}
<1>1. /\ Len(readers) \in Nat /\ DOMAIN readers = 1..Len(readers)
      /\ HasLengths(readers, Len(readers))
      /\ \A j \in 1..Len(readers) :
           /\ readers[j].fileOffset \in Nat /\ readers[j].length \in Nat
           /\ readers[j].fileOffset = LengthOfFirst(j - 1, readers)
  BY ReadersFacts DEF ContiguousInv
<1>2. C \in Nat \ {0} /\ c \in Nat
  BY SizesAssumption, InPage
<1>3. readers[i].fileOffset <= c /\ c < readers[i].fileOffset + readers[i].length
  OBVIOUS
<1>4. ASSUME NEW j \in 1..Len(readers)
      PROVE  j \in covering <=> /\ readers[j].fileOffset <= c
                                /\ c < readers[j].fileOffset + readers[j].length
  <2> DEFINE a == readers[j].fileOffset
             l == readers[j].length
  <2>1. a \in Nat /\ l \in Nat /\ a + l \in Nat
    BY <1>1
  <2>2. j \in covering <=> a * C <= x /\ x < (a + l) * C
    BY <1>1
  <2> HIDE DEF a, l, covering
  <2>3. (a * C <= x <=> a <= c) /\ ((a + l) * C <= x <=> a + l <= c)
    BY <1>2, <2>1, ByteCluster
  <2> HIDE DEF c
  <2>4. (a + l) * C \in Nat
    BY <1>2, <2>1
  <2>5. x < (a + l) * C <=> ~ ((a + l) * C <= x)
    <3> DEFINE e == (a + l) * C
    <3>1. e \in Nat
      BY <2>4
    <3> HIDE DEF e
    <3>2. x < e <=> ~ (e <= x)
      BY <3>1
    <3> QED BY <3>2 DEF e
  <2>6. c < a + l <=> ~ (a + l <= c)
    BY <1>2, <2>1
  <2> QED BY <2>2, <2>3, <2>5, <2>6 DEF a, l
<1> HIDE DEF c
<1>5. i \in covering
  BY <1>3, <1>4
<1>6. ASSUME NEW j \in covering PROVE j = i
  <2>1. j \in 1..Len(readers)
    BY <1>1
  <2>2. /\ readers[j].fileOffset <= c /\ c < readers[j].fileOffset + readers[j].length
    BY <1>4, <2>1
  <2>3. c \in Int
    BY <1>2
  <2>4. /\ LengthOfFirst(i - 1, readers) <= c
        /\ c < LengthOfFirst(i - 1, readers) + readers[i].length
        /\ LengthOfFirst(j - 1, readers) <= c
        /\ c < LengthOfFirst(j - 1, readers) + readers[j].length
    BY <1>1, <1>3, <2>1, <2>2
  <2> HIDE DEF covering
  <2> QED BY ZenonT(30), <1>1, <2>1, <2>3, <2>4, LiesInOnlyOne
<1>7. covering # {} /\ Min(covering) = i
  <2> HIDE DEF covering
  <2>1. covering = {i}
    BY <1>5, <1>6
  <2>2. i <= i
    OBVIOUS
  <2> QED BY <2>1, <2>2 DEF Min
<1> QED BY <1>7 DEF ReadRuns, ReaderByte

\* What a plain reader covers is real throughout, or a hole throughout.
LEMMA RealInPlain ==
  ASSUME NEW r \in ReaderSet, ReaderShape(r), r.kind # "compressed", PlainAgrees(r),
         NEW n \in Nat, NEW first \in Nat,
         r.fileOffset <= first, first + n <= r.fileOffset + r.length
  PROVE  RealIn(first, n) =
           IF r.kind = "sparse" THEN << >> ELSE [k \in 1..n |-> ClusterAt(first + k - 1)]
<1> DEFINE g == [k \in 1..n |-> IF IsHoleOfFile(orig[RunOf(first + k - 1)]) THEN << >>
                                ELSE <<ClusterAt(first + k - 1)>>]
           e == [k \in 1..n |-> ClusterAt(first + k - 1)]
           Z == Int
<1>1. r.fileOffset \in Nat /\ r.length \in Nat /\ r.parts[1].offset \in Int
  <2>1. r.fileOffset \in Nat /\ r.length \in Nat /\ r.parts \in Seq(PartSet)
    BY DEF ReaderSet
  <2>2. Len(r.parts) = 1
    BY DEF ReaderShape
  <2>3. r.parts[1] \in PartSet
    BY <2>1, <2>2
  <2> QED BY <2>1, <2>3 DEF PartSet
<1>2. ASSUME NEW k \in 1..n
      PROVE  /\ IsHoleOfFile(orig[RunOf(first + k - 1)]) <=> r.kind = "sparse"
             /\ ClusterAt(first + k - 1) \in Z
  <2>1. first + k - 1 \in r.fileOffset..(r.fileOffset + r.length - 1) /\ first + k - 1 \in Int
    BY <1>1
  <2>2. /\ HoleAt(first + k - 1) <=> r.kind = "sparse"
        /\ ClusterAt(first + k - 1) = r.parts[1].offset + ((first + k - 1) - r.fileOffset)
    BY <2>1 DEF PlainAgrees
  <2> QED BY <1>1, <2>1, <2>2 DEF HoleAt
<1>3. RealIn(first, n) = FlattenSeq(g) /\ g = [k \in 1..n |-> g[k]]
  BY DEF RealIn
<1>4. \A k \in 1..n : g[k] = IF r.kind = "sparse" THEN << >> ELSE <<e[k]>>
  BY <1>2
<1>5. e \in Seq(Z) /\ Len(e) = n
  BY <1>2
<1> HIDE DEF Z, e, g
<1>6. CASE r.kind = "sparse"
  <2> DEFINE none == << >>
  <2>1. none \in Seq(Z) /\ Len(none) = 0
    OBVIOUS
  <2>2. \A k \in 1..n : g[k] = << >> /\ ~ (k <= Len(none))
    BY <1>4, <1>6, <2>1
  <2> HIDE DEF none
  <2>3. \A k \in 1..n : g[k] = IF k <= Len(none) THEN <<none[k]>> ELSE << >>
    BY <2>2
  <2>4. Len(none) <= n
    BY <2>1
  <2>5. FlattenSeq(g) = none
    BY <1>3, <2>1, <2>3, <2>4, FlattenTo
  <2> QED BY <1>3, <1>6, <2>5 DEF none
<1>7. CASE r.kind # "sparse"
  <2>1. \A k \in 1..n : g[k] = IF k <= Len(e) THEN <<e[k]>> ELSE << >>
    BY <1>4, <1>5, <1>7
  <2>2. Len(e) <= n
    BY <1>5
  <2>3. FlattenSeq(g) = e
    BY <1>3, <1>5, <2>1, <2>2, FlattenTo
  <2> QED BY <1>3, <1>7, <2>3 DEF e
<1> QED BY <1>6, <1>7
-----------------------------------------------------------------------------
(* Every byte comes from its place *)

LEMMA InUnit ==
  ASSUME NEW a \in Nat, NEW n \in Nat, NEW c \in Nat, a <= c, c < a + n
  PROVE  (c - a) + 1 \in 1..n /\ a + ((c - a) + 1) - 1 = c
OBVIOUS

\* A plain reader reads a byte from where the runlist says, in a file that is
\* mapped in units of n clusters.
LEMMA PlainByte ==
  ASSUME NEW r \in ReaderSet, ReaderShape(r), r.kind # "compressed", PlainAgrees(r),
         NEW x \in Nat, x < sizes.initialized, sizes.initialized \in Nat,
         r.fileOffset <= x \div ClusterSize,
         NEW n \in Nat \ {0}, n = (IF IsCompressed THEN Unit ELSE 1),
         NEW first, first = n * ((x \div ClusterSize) \div n),
         r.fileOffset <= first, first + n <= r.fileOffset + r.length
  PROVE  ReaderByte(r, x) = Origin(x)
<1> DEFINE C == ClusterSize
           c == x \div C
           at == x - first * C
           at2 == x - r.fileOffset * C
           real == RealIn(first, n)
           e == [k \in 1..n |-> ClusterAt(first + k - 1)]
<1>1. C \in Nat \ {0} /\ c \in Nat
  BY SizesAssumption, InPage
<1>2. /\ first = n * (x \div (n * C)) /\ first \in Nat /\ first <= c /\ c < first + n
  <2>1. /\ n * (x \div (n * C)) = n * (c \div n) /\ n * (c \div n) \in Nat
        /\ n * (c \div n) <= c /\ c < n * (c \div n) + n
    BY Zenon, <1>1, UnitOfByte
  <2> QED BY Zenon, <2>1
<1>3. Origin(x) = IF x >= sizes.initialized \/ real = << >> THEN Zero
                  ELSE IF Len(real) = n
                  THEN Disk(real[1 + at \div C], at % C)
                  ELSE Decompressed(real, at)
  BY <1>2 DEF Origin
<1>4. r.fileOffset \in Nat /\ r.length \in Nat
  BY DEF ReaderSet
<1>5. real = IF r.kind = "sparse" THEN << >> ELSE e
  BY <1>2, RealInPlain
<1>6. at \div C = c - first /\ at % C = x % C
  BY <1>1, <1>2, ByteIn
<1>7. at2 \div C = c - r.fileOffset /\ at2 % C = x % C
  BY <1>1, <1>4, ByteIn
<1> HIDE DEF c, at, real, C
<1>8. CASE r.kind = "sparse"
  <2>1. Origin(x) = Zero
    BY <1>3, <1>5, <1>8
  <2>2. ReaderByte(r, x) = Zero
    BY <1>8 DEF ReaderByte
  <2> QED BY <2>1, <2>2
<1>9. CASE r.kind # "sparse"
  <2>1. r.kind = "disk"
    BY <1>9 DEF ReaderSet
  <2>2. (c - first) + 1 \in 1..n /\ first + ((c - first) + 1) - 1 = c
    BY <1>1, <1>2, InUnit
  <2>3. e[(c - first) + 1] = ClusterAt(c)
    <3> DEFINE k == (c - first) + 1
    <3>1. k \in 1..n /\ first + k - 1 = c
      BY <2>2
    <3> HIDE DEF k
    <3>2. e[k] = ClusterAt(first + k - 1)
      BY <3>1
    <3> QED BY <3>1, <3>2 DEF k
  <2>4. real = e /\ DOMAIN e = 1..n /\ 1 \in 1..n /\ e = [k \in 1..n |-> e[k]]
    BY <1>5, <1>9
  <2>5. Len(real) = n /\ real # << >>
    <3> HIDE DEF e
    <3>1. Len(e) = n
      BY <2>4
    <3>2. Len(<< >>) = 0
      OBVIOUS
    <3> QED BY <2>4, <3>1, <3>2
  <2> HIDE DEF e
  <2>6. ~ (x >= sizes.initialized)
    OBVIOUS
  <2>7. Origin(x) = Disk(ClusterAt(c), x % C)
    <3>1. 1 + (c - first) = (c - first) + 1
      BY <1>1, <1>2
    <3>2. real[1 + at \div C] = ClusterAt(c)
      BY <1>6, <2>3, <2>4, <3>1
    <3> QED BY <1>3, <1>6, <2>5, <2>6, <3>2
  <2>8. ClusterAt(c) = r.parts[1].offset + (c - r.fileOffset)
    <3>1. c \in r.fileOffset..(r.fileOffset + r.length - 1)
      BY <1>1, <1>2, <1>4 DEF c, C
    <3> QED BY <3>1 DEF PlainAgrees
  <2>9. ReaderByte(r, x) = Disk(r.parts[1].offset + at2 \div C, at2 % C)
    BY <2>1 DEF ReaderByte, C
  <2> HIDE DEF at2
  <2> QED BY <1>7, <2>7, <2>8, <2>9
<1> QED BY <1>8, <1>9

\* So does the reader of a compressed unit.
LEMMA UnitByte ==
  ASSUME NEW r \in ReaderSet, r.kind = "compressed", UnitAgrees(r), r.fileOffset % Unit = 0,
         NEW x \in Nat, x < sizes.initialized, sizes.initialized \in Nat,
         r.fileOffset <= x \div ClusterSize, x \div ClusterSize < r.fileOffset + r.length
  PROVE  ReaderByte(r, x) = Origin(x)
<1> DEFINE C == ClusterSize
           c == x \div C
           first == r.fileOffset
           real == RealIn(first, Unit)
           at == x - first * C
<1>1. C \in Nat \ {0} /\ Unit \in Nat \ {0} /\ c \in Nat /\ first \in Nat
  BY SizesAssumption, InPage DEF ReaderSet
<1>2. IsCompressed /\ r.length = Unit /\ ClustersOf(r.parts) = real /\ Len(real) \in 1..(Unit - 1)
  BY DEF UnitAgrees
<1>3. first = Unit * (c \div Unit)
  <2>1. PICK q \in Nat : first = q * Unit
    BY <1>1, IsMultiple
  <2>2. q * Unit <= c /\ c < q * Unit + Unit
    BY <1>1, <1>2, <2>1
  <2> HIDE DEF c
  <2>3. c \div Unit = q
    <3>1. q \in Int
      OBVIOUS
    <3> QED BY Zenon, <1>1, <2>2, <3>1, InPageUnique
  <2> QED BY <1>1, <2>1, <2>3
<1>4. first = Unit * (x \div (Unit * C))
  <2>1. Unit * (x \div (Unit * C)) = Unit * (c \div Unit)
    BY Zenon, <1>1, UnitOfByte
  <2> QED BY Zenon, <1>3, <2>1
<1>5. Origin(x) = IF x >= sizes.initialized \/ real = << >> THEN Zero
                  ELSE IF Len(real) = Unit
                  THEN Disk(real[1 + at \div C], at % C)
                  ELSE Decompressed(real, at)
  BY <1>2, <1>4 DEF Origin
<1> HIDE DEF real, at, C
<1>6. real # << >> /\ Len(real) # Unit
  <2>1. Len(<< >>) = 0
    OBVIOUS
  <2> QED BY <1>1, <1>2, <2>1
<1>7. Origin(x) = Decompressed(real, at)
  BY <1>5, <1>6
<1>8. ReaderByte(r, x) = Decompressed(ClustersOf(r.parts), at)
  BY DEF ReaderByte, at, C
<1> QED BY <1>2, <1>7, <1>8

LEMMA IInvGivesBytes == IInv => EveryByteFromItsPlace
<1> SUFFICES ASSUME IInv, Mapped, AsDocumented, NEW x \in Bytes
             PROVE  ReadStream(x) = Origin(x)
  BY DEF EveryByteFromItsPlace
<1>1. /\ TypeInv /\ ContiguousInv /\ PlaceInv /\ WholeUnits
      /\ \A r \in ToSet(readers) : Agrees(r)
  BY DEF IInv, FileInv
<1>2. /\ sizes.actual \in Nat /\ sizes.initialized \in 0..sizes.actual
      /\ sizes.actual <= SumOfLengths(orig) * ClusterSize
      /\ SumOfLengths(orig) \in Nat
  BY <1>1, StartFacts DEF TypeInv
<1>3. x \in Nat /\ x < sizes.actual /\ sizes.initialized \in Nat
  BY <1>2 DEF Bytes
<1>4. CASE ~ (x < sizes.initialized)
  <2>1. x >= sizes.initialized
    BY <1>3, <1>4
  <2> QED BY <1>3, <1>4, <2>1 DEF ReadStream, Origin
<1>5. CASE x < sizes.initialized
  <2> DEFINE C == ClusterSize
             c == x \div C
  <2>1. C \in Nat \ {0} /\ c \in Nat /\ Unit \in Nat \ {0}
    BY <1>3, SizesAssumption, InPage
  <2>2. c < file_offset
    <3>1. file_offset = SumOfLengths(orig)
      BY <1>1 DEF PlaceInv, Mapped, TypeInv
    <3>2. ~ (SumOfLengths(orig) * C <= x)
      <4> DEFINE e == SumOfLengths(orig) * C
      <4>1. e \in Nat /\ sizes.actual <= e
        BY <1>2, <2>1
      <4> HIDE DEF e
      <4>2. ~ (e <= x)
        BY <1>2, <1>3, <4>1
      <4> QED BY <4>2 DEF e
    <3>3. ~ (SumOfLengths(orig) <= c)
      BY <1>2, <1>3, <2>1, <3>2, ByteCluster
    <3> HIDE DEF c
    <3> QED BY <1>2, <2>1, <3>1, <3>3
  <2>3. PICK i \in 1..Len(readers) : /\ readers[i].fileOffset <= c
                                     /\ c < readers[i].fileOffset + readers[i].length
    BY <1>1, <2>1, <2>2, SomeReader
  <2>4. ReadStream(x) = ReaderByte(readers[i], x)
    <3>1. ReadRuns(x) = ReaderByte(readers[i], x)
      BY <1>1, <1>3, <2>3, OneReader
    <3> QED BY <1>5, <3>1 DEF ReadStream
  <2>5. PICK r : r = readers[i]
    OBVIOUS
  <2>6. /\ r \in ReaderSet /\ ReaderShape(r) /\ Agrees(r)
        /\ r.fileOffset \in Nat /\ r.length \in Nat
        /\ IsCompressed => r.fileOffset % Unit = 0 /\ r.length % Unit = 0
    <3>1. r \in ReaderSet /\ ReaderShape(r) /\ r \in ToSet(readers)
          /\ r.fileOffset \in Nat /\ r.length \in Nat
      BY <1>1, <2>5, ReadersFacts
    <3>2. IsCompressed => r.fileOffset % Unit = 0 /\ r.length % Unit = 0
      BY <1>1, <2>5 DEF WholeUnits
    <3> QED BY <1>1, <3>1, <3>2
  <2>7. r.fileOffset <= c /\ c < r.fileOffset + r.length
    BY <2>3, <2>5
  <2>8. CASE r.kind = "compressed"
    <3>1. UnitAgrees(r)
      BY <2>6, <2>8 DEF Agrees
    <3>2. r.fileOffset % Unit = 0
      BY <2>6, <3>1 DEF UnitAgrees
    <3> QED BY <1>3, <1>5, <2>4, <2>5, <2>6, <2>7, <2>8, <3>1, <3>2, UnitByte
  <2>9. CASE r.kind # "compressed"
    <3>1. PlainAgrees(r)
      BY <2>6, <2>9 DEF Agrees
    <3> DEFINE n == IF IsCompressed THEN Unit ELSE 1
               first == n * (c \div n)
    <3>2. n \in Nat \ {0} /\ r.fileOffset % n = 0 /\ r.length % n = 0
      <4>1. r.fileOffset % 1 = 0 /\ r.length % 1 = 0
        BY <2>6
      <4> QED BY <2>1, <2>6, <4>1
    <3> HIDE DEF n, c
    <3>3. r.fileOffset <= first /\ first + n <= r.fileOffset + r.length
      BY <2>1, <2>6, <2>7, <3>2, CoversUnit
    <3>4. n = (IF IsCompressed THEN Unit ELSE 1) /\ first = n * ((x \div ClusterSize) \div n)
      BY DEF n, c
    <3> HIDE DEF first
    <3>5. r.fileOffset <= x \div ClusterSize
      BY <2>7 DEF c
    <3>6. ReaderByte(r, x) = Origin(x)
      BY <1>3, <1>5, <2>6, <2>9, <3>1, <3>2, <3>3, <3>4, <3>5, PlainByte
    <3> QED BY <2>4, <2>5, <3>6
  <2> QED BY <2>8, <2>9
<1> QED BY <1>4, <1>5

\* attribute.go, consumeRuns, and joinAllVCNs of easy.go: of a runlist of a
\* documented shape, whatever its length and the sizes of units and clusters,
\* every byte of the stream is read from where the runlist says.
THEOREM BytesAreFromTheirPlace == Spec => []EveryByteFromItsPlace
BY AlwaysIInv, IInvGivesBytes, PTL
-----------------------------------------------------------------------------
(* The ranges of the runs *)

\* A range that is sparse, or in which no byte of the runs is a zero.
IsData(q) ==
  q.sparse \/ \A x \in q.offset..(End(q) - 1) : x \in Nat /\ ReadRuns(x) # Zero

DataRanges == {q \in RangeSet : IsData(q)}

\* The ranges of a reader that is not sparse are data.
LEMMA WithinIsData ==
  ASSUME TypeInv, ContiguousInv, NEW i \in 1..Len(readers)
  PROVE  Within(readers[i]) \subseteq DataRanges
<1> DEFINE C == ClusterSize
<1>1. PICK r : r = readers[i]
  OBVIOUS
<1>2. C \in Nat \ {0} /\ r \in ReaderSet /\ r.fileOffset \in Nat /\ r.length \in Nat
  BY <1>1, ReadersFacts, SizesAssumption
<1> HIDE DEF C
<1>3. ASSUME NEW q \in Within(r), ~ q.sparse, NEW x \in q.offset..(End(q) - 1)
      PROVE  x \in Nat /\ ReadRuns(x) # Zero
  <2>1. /\ q \in RangeSet /\ r.kind # "sparse"
        /\ r.fileOffset * C <= q.offset /\ End(q) <= (r.fileOffset + r.length) * C
    BY <1>3 DEF Within, C
  <2>2. q.offset \in Int /\ End(q) \in Int
    BY <2>1 DEF RangeSet, End
  <2> DEFINE a == r.fileOffset * C
             b == (r.fileOffset + r.length) * C
  <2>3. a \in Nat /\ b \in Nat /\ r.fileOffset + r.length \in Nat
    BY <1>2
  <2>4. a <= q.offset /\ End(q) <= b
    BY <2>1
  <2> HIDE DEF a, b
  <2>5. x \in Nat /\ a <= x /\ x < b /\ ~ (b <= x)
    BY <2>2, <2>3, <2>4
  <2>6. r.fileOffset <= x \div C /\ ~ (r.fileOffset + r.length <= x \div C)
    BY Zenon, <1>2, <2>3, <2>5, ByteCluster DEF a, b
  <2>7. x \div C \in Nat
    BY <1>2, <2>5, InPage
  <2>8. x \div C < r.fileOffset + r.length
    <3> DEFINE c == x \div C
    <3> HIDE DEF c
    <3>1. c \in Nat /\ ~ (r.fileOffset + r.length <= c)
      BY <2>6, <2>7 DEF c
    <3>2. c < r.fileOffset + r.length
      BY <1>2, <3>1
    <3> QED BY <3>2 DEF c
  <2>9. ReadRuns(x) = ReaderByte(r, x)
    BY Zenon, <1>1, <2>5, <2>6, <2>8, OneReader DEF C
  <2>10. ReaderByte(r, x) # Zero
    <3> DEFINE at == x - r.fileOffset * ClusterSize
    <3>1. CASE r.kind = "disk"
      <4>1. ReaderByte(r, x) = Disk(r.parts[1].offset + at \div ClusterSize, at % ClusterSize)
        BY <3>1 DEF ReaderByte
      <4> HIDE DEF at
      <4>2. ReaderByte(r, x).from = "disk"
        BY <4>1 DEF Disk
      <4> QED BY <4>2 DEF Zero
    <3>2. CASE r.kind = "compressed"
      <4>1. ReaderByte(r, x) = Decompressed(ClustersOf(r.parts), at)
        BY <3>2 DEF ReaderByte
      <4> HIDE DEF at
      <4>2. ReaderByte(r, x).from = "unit"
        BY <4>1 DEF Decompressed
      <4> QED BY <4>2 DEF Zero
    <3> QED BY <1>2, <2>1, <3>1, <3>2 DEF ReaderSet
  <2> QED BY <2>5, <2>9, <2>10
<1>4. ASSUME NEW q \in Within(r) PROVE q \in DataRanges
  <2>1. q \in RangeSet
    BY DEF Within
  <2> QED BY <1>3, <2>1 DEF DataRanges, IsData
<1> QED BY <1>1, <1>4

\* The ranges of the runs lie end to end.
LEMMA RunsChain ==
  ASSUME TypeInv, ContiguousInv
  PROVE  Chain(RangesOfRuns, DataRanges, 0, file_offset * ClusterSize)
<1> DEFINE n == Len(readers)
           C == ClusterSize
           g == [k \in DOMAIN readers |-> RangesOfReader(readers[k])]
           F(m) == FlattenSeq([k \in 1..m |-> g[k]])
           L(m) == LengthOfFirst(m, readers)
           S == {m \in Nat : m <= n => Chain(F(m), DataRanges, 0, L(m) * C)}
<1>1. /\ n \in Nat /\ DOMAIN readers = 1..n
      /\ \A k \in 1..n : readers[k] \in ReaderSet /\ ReaderShape(readers[k])
      /\ \A k \in 1..n : readers[k].fileOffset = L(k - 1)
      /\ file_offset = L(n) /\ C \in Nat
  BY ReadersFacts, SizesAssumption DEF ContiguousInv, SumOfLengths
<1>2. ASSUME NEW k \in 1..n
      PROVE  Chain(g[k], DataRanges, L(k - 1) * C, L(k) * C)
  <2>1. g[k] = RangesOfReader(readers[k])
    BY <1>1
  <2>2. Chain(RangesOfReader(readers[k]), Within(readers[k]), readers[k].fileOffset * C,
              (readers[k].fileOffset + readers[k].length) * C)
    BY <1>1, ReaderChain
  <2>3. readers[k].fileOffset = L(k - 1) /\ readers[k].fileOffset + readers[k].length = L(k)
    <3>1. k \in Nat /\ k >= 1
      BY <1>1
    <3>2. L(k) = L(k - 1) + readers[k].length
      BY <3>1, LengthThrough
    <3> HIDE DEF L
    <3> QED BY <1>1, <3>2
  <2>4. Within(readers[k]) \subseteq DataRanges
    BY WithinIsData
  <2> HIDE DEF g, L
  <2>5. Chain(g[k], Within(readers[k]), L(k - 1) * C, L(k) * C)
    BY <2>1, <2>2, <2>3
  <2> QED BY Zenon, <2>4, <2>5, ChainWider
<1> HIDE DEF g, L
<1>3. \A k \in 1..n : g[k] \in Seq(DataRanges)
  BY <1>2 DEF Chain
<1>4. 0 \in S
  <2>1. [k \in 1..0 |-> g[k]] = << >>
    OBVIOUS
  <2>2. F(0) = << >>
    BY <2>1, FlattenNone
  <2>3. L(0) * C = 0
    BY <1>1, LengthNone DEF L
  <2>4. Chain(<< >>, DataRanges, 0, 0)
    BY ChainNone
  <2> HIDE DEF F
  <2> QED BY <2>2, <2>3, <2>4
<1> HIDE DEF n
<1>5. ASSUME NEW m \in Nat, m \in S PROVE m + 1 \in S
  <2> SUFFICES ASSUME m + 1 <= n PROVE Chain(F(m + 1), DataRanges, 0, L(m + 1) * C)
    OBVIOUS
  <2>1. m + 1 \in 1..n /\ (m + 1) - 1 = m /\ m <= n /\ \A k \in 1..(m + 1) : k \in 1..n
    BY <1>1
  <2>2. F(m + 1) = F(m) \o g[m + 1]
    <3>1. \A k \in 1..(m + 1) : g[k] \in Seq(DataRanges)
      BY <1>3, <2>1
    <3> QED BY <3>1, FlattenNext
  <2>3. Chain(F(m), DataRanges, 0, L(m) * C)
    BY <1>5, <2>1
  <2>4. Chain(g[m + 1], DataRanges, L(m) * C, L(m + 1) * C)
    <3>1. Chain(g[m + 1], DataRanges, L((m + 1) - 1) * C, L(m + 1) * C)
      BY <1>2, <2>1
    <3> QED BY <2>1, <3>1
  <2> HIDE DEF F
  <2> QED BY <2>2, <2>3, <2>4, ChainConcat
<1>6. n \in S
  <2> HIDE DEF S
  <2> QED BY <1>1, <1>4, <1>5, SetInduction DEF S
<1>7. RangesOfRuns = F(n)
  <2>1. RangesOfRuns = FlattenSeq(g)
    BY DEF RangesOfRuns, g
  <2>2. g = [k \in 1..n |-> g[k]]
    BY <1>1 DEF g
  <2> QED BY <2>1, <2>2
<1>8. Chain(F(n), DataRanges, 0, L(n) * C)
  BY <1>1, <1>6
<1> HIDE DEF F
<1> QED BY <1>1, <1>7, <1>8
-----------------------------------------------------------------------------
(* The ranges of the stream *)

\* Ranges of the initialized bytes.
InitializedRanges == {q \in DataRanges : End(q) <= sizes.initialized}

\* A chain that is cut where it passes a.
LEMMA TrimmedChain ==
  ASSUME TypeInv, ContiguousInv
  PROVE  \E e \in Int : /\ e <= sizes.initialized
                        /\ Chain(TrimmedRanges, InitializedRanges, 0, e)
<1> DEFINE rs == RangesOfRuns
           init == sizes.initialized
           past == {i \in DOMAIN rs : End(rs[i]) > init}
<1>1. /\ init \in Nat
      /\ Chain(rs, DataRanges, 0, file_offset * ClusterSize)
  BY RunsChain DEF TypeInv
<1>2. /\ rs \in Seq(DataRanges) /\ Len(rs) \in Nat /\ DOMAIN rs = 1..Len(rs)
      /\ Len(rs) # 0 => rs[1].offset = 0
      /\ \A i \in 1..Len(rs) : i > 1 => rs[i].offset = End(rs[i - 1])
  <2>1. rs \in Seq(DataRanges)
    BY <1>1 DEF Chain
  <2> QED BY <1>1, <2>1 DEF Chain
<1>3. \A i \in 1..Len(rs) : /\ rs[i] \in DataRanges /\ rs[i] \in RangeSet
                            /\ rs[i].offset \in Int /\ rs[i].length \in Nat /\ End(rs[i]) \in Int
  <2>1. \A q \in DataRanges : /\ q \in RangeSet /\ q.offset \in Int /\ q.length \in Nat
                              /\ End(q) \in Int
    BY DEF DataRanges, RangeSet, End
  <2>2. \A i \in 1..Len(rs) : rs[i] \in DataRanges
    BY <1>2
  <2> HIDE DEF rs
  <2> QED BY <2>1, <2>2
<1>4. TrimmedRanges = IF past = {} THEN rs
                      ELSE [SubSeq(rs, 1, Min(past)) EXCEPT
                              ![Min(past)].length = init - rs[Min(past)].offset]
  BY DEF TrimmedRanges
<1> HIDE DEF rs, init
<1>5. CASE past = {}
  <2>1. \A i \in 1..Len(rs) : End(rs[i]) <= init
    <3>1. \A i \in 1..Len(rs) : ~ (End(rs[i]) > init)
      BY <1>2, <1>5
    <3>2. \A i \in 1..Len(rs) : End(rs[i]) \in Int
      BY <1>3
    <3> QED BY <1>1, <3>1, <3>2
  <2>2. rs \in Seq(InitializedRanges)
    <3>1. \A i \in 1..Len(rs) : rs[i] \in InitializedRanges
      BY <1>3, <2>1 DEF InitializedRanges, init
    <3>2. rs = [i \in 1..Len(rs) |-> rs[i]]
      BY <1>2, SeqFacts
    <3> QED BY <1>2, <3>1, <3>2, IsSeq
  <2> DEFINE e == IF Len(rs) = 0 THEN 0 ELSE End(rs[Len(rs)])
  <2>3. e \in Int /\ e <= init
    <3>1. Len(rs) # 0 => Len(rs) \in 1..Len(rs)
      BY <1>2
    <3> QED BY <1>1, <1>3, <2>1, <3>1
  <2>4. Chain(rs, InitializedRanges, 0, e)
    BY <1>2, <2>2 DEF Chain
  <2>5. TrimmedRanges = rs
    BY <1>4, <1>5
  <2> HIDE DEF e
  <2> QED BY <2>3, <2>4, <2>5 DEF init
<1>6. CASE past # {}
  <2>1. past \in SUBSET Nat
    BY <1>2
  <2> PICK n \in past : \A y \in past : n <= y
    BY <1>6, <2>1, LeastElement
  <2>2. n \in 1..Len(rs) /\ End(rs[n]) > init
    BY <1>2
  <2>3. Min(past) = n
    <3>1. \A x \in past : (\A y \in past : x <= y) => x = n
      BY <2>1
    <3> QED BY <3>1 DEF Min
  <2>4. \A k \in 1..(n - 1) : k \in 1..Len(rs) /\ End(rs[k]) <= init
    <3>1. \A k \in 1..(n - 1) : k \in 1..Len(rs) /\ ~ (n <= k)
      BY <1>2, <2>2
    <3>2. \A k \in 1..(n - 1) : ~ (End(rs[k]) > init)
      BY <1>2, <3>1
    <3> QED BY <1>1, <1>3, <3>1, <3>2
  <2> HIDE DEF past
  <2>5. rs[n].offset <= init
    <3>1. CASE n = 1
      BY <1>1, <1>2, <2>2, <3>1
    <3>2. CASE n # 1
      <4>1. n - 1 \in 1..(n - 1) /\ n > 1
        BY <2>2, <3>2
      <4>2. rs[n].offset = End(rs[n - 1])
        BY <1>2, <2>2, <4>1
      <4> QED BY <2>4, <4>1, <4>2
    <3> QED BY <3>1, <3>2
  <2> DEFINE q == rs[n]
             cut == [q EXCEPT !.length = init - q.offset]
             s == SubSeq(rs, 1, n)
             t == [s EXCEPT ![n] = cut]
  <2>6. q \in RangeSet /\ q \in DataRanges /\ q.offset \in Int /\ End(q) > init /\ q.offset <= init
    BY <1>3, <2>2, <2>5
  <2>7. /\ cut \in InitializedRanges /\ cut.offset = q.offset /\ End(cut) = init
    <3> HIDE DEF q
    <3>1. init - q.offset \in Nat
      BY <1>1, <2>6
    <3>2. /\ cut \in RangeSet /\ cut.offset = q.offset /\ cut.length = init - q.offset
          /\ cut.sparse = q.sparse
      BY <2>6, <3>1 DEF RangeSet
    <3>3. End(cut) = init
      <4> HIDE DEF cut
      <4>1. cut.offset + cut.length = init
        BY <1>1, <2>6, <3>2
      <4> QED BY <4>1 DEF End
    <3> HIDE DEF cut
    <3>4. IsData(cut)
      <4> SUFFICES ASSUME ~ cut.sparse, NEW x \in cut.offset..(End(cut) - 1)
                   PROVE  x \in Nat /\ ReadRuns(x) # Zero
        BY DEF IsData
      <4>1. x \in q.offset..(End(q) - 1)
        <5>1. End(q) \in Int
          BY <2>6 DEF RangeSet, End
        <5> QED BY <1>1, <2>6, <3>2, <3>3, <5>1
      <4> QED BY <2>6, <3>2, <4>1 DEF DataRanges, IsData
    <3>5. init <= init
      BY <1>1
    <3> QED BY <3>2, <3>3, <3>4, <3>5 DEF InitializedRanges, DataRanges, init
  <2>8. /\ s \in Seq(DataRanges) /\ Len(s) = n /\ n \in Nat /\ n >= 1
        /\ \A k \in 1..n : s[k] = rs[k]
    BY <1>2, <2>2, SubSeqFacts
  <2> HIDE DEF q, cut, s
  <2>9. /\ t = [k \in 1..n |-> t[k]] /\ t[n] = cut
        /\ \A k \in 1..(n - 1) : t[k] = rs[k]
    <3>1. DOMAIN s = 1..n /\ s = [k \in 1..n |-> s[k]]
      BY <2>8, SeqFacts
    <3>2. n \in 1..n /\ \A k \in 1..(n - 1) : k \in 1..n /\ k # n
      BY <2>8
    <3> QED BY <2>8, <3>1, <3>2
  <2>10. TrimmedRanges = t
    <3>1. s[n] = rs[n]
      BY <2>8
    <3>2. TrimmedRanges = [s EXCEPT ![n].length = init - rs[n].offset]
      BY <1>4, <1>6, <2>3 DEF s
    <3> QED BY <3>1, <3>2 DEF cut, q
  <2> HIDE DEF t
  <2>11. t \in Seq(InitializedRanges) /\ Len(t) = n
    <3>1. ASSUME NEW k \in 1..n PROVE t[k] \in InitializedRanges
      <4>1. CASE k = n
        BY <2>7, <2>9, <4>1
      <4>2. CASE k # n
        <5>1. k \in 1..(n - 1)
          BY <2>8, <4>2
        <5> QED BY <1>3, <2>4, <2>9, <5>1 DEF InitializedRanges, init
      <4> QED BY <4>1, <4>2
    <3> QED BY <2>8, <2>9, <3>1, IsSeq
  <2>12. \A k \in 1..n : t[k].offset = rs[k].offset
    <3>1. \A k \in 1..n : k = n \/ k \in 1..(n - 1)
      BY <2>8
    <3>2. t[n].offset = rs[n].offset
      BY <2>7, <2>9 DEF q
    <3> QED BY <2>9, <3>1, <3>2
  <2>13. Chain(t, InitializedRanges, 0, init)
    <3>1. t[1].offset = 0
      <4>1. 1 \in 1..n /\ Len(rs) # 0
        BY <1>2, <2>2, <2>8
      <4> QED BY <1>2, <2>12, <4>1
    <3>2. ASSUME NEW k \in 1..n, k > 1 PROVE t[k].offset = End(t[k - 1])
      <4>1. k - 1 \in 1..(n - 1) /\ k \in 1..Len(rs)
        BY <1>2, <2>2, <2>8, <3>2
      <4>2. rs[k].offset = End(rs[k - 1])
        BY <1>2, <3>2, <4>1
      <4> QED BY <2>9, <2>12, <4>1, <4>2
    <3>3. End(t[n]) = init /\ n # 0
      BY <2>7, <2>8, <2>9
    <3> QED BY <2>11, <3>1, <3>2, <3>3 DEF Chain
  <2>14. init \in Int /\ init <= init
    BY <1>1
  <2> QED BY <2>10, <2>13, <2>14 DEF init
<1> QED BY <1>5, <1>6

LEMMA SparseRange ==
  ASSUME NEW a \in Int, NEW b \in Int, b - a \in Nat
  PROVE  LET q == RangeOf(a, b - a, TRUE)
         IN q \in RangeSet /\ q.offset = a /\ q.sparse /\ End(q) = b
<1> DEFINE n == b - a
<1>1. n \in Nat /\ a + n = b
  OBVIOUS
<1> HIDE DEF n
<1>2. /\ RangeOf(a, n, TRUE) \in RangeSet /\ RangeOf(a, n, TRUE).offset = a
      /\ RangeOf(a, n, TRUE).sparse /\ End(RangeOf(a, n, TRUE)) = b
  BY <1>1 DEF RangeOf, RangeSet, End
<1> QED BY <1>2 DEF n

\* They are padded to the initialized size.
LEMMA PaddedChain ==
  ASSUME TypeInv, ContiguousInv
  PROVE  Chain(PaddedRanges, InitializedRanges, 0, sizes.initialized)
<1> DEFINE rs == TrimmedRanges
           init == sizes.initialized
           reached == IF rs = << >> THEN 0 ELSE End(Last(rs))
           pad == RangeOf(reached, init - reached, TRUE)
<1>1. init \in Nat
  BY DEF TypeInv
<1>2. PICK e \in Int : e <= init /\ Chain(rs, InitializedRanges, 0, e)
  BY TrimmedChain
<1>3. reached = e
  <2>1. rs \in Seq(InitializedRanges)
    BY <1>2 DEF Chain
  <2>2. rs = << >> <=> Len(rs) = 0
    BY <2>1, SeqFacts
  <2>3. IF Len(rs) = 0 THEN 0 = e ELSE End(rs[Len(rs)]) = e
    BY <1>2 DEF Chain
  <2> HIDE DEF rs
  <2> QED BY <2>2, <2>3 DEF Last
<1>4. PaddedRanges = IF reached < init THEN Append(rs, pad) ELSE rs
  BY DEF PaddedRanges
<1> HIDE DEF rs, init, reached
<1>5. CASE e < init
  <2>1. init - reached \in Nat
    BY <1>1, <1>3, <1>5
  <2>2. pad \in RangeSet /\ pad.offset = e /\ pad.sparse /\ End(pad) = init
    <3>1. reached \in Int /\ init \in Int
      BY <1>1, <1>3
    <3>2. pad \in RangeSet /\ pad.offset = reached /\ pad.sparse /\ End(pad) = init
      BY Zenon, <2>1, <3>1, SparseRange
    <3> QED BY <1>3, <3>2
  <2> HIDE DEF pad
  <2>3. pad \in InitializedRanges
    BY <1>1, <2>2 DEF InitializedRanges, DataRanges, IsData, init
  <2>4. Chain(<<pad>>, InitializedRanges, e, init)
    BY <2>2, <2>3, ChainOne
  <2>5. Chain(rs \o <<pad>>, InitializedRanges, 0, init)
    BY <1>2, <2>4, ChainConcat
  <2>6. PaddedRanges = Append(rs, pad)
    BY <1>3, <1>4, <1>5
  <2>7. Append(rs, pad) = rs \o <<pad>>
    <3>1. rs \in Seq(InitializedRanges)
      BY <1>2 DEF Chain
    <3> QED BY <2>3, <3>1
  <2> QED BY <2>5, <2>6, <2>7 DEF init
<1>6. CASE ~ (e < init)
  <2>1. e = init /\ PaddedRanges = rs
    BY <1>1, <1>2, <1>3, <1>4, <1>6
  <2> QED BY <1>2, <2>1 DEF init
<1> QED BY <1>5, <1>6

StreamRanges == {q \in RangeSet : DataIsIn(q)}

LEMMA StreamChain ==
  ASSUME TypeInv, ContiguousInv
  PROVE  Chain(Ranges, StreamRanges, 0, sizes.actual)
<1> DEFINE init == sizes.initialized
           actual == sizes.actual
           first == IF init > 0 THEN PaddedRanges ELSE << >>
           q == RangeOf(init, actual - init, TRUE)
           second == IF actual > init THEN <<q>> ELSE << >>
<1>1. init \in Nat /\ actual \in Nat /\ init <= actual
  BY DEF TypeInv
<1>2. Ranges = first \o second
  BY DEF Ranges
<1>3. InitializedRanges \subseteq StreamRanges
  <2> SUFFICES ASSUME NEW p \in InitializedRanges, ~ p.sparse,
                      NEW x \in p.offset..(End(p) - 1)
               PROVE  ReadStream(x) # Zero
    BY DEF InitializedRanges, DataRanges, StreamRanges, DataIsIn
  <2>1. p \in RangeSet /\ IsData(p) /\ End(p) <= init
    BY DEF InitializedRanges, DataRanges
  <2>2. x \in Nat /\ ReadRuns(x) # Zero
    BY <2>1 DEF IsData
  <2>3. End(p) \in Int /\ p.offset \in Int
    BY <2>1 DEF RangeSet, End
  <2>4. x < init
    BY <1>1, <2>1, <2>2, <2>3
  <2> QED BY <2>2, <2>4 DEF ReadStream
<1>4. Chain(first, StreamRanges, 0, init)
  <2>1. Chain(PaddedRanges, StreamRanges, 0, init)
    BY <1>3, PaddedChain, ChainWider
  <2>2. CASE init > 0
    BY <2>1, <2>2
  <2>3. CASE ~ (init > 0)
    <3>1. init = 0
      BY <1>1, <2>3
    <3>2. Chain(<< >>, StreamRanges, 0, 0)
      BY ChainNone
    <3>3. first = << >>
      BY <2>3
    <3> HIDE DEF first, init
    <3> QED BY <3>1, <3>2, <3>3
  <2> QED BY <2>2, <2>3
<1>5. Chain(second, StreamRanges, init, actual)
  <2> HIDE DEF init, actual
  <2>1. CASE actual > init
    <3>1. actual - init \in Nat
      BY <1>1, <2>1
    <3>2. init \in Int /\ actual \in Int
      BY <1>1
    <3>3. q \in RangeSet /\ q.offset = init /\ q.sparse /\ End(q) = actual
      BY Zenon, <3>1, <3>2, SparseRange
    <3> HIDE DEF q
    <3>4. q \in StreamRanges
      BY <3>3 DEF StreamRanges, DataIsIn
    <3>5. Chain(<<q>>, StreamRanges, init, actual)
      BY <3>3, <3>4, ChainOne
    <3> QED BY <2>1, <3>5
  <2>2. CASE ~ (actual > init)
    <3>1. actual = init
      BY <1>1, <2>2
    <3>2. Chain(<< >>, StreamRanges, init, init)
      BY ChainNone
    <3>3. second = << >>
      BY <2>2
    <3> HIDE DEF second
    <3> QED BY <3>1, <3>2, <3>3
  <2> QED BY <2>1, <2>2
<1> HIDE DEF first, second, init
<1>6. Chain(first \o second, StreamRanges, 0, actual)
  BY <1>4, <1>5, ChainConcat
<1> QED BY <1>2, <1>6

LEMMA ChainPartition ==
  ASSUME sizes.actual \in Nat, NEW rs, Chain(rs, StreamRanges, 0, sizes.actual)
  PROVE  Partition(rs) /\ \A range \in ToSet(rs) : DataIsIn(range)
<1>1. /\ rs \in Seq(StreamRanges) /\ Len(rs) \in Nat /\ DOMAIN rs = 1..Len(rs)
      /\ \A i \in 1..Len(rs) : rs[i] \in StreamRanges
      /\ Len(rs) = 0 <=> rs = << >>
  <2>1. rs \in Seq(StreamRanges)
    BY DEF Chain
  <2> QED BY <2>1, SeqFacts
<1>2. /\ IF Len(rs) = 0 THEN 0 = sizes.actual
         ELSE rs[1].offset = 0 /\ End(rs[Len(rs)]) = sizes.actual
      /\ \A i \in 1..Len(rs) : i > 1 => rs[i].offset = End(rs[i - 1])
  BY DEF Chain
<1>3. ASSUME NEW i \in 1..Len(rs)
      PROVE  /\ rs[i].length >= 0
             /\ rs[i].offset = (IF i = 1 THEN 0 ELSE End(rs[i - 1]))
  <2>1. rs[i].length \in Nat
    <3>1. rs[i] \in RangeSet
      BY <1>1 DEF StreamRanges
    <3> QED BY <3>1 DEF RangeSet
  <2>2. Len(rs) # 0 /\ (i # 1 => i > 1)
    BY <1>1
  <2> QED BY <1>2, <2>1, <2>2
<1>4. sizes.actual > 0 => rs # << >> /\ End(Last(rs)) = sizes.actual
  BY <1>1, <1>2 DEF Last
<1>5. Partition(rs)
  BY <1>1, <1>3, <1>4 DEF Partition
<1>6. \A range \in ToSet(rs) : range \in StreamRanges
  BY <1>1 DEF ToSet
<1> QED BY <1>5, <1>6 DEF StreamRanges

LEMMA IInvGivesRanges == IInv => RangesPartition
<1> SUFFICES ASSUME IInv PROVE RangesPartition
  OBVIOUS
<1>1. TypeInv /\ ContiguousInv
  BY DEF IInv
<1>2. \A i \in DOMAIN readers : readers[i].fileOffset = LengthOfFirst(i - 1, readers)
  BY <1>1, ReadersFacts DEF ContiguousInv
<1>3. Partition(Ranges) /\ \A range \in ToSet(Ranges) : DataIsIn(range)
  BY <1>1, StreamChain, ChainPartition DEF TypeInv
<1> QED BY <1>2, <1>3 DEF RangesPartition

\* attribute.go, Ranges of RangeReader and MappedReader: whatever the runlist,
\* the ranges of a stream lie end to end from 0 to its size, and what is not
\* in a sparse range is data.
THEOREM RangesArePartition == Spec => []RangesPartition
BY AlwaysIInv, IInvGivesRanges, PTL
=============================================================================
