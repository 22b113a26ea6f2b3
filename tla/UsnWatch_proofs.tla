-------------------------- MODULE UsnWatch_proofs ---------------------------
(***************************************************************************)
(* The watch of a journal and a listing of it, for every size of page and  *)
(* scan, every layout of the journal in runs of whole pages and any number *)
(* of records: no interleaving of writes, polls, receives and a cancel     *)
(* makes the consumer of a watch miss a record or get one twice.           *)
(***************************************************************************)
EXTENDS UsnWatch, Lemmas

-----------------------------------------------------------------------------
(* The inductive invariant *)

Aligned(o) == o % PageSize = 0

IsRecord(o) == \E k \in DOMAIN journal : journal[k].at = o

\* The driver fills the journal page by page: records in order, one at the
\* start of every page that has been begun.
JournalInv ==
  /\ journal \in Seq([at : Offsets, len : Lengths])
  /\ \A k \in DOMAIN journal :
       /\ Extents[1] <= journal[k].at
       /\ journal[k].at + journal[k].len <= Total
  /\ \A j, k \in DOMAIN journal :
       j < k => journal[j].at + journal[j].len <= journal[k].at
  /\ \A o \in Offsets :
       Aligned(o) /\ Extents[1] <= o /\ o < JournalEnd => IsRecord(o)

\* No page of the cache is older than the last Purge.
SeenInv ==
  /\ known \in 0..Len(journal)
  /\ DOMAIN seen \subseteq 0..PageOf(Total)
  /\ \A p \in DOMAIN seen : seen[p] \in known..Len(journal)

InEveryPage(k) == \A p \in DOMAIN seen : k <= seen[p]

\* What the parser knows of the journal: the ranges at the time it was started.
\* Of their last page only the records of that time are certain to be seen.
RangeInv(i) ==
  LET r == parser.ranges[i]
  IN /\ i \in Nat
     /\ r.offset \in Offsets /\ r.end \in Offsets /\ r.offset < r.end
     /\ Aligned(r.offset) /\ Aligned(r.end)
     /\ r.end - PageSize < JournalEnd
     /\ r.sparse => r.end <= Extents[1]
     /\ ~ r.sparse => \E k \in DOMAIN journal :
                        journal[k].at = r.offset /\ InEveryPage(k)
     /\ \A k \in DOMAIN journal :
          journal[k].at < r.end - PageSize => InEveryPage(k)
     /\ i + 1 \in DOMAIN parser.ranges => parser.ranges[i + 1].offset = r.end
     /\ i + 1 \notin DOMAIN parser.ranges =>
          \A k \in 1..known : journal[k].at < r.end

\* The record at parser.at is in the cache, or will be once its page is read.
AtRecord ==
  \E k \in DOMAIN journal :
    /\ journal[k].at = parser.at
    /\ PageOf(parser.at) \in DOMAIN seen => k <= seen[PageOf(parser.at)]

Parsers(ranges) ==
  [pc : {"closed", "range", "next", "scan", "send"}, ranges : {ranges}, i : Nat,
   at : Offsets, misread : {FALSE}, from : Offsets]

ParserInv ==
  /\ parser \in Parsers(parser.ranges)
  /\ parser.pc # "closed" => \A i \in DOMAIN parser.ranges : RangeInv(i)
  /\ parser.pc \in {"next", "scan", "send"} => parser.i \in DOMAIN parser.ranges
  /\ parser.pc \in {"next", "send"} => AtRecord
  /\ parser.pc = "scan" => \A o \in Offsets :
       JournalEnd <= o /\ o < parser.at => PageOf(o) \in DOMAIN seen

BetweenPolls == watcher.pc \in {"start", "last", "wait", "purge", "open", "sleep", "list"}

BeforeBase == watcher.pc \in {"start", "last", "wait", "reading"}

Based == watcher.pc \in {"purge", "open", "collect", "deliver", "sleep"}

Watchers ==
  [pc : {"start", "last", "wait", "reading", "purge", "open", "collect",
         "deliver", "sleep", "closed", "list", "listing"},
   start : Offsets, hand : Offsets, misread : {FALSE}, found : BOOLEAN]

WatcherInv ==
  /\ watcher \in Watchers
  /\ BetweenPolls => parser.pc = "closed"
  /\ watcher.pc \in {"last", "open", "list"} => seen = << >>
  /\ watcher.start = 0 \/ IsRecord(watcher.start)
  /\ BeforeBase => base = 0 /\ delivered = << >>
  /\ watcher.pc \in {"start", "last", "wait"} => watcher.start = 0
  /\ At("reading") => (watcher.found <=> watcher.start # 0)
  /\ Based => base > 0
  /\ watcher.pc \in {"collect", "deliver"} => parser.from <= watcher.start
  /\ Listing => base = 0 /\ watcher.start = 0 /\ parser.from = 0
  /\ At("deliver") =>
       /\ IsRecord(watcher.hand) /\ watcher.start < watcher.hand
       /\ \A k \in DOMAIN journal :
            journal[k].at < watcher.hand => journal[k].at <= watcher.start

DeliveredInv ==
  /\ delivered \in Seq([at : Offsets, misread : {FALSE}])
  /\ \A i \in DOMAIN delivered :
       /\ IsRecord(delivered[i].at)
       /\ ~ Listing => delivered[i].at <= watcher.start
  /\ ~ Listing => Increasing
  /\ base \in Offsets /\ cancelled \in BOOLEAN
  /\ base > 0 => \A k \in DOMAIN journal :
       base < journal[k].at /\ journal[k].at <= watcher.start => Got(journal[k].at)

\* The consumer has the record at o, or has it in its hand, or need not get it.
Handed(o) ==
  IF Listing THEN Got(o)
  ELSE o <= IF At("deliver") THEN watcher.hand ELSE watcher.start

\* The page of the record was cached before it was written.
Late(k) ==
  /\ PageOf(journal[k].at) \in DOMAIN seen
  /\ seen[PageOf(journal[k].at)] < k

HandedAllKnown == \A k \in 1..known : Handed(journal[k].at)

\* The parser serves the consumer, and not getLastUSN.
Following == watcher.pc \in {"collect", "deliver", "listing"}

\* The parser passes over no record that it could have seen.
ProgressInv ==
  /\ Following =>
       /\ parser.pc = "send" => \A k \in DOMAIN journal :
            journal[k].at < parser.at => Handed(journal[k].at)
       /\ parser.pc = "next" => \A k \in DOMAIN journal :
            journal[k].at <= parser.at => Handed(journal[k].at)
       /\ parser.pc = "scan" => \A k \in DOMAIN journal :
            journal[k].at < parser.at => Handed(journal[k].at) \/ Late(k)
       /\ parser.pc = "range" /\ parser.i \in DOMAIN parser.ranges =>
            \A k \in DOMAIN journal :
              journal[k].at < parser.ranges[parser.i].offset => Handed(journal[k].at)
       /\ parser.pc = "range" /\ parser.i \notin DOMAIN parser.ranges => HandedAllKnown
       /\ parser.pc = "closed" /\ ~ cancelled => HandedAllKnown
  /\ At("sleep") /\ ~ cancelled => HandedAllKnown

IInv ==
  /\ JournalInv /\ SeenInv /\ ParserInv
  /\ WatcherInv /\ DeliveredInv /\ ProgressInv

-----------------------------------------------------------------------------
(* The layout of the journal *)

\* ExtentStart is the function that its definition describes.
LEMMA ExtentStartIs ==
  ExtentStart = [i \in 1..(Len(Extents) + 1) |->
                   IF i = 1 THEN 0 ELSE ExtentStart[i - 1] + Extents[i - 1]]
<1> DEFINE Here(f, i) == IF i = 1 THEN 0 ELSE f[i - 1] + Extents[i - 1]
           S == {n \in Nat : \E f : f = [i \in 1..n |-> Here(f, i)]}
<1>1. 0 \in S
  <2>1. << >> = [i \in 1..0 |-> Here(<< >>, i)]
    OBVIOUS
  <2> QED BY <2>1
<1>2. ASSUME NEW n \in Nat, n \in S PROVE n + 1 \in S
  <2>1. PICK f : f = [i \in 1..n |-> Here(f, i)]
    BY <1>2
  <2> DEFINE g == [i \in 1..(n + 1) |-> IF i = n + 1 THEN Here(f, i) ELSE f[i]]
  <2>2. ASSUME NEW i \in 1..(n + 1) PROVE g[i] = Here(g, i)
    <3>1. CASE i = n + 1
      <4>1. i = 1 \/ (i - 1 \in 1..(n + 1) /\ i - 1 # n + 1)
        BY <3>1
      <4> QED BY <3>1, <4>1
    <3>2. CASE i # n + 1
      <4>1. i \in 1..n /\ (i = 1 \/ (i - 1 \in 1..(n + 1) /\ i - 1 # n + 1))
        BY <3>2
      <4>2. f[i] = Here(f, i)
        BY <2>1, <4>1
      <4> QED BY <3>2, <4>1, <4>2
    <3> QED BY <3>1, <3>2
  <2>3. g = [i \in 1..(n + 1) |-> Here(g, i)]
    <3> DEFINE h == [i \in 1..(n + 1) |-> Here(g, i)]
    <3>1. DOMAIN g = 1..(n + 1) /\ DOMAIN h = 1..(n + 1)
      OBVIOUS
    <3>2. \A i \in 1..(n + 1) : g[i] = h[i]
      BY <2>2
    <3>3. g = [i \in 1..(n + 1) |-> g[i]] /\ h = [i \in 1..(n + 1) |-> h[i]]
      OBVIOUS
    <3> HIDE DEF g, h
    <3> QED BY <3>2, <3>3 DEF h
  <2> HIDE DEF g, Here
  <2> QED BY <2>3
<1>3. Len(Extents) + 1 \in S
  <2> HIDE DEF S
  <2>1. S = Nat
    BY <1>1, <1>2, SetInduction DEF S
  <2> QED BY <2>1, SizesAssumption
<1> QED BY <1>3 DEF ExtentStart

\* Each run follows the one before it, begins a page and is within the file.
LEMMA Layout ==
  /\ Len(Extents) \in Nat \ {0}
  /\ ExtentStart[1] = 0 /\ ExtentStart[2] = Extents[1]
  /\ Extents[1] \in Nat \ {0} /\ Aligned(Extents[1]) /\ Extents[1] <= Total
  /\ Total \in Nat /\ Aligned(Total) /\ Total = ExtentStart[Len(Extents) + 1]
  /\ \A i \in 1..(Len(Extents) + 1) :
       /\ ExtentStart[i] \in Nat /\ Aligned(ExtentStart[i])
       /\ ExtentStart[i] <= Total
       /\ i # 1 => Extents[1] <= ExtentStart[i]
  /\ \A i \in 1..Len(Extents) : ExtentStart[i] < ExtentStart[i + 1]
<1> DEFINE n == Len(Extents)
<1>1. /\ n \in Nat /\ n # 0
      /\ \A i \in 1..n : Extents[i] \in Nat /\ Extents[i] > 0 /\ Aligned(Extents[i])
      /\ PageSize \in Nat \ {0}
  BY SizesAssumption DEF Aligned
<1>2. /\ ExtentStart[1] = 0
      /\ \A i \in 1..n : ExtentStart[i + 1] = ExtentStart[i] + Extents[i]
  <2>1. \A i \in 1..(n + 1) :
          ExtentStart[i] = IF i = 1 THEN 0 ELSE ExtentStart[i - 1] + Extents[i - 1]
    BY ExtentStartIs
  <2>2. 1 \in 1..(n + 1)
    BY <1>1
  <2>3. ASSUME NEW i \in 1..n PROVE ExtentStart[i + 1] = ExtentStart[i] + Extents[i]
    <3>1. i + 1 \in 1..(n + 1) /\ i + 1 # 1 /\ (i + 1) - 1 = i
      BY <1>1
    <3> QED BY <2>1, <3>1
  <2> QED BY <2>1, <2>2, <2>3
<1> HIDE DEF n
<1>3. ExtentStart[2] = Extents[1]
  BY <1>1, <1>2
<1>4. \A i \in 1..(n + 1) :
        /\ ExtentStart[i] \in Nat /\ Aligned(ExtentStart[i])
        /\ i # 1 => Extents[1] <= ExtentStart[i]
  <2> DEFINE Fits(i) == /\ ExtentStart[i] \in Nat /\ Aligned(ExtentStart[i])
                        /\ i # 1 => Extents[1] <= ExtentStart[i]
             S == {m \in Nat : m + 1 \in 1..(n + 1) => Fits(m + 1)}
  <2>1. 0 \in S
    BY <1>1, <1>2 DEF Aligned
  <2>2. ASSUME NEW m \in Nat, m \in S PROVE m + 1 \in S
    <3> SUFFICES ASSUME m + 2 \in 1..(n + 1) PROVE Fits(m + 2)
      OBVIOUS
    <3>1. m + 1 \in 1..n /\ Fits(m + 1)
      BY <1>1, <2>2
    <3>2. ExtentStart[m + 2] = ExtentStart[m + 1] + Extents[m + 1]
      BY <1>2, <3>1
    <3>3. Aligned(ExtentStart[m + 2])
      BY <1>1, <3>1, <3>2, MultiplesAdd DEF Aligned
    <3>4. Extents[1] <= ExtentStart[m + 2]
      <4>1. CASE m = 0
        BY <1>1, <1>2, <4>1, <3>2
      <4>2. CASE m # 0
        BY <1>1, <4>2, <3>1, <3>2
      <4> QED BY <4>1, <4>2
    <3> QED BY <1>1, <3>1, <3>2, <3>3, <3>4
  <2>3. S = Nat
    <3> HIDE DEF S
    <3> QED BY <2>1, <2>2, SetInduction DEF S
  <2>4. ASSUME NEW i \in 1..(n + 1) PROVE Fits(i)
    <3> HIDE DEF S, Fits
    <3>1. i - 1 \in Nat /\ (i - 1) + 1 = i
      BY <1>1
    <3>2. i - 1 \in S
      BY <2>3, <3>1
    <3>3. (i - 1) + 1 \in 1..(n + 1) => Fits((i - 1) + 1)
      BY <3>2 DEF S
    <3> QED BY <3>1, <3>3
  <2> QED BY <2>4
<1>5. \A i \in 1..(n + 1) : ExtentStart[i] <= ExtentStart[n + 1]
  <2> DEFINE S == {d \in Nat : d <= n => ExtentStart[n + 1 - d] <= ExtentStart[n + 1]}
  <2>1. 0 \in S
    BY <1>1, <1>4
  <2>2. ASSUME NEW d \in Nat, d \in S PROVE d + 1 \in S
    <3> SUFFICES ASSUME d + 1 <= n
                 PROVE  ExtentStart[n + 1 - (d + 1)] <= ExtentStart[n + 1]
      OBVIOUS
    <3> DEFINE i == n - d
    <3>1. i \in 1..n /\ i + 1 = n + 1 - d /\ i = n + 1 - (d + 1) /\ n + 1 \in 1..(n + 1)
      BY <1>1
    <3>2. ExtentStart[i + 1] <= ExtentStart[n + 1]
      BY <1>1, <2>2, <3>1
    <3> HIDE DEF i
    <3>3. ExtentStart[i] \in Nat /\ ExtentStart[n + 1] \in Nat /\ Extents[i] \in Nat
      BY <1>1, <1>4, <3>1
    <3> QED BY <1>2, <3>1, <3>2, <3>3
  <2>3. S = Nat
    <3> HIDE DEF S
    <3> QED BY <2>1, <2>2, SetInduction DEF S
  <2>4. ASSUME NEW i \in 1..(n + 1) PROVE ExtentStart[i] <= ExtentStart[n + 1]
    <3> HIDE DEF S
    <3>1. n + 1 - i \in Nat /\ n + 1 - (n + 1 - i) = i /\ n + 1 - i <= n
      BY <1>1
    <3>2. n + 1 - i \in S
      BY <2>3, <3>1
    <3> QED BY <3>1, <3>2 DEF S
  <2> QED BY <2>4
<1>6. \A i \in 1..n : ExtentStart[i] < ExtentStart[i + 1]
  <2> SUFFICES ASSUME NEW i \in 1..n PROVE ExtentStart[i] < ExtentStart[i + 1]
    OBVIOUS
  <2>1. ExtentStart[i] \in Nat /\ Extents[i] \in Nat /\ Extents[i] > 0
    BY <1>1, <1>4
  <2> QED BY <1>2, <2>1
<1>7. Total = ExtentStart[n + 1]
  BY DEF n, Total
<1>8. 2 \in 1..(n + 1) /\ n + 1 \in 1..(n + 1) /\ 1 \in 1..n
  BY <1>1
<1> QED BY <1>1, <1>2, <1>3, <1>4, <1>5, <1>6, <1>7, <1>8 DEF n

\* Offsets and their pages.
LEMMA Pages ==
  ASSUME NEW o \in Nat
  PROVE  /\ PageOf(o) \in Nat /\ PageEnd(o) \in Nat
         /\ o < PageEnd(o) /\ PageEnd(o) <= o + PageSize
         /\ Aligned(PageEnd(o))
         /\ Aligned(o) <=> PageEnd(o) = o + PageSize
         /\ \A b \in Nat : o < b /\ Aligned(b) => PageEnd(o) <= b
         /\ \A b \in Nat : o <= b => PageOf(o) <= PageOf(b)
<1>1. PageSize \in Nat \ {0}
  BY SizesAssumption
<1> DEFINE q == o \div PageSize
<1>2. /\ q \in Nat /\ q * PageSize <= o
      /\ (q + 1) * PageSize = q * PageSize + PageSize
      /\ o < (q + 1) * PageSize
      /\ o % PageSize = o - q * PageSize
  BY <1>1, InPage
<1>3. PageOf(o) = q /\ PageEnd(o) = (q + 1) * PageSize
  BY DEF PageOf, PageEnd
<1>4. ((q + 1) * PageSize) % PageSize = 0
  <2> HIDE DEF q
  <2> QED BY <1>1, <1>2, Multiple
<1>5. \A b \in Nat : o < b /\ Aligned(b) => PageEnd(o) <= b
  BY <1>1, <1>3, NextMultiple DEF Aligned
<1>6. \A b \in Nat : o <= b => PageOf(o) <= PageOf(b)
  BY <1>1, PageMonotone DEF PageOf
<1> HIDE DEF q
<1>7. q * PageSize \in Nat
  BY <1>1, <1>2
<1> QED BY <1>1, <1>2, <1>3, <1>4, <1>5, <1>6, <1>7 DEF Aligned

\* Offsets of the page that ends at e.
LEMMA LastPage ==
  ASSUME NEW e \in Nat, Aligned(e), NEW a \in Nat, e - PageSize <= a, a < e,
         NEW b \in Nat, e - PageSize <= b, b < e
  PROVE  PageOf(a) = PageOf(b)
BY SizesAssumption, SamePage DEF Aligned, PageOf

-----------------------------------------------------------------------------
(* The journal and its file *)

LEMMA QueueFacts ==
  ASSUME NEW R, NEW s \in Seq(R)
  PROVE  /\ Len(s) \in Nat /\ DOMAIN s = 1..Len(s)
         /\ \A k \in DOMAIN s : s[k] \in R
         /\ \A e \in R : /\ Append(s, e) \in Seq(R)
                         /\ Len(Append(s, e)) = Len(s) + 1
                         /\ DOMAIN Append(s, e) = DOMAIN s \cup {Len(s) + 1}
                         /\ \A k \in DOMAIN s : Append(s, e)[k] = s[k]
                         /\ Append(s, e)[Len(s) + 1] = e
OBVIOUS

LEMMA WiderSeq == ASSUME NEW R, NEW T, R \subseteq T, NEW s \in Seq(R) PROVE s \in Seq(T)
<1>1. /\ Len(s) \in Nat /\ s = [k \in 1..Len(s) |-> s[k]]
      /\ \A k \in 1..Len(s) : s[k] \in T
  OBVIOUS
<1> QED BY <1>1

LEMMA Constants ==
  /\ PageSize \in Nat \ {0} /\ ScanSize \in Nat \ {0}
  /\ Lengths \subseteq 1..PageSize /\ RoundLengths \subseteq Lengths
BY SizesAssumption

\* The records lie between the end of the sparse run and JournalEnd.
LEMMA JournalFacts ==
  ASSUME JournalInv
  PROVE  /\ Len(journal) \in Nat /\ DOMAIN journal = 1..Len(journal)
         /\ JournalEnd \in Nat /\ Extents[1] <= JournalEnd /\ JournalEnd <= Total
         /\ \A k \in DOMAIN journal :
              /\ journal[k] = [at |-> journal[k].at, len |-> journal[k].len]
              /\ journal[k].at \in Offsets /\ journal[k].len \in Lengths
              /\ journal[k].at \in Nat /\ journal[k].at >= Extents[1]
              /\ journal[k].at # 0
              /\ journal[k].len \in 1..PageSize
              /\ journal[k].at + journal[k].len <= JournalEnd
         /\ \A j, k \in DOMAIN journal :
              /\ journal[j].at = journal[k].at => j = k
              /\ journal[j].at < journal[k].at <=> j < k
<1>1. /\ Len(journal) \in Nat /\ DOMAIN journal = 1..Len(journal)
      /\ \A k \in DOMAIN journal : journal[k] \in [at : Offsets, len : Lengths]
      /\ Total \in Nat /\ Extents[1] \in Nat \ {0} /\ Extents[1] <= Total
  <2>1. journal \in Seq([at : Offsets, len : Lengths])
    BY DEF JournalInv
  <2> QED BY <2>1, QueueFacts, Layout
<1>2. \A k \in DOMAIN journal :
        /\ journal[k] = [at |-> journal[k].at, len |-> journal[k].len]
        /\ journal[k].at \in Offsets /\ journal[k].len \in Lengths
        /\ journal[k].at \in Nat /\ journal[k].len \in 1..PageSize
        /\ Extents[1] <= journal[k].at
        /\ journal[k].at + journal[k].len <= Total
  <2> SUFFICES ASSUME NEW k \in DOMAIN journal
               PROVE  /\ journal[k] = [at |-> journal[k].at, len |-> journal[k].len]
                      /\ journal[k].at \in Offsets /\ journal[k].len \in Lengths
                      /\ journal[k].at \in Nat /\ journal[k].len \in 1..PageSize
                      /\ Extents[1] <= journal[k].at
                      /\ journal[k].at + journal[k].len <= Total
    OBVIOUS
  <2>1. journal[k] \in [at : Offsets, len : Lengths]
    BY <1>1
  <2>2. /\ journal[k] = [at |-> journal[k].at, len |-> journal[k].len]
        /\ journal[k].at \in Offsets /\ journal[k].len \in Lengths
    BY <2>1
  <2>3. journal[k].at \in Nat /\ journal[k].len \in 1..PageSize
    <3>1. \A o \in Offsets : o \in Nat
      BY <1>1 DEF Offsets
    <3> QED BY <2>2, <3>1, Constants
  <2>4. /\ Extents[1] <= journal[k].at
        /\ journal[k].at + journal[k].len <= Total
    BY DEF JournalInv
  <2> QED BY <2>2, <2>3, <2>4
<1>3. \A j, k \in DOMAIN journal :
        j < k => journal[j].at + journal[j].len <= journal[k].at
  BY DEF JournalInv
<1>4. CASE journal = << >>
  BY <1>1, <1>4 DEF JournalEnd
<1>5. CASE journal # << >>
  <2> DEFINE n == Len(journal)
  <2>1. n \in DOMAIN journal /\ JournalEnd = journal[n].at + journal[n].len
    BY <1>1, <1>5 DEF JournalEnd
  <2>2. \A k \in DOMAIN journal : k \in Nat /\ n \in Nat /\ (k = n \/ k < n)
    BY <1>1
  <2> HIDE DEF n
  <2>3. JournalEnd \in Nat /\ Extents[1] <= JournalEnd /\ JournalEnd <= Total
    BY <1>1, <1>2, <2>1
  <2>4. ASSUME NEW k \in DOMAIN journal
        PROVE  journal[k].at + journal[k].len <= JournalEnd
    <3>1. CASE k = n
      BY <1>2, <2>1, <3>1
    <3>2. CASE k < n
      BY <1>2, <1>3, <2>1, <2>3, <3>2
    <3> QED BY <2>2, <3>1, <3>2
  <2>5. ASSUME NEW j \in DOMAIN journal, NEW k \in DOMAIN journal
        PROVE  /\ journal[j].at = journal[k].at => j = k
               /\ journal[j].at < journal[k].at <=> j < k
    <3>1. j \in Nat /\ k \in Nat
      BY <1>1
    <3>2. CASE j < k
      BY <1>2, <1>3, <3>1, <3>2
    <3>3. CASE k < j
      BY <1>2, <1>3, <3>1, <3>3
    <3> QED BY <1>2, <3>1, <3>2, <3>3
  <2> QED BY <1>1, <1>2, <2>3, <2>4, <2>5
<1> QED BY <1>4, <1>5

\* The file ends with the page that JournalEnd is in, or where it begins.
LEMMA FileFacts ==
  ASSUME JournalInv
  PROVE  /\ FileSize \in Nat /\ Aligned(FileSize)
         /\ Extents[1] <= FileSize /\ FileSize <= Total
         /\ JournalEnd <= FileSize /\ FileSize - PageSize < JournalEnd
         /\ \A o \in Nat : Aligned(o) /\ o < FileSize => o < JournalEnd
<1>1. /\ JournalEnd \in Nat /\ Extents[1] <= JournalEnd /\ JournalEnd <= Total
      /\ Extents[1] \in Nat /\ Total \in Nat /\ Aligned(Total)
      /\ PageSize \in Nat \ {0}
  BY JournalFacts, Layout, Constants
<1>2. /\ PageEnd(JournalEnd) \in Nat /\ Aligned(PageEnd(JournalEnd))
      /\ JournalEnd < PageEnd(JournalEnd)
      /\ PageEnd(JournalEnd) <= JournalEnd + PageSize
      /\ \A b \in Nat : JournalEnd < b /\ Aligned(b) => PageEnd(JournalEnd) <= b
  BY <1>1, Pages
<1>3. CASE Aligned(JournalEnd)
  <2>1. FileSize = JournalEnd
    BY <1>3 DEF FileSize, Aligned
  <2> QED BY <1>1, <1>3, <2>1
<1>4. CASE ~ Aligned(JournalEnd)
  <2>1. FileSize = PageEnd(JournalEnd)
    BY <1>4 DEF FileSize, Aligned
  <2>2. JournalEnd # Total
    BY <1>1, <1>4
  <2>3. FileSize <= Total
    BY <1>1, <1>2, <2>1, <2>2
  <2>4. FileSize - PageSize < JournalEnd
    <3>1. PageEnd(JournalEnd) # JournalEnd + PageSize
      BY <1>1, <1>4, Pages
    <3> QED BY <1>1, <1>2, <2>1, <3>1
  <2>5. ASSUME NEW o \in Nat, Aligned(o), o < FileSize PROVE o < JournalEnd
    <3>1. o # JournalEnd
      BY <1>4, <2>5
    <3> QED BY <1>1, <1>2, <2>1, <2>5, <3>1
  <2> QED BY <1>1, <1>2, <2>1, <2>3, <2>4, <2>5
<1> QED BY <1>3, <1>4

-----------------------------------------------------------------------------
(* The parser *)

\* What a read does to the cache: it brings in pages as they are.
SeenGrows ==
  /\ DOMAIN seen \subseteq DOMAIN seen' /\ DOMAIN seen' \subseteq 0..PageOf(Total)
  /\ \A p \in DOMAIN seen : seen'[p] = seen[p]
  /\ \A p \in DOMAIN seen' \ DOMAIN seen : seen'[p] = Len(journal)

LEMMA CachingGrows ==
  ASSUME SeenInv, JournalInv, NEW from \in Nat, NEW to \in Nat, from <= to, to <= Total,
         seen' = Caching(from, to)
  PROVE  /\ SeenGrows
         /\ \A o \in Nat : from <= o /\ o <= to => PageOf(o) \in DOMAIN seen'
<1>1. /\ PageOf(from) \in Nat /\ PageOf(to) \in Nat
      /\ Total \in Nat /\ PageOf(to) <= PageOf(Total) /\ PageOf(Total) \in Nat
  BY Layout, Pages
<1>2. /\ DOMAIN seen' = DOMAIN seen \cup (PageOf(from)..PageOf(to))
      /\ \A p \in DOMAIN seen' :
           seen'[p] = IF p \in DOMAIN seen THEN seen[p] ELSE Len(journal)
  BY DEF Caching
<1>3. SeenGrows
  BY <1>1, <1>2 DEF SeenGrows, SeenInv
<1>4. ASSUME NEW o \in Nat, from <= o, o <= to PROVE PageOf(o) \in DOMAIN seen'
  <2>1. PageOf(o) \in Nat /\ PageOf(from) <= PageOf(o) /\ PageOf(o) <= PageOf(to)
    BY <1>4, Pages
  <2> QED BY <1>1, <1>2, <2>1
<1> QED BY <1>3, <1>4

LEMMA SeenStays == SeenInv /\ UNCHANGED seen => SeenGrows
BY DEF SeenGrows, SeenInv

LEMMA SeenKept ==
  ASSUME SeenInv, JournalInv, SeenGrows, UNCHANGED <<journal, known>> PROVE SeenInv'
<1>1. Len(journal) \in Nat
  BY JournalFacts
<1> QED BY <1>1 DEF SeenInv, SeenGrows

LEMMA RangesKept ==
  ASSUME SeenInv, SeenGrows, JournalInv, UNCHANGED <<journal, known>>,
         parser'.ranges = parser.ranges,
         NEW i \in DOMAIN parser.ranges, RangeInv(i)
  PROVE  RangeInv(i)'
<1>1. \A k \in DOMAIN journal : InEveryPage(k) => InEveryPage(k)'
  <2>1. \A k \in DOMAIN journal : k \in Nat /\ k <= Len(journal)
    BY JournalFacts
  <2> QED BY <2>1 DEF InEveryPage, SeenGrows
<1>2. JournalEnd' = JournalEnd
  BY DEF JournalEnd
<1> HIDE DEF InEveryPage
<1> QED BY <1>1, <1>2 DEF RangeInv

\* A step of the parser is nothing to the others.
LEMMA ParserKeeps ==
  ASSUME IInv, parser.pc # "closed", parser'.from = parser.from,
         UNCHANGED <<environment, reader>>
  PROVE  JournalInv' /\ WatcherInv' /\ DeliveredInv'
<1>1. JournalEnd' = JournalEnd /\ \A o : IsRecord(o)' = IsRecord(o)
  BY DEF JournalEnd, IsRecord, environment
<1>2. JournalInv'
  BY <1>1 DEF JournalInv, IInv, environment
<1>3. WatcherInv'
  <2>1. ~ BetweenPolls
    BY DEF IInv, WatcherInv
  <2> QED BY <1>1, <2>1 DEF IInv, WatcherInv, BetweenPolls, BeforeBase, Based, At,
             Listing, environment, reader
<1>4. DeliveredInv'
  BY <1>1 DEF IInv, DeliveredInv, Listing, At, Increasing, Got, environment, reader
<1> QED BY <1>2, <1>3, <1>4

LEMMA HandedKept ==
  UNCHANGED reader =>
    /\ Following' = Following /\ At("sleep")' = At("sleep")
    /\ \A o : Handed(o)' = Handed(o)
BY DEF reader, Handed, Listing, At, Got, Following

\* A record that a parser has passed over is in the last page of its ranges.
LEMMA NotLate ==
  ASSUME SeenInv, JournalInv, NEW i \in DOMAIN parser.ranges, RangeInv(i),
         NEW k \in DOMAIN journal, Late(k)
  PROVE  /\ known < k
         /\ parser.ranges[i].end - PageSize <= journal[k].at
         /\ ~ parser.ranges[i].sparse => parser.ranges[i].offset < journal[k].at
<1>1. /\ PageOf(journal[k].at) \in DOMAIN seen
      /\ seen[PageOf(journal[k].at)] < k
      /\ seen[PageOf(journal[k].at)] \in known..Len(journal)
      /\ known \in Nat /\ k \in Nat /\ Len(journal) \in Nat
  BY JournalFacts DEF Late, SeenInv
<1>2. ~ InEveryPage(k)
  BY <1>1 DEF InEveryPage
<1>3. journal[k].at \in Nat /\ PageSize \in Nat /\ parser.ranges[i].end \in Nat
  BY JournalFacts, Constants, Layout DEF RangeInv, Offsets
<1>4. ~ (journal[k].at < parser.ranges[i].end - PageSize)
  BY <1>2 DEF RangeInv
<1>5. ASSUME ~ parser.ranges[i].sparse
      PROVE  parser.ranges[i].offset < journal[k].at
  <2>1. PICK j \in DOMAIN journal :
          journal[j].at = parser.ranges[i].offset /\ InEveryPage(j)
    BY <1>5 DEF RangeInv
  <2>2. j < k
    <3>1. j \in Nat /\ Len(journal) \in Nat
      BY JournalFacts
    <3> QED BY <1>1, <2>1, <3>1 DEF InEveryPage
  <2> QED BY <2>1, <2>2, JournalFacts
<1> QED BY <1>1, <1>3, <1>4, <1>5

\* Going on to the next range, once nothing of this one is left to find.
LEMMA NextRangeStep ==
  ASSUME IInv, parser.pc \in {"range", "next", "scan"},
         parser.i \in DOMAIN parser.ranges,
         NextRange, SeenGrows, UNCHANGED <<environment, reader>>,
         Following => \A k \in DOMAIN journal :
           journal[k].at < parser.ranges[parser.i].end => Handed(journal[k].at) \/ Late(k)
  PROVE  IInv'
<1> DEFINE i == parser.i
           rs == parser.ranges
<1>1. /\ JournalInv /\ SeenInv /\ ParserInv /\ ProgressInv
      /\ \A j \in DOMAIN rs : RangeInv(j)
      /\ UNCHANGED <<journal, known, cancelled>>
  BY DEF IInv, ParserInv, environment
<1>2. /\ parser'.pc = "range" /\ parser'.i = i + 1 /\ parser'.ranges = rs
      /\ parser'.from = parser.from /\ parser'.at = parser.at
      /\ parser'.misread = parser.misread /\ i \in Nat
  BY <1>1 DEF NextRange, ParserInv, Parsers
<1>3. JournalInv' /\ WatcherInv' /\ DeliveredInv'
  BY <1>2, ParserKeeps
<1>4. SeenInv'
  BY <1>1, SeenKept
<1>5. \A j \in DOMAIN rs : RangeInv(j)'
  BY <1>1, <1>2, RangesKept
<1>6. ParserInv'
  <2>1. parser' \in Parsers(parser'.ranges)
    <3>1. parser \in Parsers(parser.ranges)
      BY <1>1 DEF ParserInv
    <3>2. i + 1 \in Nat /\ parser' = [parser EXCEPT !.pc = "range", !.i = i + 1]
      BY <1>2 DEF NextRange
    <3> HIDE DEF i, rs
    <3> QED BY <3>1, <3>2 DEF Parsers
  <2> HIDE DEF i, rs
  <2> QED BY <1>2, <1>5, <2>1 DEF ParserInv
<1>7. ProgressInv'
  <2> SUFFICES ASSUME Following
               PROVE  IF i + 1 \in DOMAIN rs
                      THEN \A k \in DOMAIN journal :
                             journal[k].at < rs[i + 1].offset => Handed(journal[k].at)
                      ELSE HandedAllKnown
    <3>1. ~ At("sleep") \/ ~ Following
      BY DEF At, Following
    <3>2. ~ At("sleep")
      BY DEF IInv, WatcherInv, ParserInv, BetweenPolls, At
    <3> HIDE DEF i, rs
    <3> QED BY <1>1, <1>2, <3>2, HandedKept DEF ProgressInv, HandedAllKnown
  <2>1. CASE i + 1 \in DOMAIN rs
    <3> SUFFICES ASSUME NEW k \in DOMAIN journal, journal[k].at < rs[i + 1].offset, Late(k)
                 PROVE  FALSE
      BY <1>1, <2>1 DEF RangeInv
    <3>1. /\ rs[i + 1].end - PageSize <= journal[k].at
          /\ RangeInv(i + 1)
      BY <1>1, <2>1, NotLate
    <3>2. /\ rs[i + 1].offset \in Nat /\ rs[i + 1].end \in Nat
          /\ rs[i + 1].offset < rs[i + 1].end
          /\ Aligned(rs[i + 1].offset) /\ Aligned(rs[i + 1].end)
      BY <3>1, Layout DEF RangeInv, Offsets
    <3>3. PageSize \in Nat /\ rs[i + 1].offset + PageSize <= rs[i + 1].end
      <4> HIDE DEF rs
      <4>1. PageEnd(rs[i + 1].offset) = rs[i + 1].offset + PageSize
        BY <3>2, Pages
      <4>2. PageEnd(rs[i + 1].offset) <= rs[i + 1].end
        BY <3>2, Pages
      <4> QED BY <4>1, <4>2, Constants
    <3>4. journal[k].at \in Nat
      BY <1>1, JournalFacts
    <3> HIDE DEF i, rs
    <3> QED BY <3>1, <3>2, <3>3, <3>4
  <2>2. CASE i + 1 \notin DOMAIN rs
    <3>1. \A k \in 1..known : k \in DOMAIN journal /\ journal[k].at < rs[i].end /\ ~ (known < k)
      <4>1. \A k \in 1..known : journal[k].at < rs[i].end
        BY <1>1, <2>2 DEF RangeInv
      <4>2. \A k \in 1..known : k \in DOMAIN journal /\ ~ (known < k)
        BY <1>1, JournalFacts DEF SeenInv
      <4> QED BY <4>1, <4>2
    <3>2. \A k \in 1..known : ~ Late(k)
      BY <1>1, <3>1, NotLate
    <3> QED BY <2>2, <3>1, <3>2 DEF HandedAllKnown
  <2> QED BY <2>1, <2>2
<1> QED BY <1>3, <1>4, <1>6, <1>7 DEF IInv

\* Going on to a record.
LEMMA ConsiderStep ==
  ASSUME IInv, parser.pc # "closed", parser.i \in DOMAIN parser.ranges,
         NEW k \in DOMAIN journal, NEW at, at = journal[k].at,
         Consider(at, FALSE), SeenGrows, UNCHANGED <<environment, reader>>,
         PageOf(at) \in DOMAIN seen' => k <= seen'[PageOf(at)],
         Following => \A j \in DOMAIN journal :
           journal[j].at < at => Handed(journal[j].at)
  PROVE  IInv'
<1> DEFINE pc == IF at < parser.from THEN "next" ELSE "send"
<1>1. /\ JournalInv /\ SeenInv /\ ParserInv /\ WatcherInv
      /\ \A j \in DOMAIN parser.ranges : RangeInv(j)
      /\ UNCHANGED <<journal, known, cancelled>>
  BY DEF IInv, ParserInv, environment
<1>2. at \in Offsets /\ at \in Nat
  BY <1>1, JournalFacts
<1>3. /\ parser \in Parsers(parser.ranges)
      /\ parser' = [parser EXCEPT !.pc = pc, !.at = at, !.misread = FALSE]
      /\ pc \in {"next", "send"}
  BY <1>1 DEF ParserInv, Consider
<1> HIDE DEF pc
<1>4. /\ parser' \in Parsers(parser'.ranges)
      /\ parser'.pc = pc /\ parser'.i = parser.i /\ parser'.ranges = parser.ranges
      /\ parser'.from = parser.from /\ parser'.at = at /\ parser.from \in Offsets
  BY <1>2, <1>3 DEF Parsers
<1>5. JournalInv' /\ WatcherInv' /\ DeliveredInv'
  BY <1>4, ParserKeeps
<1>6. SeenInv'
  BY <1>1, SeenKept
<1>7. \A j \in DOMAIN parser.ranges : RangeInv(j)'
  BY <1>1, <1>4, RangesKept
<1>8. AtRecord'
  BY <1>1, <1>4 DEF AtRecord
<1>9. ParserInv'
  BY <1>3, <1>4, <1>7, <1>8 DEF ParserInv
<1>10. ProgressInv'
  <2>1. ~ At("sleep")
    BY DEF IInv, WatcherInv, BetweenPolls, At
  <2>2. ASSUME Following, pc = "next"
        PROVE  \A j \in DOMAIN journal : journal[j].at <= at => Handed(journal[j].at)
    <3>1. at < parser.from /\ parser.from \in Nat
      BY <1>4, <2>2, Layout DEF pc, Offsets
    <3>2. ~ Listing
      BY <1>1, <1>2, <3>1 DEF WatcherInv
    <3>3. /\ parser.from <= watcher.start /\ watcher.start \in Nat /\ watcher.hand \in Nat
          /\ At("deliver") => watcher.start < watcher.hand
      BY <1>1, <2>2, <3>2, Layout DEF WatcherInv, Following, Listing, At, Offsets, Watchers
    <3>4. ASSUME NEW o \in Nat, o <= at PROVE Handed(o)
      BY <1>2, <3>1, <3>2, <3>3, <3>4 DEF Handed
    <3> QED BY <1>1, <3>4, JournalFacts
  <2> QED BY <1>1, <1>3, <1>4, <2>1, <2>2, HandedKept DEF ProgressInv
<1> QED BY <1>5, <1>6, <1>9, <1>10 DEF IInv

\* Going on with a scan.
LEMMA ScanningStep ==
  ASSUME IInv, parser.pc # "closed", parser.i \in DOMAIN parser.ranges,
         NEW at \in Offsets, parser' = [parser EXCEPT !.pc = "scan", !.at = at],
         SeenGrows, UNCHANGED <<environment, reader>>,
         \A o \in Offsets : JournalEnd <= o /\ o < at => PageOf(o) \in DOMAIN seen',
         Following => \A j \in DOMAIN journal :
           journal[j].at < at => Handed(journal[j].at) \/ Late(j)'
  PROVE  IInv'
<1>1. /\ JournalInv /\ SeenInv /\ ParserInv
      /\ \A j \in DOMAIN parser.ranges : RangeInv(j)
      /\ UNCHANGED <<journal, known, cancelled>> /\ JournalEnd' = JournalEnd
  BY DEF IInv, ParserInv, environment, JournalEnd
<1>2. parser \in Parsers(parser.ranges)
  BY <1>1 DEF ParserInv
<1>3. /\ parser' \in Parsers(parser'.ranges)
      /\ parser'.pc = "scan" /\ parser'.i = parser.i /\ parser'.ranges = parser.ranges
      /\ parser'.from = parser.from /\ parser'.at = at
  BY <1>2 DEF Parsers
<1>4. JournalInv' /\ WatcherInv' /\ DeliveredInv'
  BY <1>3, ParserKeeps
<1>5. SeenInv'
  BY <1>1, SeenKept
<1>6. \A j \in DOMAIN parser.ranges : RangeInv(j)'
  BY <1>1, <1>3, RangesKept
<1>7. ParserInv'
  BY <1>1, <1>3, <1>6 DEF ParserInv
<1>8. ProgressInv'
  <2>1. ~ At("sleep")
    BY DEF IInv, WatcherInv, BetweenPolls, At
  <2> QED BY <1>1, <1>3, <2>1, HandedKept DEF ProgressInv
<1> QED BY <1>4, <1>5, <1>7, <1>8 DEF IInv

\* The consumer has what lies before the offset that the parser was given.
LEMMA BeforeFrom ==
  ASSUME WatcherInv, Following, parser.from \in Nat, NEW o \in Nat, o < parser.from
  PROVE  Handed(o)
<1>1. ~ Listing
  BY DEF WatcherInv
<1>2. /\ parser.from <= watcher.start /\ watcher.start \in Nat /\ watcher.hand \in Nat
      /\ At("deliver") => watcher.start < watcher.hand
  BY <1>1, Layout DEF WatcherInv, Following, Listing, At, Offsets, Watchers
<1> QED BY <1>1, <1>2 DEF Handed

LEMMA FirstOfRangeKeeps == ASSUME IInv, FirstOfRange PROVE IInv'
<1> DEFINE range == parser.ranges[parser.i]
<1>1. /\ JournalInv /\ SeenInv /\ ParserInv /\ WatcherInv /\ ProgressInv
      /\ parser.pc = "range" /\ parser.i \in DOMAIN parser.ranges
      /\ RangeInv(parser.i)
      /\ UNCHANGED <<environment, reader, seen>>
  BY DEF IInv, ParserInv, FirstOfRange
<1>2. SeenGrows
  BY <1>1, SeenStays
<1>3. parser.from \in Nat /\ range.end \in Nat
  BY <1>1, Layout DEF ParserInv, RangeInv, Offsets, Parsers
<1>4. CASE range.sparse \/ parser.from > range.end
  <2>1. NextRange
    BY <1>4 DEF FirstOfRange
  <2>2. ASSUME Following, NEW k \in DOMAIN journal, journal[k].at < range.end
        PROVE  Handed(journal[k].at)
    <3>1. journal[k].at \in Nat /\ Extents[1] \in Nat /\ Extents[1] <= journal[k].at
      BY <1>1, Layout, JournalFacts
    <3>2. ~ range.sparse
      <4>1. range.sparse => range.end <= Extents[1]
        BY <1>1 DEF RangeInv
      <4> HIDE DEF range
      <4> QED BY <1>3, <2>2, <3>1, <4>1
    <3>3. journal[k].at < parser.from
      <4> HIDE DEF range
      <4> QED BY <1>3, <1>4, <2>2, <3>1, <3>2
    <3> QED BY <1>1, <1>3, <2>2, <3>1, <3>3, BeforeFrom
  <2> QED BY <1>1, <1>2, <2>1, <2>2, NextRangeStep
<1>5. CASE ~ (range.sparse \/ parser.from > range.end)
  <2>1. Consider(range.offset, FALSE)
    BY <1>5 DEF FirstOfRange
  <2>2. PICK k \in DOMAIN journal : journal[k].at = range.offset /\ InEveryPage(k)
    BY <1>1, <1>5 DEF RangeInv
  <2>3. PageOf(range.offset) \in DOMAIN seen' => k <= seen'[PageOf(range.offset)]
    BY <1>1, <2>2 DEF InEveryPage
  <2>4. Following => \A j \in DOMAIN journal :
          journal[j].at < range.offset => Handed(journal[j].at)
    BY <1>1 DEF ProgressInv
  <2> HIDE DEF range
  <2> QED BY <1>1, <1>2, <2>1, <2>2, <2>3, <2>4, ConsiderStep
<1> QED BY <1>4, <1>5

LEMMA VisibleIs ==
  ASSUME NEW c, NEW r
  PROVE  r \in Visible(c) <=>
           \E k \in 1..Len(journal) :
             /\ r = journal[k] /\ PageOf(journal[k].at) \in DOMAIN c
             /\ k <= c[PageOf(journal[k].at)]
BY DEF Visible

LEMMA AdvanceKeeps == ASSUME IInv, Advance PROVE IInv'
<1>1. /\ JournalInv /\ SeenInv /\ ParserInv /\ WatcherInv /\ ProgressInv
      /\ parser.pc = "next" /\ parser.i \in DOMAIN parser.ranges
      /\ parser.misread = FALSE /\ parser.at \in Offsets /\ AtRecord
      /\ UNCHANGED <<environment, reader>>
  BY DEF IInv, ParserInv, Advance, Parsers
<1>2. PICK k \in DOMAIN journal :
        /\ journal[k].at = parser.at
        /\ PageOf(parser.at) \in DOMAIN seen => k <= seen[PageOf(parser.at)]
  BY <1>1 DEF AtRecord
<1>3. /\ Len(journal) \in Nat /\ DOMAIN journal = 1..Len(journal)
      /\ JournalEnd \in Nat /\ JournalEnd <= Total /\ Total \in Nat
      /\ journal[k].at \in Nat /\ journal[k].len \in Nat /\ journal[k].len > 0
      /\ journal[k].at + journal[k].len <= JournalEnd
      /\ PageOf(parser.at) \in Nat
  <2>1. journal[k].len \in 1..PageSize /\ PageSize \in Nat
    BY <1>1, JournalFacts, Constants
  <2>2. /\ Len(journal) \in Nat /\ DOMAIN journal = 1..Len(journal)
        /\ JournalEnd \in Nat /\ JournalEnd <= Total
        /\ journal[k].at \in Nat
        /\ journal[k].at + journal[k].len <= JournalEnd
    BY <1>1, JournalFacts
  <2>3. PageOf(parser.at) \in Nat
    BY <1>2, <2>2, Pages
  <2> QED BY <2>1, <2>2, <2>3, Layout
<1> DEFINE c1 == Caching(parser.at, parser.at)
           here == {r \in Visible(c1) : r.at = parser.at /\ ~ parser.misread}
           length == IF here = {} THEN 0 ELSE (CHOOSE r \in here : TRUE).len
           after == parser.at + length
           cache == Caching(parser.at, after)
<1>4. here = {journal[k]}
  <2>1. /\ PageOf(parser.at) \in DOMAIN c1
        /\ c1[PageOf(parser.at)] = IF PageOf(parser.at) \in DOMAIN seen
                                   THEN seen[PageOf(parser.at)] ELSE Len(journal)
    BY <1>3 DEF Caching
  <2>2. journal[k] \in Visible(c1)
    <3> HIDE DEF c1
    <3> QED BY <1>2, <1>3, <2>1, VisibleIs
  <2>3. ASSUME NEW r \in Visible(c1), r.at = parser.at PROVE r = journal[k]
    <3>1. PICK j \in DOMAIN journal : r = journal[j]
      <4> HIDE DEF c1
      <4> QED BY <1>3, VisibleIs
    <3> QED BY <1>1, <1>2, <2>3, <3>1, JournalFacts
  <2> HIDE DEF c1
  <2> QED BY <1>1, <1>2, <2>2, <2>3
<1>5. length = journal[k].len
  <2> HIDE DEF here
  <2> QED BY <1>4
<1>6. /\ after \in Nat /\ after \in Offsets /\ after <= JournalEnd /\ after <= Total
      /\ parser.at <= after /\ length > 0 /\ parser.at \in Nat
  <2> HIDE DEF length
  <2> QED BY <1>2, <1>3, <1>5 DEF Offsets
<1>7. /\ seen' = cache
      /\ IF IsRecordAt(after, cache)
         THEN Consider(after, FALSE)
         ELSE parser' = [parser EXCEPT !.pc = "scan", !.at = after]
  <2>1. parser.misread = FALSE /\ length > 0
    BY <1>1, <1>6
  <2> QED BY <2>1, Zenon DEF Advance
<1>8. ASSUME Following, NEW j \in DOMAIN journal, journal[j].at < after
      PROVE  Handed(journal[j].at)
  <2>1. journal[j].at <= parser.at
    <3> SUFFICES ASSUME parser.at < journal[j].at PROVE FALSE
      BY <1>1, <1>6, JournalFacts
    <3>1. k < j
      BY <1>1, <1>2, JournalFacts
    <3>2. journal[k].at + journal[k].len <= journal[j].at
      BY <1>1, <3>1 DEF JournalInv
    <3>3. journal[j].at \in Nat
      BY <1>1, JournalFacts
    <3> HIDE DEF length
    <3> QED BY <1>2, <1>3, <1>5, <1>8, <3>2, <3>3
  <2> QED BY <1>1, <1>8, <2>1 DEF ProgressInv
<1> HIDE DEF length, cache
<1>9. SeenGrows
  BY <1>1, <1>6, <1>7, CachingGrows DEF cache
<1> HIDE DEF after
<1>10. CASE IsRecordAt(after, cache)
  <2>1. Consider(after, FALSE)
    BY <1>7, <1>10
  <2>2. PICK r \in Visible(cache) : r.at = after
    BY <1>10 DEF IsRecordAt
  <2>3. PICK j \in DOMAIN journal :
          /\ r = journal[j] /\ PageOf(journal[j].at) \in DOMAIN cache
          /\ j <= cache[PageOf(journal[j].at)]
    BY <1>3, VisibleIs
  <2> QED BY <1>1, <1>7, <1>8, <1>9, <2>1, <2>2, <2>3, ConsiderStep
<1>11. CASE ~ IsRecordAt(after, cache)
  <2>1. parser' = [parser EXCEPT !.pc = "scan", !.at = after]
    BY <1>7, <1>11
  <2>2. \A o \in Offsets : ~ (JournalEnd <= o /\ o < after)
    BY <1>3, <1>6 DEF Offsets
  <2> QED BY <1>1, <1>6, <1>8, <1>9, <2>1, <2>2, ScanningStep
<1> QED BY <1>10, <1>11

\* One read of the scan passes over no record that is in its pages, and finds
\* the first one.
LEMMA ScanKeeps ==
  ASSUME IInv, RoundLengths = {}, Scan PROVE IInv'
<1> DEFINE range == parser.ranges[parser.i]
           cache == Caching(parser.at, ScanStop - 1)
           found == {r \in Visible(cache) : r.at \in parser.at..(ScanStop - 1)}
           first == CHOOSE r \in found : \A x \in found : r.at <= x.at
<1>1. /\ JournalInv /\ SeenInv /\ ParserInv /\ WatcherInv /\ ProgressInv
      /\ parser.pc = "scan" /\ parser.i \in DOMAIN parser.ranges
      /\ RangeInv(parser.i) /\ parser.at \in Offsets
      /\ UNCHANGED <<environment, reader>>
  BY DEF IInv, ParserInv, Scan, Parsers
<1>2. /\ Total \in Nat /\ ScanSize \in Nat \ {0} /\ parser.at \in Nat
      /\ range.end \in Nat /\ range.end <= Total /\ Aligned(range.end)
  BY <1>1, Layout, Constants DEF RangeInv, Offsets
<1>3. CASE parser.at >= range.end
  <2>1. NextRange /\ UNCHANGED seen
    BY <1>3 DEF Scan
  <2>2. Following => \A k \in DOMAIN journal :
          journal[k].at < range.end => Handed(journal[k].at) \/ Late(k)
    <3>1. \A k \in DOMAIN journal : journal[k].at \in Nat
      BY <1>1, JournalFacts
    <3>2. Following => \A k \in DOMAIN journal :
            journal[k].at < parser.at => Handed(journal[k].at) \/ Late(k)
      BY <1>1 DEF ProgressInv
    <3> HIDE DEF range
    <3> QED BY <1>2, <1>3, <3>1, <3>2
  <2> QED BY <1>1, <2>1, <2>2, SeenStays, NextRangeStep
<1>4. CASE ~ (parser.at >= range.end)
  <2>1. /\ ScanStop \in Nat /\ parser.at < ScanStop /\ ScanStop <= range.end
        /\ ScanStop - 1 \in Nat /\ parser.at <= ScanStop - 1 /\ ScanStop - 1 <= Total
    <3>1. ScanStop = IF parser.at + ScanSize < range.end THEN parser.at + ScanSize
                     ELSE range.end
      BY DEF ScanStop
    <3> HIDE DEF range
    <3> QED BY <1>2, <1>4, <3>1
  <2>2. /\ seen' = cache
        /\ IF found # {} THEN Consider(first.at, first.len \in RoundLengths)
           ELSE ScanFurther(ScanStop)
    BY <1>4, Zenon DEF Scan
  <2>3. /\ SeenGrows
        /\ \A o \in Nat : parser.at <= o /\ o <= ScanStop - 1 =>
             PageOf(o) \in DOMAIN seen'
    BY <1>1, <1>2, <2>1, <2>2, CachingGrows
  <2>4. RangeInv(parser.i)' /\ SeenInv'
    <3>1. parser'.ranges = parser.ranges /\ parser'.i = parser.i
      BY <1>1, <2>2 DEF ParserInv, Consider, ScanFurther, Parsers
    <3>2. UNCHANGED <<journal, known>>
      BY <1>1 DEF environment
    <3> QED BY <1>1, <2>3, <3>1, <3>2, RangesKept, SeenKept
  <2>5. \A k \in DOMAIN journal : k \in 1..Len(journal) /\ journal[k].at \in Nat
    BY <1>1, JournalFacts
  <2> HIDE DEF cache, range
  <2>6. ASSUME NEW r
        PROVE  r \in found <=>
                 \E k \in DOMAIN journal :
                   /\ r = journal[k]
                   /\ parser.at <= journal[k].at /\ journal[k].at < ScanStop
                   /\ PageOf(journal[k].at) \in DOMAIN cache
                   /\ k <= cache[PageOf(journal[k].at)]
    <3>1. DOMAIN journal = 1..Len(journal)
      BY <1>1, JournalFacts
    <3>2. r \in Visible(cache) <=>
            \E k \in DOMAIN journal :
              /\ r = journal[k] /\ PageOf(journal[k].at) \in DOMAIN cache
              /\ k <= cache[PageOf(journal[k].at)]
      BY <3>1, VisibleIs
    <3> QED BY <1>2, <2>1, <2>5, <3>2
  <2>7. ASSUME Following, NEW k \in DOMAIN journal, journal[k].at < ScanStop,
               ~ (journal[k] \in found)
        PROVE  Handed(journal[k].at) \/ Late(k)'
    <3>1. UNCHANGED journal
      BY <1>1 DEF environment
    <3>2. CASE journal[k].at < parser.at
      <4>1. Handed(journal[k].at) \/ Late(k)
        BY <1>1, <2>7, <3>2 DEF ProgressInv
      <4>2. Late(k) => Late(k)'
        BY <2>3, <3>1 DEF Late, SeenGrows
      <4> QED BY <4>1, <4>2
    <3>3. CASE ~ (journal[k].at < parser.at)
      <4>1. parser.at <= journal[k].at /\ journal[k].at <= ScanStop - 1
        BY <1>2, <2>1, <2>5, <2>7, <3>3
      <4>2. PageOf(journal[k].at) \in DOMAIN seen'
        BY <2>3, <2>5, <4>1
      <4>3. ~ (k <= seen'[PageOf(journal[k].at)])
        BY <2>2, <2>6, <2>7, <4>1, <4>2
      <4>4. seen'[PageOf(journal[k].at)] \in Nat /\ k \in Nat
        <5>1. known' \in Nat /\ seen'[PageOf(journal[k].at)] \in known'..Len(journal)'
          BY <2>4, <4>2 DEF SeenInv
        <5> QED BY <2>5, <5>1
      <4> QED BY <3>1, <4>2, <4>3, <4>4 DEF Late
    <3> QED BY <3>2, <3>3
  <2>8. CASE found = {}
    <3>1. parser' = [parser EXCEPT !.pc = "scan", !.at = ScanStop]
      <4>1. parser' = [parser EXCEPT !.at = ScanStop]
        BY <2>2, <2>8 DEF ScanFurther
      <4>2. parser = [parser EXCEPT !.pc = "scan"]
        BY <1>1 DEF ParserInv, Parsers
      <4> QED BY <1>1, <4>1, <4>2 DEF ParserInv
    <3>2. ScanStop \in Offsets
      BY <1>2, <2>1 DEF Offsets
    <3>3. \A o \in Offsets : JournalEnd <= o /\ o < ScanStop => PageOf(o) \in DOMAIN seen'
      <4> SUFFICES ASSUME NEW o \in Offsets, JournalEnd <= o, o < ScanStop
                   PROVE  PageOf(o) \in DOMAIN seen'
        OBVIOUS
      <4>1. o \in Nat
        BY <1>2 DEF Offsets
      <4>2. CASE o < parser.at
        BY <1>1, <2>3, <4>2 DEF ParserInv, SeenGrows
      <4>3. CASE ~ (o < parser.at)
        BY <1>2, <2>1, <2>3, <4>1, <4>3
      <4> QED BY <4>2, <4>3
    <3> QED BY <1>1, <2>3, <2>7, <2>8, <3>1, <3>2, <3>3, ScanningStep
  <2>9. CASE found # {}
    <3>1. first \in found /\ \A x \in found : first.at <= x.at
      <4> DEFINE Ats == {a \in Nat : \E r \in found : a = r.at}
      <4>1. \A r \in found : r.at \in Nat
        BY <2>5, <2>6
      <4> HIDE DEF found
      <4>2. Ats \in SUBSET Nat /\ Ats # {}
        <5>1. PICK r \in found : TRUE
          BY <2>9
        <5>2. r.at \in Ats
          BY <4>1, <5>1
        <5> QED BY <5>2
      <4>3. PICK a \in Ats : \A b \in Ats : a <= b
        <5> HIDE DEF Ats
        <5> QED BY <4>2, LeastElement
      <4>4. PICK r \in found : a = r.at
        BY <4>3
      <4>5. \A x \in found : r.at <= x.at
        BY <4>1, <4>3, <4>4
      <4> QED BY <4>5
    <3> HIDE DEF first
    <3>2. PICK k \in DOMAIN journal :
            /\ first = journal[k]
            /\ parser.at <= journal[k].at /\ journal[k].at < ScanStop
            /\ PageOf(journal[k].at) \in DOMAIN cache
            /\ k <= cache[PageOf(journal[k].at)]
      BY <2>6, <3>1
    <3>3. Consider(first.at, FALSE)
      <4>1. (first.len \in RoundLengths) = FALSE
        OBVIOUS
      <4> HIDE DEF found
      <4> QED BY <2>2, <2>9, <4>1, Zenon
    <3>4. ASSUME Following, NEW j \in DOMAIN journal, journal[j].at < first.at
          PROVE  Handed(journal[j].at)
      <4>1. journal[j].at < ScanStop /\ ~ (journal[j] \in found)
        <5> HIDE DEF found
        <5> QED BY <2>1, <2>5, <3>1, <3>2, <3>4
      <4> SUFFICES ASSUME Late(j)' PROVE FALSE
        BY <2>7, <3>4, <4>1
      <4>2. UNCHANGED journal /\ j < k
        BY <1>1, <3>2, <3>4, JournalFacts DEF environment
      <4>3. /\ PageOf(journal[j].at) \in DOMAIN seen'
            /\ seen'[PageOf(journal[j].at)] < j
        BY <4>2 DEF Late
      <4>4. seen'[PageOf(journal[j].at)] \in Nat /\ j \in Nat /\ k \in Nat
        <5>1. known' \in Nat /\ seen'[PageOf(journal[j].at)] \in known'..Len(journal)'
          BY <2>4, <4>3 DEF SeenInv
        <5> QED BY <2>5, <5>1
      <4>5. ~ InEveryPage(j)'
        BY <4>3, <4>4 DEF InEveryPage
      <4>6. ~ (journal[j].at < range.end - PageSize)
        <5>1. parser'.ranges = parser.ranges /\ parser'.i = parser.i
          BY <1>1, <3>3 DEF ParserInv, Consider
        <5>2. \A m \in DOMAIN journal :
                journal[m].at < range.end - PageSize => InEveryPage(m)'
          BY <2>4, <4>2, <5>1 DEF RangeInv, range
        <5> QED BY <4>5, <5>2
      <4>7. /\ range.end - PageSize <= journal[j].at /\ journal[j].at < range.end
            /\ range.end - PageSize <= journal[k].at /\ journal[k].at < range.end
        <5>1. /\ journal[j].at \in Nat /\ journal[k].at \in Nat
              /\ range.end \in Nat /\ PageSize \in Nat
          BY <1>2, <2>5, Constants
        <5>2. journal[j].at < journal[k].at /\ journal[k].at < range.end
          BY <2>1, <3>2, <3>4, <5>1
        <5> HIDE DEF range
        <5> QED BY <4>6, <5>1, <5>2
      <4>8. PageOf(journal[j].at) = PageOf(journal[k].at)
        BY <1>2, <2>5, <4>7, LastPage
      <4> QED BY <2>2, <3>2, <4>2, <4>3, <4>4, <4>8
    <3>5. PageOf(first.at) \in DOMAIN seen' => k <= seen'[PageOf(first.at)]
      BY <2>2, <3>2
    <3> HIDE DEF found
    <3> QED BY <1>1, <2>3, <3>2, <3>3, <3>4, <3>5, ConsiderStep
  <2> QED BY <2>8, <2>9
<1> QED BY <1>3, <1>4

\* The parser ends.
LEMMA ClosedStep ==
  ASSUME IInv, parser.pc # "closed", parser' = [parser EXCEPT !.pc = "closed"],
         UNCHANGED <<environment, reader, seen>>,
         Following /\ ~ cancelled => HandedAllKnown
  PROVE  IInv'
<1>1. /\ JournalInv /\ SeenInv /\ ParserInv /\ UNCHANGED <<journal, known, cancelled>>
  BY DEF IInv, environment
<1>2. /\ parser' \in Parsers(parser'.ranges)
      /\ parser'.pc = "closed" /\ parser'.from = parser.from
  BY <1>1 DEF ParserInv, Parsers
<1>3. JournalInv' /\ WatcherInv' /\ DeliveredInv'
  BY <1>2, ParserKeeps
<1>4. SeenInv' /\ ParserInv'
  BY <1>1, <1>2, SeenStays, SeenKept DEF ParserInv
<1>5. ProgressInv'
  <2>1. ~ At("sleep")
    BY DEF IInv, WatcherInv, BetweenPolls, At
  <2> QED BY <1>1, <1>2, <2>1, HandedKept DEF ProgressInv, HandedAllKnown
<1> QED BY <1>3, <1>4, <1>5 DEF IInv

LEMMA NoMoreRangesKeeps == ASSUME IInv, NoMoreRanges PROVE IInv'
<1>1. Following => HandedAllKnown
  BY DEF IInv, ProgressInv, NoMoreRanges
<1> QED BY <1>1, ClosedStep DEF NoMoreRanges

LEMMA ParserCancelledKeeps == ASSUME IInv, ParserCancelled PROVE IInv'
BY ClosedStep DEF ParserCancelled

-----------------------------------------------------------------------------
(* The watcher *)

LEMMA JournalStays ==
  ASSUME UNCHANGED journal
  PROVE  /\ JournalEnd' = JournalEnd /\ \A o : IsRecord(o)' = IsRecord(o)
         /\ JournalInv => JournalInv'
<1>1. JournalEnd' = JournalEnd /\ \A o : IsRecord(o)' = IsRecord(o)
  BY DEF JournalEnd, IsRecord
<1> QED BY <1>1 DEF JournalInv

LEMMA ParserStays ==
  ASSUME SeenInv, JournalInv, ParserInv, UNCHANGED <<journal, seen, known, parser>>
  PROVE  ParserInv' /\ SeenInv'
<1>1. SeenGrows
  BY SeenStays
<1>2. parser.pc # "closed" => \A i \in DOMAIN parser.ranges : RangeInv(i)'
  BY <1>1, RangesKept DEF ParserInv
<1>3. JournalEnd' = JournalEnd
  BY JournalStays
<1>4. ParserInv'
  BY <1>2, <1>3 DEF ParserInv, AtRecord
<1> QED BY <1>1, <1>4, SeenKept

\* The record that was offered has been taken.
LEMMA SentStep ==
  ASSUME SeenInv, JournalInv, ParserInv, parser.pc = "send", Sent,
         UNCHANGED <<journal, seen, known>>
  PROVE  /\ ParserInv' /\ SeenInv'
         /\ parser'.pc = "next" /\ parser'.at = parser.at
         /\ parser'.from = parser.from /\ parser'.i = parser.i
         /\ parser.misread = FALSE /\ parser.at \in Offsets
         /\ IsRecord(parser.at)
<1>1. /\ parser \in Parsers(parser.ranges)
      /\ parser' = [parser EXCEPT !.pc = "next"]
  BY DEF ParserInv, Sent
<1>2. /\ parser' \in Parsers(parser'.ranges)
      /\ parser'.pc = "next" /\ parser'.at = parser.at
      /\ parser'.from = parser.from /\ parser'.i = parser.i
      /\ parser'.ranges = parser.ranges
      /\ parser.misread = FALSE /\ parser.at \in Offsets
  BY <1>1 DEF Parsers
<1>3. SeenGrows
  BY SeenStays
<1>4. \A i \in DOMAIN parser.ranges : RangeInv(i)'
  BY <1>2, <1>3, RangesKept DEF ParserInv
<1>5. ParserInv'
  BY <1>2, <1>4 DEF ParserInv, AtRecord
<1>6. IsRecord(parser.at)
  BY DEF ParserInv, AtRecord, IsRecord
<1> QED BY <1>2, <1>3, <1>5, <1>6, SeenKept

\* The ranges of a runlist that ends with the file: the runs that it holds.
LEMMA RangesFacts ==
  ASSUME JournalInv, ~ Preallocated
  PROVE  /\ 1 \in DOMAIN Ranges
         /\ \A i \in DOMAIN Ranges :
              LET r == Ranges[i]
              IN /\ i \in Nat /\ i \in 1..Len(Extents)
                 /\ r.offset = ExtentStart[i] /\ r.offset \in Offsets
                 /\ r.end \in Offsets /\ r.offset < r.end /\ r.end <= FileSize
                 /\ Aligned(r.offset) /\ Aligned(r.end)
                 /\ r.sparse = (i = 1)
                 /\ r.sparse => r.end <= Extents[1]
                 /\ ~ r.sparse => Extents[1] <= r.offset /\ r.offset < JournalEnd
                 /\ i + 1 \in DOMAIN Ranges => Ranges[i + 1].offset = r.end
                 /\ i + 1 \notin DOMAIN Ranges => r.end = FileSize
<1> DEFINE n == Len(Extents)
           End(i) == ExtentStart[i + 1]
           D == {i \in Runs : \A j \in Runs : j < i => End(j) <= FileSize}
<1>1. /\ n \in Nat \ {0} /\ Total \in Nat
      /\ ExtentStart[1] = 0 /\ ExtentStart[2] = Extents[1]
      /\ Extents[1] \in Nat \ {0} /\ Total = ExtentStart[n + 1]
      /\ \A i \in 1..(n + 1) :
           /\ ExtentStart[i] \in Nat /\ Aligned(ExtentStart[i])
           /\ ExtentStart[i] <= Total
           /\ i # 1 => Extents[1] <= ExtentStart[i]
      /\ \A i \in 1..n : ExtentStart[i] < ExtentStart[i + 1]
  BY Layout
<1>2. /\ FileSize \in Nat /\ Aligned(FileSize) /\ FileSize <= Total
      /\ Extents[1] <= FileSize
      /\ \A o \in Nat : Aligned(o) /\ o < FileSize => o < JournalEnd
  BY FileFacts
<1> HIDE DEF n
<1>3. \A i : i \in Runs <=> i \in 1..n /\ ExtentStart[i] < FileSize
  BY DEF Runs, n
<1>4. /\ DOMAIN Ranges = D
      /\ \A i \in D : /\ Ranges[i].offset = ExtentStart[i]
                      /\ Ranges[i].sparse = (i = 1)
                      /\ Ranges[i].end = IF End(i) <= FileSize THEN End(i) ELSE FileSize
  <2> DEFINE whole == {i \in Runs : ExtentStart[i + 1] <= FileSize}
             E == {i \in Runs : \A j \in Runs : j < i => j \in whole}
  <2>1. Ranges = [i \in E |-> [offset |-> ExtentStart[i], sparse |-> i = 1,
                               end |-> IF i \in whole THEN ExtentStart[i + 1] ELSE FileSize]]
    BY DEF Ranges
  <2>2. E = D
    OBVIOUS
  <2>3. \A i \in D : i \in whole <=> End(i) <= FileSize
    OBVIOUS
  <2> HIDE DEF E, D, whole
  <2> QED BY <2>1, <2>2, <2>3
<1>5. 1 \in D
  <2>1. 1 \in Runs
    BY <1>1, <1>2, <1>3
  <2>2. \A j \in Runs : ~ (j < 1)
    BY <1>1, <1>3
  <2> QED BY <2>1, <2>2
<1>6. ASSUME NEW i \in D
      PROVE  LET r == Ranges[i]
             IN /\ i \in Nat /\ i \in 1..n
                /\ r.offset = ExtentStart[i] /\ r.offset \in Offsets
                /\ r.end \in Offsets /\ r.offset < r.end /\ r.end <= FileSize
                /\ Aligned(r.offset) /\ Aligned(r.end)
                /\ r.sparse = (i = 1)
                /\ r.sparse => r.end <= Extents[1]
                /\ ~ r.sparse => Extents[1] <= r.offset /\ r.offset < JournalEnd
                /\ i + 1 \in D => Ranges[i + 1].offset = r.end
                /\ i + 1 \notin D => r.end = FileSize
  <2> DEFINE r == Ranges[i]
  <2>1. /\ i \in Runs /\ i \in 1..n /\ i \in Nat /\ i \in 1..(n + 1) /\ i + 1 \in 1..(n + 1)
        /\ ExtentStart[i] < FileSize
        /\ \A j \in Runs : j < i => End(j) <= FileSize
    BY <1>1, <1>3
  <2>2. /\ r.offset = ExtentStart[i] /\ r.sparse = (i = 1)
        /\ r.end = IF End(i) <= FileSize THEN End(i) ELSE FileSize
    BY <1>4
  <2>3. /\ ExtentStart[i] \in Nat /\ End(i) \in Nat /\ ExtentStart[i] < End(i)
        /\ End(i) <= Total /\ Aligned(ExtentStart[i]) /\ Aligned(End(i))
        /\ i # 1 => Extents[1] <= ExtentStart[i]
        /\ i = 1 => End(i) = Extents[1]
    BY <1>1, <2>1
  <2>4. ASSUME i + 1 \in D PROVE Ranges[i + 1].offset = r.end
    <3>1. i + 1 \in D /\ i < i + 1
      BY <2>1, <2>4
    <3>2. End(i) <= FileSize
      BY <2>1, <3>1
    <3> HIDE DEF D, r
    <3> QED BY <1>4, <2>2, <3>1, <3>2
  <2>5. ASSUME i + 1 \notin D PROVE r.end = FileSize
    <3>1. CASE i + 1 \notin Runs
      <4>1. End(i) >= FileSize
        <5>1. CASE i = n
          BY <1>1, <1>2, <5>1
        <5>2. CASE i # n
          BY <1>1, <1>2, <1>3, <2>1, <2>3, <3>1, <5>2
        <5> QED BY <5>1, <5>2
      <4> QED BY <1>2, <2>2, <2>3, <4>1
    <3>2. CASE i + 1 \in Runs
      <4>1. PICK j \in Runs : j < i + 1 /\ ~ (End(j) <= FileSize)
        BY <2>5, <3>2
      <4>2. j = i
        <5>1. j \in Nat /\ (j < i \/ j = i)
          BY <1>1, <1>3, <2>1, <4>1
        <5> QED BY <2>1, <4>1, <5>1
      <4> QED BY <2>2, <4>1, <4>2
    <3> QED BY <3>1, <3>2
  <2> HIDE DEF D, r, End
  <2>6. /\ r.end \in Nat /\ r.offset < r.end /\ r.end <= FileSize /\ Aligned(r.end)
        /\ r.offset \in Nat /\ Aligned(r.offset)
    BY <1>2, <2>1, <2>2, <2>3
  <2>7. r.offset \in Offsets /\ r.end \in Offsets
    BY <1>1, <1>2, <2>6 DEF Offsets
  <2>8. r.sparse => r.end <= Extents[1]
    <3> SUFFICES ASSUME i = 1 PROVE r.end <= Extents[1]
      BY <2>2, Zenon
    <3>1. End(i) = Extents[1]
      BY <2>3
    <3> QED BY <1>1, <1>2, <2>2, <3>1
  <2>9. ~ r.sparse => Extents[1] <= r.offset /\ r.offset < JournalEnd
    BY <1>2, <2>1, <2>2, <2>3
  <2> QED BY <2>1, <2>2, <2>4, <2>5, <2>6, <2>7, <2>8, <2>9 DEF r
<1> HIDE DEF D
<1> QED BY <1>4, <1>5, <1>6 DEF n

\* A parser that begins with an empty cache will see all that the journal holds.
LEMMA StartParserStep ==
  ASSUME JournalInv, ~ Preallocated, NEW from \in Offsets, StartParser(from),
         seen' = << >>, UNCHANGED journal, known' \in 0..Len(journal)
  PROVE  /\ ParserInv' /\ SeenInv'
         /\ parser'.pc = "range" /\ parser'.from = from
         /\ parser'.i = 1 /\ 1 \in DOMAIN parser'.ranges
         /\ parser'.ranges[1].offset = 0
<1> DEFINE rs == Ranges
<1>1. /\ parser' = [pc |-> "range", ranges |-> rs, i |-> 1, at |-> 0,
                    misread |-> FALSE, from |-> from]
      /\ 0 \in Offsets
  BY Layout DEF StartParser, Offsets
<1> HIDE DEF rs
<1>2. /\ parser' \in Parsers(parser'.ranges)
      /\ parser'.pc = "range" /\ parser'.from = from
      /\ parser'.i = 1 /\ parser'.ranges = rs
  BY <1>1 DEF Parsers
<1>3. /\ JournalEnd' = JournalEnd /\ JournalEnd \in Nat
      /\ Len(journal) \in Nat /\ DOMAIN journal = 1..Len(journal)
      /\ \A k \in DOMAIN journal : journal[k].at \in Nat /\ journal[k].at < JournalEnd
  <2>1. \A k \in DOMAIN journal : journal[k].len \in 1..PageSize /\ PageSize \in Nat
    BY JournalFacts, Constants
  <2> QED BY <2>1, JournalStays, JournalFacts
<1>4. ASSUME NEW i \in DOMAIN rs PROVE RangeInv(i)'
  <2> DEFINE r == rs[i]
  <2>1. /\ i \in Nat
        /\ r.offset \in Offsets /\ r.end \in Offsets /\ r.offset < r.end
        /\ Aligned(r.offset) /\ Aligned(r.end) /\ r.end <= FileSize
        /\ r.sparse => r.end <= Extents[1]
        /\ ~ r.sparse => Extents[1] <= r.offset /\ r.offset < JournalEnd
        /\ i + 1 \in DOMAIN rs => rs[i + 1].offset = r.end
        /\ i + 1 \notin DOMAIN rs => r.end = FileSize
    BY <1>4, RangesFacts DEF rs
  <2> HIDE DEF r
  <2>2. /\ r.end - PageSize < JournalEnd /\ JournalEnd <= FileSize
        /\ FileSize \in Nat
    <3>1. r.end \in Nat /\ PageSize \in Nat
      BY <2>1, Layout, Constants DEF Offsets
    <3> QED BY <1>3, <2>1, <3>1, FileFacts
  <2>3. \A k \in DOMAIN journal : InEveryPage(k)'
    BY DEF InEveryPage
  <2>4. ~ r.sparse => \E k \in DOMAIN journal : journal[k].at = r.offset
    BY <2>1 DEF JournalInv, IsRecord
  <2>5. i + 1 \notin DOMAIN rs => \A k \in 1..known' : journal[k].at < r.end
    <3> SUFFICES ASSUME i + 1 \notin DOMAIN rs, NEW k \in 1..known'
                 PROVE  journal[k].at < r.end
      OBVIOUS
    <3>1. k \in DOMAIN journal
      BY <1>3
    <3> QED BY <1>3, <2>1, <2>2, <3>1
  <2> HIDE DEF InEveryPage
  <2> QED BY <1>2, <1>3, <2>1, <2>2, <2>3, <2>4, <2>5 DEF RangeInv, r
<1>5. 1 \in DOMAIN rs /\ rs[1].offset = 0
  BY RangesFacts, Layout DEF rs
<1>6. ParserInv'
  BY <1>2, <1>4 DEF ParserInv
<1>7. SeenInv'
  BY <1>3 DEF SeenInv
<1> QED BY <1>2, <1>5, <1>6, <1>7

LEMMA PurgeContextKeeps ==
  ASSUME IInv, NEW from, NEW to, PurgeContext(from, to),
         <<from, to>> \in {<<"start", "last">>, <<"purge", "open">>}
  PROVE  IInv'
<1>1. (from = "start" /\ to = "last") \/ (from = "purge" /\ to = "open")
  OBVIOUS
<1>2. /\ JournalInv /\ ParserInv /\ WatcherInv /\ DeliveredInv
      /\ At(from) /\ BetweenPolls
      /\ seen' = << >> /\ known' = Len(journal)
      /\ watcher' = [watcher EXCEPT !.pc = to]
      /\ UNCHANGED <<journal, parser, delivered, cancelled, base>>
  BY <1>1 DEF IInv, PurgeContext, Goto, At, BetweenPolls
<1>3. /\ watcher' \in Watchers
      /\ watcher'.pc = to /\ watcher'.start = watcher.start
      /\ watcher'.hand = watcher.hand /\ watcher.pc = from
  BY <1>1, <1>2 DEF WatcherInv, Watchers, At
<1>4. JournalInv' /\ \A o : IsRecord(o)' = IsRecord(o)
  BY <1>2, JournalStays
<1>5. SeenInv'
  BY <1>2, JournalFacts DEF SeenInv
<1>6. parser.pc = "closed"
  BY <1>2 DEF WatcherInv
<1>7. ParserInv'
  BY <1>2, <1>6 DEF ParserInv
<1>8. WatcherInv'
  BY <1>1, <1>2, <1>3, <1>4, <1>6
  DEF WatcherInv, BetweenPolls, BeforeBase, Based, At, Listing
<1>9. DeliveredInv'
  BY <1>1, <1>2, <1>3, <1>4 DEF DeliveredInv, Listing, At, Increasing, Got
<1>10. ProgressInv'
  BY <1>1, <1>3 DEF ProgressInv, Following, At
<1> QED BY <1>4, <1>5, <1>7, <1>8, <1>9, <1>10 DEF IInv

LEMMA PurgeKeeps == ASSUME IInv, Purge PROVE IInv'
BY PurgeContextKeeps DEF Purge

\* What a watch step that leaves the parser and the journal alone has to show.
LEMMA WatcherStays ==
  ASSUME IInv, UNCHANGED <<environment, seen, parser>>
  PROVE  /\ JournalInv' /\ SeenInv' /\ ParserInv'
         /\ parser' = parser /\ seen' = seen /\ journal' = journal
         /\ known' = known /\ cancelled' = cancelled
         /\ \A o : IsRecord(o)' = IsRecord(o)
<1>1. JournalInv /\ SeenInv /\ ParserInv /\ UNCHANGED <<journal, known, cancelled>>
  BY DEF IInv, environment
<1> QED BY <1>1, JournalStays, ParserStays

\* getLastUSN is called with nothing in the cache.
LEMMA LastRealFacts ==
  ASSUME JournalInv, ~ Preallocated, Real # {}
  PROVE  LastReal \in DOMAIN Ranges /\ Ranges[LastReal].offset \in Offsets
<1>1. /\ Real \in SUBSET Nat /\ Len(Extents) \in Nat
      /\ \A i \in Real : i <= Len(Extents) /\ i \in DOMAIN Ranges
  BY RangesFacts, Layout DEF Real
<1>2. \E i \in Real : \A j \in Real : j <= i
  <2> HIDE DEF Real
  <2> QED BY <1>1, GreatestElement
<1>3. LastReal \in Real
  BY <1>2 DEF LastReal
<1> QED BY <1>1, <1>3, RangesFacts

LEMMA OpenLastKeeps == ASSUME IInv, ~ Preallocated, OpenLast PROVE IInv'
<1>1. /\ JournalInv /\ SeenInv /\ WatcherInv /\ DeliveredInv
      /\ At("last") /\ seen = << >> /\ watcher.start = 0 /\ base = 0 /\ delivered = << >>
      /\ parser.pc = "closed"
      /\ UNCHANGED <<environment, seen, delivered, base>>
  BY DEF IInv, OpenLast, WatcherInv, At, BeforeBase, BetweenPolls
<1>2. CASE Goto("wait") /\ UNCHANGED parser
  <2>1. /\ watcher' \in Watchers /\ watcher'.pc = "wait"
        /\ watcher'.start = watcher.start
    BY <1>1, <1>2 DEF WatcherInv, Watchers, Goto
  <2>2. /\ JournalInv' /\ SeenInv' /\ ParserInv'
        /\ parser' = parser /\ seen' = seen /\ journal' = journal
        /\ known' = known /\ cancelled' = cancelled
    BY <1>1, <1>2, WatcherStays
  <2>3. WatcherInv'
    BY <1>1, <2>1, <2>2 DEF WatcherInv, BetweenPolls, BeforeBase, Based, At, Listing
  <2>4. DeliveredInv'
    BY <1>1, <2>2 DEF DeliveredInv, Increasing
  <2>5. ProgressInv'
    BY <2>1 DEF ProgressInv, Following, At
  <2> QED BY <2>2, <2>3, <2>4, <2>5 DEF IInv
<1>3. CASE /\ Real # {} /\ StartParser(Ranges[LastReal].offset)
           /\ watcher' = [watcher EXCEPT !.pc = "reading", !.found = FALSE]
  <2>1. /\ watcher' \in Watchers /\ watcher'.pc = "reading"
        /\ watcher'.start = 0 /\ watcher'.found = FALSE
    BY <1>1, <1>3 DEF WatcherInv, Watchers
  <2>2. /\ seen' = << >> /\ UNCHANGED <<journal, known, cancelled>>
    BY <1>1 DEF environment
  <2>3. known' \in 0..Len(journal)
    BY <1>1, <2>2 DEF SeenInv
  <2>4. ParserInv' /\ SeenInv'
    BY <1>1, <1>3, <2>2, <2>3, LastRealFacts, StartParserStep
  <2>5. JournalInv'
    BY <1>1, <2>2, JournalStays
  <2>6. WatcherInv'
    BY <1>1, <2>1 DEF WatcherInv, BetweenPolls, BeforeBase, Based, At, Listing
  <2>7. DeliveredInv'
    BY <1>1, <2>2 DEF DeliveredInv, Increasing
  <2>8. ProgressInv'
    BY <2>1 DEF ProgressInv, Following, At
  <2> QED BY <2>4, <2>5, <2>6, <2>7, <2>8 DEF IInv
<1> QED BY <1>2, <1>3 DEF OpenLast

LEMMA ReceiveLastKeeps == ASSUME IInv, ReceiveLast PROVE IInv'
<1>1. /\ JournalInv /\ SeenInv /\ ParserInv /\ WatcherInv /\ DeliveredInv
      /\ At("reading") /\ base = 0 /\ delivered = << >> /\ parser.pc = "send" /\ Sent
      /\ watcher' = [watcher EXCEPT !.found = TRUE, !.start = parser.at]
      /\ UNCHANGED <<journal, seen, known, cancelled, delivered, base>>
  BY DEF IInv, ReceiveLast, WatcherInv, At, BeforeBase, environment
<1>2. /\ ParserInv' /\ SeenInv' /\ parser'.pc = "next"
      /\ parser.at \in Offsets /\ IsRecord(parser.at)
  BY <1>1, SentStep
<1>3. JournalInv' /\ \A o : IsRecord(o)' = IsRecord(o)
  BY <1>1, JournalStays
<1>4. /\ watcher' \in Watchers /\ watcher'.pc = "reading"
      /\ watcher'.start = parser.at /\ watcher'.found = TRUE
  BY <1>1, <1>2 DEF WatcherInv, Watchers, At
<1>5. parser.at # 0
  BY <1>1, <1>2, JournalFacts DEF IsRecord
<1>6. WatcherInv'
  BY <1>1, <1>2, <1>3, <1>4, <1>5
  DEF WatcherInv, BetweenPolls, BeforeBase, Based, At, Listing
<1>7. DeliveredInv'
  BY <1>1 DEF DeliveredInv, Increasing
<1>8. ProgressInv'
  BY <1>4 DEF ProgressInv, Following, At
<1> QED BY <1>2, <1>3, <1>6, <1>7, <1>8 DEF IInv

LEMMA LastFoundKeeps == ASSUME IInv, LastFound PROVE IInv'
<1>1. /\ JournalInv /\ ParserInv /\ WatcherInv /\ DeliveredInv
      /\ At("reading") /\ base = 0 /\ delivered = << >> /\ parser.pc = "closed"
      /\ base' = watcher.start
      /\ Goto(IF watcher.found THEN "purge" ELSE "wait")
      /\ UNCHANGED <<environment, delivered, seen, parser>>
  BY DEF IInv, LastFound, WatcherInv, At, BeforeBase
<1>2. /\ JournalInv' /\ SeenInv' /\ ParserInv'
      /\ parser' = parser /\ journal' = journal /\ cancelled' = cancelled
      /\ \A o : IsRecord(o)' = IsRecord(o)
  BY <1>1, WatcherStays
<1>3. /\ watcher' \in Watchers
      /\ watcher'.pc = IF watcher.found THEN "purge" ELSE "wait"
      /\ watcher'.start = watcher.start /\ watcher.start \in Offsets
      /\ watcher'.found = watcher.found
  BY <1>1 DEF WatcherInv, Watchers, Goto
<1>4. /\ watcher.start \in Nat /\ (watcher.found <=> watcher.start # 0)
  BY <1>1, <1>3, Layout DEF WatcherInv, Offsets
<1>5. WatcherInv'
  BY <1>1, <1>2, <1>3, <1>4
  DEF WatcherInv, BetweenPolls, BeforeBase, Based, At, Listing
<1>6. DeliveredInv'
  <2>1. \A k \in DOMAIN journal : journal[k].at \in Nat
    BY <1>1, JournalFacts
  <2>2. \A k \in DOMAIN journal :
          ~ (base' < journal[k].at /\ journal[k].at <= watcher'.start)
    BY <1>1, <1>3, <1>4, <2>1
  <2> QED BY <1>1, <1>2, <1>3, <2>2 DEF DeliveredInv, Increasing
<1>7. ProgressInv'
  BY <1>3 DEF ProgressInv, Following, At
<1> QED BY <1>2, <1>5, <1>6, <1>7 DEF IInv

LEMMA OpenKeeps == ASSUME IInv, ~ Preallocated, Open PROVE IInv'
<1>1. /\ JournalInv /\ SeenInv /\ WatcherInv /\ DeliveredInv
      /\ At("open") /\ seen = << >> /\ parser.pc = "closed" /\ base > 0
      /\ watcher \in Watchers /\ watcher.start \in Offsets
      /\ UNCHANGED <<environment, seen, delivered, base>>
      /\ UNCHANGED <<journal, known, cancelled>>
  BY DEF IInv, Open, WatcherInv, Watchers, At, Based, BetweenPolls, environment
<1>2. JournalInv' /\ \A o : IsRecord(o)' = IsRecord(o)
  BY <1>1, JournalStays
<1>3. CASE Goto("closed") /\ UNCHANGED parser
  <2>1. /\ watcher' \in Watchers /\ watcher'.pc = "closed"
        /\ watcher'.start = watcher.start
    BY <1>1, <1>3 DEF Watchers, Goto
  <2>2. SeenInv' /\ ParserInv' /\ parser' = parser
    BY <1>1, <1>3, WatcherStays
  <2>3. WatcherInv'
    BY <1>1, <1>2, <2>1, <2>2 DEF WatcherInv, BetweenPolls, BeforeBase, Based, At, Listing
  <2>4. DeliveredInv'
    BY <1>1, <1>2, <2>1 DEF DeliveredInv, Listing, At, Increasing, Got
  <2>5. ProgressInv'
    BY <2>1 DEF ProgressInv, Following, At
  <2> QED BY <1>2, <2>2, <2>3, <2>4, <2>5 DEF IInv
<1>4. CASE StartParser(watcher.start) /\ Goto("collect")
  <2>1. /\ watcher' \in Watchers /\ watcher'.pc = "collect"
        /\ watcher'.start = watcher.start
    BY <1>1, <1>4 DEF Watchers, Goto
  <2>2. known' \in 0..Len(journal)
    BY <1>1 DEF SeenInv
  <2>3. /\ ParserInv' /\ SeenInv'
        /\ parser'.pc = "range" /\ parser'.from = watcher.start
        /\ parser'.i = 1 /\ 1 \in DOMAIN parser'.ranges
        /\ parser'.ranges[1].offset = 0
    BY <1>1, <1>4, <2>2, StartParserStep
  <2>4. WatcherInv'
    <3>1. watcher.start <= watcher.start
      BY <1>1, Layout DEF Offsets
    <3> QED BY <1>1, <1>2, <2>1, <2>3, <3>1
            DEF WatcherInv, BetweenPolls, BeforeBase, Based, At, Listing
  <2>5. DeliveredInv'
    BY <1>1, <1>2, <2>1 DEF DeliveredInv, Listing, At, Increasing, Got
  <2>6. ProgressInv'
    <3>1. \A k \in DOMAIN journal : ~ (journal[k].at < 0)
      <4>1. \A k \in DOMAIN journal : journal[k].at \in Nat
        BY <1>1, JournalFacts
      <4> QED BY <4>1
    <3> QED BY <1>1, <2>1, <2>3, <3>1 DEF ProgressInv, Following, At
  <2> QED BY <1>2, <2>3, <2>4, <2>5, <2>6 DEF IInv
<1> QED BY <1>3, <1>4 DEF Open

\* What WatchUSN takes from the parser it has had before, or delivers next.
LEMMA ReceiveKeeps == ASSUME IInv, Receive PROVE IInv'
<1>1. /\ JournalInv /\ SeenInv /\ ParserInv /\ WatcherInv /\ DeliveredInv
      /\ At("collect") /\ parser.pc = "send" /\ Sent
      /\ watcher \in Watchers
      /\ base > 0 /\ parser.from <= watcher.start
      /\ watcher' = IF IsNew
                    THEN [watcher EXCEPT !.pc = "deliver", !.hand = parser.at,
                                         !.misread = parser.misread]
                    ELSE watcher
      /\ UNCHANGED <<journal, seen, known, cancelled, delivered, base>>
  BY DEF IInv, Receive, WatcherInv, At, Based, environment
<1>2. /\ ParserInv' /\ SeenInv'
      /\ parser'.pc = "next" /\ parser'.at = parser.at /\ parser'.from = parser.from
      /\ parser.misread = FALSE /\ parser.at \in Offsets /\ IsRecord(parser.at)
  BY <1>1, SentStep
<1>3. JournalInv' /\ \A o : IsRecord(o)' = IsRecord(o)
  BY <1>1, JournalStays
<1>4. \A k \in DOMAIN journal :
        journal[k].at < parser.at => journal[k].at <= watcher.start
  BY <1>1 DEF IInv, ProgressInv, Following, Handed, Listing, At
<1>5. /\ watcher.start \in Nat /\ parser.at \in Nat
      /\ \A k \in DOMAIN journal : journal[k].at \in Nat
  BY <1>1, <1>2, Layout, JournalFacts DEF Watchers, Offsets
<1>6. CASE IsNew
  <2>1. /\ watcher' \in Watchers /\ watcher'.pc = "deliver"
        /\ watcher'.start = watcher.start /\ watcher'.hand = parser.at
    BY <1>1, <1>2, <1>6 DEF Watchers
  <2>2. watcher.start < parser.at
    BY <1>5, <1>6 DEF IsNew
  <2>3. WatcherInv'
    BY <1>1, <1>2, <1>3, <1>4, <2>1, <2>2
    DEF WatcherInv, BetweenPolls, BeforeBase, Based, At, Listing
  <2>4. DeliveredInv'
    BY <1>1, <1>3, <2>1 DEF DeliveredInv, Listing, At, Increasing, Got
  <2>5. ProgressInv'
    BY <1>1, <1>2, <2>1 DEF ProgressInv, Handed, Listing, At
  <2> QED BY <1>2, <1>3, <2>3, <2>4, <2>5 DEF IInv
<1>7. CASE ~ IsNew
  <2>1. watcher' = watcher /\ watcher.pc = "collect"
    BY <1>1, <1>7 DEF At
  <2>2. parser.at <= watcher.start
    BY <1>5, <1>7 DEF IsNew
  <2>3. WatcherInv'
    BY <1>1, <1>2, <1>3, <2>1 DEF WatcherInv, BetweenPolls, BeforeBase, Based, At, Listing
  <2>4. DeliveredInv'
    BY <1>1, <1>3, <2>1 DEF DeliveredInv, Listing, At, Increasing, Got
  <2>5. ProgressInv'
    <3>1. \A k \in DOMAIN journal :
            journal[k].at <= parser.at => journal[k].at <= watcher.start
      BY <1>5, <2>2
    <3> QED BY <1>1, <1>2, <2>1, <3>1 DEF ProgressInv, Handed, Listing, At
  <2> QED BY <1>2, <1>3, <2>3, <2>4, <2>5 DEF IInv
<1> QED BY <1>6, <1>7

LEMMA EndOfPollKeeps == ASSUME IInv, EndOfPoll PROVE IInv'
<1>1. /\ JournalInv /\ WatcherInv /\ DeliveredInv
      /\ watcher.pc = "collect" /\ parser.pc = "closed"
      /\ watcher' = [watcher EXCEPT !.pc = "sleep"]
      /\ UNCHANGED <<environment, seen, parser, delivered, base>>
      /\ ~ cancelled => HandedAllKnown
  BY DEF IInv, EndOfPoll, At, Goto, ProgressInv, Following
<1>2. /\ JournalInv' /\ SeenInv' /\ ParserInv'
      /\ parser' = parser /\ journal' = journal /\ known' = known
      /\ cancelled' = cancelled /\ \A o : IsRecord(o)' = IsRecord(o)
  BY <1>1, WatcherStays
<1>3. /\ watcher' \in Watchers /\ watcher'.pc = "sleep"
      /\ watcher'.start = watcher.start
  BY <1>1 DEF WatcherInv, Watchers
<1>4. WatcherInv'
  BY <1>1, <1>2, <1>3 DEF WatcherInv, BetweenPolls, BeforeBase, Based, At, Listing
<1>5. DeliveredInv'
  BY <1>1, <1>2, <1>3 DEF DeliveredInv, Listing, At, Increasing, Got
<1>6. ProgressInv'
  BY <1>1, <1>2, <1>3 DEF ProgressInv, Following, HandedAllKnown, Handed, Listing, At
<1> QED BY <1>2, <1>4, <1>5, <1>6 DEF IInv

LEMMA TickKeeps == ASSUME IInv, Tick PROVE IInv'
<1>1. /\ JournalInv /\ WatcherInv /\ DeliveredInv
      /\ watcher.pc \in {"wait", "sleep"} /\ parser.pc = "closed"
      /\ watcher' = [watcher EXCEPT !.pc = IF watcher.pc = "wait" THEN "start" ELSE "purge"]
      /\ UNCHANGED <<environment, seen, parser, delivered, base>>
  BY DEF IInv, Tick, At, Goto, WatcherInv, BetweenPolls
<1>2. /\ JournalInv' /\ SeenInv' /\ ParserInv'
      /\ parser' = parser /\ journal' = journal /\ cancelled' = cancelled
      /\ \A o : IsRecord(o)' = IsRecord(o)
  BY <1>1, WatcherStays
<1>3. /\ watcher' \in Watchers
      /\ watcher'.pc = IF watcher.pc = "wait" THEN "start" ELSE "purge"
      /\ watcher'.start = watcher.start
  BY <1>1 DEF WatcherInv, Watchers
<1>4. WatcherInv'
  BY <1>1, <1>2, <1>3 DEF WatcherInv, BetweenPolls, BeforeBase, Based, At, Listing
<1>5. DeliveredInv'
  BY <1>1, <1>2, <1>3 DEF DeliveredInv, Listing, At, Increasing, Got
<1>6. ProgressInv'
  BY <1>1, <1>3 DEF ProgressInv, Following, At
<1> QED BY <1>2, <1>4, <1>5, <1>6 DEF IInv

LEMMA WatcherCancelledKeeps == ASSUME IInv, WatcherCancelled PROVE IInv'
<1>1. /\ JournalInv /\ WatcherInv /\ DeliveredInv
      /\ watcher.pc \in {"wait", "deliver", "sleep"}
      /\ watcher' = [watcher EXCEPT !.pc = "closed"]
      /\ UNCHANGED <<environment, seen, parser, delivered, base>>
  BY DEF IInv, WatcherCancelled, At, Goto
<1>2. /\ JournalInv' /\ SeenInv' /\ ParserInv'
      /\ parser' = parser /\ journal' = journal /\ cancelled' = cancelled
      /\ \A o : IsRecord(o)' = IsRecord(o)
  BY <1>1, WatcherStays
<1>3. /\ watcher' \in Watchers /\ watcher'.pc = "closed"
      /\ watcher'.start = watcher.start
  BY <1>1 DEF WatcherInv, Watchers
<1>4. WatcherInv'
  BY <1>1, <1>2, <1>3 DEF WatcherInv, BetweenPolls, BeforeBase, Based, At, Listing
<1>5. DeliveredInv'
  BY <1>1, <1>2, <1>3 DEF DeliveredInv, Listing, At, Increasing, Got
<1>6. ProgressInv'
  BY <1>3 DEF ProgressInv, Following, At
<1> QED BY <1>2, <1>4, <1>5, <1>6 DEF IInv

LEMMA ListKeeps == ASSUME IInv, ~ Preallocated, List PROVE IInv'
<1>1. /\ JournalInv /\ SeenInv /\ WatcherInv /\ DeliveredInv
      /\ watcher.pc = "list" /\ seen = << >> /\ parser.pc = "closed"
      /\ watcher.start = 0 /\ base = 0
      /\ StartParser(0) /\ watcher' = [watcher EXCEPT !.pc = "listing"]
      /\ known' = Len(journal)
      /\ UNCHANGED <<journal, cancelled, seen, delivered, base>>
  BY DEF IInv, List, WatcherInv, At, Goto, BetweenPolls, Listing
<1>2. JournalInv' /\ \A o : IsRecord(o)' = IsRecord(o)
  BY <1>1, JournalStays
<1>3. known' \in 0..Len(journal) /\ 0 \in Offsets
  BY <1>1, JournalFacts, Layout DEF Offsets
<1>4. /\ ParserInv' /\ SeenInv'
      /\ parser'.pc = "range" /\ parser'.from = 0
      /\ parser'.i = 1 /\ 1 \in DOMAIN parser'.ranges
      /\ parser'.ranges[1].offset = 0
  BY <1>1, <1>3, StartParserStep
<1>5. watcher' \in Watchers /\ watcher'.pc = "listing" /\ watcher'.start = 0
  BY <1>1 DEF WatcherInv, Watchers
<1>6. WatcherInv'
  BY <1>1, <1>2, <1>4, <1>5 DEF WatcherInv, BetweenPolls, BeforeBase, Based, At, Listing
<1>7. DeliveredInv'
  BY <1>1, <1>2, <1>5 DEF DeliveredInv, Listing, At, Increasing, Got
<1>8. ProgressInv'
  <2>1. \A k \in DOMAIN journal : ~ (journal[k].at < 0)
    <3>1. \A k \in DOMAIN journal : journal[k].at \in Nat
      BY <1>1, JournalFacts
    <3> QED BY <3>1
  <2> QED BY <1>1, <1>4, <1>5, <2>1 DEF ProgressInv, Following, At
<1> QED BY <1>2, <1>4, <1>6, <1>7, <1>8 DEF IInv

LEMMA CancelKeeps == ASSUME IInv, Cancel PROVE IInv'
<1>1. /\ JournalInv /\ SeenInv /\ ParserInv /\ WatcherInv /\ DeliveredInv /\ ProgressInv
      /\ cancelled' = TRUE
      /\ UNCHANGED <<journal, known, seen, parser, watcher, delivered, base>>
  BY DEF IInv, Cancel, reader
<1>2. /\ JournalInv' /\ SeenInv' /\ ParserInv' /\ \A o : IsRecord(o)' = IsRecord(o)
  BY <1>1, JournalStays, ParserStays
<1>3. WatcherInv'
  BY <1>1, <1>2 DEF WatcherInv, BetweenPolls, BeforeBase, Based, At, Listing
<1>4. DeliveredInv'
  BY <1>1, <1>2 DEF DeliveredInv, Listing, At, Increasing, Got
<1>5. ProgressInv'
  BY <1>1 DEF ProgressInv, Following, HandedAllKnown, Handed, Late, Listing, At, Got
<1> QED BY <1>2, <1>3, <1>4, <1>5 DEF IInv

-----------------------------------------------------------------------------
(* The consumer *)

LEMMA AppendDelivered ==
  ASSUME DeliveredInv, NEW o \in Offsets,
         delivered' = Append(delivered, [at |-> o, misread |-> FALSE])
  PROVE  /\ delivered' \in Seq([at : Offsets, misread : {FALSE}])
         /\ \E n \in Nat : /\ DOMAIN delivered = 1..n /\ DOMAIN delivered' = 1..(n + 1)
                           /\ \A i \in 1..n : delivered'[i] = delivered[i]
                           /\ delivered'[n + 1].at = o
         /\ \A a : (\E i \in DOMAIN delivered' : delivered'[i].at = a)
                    <=> Got(a) \/ a = o
<1> DEFINE R == [at : Offsets, misread : {FALSE}]
           e == [at |-> o, misread |-> FALSE]
           n == Len(delivered)
<1>1. delivered \in Seq(R) /\ e \in R /\ e.at = o
  BY DEF DeliveredInv
<1> HIDE DEF R, e
<1>2. /\ n \in Nat /\ DOMAIN delivered = 1..n
      /\ delivered' \in Seq(R) /\ DOMAIN delivered' = DOMAIN delivered \cup {n + 1}
      /\ \A i \in DOMAIN delivered : delivered'[i] = delivered[i]
      /\ delivered'[n + 1] = e
  BY <1>1, QueueFacts DEF e
<1>3. \A a : (\E i \in DOMAIN delivered' : delivered'[i].at = a)
                <=> Got(a) \/ a = o
  <2> HIDE DEF n
  <2> QED BY <1>1, <1>2 DEF Got
<1> HIDE DEF n
<1>4. DOMAIN delivered' = 1..(n + 1)
  BY <1>2
<1> QED BY <1>1, <1>2, <1>3, <1>4 DEF R

LEMMA DeliverKeeps == ASSUME IInv, Deliver PROVE IInv'
<1>1. /\ JournalInv /\ WatcherInv /\ DeliveredInv /\ ProgressInv
      /\ watcher.pc = "deliver" /\ watcher \in Watchers
      /\ watcher.misread = FALSE /\ watcher.hand \in Offsets /\ watcher.start \in Offsets
      /\ IsRecord(watcher.hand) /\ watcher.start < watcher.hand
      /\ \A k \in DOMAIN journal :
           journal[k].at < watcher.hand => journal[k].at <= watcher.start
      /\ base > 0 /\ parser.from <= watcher.start
      /\ delivered' = Append(delivered, [at |-> watcher.hand, misread |-> watcher.misread])
      /\ watcher' = [watcher EXCEPT !.pc = "collect", !.start = watcher.hand]
      /\ UNCHANGED <<environment, seen, parser, base>>
  BY DEF IInv, Deliver, WatcherInv, Watchers, At, Based
<1>2. /\ JournalInv' /\ SeenInv' /\ ParserInv'
      /\ parser' = parser /\ seen' = seen /\ journal' = journal /\ known' = known
      /\ cancelled' = cancelled /\ \A o : IsRecord(o)' = IsRecord(o)
  BY <1>1, WatcherStays
<1>3. /\ watcher' \in Watchers /\ watcher'.pc = "collect"
      /\ watcher'.start = watcher.hand
  BY <1>1 DEF Watchers
<1>4. /\ watcher.start \in Nat /\ watcher.hand \in Nat /\ base \in Nat
      /\ parser.from \in Nat /\ \A k \in DOMAIN journal : journal[k].at \in Nat
  <2>1. parser.from \in Offsets /\ base \in Offsets
    BY DEF IInv, ParserInv, Parsers, DeliveredInv
  <2> QED BY <1>1, <2>1, Layout, JournalFacts DEF Offsets
<1>5. /\ delivered' \in Seq([at : Offsets, misread : {FALSE}])
      /\ \A a : (\E i \in DOMAIN delivered' : delivered'[i].at = a)
                 <=> Got(a) \/ a = watcher.hand
  BY <1>1, AppendDelivered
<1>6. WatcherInv'
  BY <1>1, <1>2, <1>3, <1>4
  DEF WatcherInv, BetweenPolls, BeforeBase, Based, At, Listing
<1>7. DeliveredInv'
  <2>1. PICK n \in Nat :
          /\ DOMAIN delivered = 1..n /\ DOMAIN delivered' = 1..(n + 1)
          /\ \A i \in 1..n : delivered'[i] = delivered[i]
          /\ delivered'[n + 1].at = watcher.hand
    BY <1>1, AppendDelivered
  <2>2. \A i \in 1..(n + 1) : i \in 1..n \/ i = n + 1
    BY <2>1
  <2>3. \A i \in 1..n : /\ IsRecord(delivered[i].at) /\ delivered[i].at \in Nat
                        /\ delivered[i].at <= watcher.start
                        /\ delivered[i].at < watcher.hand
    <3> SUFFICES ASSUME NEW i \in 1..n
                 PROVE  /\ IsRecord(delivered[i].at) /\ delivered[i].at \in Nat
                        /\ delivered[i].at <= watcher.start
                        /\ delivered[i].at < watcher.hand
      OBVIOUS
    <3>1. IsRecord(delivered[i].at) /\ delivered[i].at <= watcher.start
      BY <1>1, <2>1 DEF DeliveredInv, Listing, At
    <3> QED BY <1>1, <1>4, <3>1 DEF IsRecord
  <2>4. \A i \in DOMAIN delivered' :
          /\ \E k \in DOMAIN journal : journal[k].at = delivered'[i].at
          /\ delivered'[i].at <= watcher'.start
    <3> SUFFICES ASSUME NEW i \in 1..(n + 1)
                 PROVE  /\ \E k \in DOMAIN journal : journal[k].at = delivered'[i].at
                        /\ delivered'[i].at <= watcher.hand
      BY <1>3, <2>1
    <3>1. CASE i \in 1..n
      BY <1>4, <2>1, <2>3, <3>1 DEF IsRecord
    <3>2. CASE i = n + 1
      BY <1>1, <1>4, <2>1, <3>2 DEF IsRecord
    <3> QED BY <2>2, <3>1, <3>2
  <2>5. Increasing'
    <3> SUFFICES ASSUME NEW i \in 1..(n + 1), NEW j \in 1..(n + 1), i < j
                 PROVE  delivered'[i].at < delivered'[j].at
      BY <2>1 DEF Increasing
    <3>1. i \in 1..n
      BY <2>1
    <3>2. CASE j \in 1..n
      <4>1. Increasing
        BY <1>1 DEF DeliveredInv, Listing, At
      <4> QED BY <2>1, <3>1, <3>2, <4>1 DEF Increasing
    <3>3. CASE j = n + 1
      BY <2>1, <2>3, <3>1, <3>3
    <3> QED BY <2>2, <3>2, <3>3
  <2>6. \A k \in DOMAIN journal :
          base < journal[k].at /\ journal[k].at <= watcher.hand =>
            \E i \in DOMAIN delivered' : delivered'[i].at = journal[k].at
    <3> SUFFICES ASSUME NEW k \in DOMAIN journal, base < journal[k].at,
                        journal[k].at <= watcher.hand
                 PROVE  \E i \in DOMAIN delivered' : delivered'[i].at = journal[k].at
      OBVIOUS
    <3>1. journal[k].at = watcher.hand \/ journal[k].at <= watcher.start
      BY <1>1, <1>4
    <3>2. journal[k].at <= watcher.start => Got(journal[k].at)
      BY <1>1 DEF DeliveredInv
    <3> QED BY <1>5, <3>1, <3>2
  <2>7. base \in Offsets /\ cancelled \in BOOLEAN
    BY <1>1 DEF DeliveredInv
  <2>8. base' = base
    BY <1>1
  <2> QED BY <1>2, <1>3, <1>5, <2>4, <2>5, <2>6, <2>7, <2>8
          DEF DeliveredInv, IsRecord, Got
<1>8. ProgressInv'
  <2>1. \A o : Handed(o)' = Handed(o)
    BY <1>1, <1>3 DEF Handed, Listing, At
  <2> QED BY <1>1, <1>2, <1>3, <2>1
          DEF ProgressInv, Following, HandedAllKnown, Late, At
<1> QED BY <1>2, <1>6, <1>7, <1>8 DEF IInv

LEMMA ReceiveListedKeeps == ASSUME IInv, ReceiveListed PROVE IInv'
<1>1. /\ JournalInv /\ SeenInv /\ ParserInv /\ WatcherInv /\ DeliveredInv /\ ProgressInv
      /\ watcher.pc = "listing" /\ parser.pc = "send" /\ Sent /\ base = 0
      /\ delivered' = Append(delivered, [at |-> parser.at, misread |-> parser.misread])
      /\ UNCHANGED <<journal, seen, known, cancelled, watcher, base>>
  BY DEF IInv, ReceiveListed, WatcherInv, At, Listing, environment
<1>2. /\ ParserInv' /\ SeenInv'
      /\ parser'.pc = "next" /\ parser'.at = parser.at /\ parser'.from = parser.from
      /\ parser.misread = FALSE /\ parser.at \in Offsets /\ IsRecord(parser.at)
  BY <1>1, SentStep
<1>3. JournalInv' /\ \A o : IsRecord(o)' = IsRecord(o)
  BY <1>1, JournalStays
<1>4. /\ delivered' \in Seq([at : Offsets, misread : {FALSE}])
      /\ \A a : (\E i \in DOMAIN delivered' : delivered'[i].at = a)
                 <=> Got(a) \/ a = parser.at
  BY <1>1, <1>2, AppendDelivered
<1>5. WatcherInv'
  BY <1>1, <1>2, <1>3 DEF WatcherInv, BetweenPolls, BeforeBase, Based, At, Listing
<1>6. DeliveredInv'
  <2>1. PICK n \in Nat :
          /\ DOMAIN delivered = 1..n /\ DOMAIN delivered' = 1..(n + 1)
          /\ \A i \in 1..n : delivered'[i] = delivered[i]
          /\ delivered'[n + 1].at = parser.at
    BY <1>1, <1>2, AppendDelivered
  <2>2. \A i \in DOMAIN delivered' :
          \E k \in DOMAIN journal : journal[k].at = delivered'[i].at
    <3> SUFFICES ASSUME NEW i \in 1..(n + 1)
                 PROVE  \E k \in DOMAIN journal : journal[k].at = delivered'[i].at
      BY <2>1
    <3>1. CASE i \in 1..n
      BY <1>1, <2>1, <3>1 DEF DeliveredInv, IsRecord
    <3>2. CASE i = n + 1
      BY <1>2, <2>1, <3>2 DEF IsRecord
    <3> QED BY <2>1, <3>1, <3>2
  <2>3. base \in Offsets /\ cancelled \in BOOLEAN
    BY <1>1 DEF DeliveredInv
  <2>4. Listing' /\ base' = base /\ ~ (base > 0) /\ journal' = journal /\ cancelled' = cancelled
    BY <1>1 DEF Listing, At
  <2> QED BY <1>4, <2>2, <2>3, <2>4 DEF DeliveredInv, IsRecord
<1>7. ProgressInv'
  <2>1. \A k \in DOMAIN journal : journal[k].at <= parser.at =>
          \E i \in DOMAIN delivered' : delivered'[i].at = journal[k].at
    <3> SUFFICES ASSUME NEW k \in DOMAIN journal, journal[k].at <= parser.at
                 PROVE  \E i \in DOMAIN delivered' : delivered'[i].at = journal[k].at
      OBVIOUS
    <3>1. journal[k].at \in Nat /\ parser.at \in Nat
      BY <1>1, <1>2, JournalFacts, Layout DEF Offsets
    <3>2. journal[k].at < parser.at => Got(journal[k].at)
      BY <1>1 DEF ProgressInv, Following, Handed, Listing, At
    <3>3. journal[k].at < parser.at \/ journal[k].at = parser.at
      BY <3>1
    <3> QED BY <1>4, <3>2, <3>3
  <2> QED BY <1>1, <1>2, <2>1 DEF ProgressInv, Following, Handed, Listing, At, Got
<1> QED BY <1>2, <1>3, <1>5, <1>6, <1>7 DEF IInv

-----------------------------------------------------------------------------
(* The system that writes *)

\* A record is written behind all the others, and at the start of its page if
\* that page was not begun.
LEMMA WriteFacts ==
  ASSUME JournalInv, NEW len \in Lengths, Write(len)
  PROVE  LET n == Len(journal)
             a == Place(len)
         IN /\ JournalInv'
            /\ n \in Nat /\ Len(journal') = n + 1
            /\ DOMAIN journal = 1..n /\ DOMAIN journal' = 1..(n + 1)
            /\ \A k \in 1..n : journal'[k] = journal[k]
            /\ journal'[n + 1].at = a /\ a \in Offsets /\ a \in Nat
            /\ JournalEnd \in Nat /\ JournalEnd <= a
            /\ JournalEnd' \in Nat /\ JournalEnd < JournalEnd'
            /\ \A k \in 1..n : journal[k].at \in Nat /\ journal[k].at < a
            /\ Extents[1] \in Nat \ {0} /\ Extents[1] <= a
<1> DEFINE n == Len(journal)
           a == Place(len)
           R == [at : Offsets, len : Lengths]
           e == [at |-> a, len |-> len]
<1>1. /\ n \in Nat /\ DOMAIN journal = 1..n
      /\ JournalEnd \in Nat /\ Extents[1] <= JournalEnd
      /\ \A k \in DOMAIN journal :
           /\ journal[k].at \in Nat /\ journal[k].len \in 1..PageSize
           /\ journal[k].at + journal[k].len <= JournalEnd
           /\ journal[k].at \in Offsets /\ Extents[1] <= journal[k].at
      /\ Extents[1] \in Nat \ {0} /\ Total \in Nat
      /\ len \in Nat /\ len > 0 /\ len <= PageSize /\ PageSize \in Nat
  BY JournalFacts, Layout, Constants
<1>2. /\ PageEnd(JournalEnd) \in Nat /\ JournalEnd < PageEnd(JournalEnd)
      /\ Aligned(PageEnd(JournalEnd))
      /\ Aligned(JournalEnd) => PageEnd(JournalEnd) = JournalEnd + PageSize
      /\ \A b \in Nat : JournalEnd < b /\ Aligned(b) => PageEnd(JournalEnd) <= b
      /\ \A b \in Nat : PageEnd(JournalEnd) < b /\ Aligned(b) =>
           PageEnd(JournalEnd) + PageSize <= b
  <2>1. /\ PageEnd(JournalEnd) \in Nat /\ JournalEnd < PageEnd(JournalEnd)
        /\ Aligned(PageEnd(JournalEnd))
        /\ Aligned(JournalEnd) => PageEnd(JournalEnd) = JournalEnd + PageSize
        /\ \A b \in Nat : JournalEnd < b /\ Aligned(b) => PageEnd(JournalEnd) <= b
    BY <1>1, Pages
  <2>2. /\ PageEnd(PageEnd(JournalEnd)) = PageEnd(JournalEnd) + PageSize
        /\ \A b \in Nat : PageEnd(JournalEnd) < b /\ Aligned(b) =>
             PageEnd(PageEnd(JournalEnd)) <= b
    BY <2>1, Pages
  <2> QED BY <2>1, <2>2
<1>3. /\ a = IF JournalEnd + len <= PageEnd(JournalEnd) THEN JournalEnd
             ELSE PageEnd(JournalEnd)
      /\ a + len <= Total /\ journal' = Append(journal, e)
  BY DEF Place, Write
<1> HIDE DEF a
<1>4. /\ a \in Nat /\ JournalEnd <= a /\ a \in Offsets /\ Extents[1] <= a
  BY <1>1, <1>2, <1>3 DEF Offsets
<1>5. journal \in Seq(R) /\ e \in R /\ e.at = a /\ e.len = len
  BY <1>4 DEF JournalInv
<1> HIDE DEF R, e
<1>6. /\ journal' \in Seq(R) /\ Len(journal') = n + 1
      /\ DOMAIN journal' = 1..(n + 1)
      /\ \A k \in 1..n : journal'[k] = journal[k]
      /\ journal'[n + 1] = e
  <2>1. /\ journal' \in Seq(R) /\ Len(journal') = n + 1
        /\ DOMAIN journal' = DOMAIN journal \cup {n + 1}
        /\ \A k \in DOMAIN journal : journal'[k] = journal[k]
        /\ journal'[n + 1] = e
    BY <1>3, <1>5, QueueFacts
  <2> HIDE DEF n
  <2> QED BY <1>1, <2>1
<1>7. JournalEnd' = a + len
  <2>1. journal' # << >>
    BY <1>1, <1>6
  <2>2. JournalEnd' = journal'[n + 1].at + journal'[n + 1].len
    BY <1>6, <2>1 DEF JournalEnd
  <2> QED BY <1>5, <1>6, <2>2
<1> HIDE DEF n
<1>8. \A k \in 1..n : journal[k].at \in Nat /\ journal[k].at < a
  BY <1>1, <1>4
<1>9. \A k \in 1..(n + 1) : k \in 1..n \/ k = n + 1
  BY <1>1
<1>10. JournalInv'
  <2>1. \A k \in DOMAIN journal' :
          /\ Extents[1] <= journal'[k].at
          /\ journal'[k].at + journal'[k].len <= Total
    <3> SUFFICES ASSUME NEW k \in 1..(n + 1)
                 PROVE  /\ Extents[1] <= journal'[k].at
                        /\ journal'[k].at + journal'[k].len <= Total
      BY <1>6
    <3>1. CASE k \in 1..n
      BY <1>1, <1>6, <3>1 DEF JournalInv
    <3>2. CASE k = n + 1
      BY <1>3, <1>4, <1>5, <1>6, <3>2
    <3> QED BY <1>9, <3>1, <3>2
  <2>2. \A j, k \in DOMAIN journal' :
          j < k => journal'[j].at + journal'[j].len <= journal'[k].at
    <3> SUFFICES ASSUME NEW j \in 1..(n + 1), NEW k \in 1..(n + 1), j < k
                 PROVE  journal'[j].at + journal'[j].len <= journal'[k].at
      BY <1>6
    <3>1. j \in 1..n
      BY <1>1
    <3>2. CASE k \in 1..n
      BY <1>1, <1>6, <3>1, <3>2 DEF JournalInv
    <3>3. CASE k = n + 1
      <4>1. journal[j].at + journal[j].len <= JournalEnd
        BY <1>1, <3>1
      <4>2. journal[j].at \in Nat /\ journal[j].len \in Nat
        BY <1>1, <3>1
      <4> QED BY <1>1, <1>4, <1>5, <1>6, <3>1, <3>3, <4>1, <4>2
    <3> QED BY <1>9, <3>2, <3>3
  <2>3. ASSUME NEW o \in Offsets, Aligned(o), Extents[1] <= o, o < a + len
        PROVE  \E k \in DOMAIN journal' : journal'[k].at = o
    <3>1. o \in Nat
      BY <1>1 DEF Offsets
    <3>2. CASE o < JournalEnd
      <4>1. PICK k \in DOMAIN journal : journal[k].at = o
        BY <2>3, <3>2 DEF JournalInv, IsRecord
      <4>2. k \in 1..n /\ k \in 1..(n + 1)
        BY <1>1
      <4> QED BY <1>6, <4>1, <4>2
    <3>3. CASE ~ (o < JournalEnd)
      <4>1. o = a
        <5>1. CASE JournalEnd + len <= PageEnd(JournalEnd)
          BY <1>1, <1>2, <1>3, <2>3, <3>1, <3>3, <5>1
        <5>2. CASE ~ (JournalEnd + len <= PageEnd(JournalEnd))
          <6>1. a = PageEnd(JournalEnd)
            BY <1>3, <5>2
          <6>2. o # JournalEnd
            BY <1>1, <1>2, <2>3, <5>2
          <6>3. PageEnd(JournalEnd) <= o
            BY <1>1, <1>2, <2>3, <3>1, <3>3, <6>2
          <6> QED BY <1>1, <1>2, <2>3, <3>1, <6>1, <6>3
        <5> QED BY <5>1, <5>2
      <4>2. n + 1 \in DOMAIN journal'
        BY <1>1, <1>6
      <4> QED BY <1>5, <1>6, <4>1, <4>2
    <3> QED BY <3>2, <3>3
  <2> QED BY <1>6, <1>7, <2>1, <2>2, <2>3 DEF JournalInv, R, IsRecord
<1> QED BY <1>1, <1>4, <1>5, <1>6, <1>7, <1>8, <1>10 DEF n, a

LEMMA WriteKeeps ==
  ASSUME IInv, NEW len \in Lengths, Write(len) PROVE IInv'
<1> DEFINE n == Len(journal)
           a == Place(len)
<1>1. /\ JournalInv /\ SeenInv /\ ParserInv /\ WatcherInv /\ DeliveredInv /\ ProgressInv
      /\ UNCHANGED <<cancelled, known, seen, parser, watcher, delivered, base>>
  BY DEF IInv, Write, reader
<1>2. /\ JournalInv'
      /\ n \in Nat /\ Len(journal') = n + 1
      /\ DOMAIN journal = 1..n /\ DOMAIN journal' = 1..(n + 1)
      /\ \A k \in 1..n : journal'[k] = journal[k]
      /\ journal'[n + 1].at = a /\ a \in Offsets /\ a \in Nat
      /\ JournalEnd \in Nat /\ JournalEnd <= a
      /\ JournalEnd' \in Nat /\ JournalEnd < JournalEnd'
      /\ \A k \in 1..n : journal[k].at \in Nat /\ journal[k].at < a
      /\ Extents[1] \in Nat \ {0} /\ Extents[1] <= a
  BY <1>1, WriteFacts
<1>3. /\ \A k \in 1..(n + 1) : k \in 1..n \/ k = n + 1
      /\ \A k \in 1..known : k \in 1..n
      /\ known \in 0..n
  BY <1>1, <1>2 DEF SeenInv
<1> HIDE DEF n, a
<1>4. SeenInv'
  BY <1>1, <1>2, <1>3 DEF SeenInv, n
<1>5. \A o : IsRecord(o) => IsRecord(o)'
  BY <1>2, <1>3 DEF IsRecord
<1>6. \A o : IsRecord(o) => o \in Nat /\ o < a
  BY <1>2 DEF IsRecord
<1>7. ASSUME parser.pc # "closed", NEW i \in DOMAIN parser.ranges PROVE RangeInv(i)'
  <2> DEFINE r == parser.ranges[i]
  <2>1. RangeInv(i)
    BY <1>1, <1>7 DEF ParserInv
  <2>2. r.end \in Nat /\ PageSize \in Nat
    BY <2>1, Layout, Constants DEF RangeInv, Offsets
  <2>3. \A k \in 1..(n + 1) : journal'[k].at < r.end - PageSize => InEveryPage(k)
    <3> SUFFICES ASSUME NEW k \in 1..(n + 1), journal'[k].at < r.end - PageSize
                 PROVE  InEveryPage(k)
      OBVIOUS
    <3>1. CASE k \in 1..n
      BY <1>2, <2>1, <3>1 DEF RangeInv
    <3>2. CASE k = n + 1
      <4>1. r.end - PageSize < JournalEnd
        BY <2>1 DEF RangeInv
      <4> HIDE DEF r
      <4> QED BY <1>2, <2>2, <3>2, <4>1
    <3> QED BY <1>3, <3>1, <3>2
  <2>4. r.end - PageSize < JournalEnd'
    <3>1. r.end - PageSize < JournalEnd
      BY <2>1 DEF RangeInv
    <3> HIDE DEF r
    <3> QED BY <1>2, <2>2, <3>1
  <2>5. ~ r.sparse => \E k \in 1..(n + 1) : journal'[k].at = r.offset /\ InEveryPage(k)
    <3> SUFFICES ASSUME ~ r.sparse
                 PROVE  \E k \in 1..(n + 1) : journal'[k].at = r.offset /\ InEveryPage(k)
      OBVIOUS
    <3>1. PICK k \in 1..n : journal[k].at = r.offset /\ InEveryPage(k)
      BY <1>2, <2>1 DEF RangeInv
    <3>2. k \in 1..(n + 1)
      BY <1>2
    <3> QED BY <1>2, <3>1, <3>2
  <2>6. \A k : InEveryPage(k)' = InEveryPage(k)
    BY <1>1 DEF InEveryPage
  <2>7. i + 1 \notin DOMAIN parser.ranges => \A k \in 1..known : journal'[k].at < r.end
    BY <1>2, <1>3, <2>1 DEF RangeInv
  <2>8. /\ i \in Nat
        /\ r.offset \in Offsets /\ r.end \in Offsets /\ r.offset < r.end
        /\ Aligned(r.offset) /\ Aligned(r.end)
        /\ r.sparse => r.end <= Extents[1]
        /\ i + 1 \in DOMAIN parser.ranges => parser.ranges[i + 1].offset = r.end
    BY <2>1 DEF RangeInv
  <2>9. r' = r /\ known' = known /\ parser' = parser /\ DOMAIN journal' = 1..(n + 1)
    BY <1>1, <1>2
  <2> HIDE DEF r, InEveryPage
  <2> QED BY <2>3, <2>4, <2>5, <2>6, <2>7, <2>8, <2>9 DEF RangeInv, r
<1>8. ParserInv'
  <2>1. /\ parser' \in Parsers(parser'.ranges)
        /\ parser'.pc # "closed" => \A i \in DOMAIN parser'.ranges : RangeInv(i)'
        /\ parser'.pc \in {"next", "scan", "send"} => parser'.i \in DOMAIN parser'.ranges
    BY <1>1, <1>7 DEF ParserInv
  <2>2. parser.pc \in {"next", "send"} => AtRecord'
    <3> SUFFICES ASSUME parser.pc \in {"next", "send"} PROVE AtRecord'
      OBVIOUS
    <3>1. PICK k \in 1..n :
            /\ journal[k].at = parser.at
            /\ PageOf(parser.at) \in DOMAIN seen => k <= seen[PageOf(parser.at)]
      BY <1>1, <1>2 DEF ParserInv, AtRecord
    <3>2. k \in DOMAIN journal' /\ journal'[k].at = parser.at
      BY <1>2, <3>1
    <3> QED BY <1>1, <3>1, <3>2 DEF AtRecord
  <2>3. parser.pc = "scan" => \A o \in Offsets :
          JournalEnd' <= o /\ o < parser.at => PageOf(o) \in DOMAIN seen
    <3> SUFFICES ASSUME parser.pc = "scan", NEW o \in Offsets, JournalEnd' <= o,
                        o < parser.at
                 PROVE  PageOf(o) \in DOMAIN seen
      OBVIOUS
    <3>1. JournalEnd <= o
      BY <1>2, Layout DEF Offsets
    <3> QED BY <1>1, <3>1 DEF ParserInv
  <2> QED BY <1>1, <2>1, <2>2, <2>3 DEF ParserInv
<1>9. WatcherInv'
  <2>1. ASSUME At("deliver"), NEW k \in 1..(n + 1), journal'[k].at < watcher.hand
        PROVE  journal'[k].at <= watcher.start
    <3>1. watcher.hand \in Nat /\ watcher.hand < a
      BY <1>1, <1>6, <2>1 DEF WatcherInv
    <3>2. CASE k \in 1..n
      BY <1>1, <1>2, <2>1, <3>2 DEF WatcherInv
    <3>3. CASE k = n + 1
      BY <1>2, <2>1, <3>1, <3>3
    <3> QED BY <1>3, <3>2, <3>3
  <2>2. /\ IsRecord(watcher.start) => IsRecord(watcher.start)'
        /\ IsRecord(watcher.hand) => IsRecord(watcher.hand)'
    BY <1>1, <1>2, <1>3 DEF IsRecord
  <2>3. At("deliver")' = At("deliver") /\ Listing' = Listing
        /\ BetweenPolls' = BetweenPolls /\ BeforeBase' = BeforeBase /\ Based' = Based
        /\ At("reading")' = At("reading")
    BY <1>1 DEF At, Listing, BetweenPolls, BeforeBase, Based
  <2> QED BY <1>1, <1>2, <2>1, <2>2, <2>3 DEF WatcherInv
<1>10. DeliveredInv'
  <2>1. watcher.start \in Nat /\ watcher.start < a
    <3>1. watcher.start = 0 \/ IsRecord(watcher.start)
      BY <1>1 DEF WatcherInv
    <3> QED BY <1>2, <1>6, <3>1
  <2>2. base > 0 => \A k \in 1..(n + 1) :
          base < journal'[k].at /\ journal'[k].at <= watcher.start => Got(journal'[k].at)
    <3> SUFFICES ASSUME base > 0, NEW k \in 1..(n + 1), base < journal'[k].at,
                        journal'[k].at <= watcher.start
                 PROVE  Got(journal'[k].at)
      OBVIOUS
    <3>1. k \in 1..n
      BY <1>2, <1>3, <2>1
    <3> QED BY <1>1, <1>2, <3>1 DEF DeliveredInv
  <2>3. \A i \in DOMAIN delivered :
          \E k \in 1..(n + 1) : journal'[k].at = delivered[i].at
    <3> SUFFICES ASSUME NEW i \in DOMAIN delivered
                 PROVE  \E k \in 1..(n + 1) : journal'[k].at = delivered[i].at
      OBVIOUS
    <3>1. PICK k \in 1..n : journal[k].at = delivered[i].at
      BY <1>1, <1>2 DEF DeliveredInv, IsRecord
    <3>2. k \in 1..(n + 1)
      BY <1>2
    <3> QED BY <1>2, <3>1, <3>2
  <2> QED BY <1>1, <1>2, <2>2, <2>3 DEF DeliveredInv, IsRecord, Listing, At, Increasing, Got
<1>11. ProgressInv'
  <2>1. /\ Following' = Following /\ At("sleep")' = At("sleep")
        /\ \A o : Handed(o)' = Handed(o)
    BY <1>1 DEF Handed, Listing, At, Got, Following
  <2>2. HandedAllKnown => HandedAllKnown'
    BY <1>1, <1>2, <1>3, <2>1 DEF HandedAllKnown
  <2>3. ASSUME Following, parser.pc = "send", NEW k \in 1..(n + 1),
               journal'[k].at < parser.at
        PROVE  Handed(journal'[k].at)
    <3>1. parser.at \in Nat /\ parser.at < a
      BY <1>1, <1>2, <2>3 DEF ParserInv, AtRecord
    <3>2. k \in 1..n
      BY <1>2, <1>3, <2>3, <3>1
    <3> QED BY <1>1, <1>2, <2>3, <3>2 DEF ProgressInv
  <2>4. ASSUME Following, parser.pc = "next", NEW k \in 1..(n + 1),
               journal'[k].at <= parser.at
        PROVE  Handed(journal'[k].at)
    <3>1. parser.at \in Nat /\ parser.at < a
      BY <1>1, <1>2, <2>4 DEF ParserInv, AtRecord
    <3>2. k \in 1..n
      BY <1>2, <1>3, <2>4, <3>1
    <3> QED BY <1>1, <1>2, <2>4, <3>2 DEF ProgressInv
  <2>5. ASSUME Following, parser.pc = "scan", NEW k \in 1..(n + 1),
               journal'[k].at < parser.at
        PROVE  Handed(journal'[k].at) \/ Late(k)'
    <3>1. CASE k \in 1..n
      <4>1. Handed(journal[k].at) \/ Late(k)
        BY <1>1, <1>2, <2>5, <3>1 DEF ProgressInv
      <4>2. Late(k)' = Late(k)
        BY <1>1, <1>2, <3>1 DEF Late
      <4> QED BY <1>2, <3>1, <4>1, <4>2
    <3>2. CASE k = n + 1
      <4>1. PageOf(a) \in DOMAIN seen
        BY <1>1, <1>2, <2>5, <3>2 DEF ParserInv
      <4>2. seen[PageOf(a)] < n + 1
        <5>1. known \in Nat /\ seen[PageOf(a)] \in known..n
          BY <1>1, <1>3, <4>1 DEF SeenInv, n
        <5> QED BY <1>2, <5>1
      <4> QED BY <1>1, <1>2, <3>2, <4>1, <4>2 DEF Late
    <3> QED BY <1>3, <3>1, <3>2
  <2>6. ASSUME Following, parser.pc = "range", parser.i \in DOMAIN parser.ranges,
               NEW k \in 1..(n + 1), journal'[k].at < parser.ranges[parser.i].offset
        PROVE  Handed(journal'[k].at)
    <3> DEFINE r == parser.ranges[parser.i]
    <3>1. RangeInv(parser.i)
      BY <1>1, <2>6 DEF ParserInv
    <3>2. r.offset \in Nat /\ r.end \in Nat /\ r.offset < r.end
      BY <3>1, Layout DEF RangeInv, Offsets
    <3>3. r.offset < a
      <4>1. CASE r.sparse
        <5>1. r.end <= Extents[1]
          BY <3>1, <4>1 DEF RangeInv
        <5> HIDE DEF r
        <5> QED BY <1>2, <3>2, <5>1
      <4>2. CASE ~ r.sparse
        BY <1>2, <3>1, <4>2 DEF RangeInv
      <4> QED BY <4>1, <4>2
    <3>4. k \in 1..n
      <4> SUFFICES ASSUME k = n + 1 PROVE FALSE
        BY <1>3
      <4>1. a < r.offset
        BY <1>2, <2>6
      <4> HIDE DEF r
      <4> QED BY <1>2, <3>2, <3>3, <4>1
    <3> QED BY <1>1, <1>2, <2>6, <3>4 DEF ProgressInv
  <2>7. /\ parser' = parser /\ cancelled' = cancelled /\ known' = known
        /\ DOMAIN journal' = 1..(n + 1)
    BY <1>1, <1>2
  <2>8. Following =>
          /\ parser.pc = "range" /\ parser.i \notin DOMAIN parser.ranges => HandedAllKnown'
          /\ parser.pc = "closed" /\ ~ cancelled => HandedAllKnown'
    BY <1>1, <2>2 DEF ProgressInv
  <2>9. At("sleep") /\ ~ cancelled => HandedAllKnown'
    BY <1>1, <2>2 DEF ProgressInv
  <2> HIDE DEF HandedAllKnown
  <2> QED BY <2>1, <2>3, <2>4, <2>5, <2>6, <2>7, <2>8, <2>9 DEF ProgressInv
<1> QED BY <1>2, <1>4, <1>8, <1>9, <1>10, <1>11 DEF IInv

-----------------------------------------------------------------------------
(* The theorems *)

LEMMA InitIInv == Init => IInv
<1> SUFFICES ASSUME Init PROVE IInv
  OBVIOUS
<1>1. /\ journal = << >> /\ seen = << >> /\ parser = NoParser /\ delivered = << >>
      /\ cancelled = FALSE /\ known = 0 /\ base = 0
      /\ watcher.pc \in {"start", "list"}
      /\ watcher = [pc |-> watcher.pc, start |-> 0, hand |-> 0, misread |-> FALSE,
                    found |-> FALSE]
  BY DEF Init
<1>2. DOMAIN journal = {} /\ Len(journal) = 0 /\ DOMAIN seen = {} /\ DOMAIN delivered = {}
  BY <1>1
<1>3. /\ Total \in Nat /\ 0 \in Offsets /\ Extents[1] \in Nat
      /\ \A o \in Offsets : o \in Nat
  BY Layout DEF Offsets
<1>4. JournalInv
  <2>1. JournalEnd = Extents[1]
    BY <1>1 DEF JournalEnd
  <2>2. journal \in Seq([at : Offsets, len : Lengths])
    BY <1>1
  <2> QED BY <1>2, <1>3, <2>1, <2>2 DEF JournalInv
<1>5. SeenInv
  BY <1>1, <1>2 DEF SeenInv
<1>6. ParserInv
  BY <1>1, <1>3 DEF ParserInv, Parsers, NoParser
<1>7. WatcherInv
  <2>1. /\ watcher \in Watchers
        /\ watcher.start = 0 /\ parser.pc = "closed" /\ parser.from = 0
    <3> DEFINE w == watcher.pc
    <3>2. /\ w \in {"start", "list"}
          /\ watcher = [pc |-> w, start |-> 0, hand |-> 0, misread |-> FALSE, found |-> FALSE]
      BY <1>1
    <3> HIDE DEF w
    <3> QED BY <1>1, <1>3, <3>2 DEF Watchers, NoParser
  <2> QED BY <1>1, <2>1 DEF WatcherInv, BetweenPolls, BeforeBase, Based, Listing, At
<1>8. DeliveredInv
  <2>1. delivered \in Seq([at : Offsets, misread : {FALSE}])
    BY <1>1
  <2> QED BY <1>1, <1>2, <1>3, <2>1 DEF DeliveredInv, Increasing
<1>9. ProgressInv
  BY <1>1 DEF ProgressInv, Following, At
<1> QED BY <1>4, <1>5, <1>6, <1>7, <1>8, <1>9 DEF IInv

LEMMA NextKeeps ==
  ASSUME RoundLengths = {}, ~ Preallocated, IInv, [Next]_vars PROVE IInv'
<1>1. CASE ParserStep
  BY <1>1, FirstOfRangeKeeps, NoMoreRangesKeeps, AdvanceKeeps, ScanKeeps DEF ParserStep
<1>2. CASE ParserCancelled
  BY <1>2, ParserCancelledKeeps
<1>3. CASE WatcherStep
  BY <1>3, PurgeKeeps, OpenLastKeeps, ReceiveLastKeeps, LastFoundKeeps, OpenKeeps,
     ReceiveKeeps, EndOfPollKeeps, ListKeeps
  DEF WatcherStep
<1>4. CASE WatcherCancelled
  BY <1>4, WatcherCancelledKeeps
<1>5. CASE Deliver
  BY <1>5, DeliverKeeps
<1>6. CASE Tick
  BY <1>6, TickKeeps
<1>7. CASE ReceiveListed
  BY <1>7, ReceiveListedKeeps
<1>8. CASE \E len \in Lengths : Write(len)
  BY <1>8, WriteKeeps
<1>9. CASE Cancel
  BY <1>9, CancelKeeps
<1>10. CASE UNCHANGED vars
  <2>1. /\ journal' = journal /\ seen' = seen /\ parser' = parser /\ watcher' = watcher
        /\ delivered' = delivered /\ cancelled' = cancelled /\ known' = known /\ base' = base
    BY <1>10 DEF vars
  <2>2. /\ JournalInv' /\ SeenInv' /\ ParserInv'
        /\ \A o : IsRecord(o)' = IsRecord(o)
    BY <2>1, JournalStays, ParserStays DEF IInv
  <2>3. WatcherInv'
    BY <2>1, <2>2 DEF IInv, WatcherInv, BetweenPolls, BeforeBase, Based, Listing, At
  <2>4. DeliveredInv'
    BY <2>1, <2>2 DEF IInv, DeliveredInv, Listing, At, Increasing, Got
  <2>5. ProgressInv'
    BY <2>1 DEF IInv, ProgressInv, Following, At, Handed, Listing, Got, Late, HandedAllKnown
  <2> QED BY <2>2, <2>3, <2>4, <2>5 DEF IInv
<1> QED BY <1>1, <1>2, <1>3, <1>4, <1>5, <1>6, <1>7, <1>8, <1>9, <1>10 DEF Next

LEMMA Invariance == ASSUME RoundLengths = {}, ~ Preallocated PROVE Spec => []IInv
<1>1. IInv /\ [Next]_vars => IInv'
  BY NextKeeps
<1> QED BY <1>1, InitIInv, PTL DEF Spec

\* The type invariant: the offsets that the goroutines hold and deliver are
\* those of the journal, and the cache holds pages of it (usn.go).
THEOREM TypesHold ==
  ASSUME RoundLengths = {}, ~ Preallocated PROVE Spec => []TypeOK
<1>1. IInv => TypeOK
  <2> SUFFICES ASSUME IInv PROVE TypeOK
    OBVIOUS
  <2>1. /\ JournalInv /\ SeenInv /\ WatcherInv /\ DeliveredInv
        /\ parser \in Parsers(parser.ranges)
    BY DEF IInv, ParserInv
  <2>2. \A p \in DOMAIN seen : seen[p] \in 0..Len(journal)
    BY <2>1, JournalFacts DEF SeenInv
  <2>3. /\ parser.pc \in {"closed", "range", "next", "scan", "send"}
        /\ parser.at \in Offsets /\ parser.from \in Offsets
    BY <2>1 DEF Parsers
  <2>4. delivered \in Seq([at : Offsets, misread : BOOLEAN])
    <3>1. delivered \in Seq([at : Offsets, misread : {FALSE}])
      BY <2>1 DEF DeliveredInv
    <3>2. [at : Offsets, misread : {FALSE}] \subseteq [at : Offsets, misread : BOOLEAN]
      OBVIOUS
    <3> QED BY <3>1, <3>2, WiderSeq
  <2>5. watcher \in [pc : {"start", "last", "wait", "reading", "purge", "open",
                           "collect", "deliver", "sleep", "closed", "list", "listing"},
                     start : Offsets, hand : Offsets,
                     misread : BOOLEAN, found : BOOLEAN]
    BY <2>1 DEF WatcherInv, Watchers
  <2> QED BY <2>1, <2>2, <2>3, <2>4, <2>5 DEF TypeOK, JournalInv, SeenInv, DeliveredInv
<1> QED BY <1>1, Invariance, PTL

\* What a consumer of WatchUSN or ParseUSN gets are records of the journal; the
\* consumer of a watch gets them in order and once, and start_offset passes over
\* none of them, however polls, writes, receives and a cancel fall together.
THEOREM JournalIsDelivered ==
  ASSUME RoundLengths = {}, ~ Preallocated PROVE Spec => []DeliversTheJournal
<1>1. IInv => DeliversTheJournal
  <2> SUFFICES ASSUME IInv PROVE DeliversTheJournal
    OBVIOUS
  <2>1. DeliveredInv
    BY DEF IInv
  <2>2. \A i \in DOMAIN delivered : delivered[i] \in [at : Offsets, misread : {FALSE}]
    BY <2>1, QueueFacts DEF DeliveredInv
  <2> QED BY <2>1, <2>2 DEF DeliversTheJournal, DeliveredInv, IsRecord
<1> QED BY <1>1, Invariance, PTL

\* A poll of WatchUSN that ends has delivered every record after the base that
\* the journal held at the Purge before it, whatever the page cache held of the
\* journal's growing last page.
THEOREM PollsAreComplete ==
  ASSUME RoundLengths = {}, ~ Preallocated PROVE Spec => []PollIsComplete
<1>1. IInv => PollIsComplete
  <2> SUFFICES ASSUME IInv, At("sleep"), ~ cancelled, NEW k \in 1..known,
                      base < journal[k].at
               PROVE  Got(journal[k].at)
    BY DEF PollIsComplete
  <2>1. k \in DOMAIN journal
    BY JournalFacts DEF IInv, SeenInv
  <2>2. journal[k].at <= watcher.start
    BY DEF IInv, ProgressInv, HandedAllKnown, Handed, Listing, At
  <2>3. base > 0
    BY DEF IInv, WatcherInv, Based, At
  <2> QED BY <2>1, <2>2, <2>3 DEF IInv, DeliveredInv
<1> QED BY <1>1, Invariance, PTL

\* A program that lists the journal with ParseUSN and is not cancelled gets every
\* record that the journal held when the listing began.
THEOREM ListingsAreComplete ==
  ASSUME RoundLengths = {}, ~ Preallocated PROVE Spec => []ListIsComplete
<1>1. IInv => ListIsComplete
  <2> SUFFICES ASSUME IInv, At("listing"), parser.pc = "closed", ~ cancelled,
                      NEW k \in 1..known
               PROVE  Got(journal[k].at)
    BY DEF ListIsComplete
  <2> QED BY DEF IInv, ProgressInv, Following, HandedAllKnown, Handed, Listing, At
<1> QED BY <1>1, Invariance, PTL
=============================================================================
