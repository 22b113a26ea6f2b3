----------------------------- MODULE LRU_proofs ------------------------------
(***************************************************************************)
(* Proofs about parser/lru.go for every set of keys and values and every   *)
(* size: what TLC checks of LRU on four keys and two values.               *)
(***************************************************************************)
EXTENDS LRU, Lemmas

\* The inductive invariant.  TypeOK alone is not inductive: taking an element
\* out of the list gives a shorter list only if the element is there, which is
\* what the agreement of the map and the list says; and the callback argument
\* of an Add needs the size, for the entry at the back to be another one.
IInv == TypeOK /\ Consistent /\ Bounded /\ CallbackOnlyForTheGone

GoodCache == Good(cache, Keys, Values)

\* The invariant in the terms of the lemmas about LRUEntries.
LEMMA InvIsGood == IInv <=> /\ GoodCache
                            /\ TypeOK
                            /\ Bounded
                            /\ CallbackOnlyForTheGone
BY DEF IInv, GoodCache, Good, Consistent, TypeOK

\* NewLRU establishes the invariant.
LEMMA InitLemma == Init => IInv
<1> SUFFICES ASSUME Init PROVE IInv
  OBVIOUS
<1>1. GoodCache /\ Cached(cache) = {}
  BY EmptyLemma DEF Init, GoodCache
<1>2. Bounded
  BY SizeAssumption DEF Init, Empty, Bounded, WithinSize
<1>3. TypeOK
  BY <1>1 DEF GoodCache, Good, Init, TypeOK, Failure
<1>4. CallbackOnlyForTheGone
  BY DEF Init, CallbackOnlyForTheGone
<1> QED BY <1>1, <1>2, <1>3, <1>4, InvIsGood

\* What an action must establish, in terms of the cache alone.
LEMMA StepLemma ==
  ASSUME GoodCache', Bounded',
         stats' \in [hits : Nat, miss : Nat, total : Nat],
         ret' \in [ok : BOOLEAN, value : Values \cup {NoValue}],
         evicted' \subseteq Keys \X Values,
         \A p \in evicted' : ~ IsCached(cache', p[1])
  PROVE  IInv'
BY DEF IInv, GoodCache, Good, TypeOK, Consistent, CallbackOnlyForTheGone

\* Purge keeps it: the empty cache is good, and nobody is left in it.
LEMMA PurgeLemma == IInv /\ Purge => IInv'
<1> SUFFICES ASSUME IInv, Purge PROVE IInv'
  OBVIOUS
<1>1. GoodCache' /\ Cached(cache') = {}
  BY EmptyLemma DEF Purge, GoodCache
<1>2. Bounded'
  BY SizeAssumption DEF Purge, Empty, Bounded, WithinSize
<1>3. evicted' \subseteq Keys \X Values
  <2>1. \A x \in Cached(cache) : x \in Keys /\ cache.items[x] \in Values
    BY CacheFields DEF IInv, TypeOK
  <2> QED BY <2>1 DEF Purge, Entries
<1>4. \A p \in evicted' : ~ IsCached(cache', p[1])
  BY <1>1 DEF IsCached
<1>5. stats' \in [hits : Nat, miss : Nat, total : Nat]
  BY DEF IInv, TypeOK, Purge
<1>6. ret' \in [ok : BOOLEAN, value : Values \cup {NoValue}]
  BY DEF Purge, Failure
<1> QED BY <1>1, <1>2, <1>3, <1>4, <1>5, <1>6, StepLemma

\* Add keeps it, whether it replaces, inserts or evicts.
LEMMA AddLemma ==
  ASSUME IInv, NEW k \in Keys, NEW v \in Values, Add(k, v) PROVE IInv'
<1>1. GoodCache /\ WithinSize(cache, Size) /\ Size \in Nat \ {0}
  BY InvIsGood, SizeAssumption DEF Bounded
<1>2. /\ Good(Added(cache, k, v, Size), Keys, Values)
      /\ WithinSize(Added(cache, k, v, Size), Size)
      /\ AddEvicts(cache, k, v, Size) \subseteq Keys \X Values
      /\ \A p \in AddEvicts(cache, k, v, Size) :
           ~ IsCached(Added(cache, k, v, Size), p[1])
  BY <1>1, AddedLemma DEF GoodCache
<1>3. GoodCache' /\ Bounded' /\ evicted' \subseteq Keys \X Values
  BY <1>2 DEF Add, GoodCache, Bounded
<1>4. \A p \in evicted' : ~ IsCached(cache', p[1])
  BY <1>2 DEF Add
<1>5. stats' \in [hits : Nat, miss : Nat, total : Nat]
  BY DEF IInv, TypeOK, Add
<1>6. ret' \in [ok : BOOLEAN, value : Values \cup {NoValue}]
  BY DEF Add
<1> QED BY <1>3, <1>4, <1>5, <1>6, StepLemma

\* Touch and a hit of Get.
LEMMA UseStep ==
  ASSUME IInv, NEW k \in Keys, cache' = Use(cache, k)
  PROVE  GoodCache' /\ Bounded'
<1>1. GoodCache /\ WithinSize(cache, Size)
  BY InvIsGood DEF Bounded
<1>2. /\ Good(Use(cache, k), Keys, Values)
      /\ Len(Use(cache, k).evictList) = Len(cache.evictList)
  BY <1>1, UseLemma DEF GoodCache
<1> QED BY <1>1, <1>2 DEF GoodCache, Bounded, WithinSize

\* Touch keeps it.
LEMMA TouchLemma == ASSUME IInv, NEW k \in Keys, Touch(k) PROVE IInv'
<1>1. GoodCache' /\ Bounded'
  BY UseStep DEF Touch
<1>2. /\ stats' \in [hits : Nat, miss : Nat, total : Nat]
      /\ ret' \in [ok : BOOLEAN, value : Values \cup {NoValue}]
      /\ evicted' = {}
  BY DEF IInv, TypeOK, Touch, Failure
<1> QED BY <1>1, <1>2, StepLemma

\* Get of a cached key keeps it.
LEMMA GetHitLemma == ASSUME IInv, NEW k \in Keys, GetHit(k) PROVE IInv'
<1>1. GoodCache' /\ Bounded'
  BY UseStep DEF GetHit
<1>2. cache.items[k] \in Values
  BY CacheFields DEF IInv, TypeOK, GetHit, IsCached
<1>3. /\ stats' \in [hits : Nat, miss : Nat, total : Nat]
      /\ ret' \in [ok : BOOLEAN, value : Values \cup {NoValue}]
      /\ evicted' = {}
  BY <1>2 DEF IInv, TypeOK, GetHit, Success
<1> QED BY <1>1, <1>3, StepLemma

\* Get of another key keeps it.
LEMMA GetMissLemma == ASSUME IInv, NEW k \in Keys, GetMiss(k) PROVE IInv'
<1>1. GoodCache' /\ Bounded'
  BY InvIsGood DEF GetMiss, GoodCache, Bounded
<1>2. /\ stats' \in [hits : Nat, miss : Nat, total : Nat]
      /\ ret' \in [ok : BOOLEAN, value : Values \cup {NoValue}]
      /\ evicted' = {}
  BY DEF IInv, TypeOK, GetMiss, Failure
<1> QED BY <1>1, <1>2, StepLemma

\* removeElement keeps it, whichever cached key it is called with.
LEMMA TakeOutLemma ==
  ASSUME IInv, NEW k, IsCached(cache, k),
         NEW answer \in [ok : BOOLEAN, value : Values \cup {NoValue}],
         TakeOut(k, answer)
  PROVE  IInv'
<1>1. GoodCache /\ WithinSize(cache, Size) /\ Size \in Nat
  BY InvIsGood, SizeAssumption DEF Bounded
<1>2. /\ Good(removeElement(cache, k), Keys, Values)
      /\ Cached(removeElement(cache, k)) = Cached(cache) \ {k}
      /\ Len(removeElement(cache, k).evictList) = Len(cache.evictList) - 1
  BY <1>1, RemoveElementLemma DEF GoodCache
<1>3. Len(cache.evictList) \in Nat
  BY CacheFields DEF IInv, TypeOK
<1>4. GoodCache' /\ Bounded'
  BY <1>1, <1>2, <1>3 DEF TakeOut, GoodCache, Bounded, WithinSize
<1>5. evicted' = {<<k, cache.items[k]>>}
  BY DEF TakeOut, Entries
<1>6. k \in Keys /\ cache.items[k] \in Values
  BY CacheFields DEF IInv, TypeOK, IsCached
<1>7. \A p \in evicted' : ~ IsCached(cache', p[1])
  <2>1. ~ IsCached(cache', k)
    BY <1>2 DEF TakeOut, IsCached
  <2>2. \A p \in evicted' : p[1] = k
    BY <1>5
  <2> QED BY <2>1, <2>2
<1>8. /\ stats' \in [hits : Nat, miss : Nat, total : Nat]
      /\ ret' \in [ok : BOOLEAN, value : Values \cup {NoValue}]
  BY DEF IInv, TypeOK, TakeOut
<1> QED BY <1>4, <1>5, <1>6, <1>7, <1>8, StepLemma

\* Remove and RemoveOldest that find nothing keep it.
LEMMA NothingLemma == ASSUME IInv, NothingToTakeOut PROVE IInv'
<1>1. GoodCache' /\ Bounded'
  BY InvIsGood DEF NothingToTakeOut, GoodCache, Bounded
<1>2. /\ stats' \in [hits : Nat, miss : Nat, total : Nat]
      /\ ret' \in [ok : BOOLEAN, value : Values \cup {NoValue}]
      /\ evicted' = {}
  BY DEF IInv, TypeOK, NothingToTakeOut, Failure
<1> QED BY <1>1, <1>2, StepLemma

\* The element at the back of a list names a cached entry.
LEMMA OldestIsCached ==
  ASSUME IInv, cache.evictList # << >>
  PROVE  /\ IsCached(cache, Back(cache.evictList))
         /\ Oldest \in [ok : BOOLEAN, value : Values \cup {NoValue}]
<1> DEFINE b == Back(cache.evictList)
<1>1. cache.evictList \in Seq(Keys)
  BY CacheFields DEF IInv, TypeOK
<1>2. Len(cache.evictList) \in 1..Len(cache.evictList)
  BY <1>1
<1>3. IsCached(cache, b)
  BY <1>2 DEF IInv, Consistent, MapAndListAgree, Back, IsCached
<1>4. cache.items[b] \in Values
  BY <1>3, CacheFields DEF IInv, TypeOK, IsCached
<1> QED BY <1>3, <1>4 DEF Oldest, Success

\* Remove keeps it.
LEMMA RemoveLemma == ASSUME IInv, NEW k \in Keys, Remove(k) PROVE IInv'
<1>1. Success(NoValue) \in [ok : BOOLEAN, value : Values \cup {NoValue}]
  BY DEF Success
<1>2. CASE IsCached(cache, k) /\ TakeOut(k, Success(NoValue))
  BY <1>1, <1>2, TakeOutLemma
<1>3. CASE NothingToTakeOut
  BY <1>3, NothingLemma
<1> QED BY <1>2, <1>3 DEF Remove

\* RemoveOldest keeps it: the element at the back is that of an entry.
LEMMA RemoveOldestLemma == ASSUME IInv, RemoveOldest PROVE IInv'
<1>1. CASE cache.evictList # << >> /\ TakeOut(Back(cache.evictList), Oldest)
  BY <1>1, OldestIsCached, TakeOutLemma
<1>2. CASE NothingToTakeOut
  BY <1>2, NothingLemma
<1> QED BY <1>1, <1>2 DEF RemoveOldest

\* Every step keeps it.
LEMMA NextLemma == IInv /\ [Next]_vars => IInv'
<1> SUFFICES ASSUME IInv, [Next]_vars PROVE IInv'
  OBVIOUS
<1>1. ASSUME NEW k \in Keys, NEW v \in Values, Add(k, v) PROVE IInv'
  BY <1>1, AddLemma
<1>2. ASSUME NEW k \in Keys, GetHit(k) PROVE IInv'
  BY <1>2, GetHitLemma
<1>3. ASSUME NEW k \in Keys, GetMiss(k) PROVE IInv'
  BY <1>3, GetMissLemma
<1>4. ASSUME NEW k \in Keys, Touch(k) PROVE IInv'
  BY <1>4, TouchLemma
<1>5. ASSUME NEW k \in Keys, Remove(k) PROVE IInv'
  BY <1>5, RemoveLemma
<1>6. CASE RemoveOldest
  BY <1>6, RemoveOldestLemma
<1>7. CASE Purge
  BY <1>7, PurgeLemma
<1>8. CASE UNCHANGED vars
  BY <1>8 DEF vars, IInv, TypeOK, Consistent, Bounded, CallbackOnlyForTheGone
<1> QED BY <1>1, <1>2, <1>3, <1>4, <1>5, <1>6, <1>7, <1>8 DEF Next

\* Whatever methods of lru.go are called, in whatever order, the invariant holds.
THEOREM Invariant == Spec => []IInv
BY InitLemma, NextLemma, PTL DEF Spec

\* Whatever methods are called, each field of the cache keeps its type.
THEOREM TypeCorrect == Spec => []TypeOK
BY Invariant, PTL DEF IInv

\* The map and the list of the cache never disagree.
THEOREM NeverDiverge == Spec => []Consistent
BY Invariant, PTL DEF IInv

\* The cache never outgrows its size.
THEOREM SizeIsKept == Spec => []Bounded
BY Invariant, PTL DEF IInv

\* The callback never gets an entry that is still in the cache: for the pages
\* of a reader, a buffer is never on the free list and in the cache at once.
THEOREM CallbackIsSafe == Spec => []CallbackOnlyForTheGone
BY Invariant, PTL DEF IInv

-----------------------------------------------------------------------------
\* What a step may do to the entries.
Leaves ==
  \A k \in Cached(cache) :
    \/ IsCached(cache, k)' /\ cache.items[k] = cache'.items[k]
    \/ <<k, cache.items[k]>> \in evicted'
    \/ IsCached(cache, k)' /\ stats'.total > stats.total

\* No step takes an entry out but through the callback, or by an Add of its key.
LEMMA LeavesLemma == IInv /\ [Next]_vars => [Leaves]_vars
<1> SUFFICES ASSUME IInv, Next PROVE Leaves
  BY DEF Leaves
<1>1. GoodCache /\ WithinSize(cache, Size) /\ Size \in Nat \ {0}
  BY InvIsGood, SizeAssumption DEF Bounded
<1>2. ASSUME NEW k \in Keys, NEW v \in Values, Add(k, v) PROVE Leaves
  <2>1. stats'.total > stats.total
    BY <1>2 DEF Add, IInv, TypeOK
  <2>2. /\ IsCached(cache', k)
        /\ \A x \in Cached(cache) \ {k} :
             \/ IsCached(cache', x) /\ cache'.items[x] = cache.items[x]
             \/ <<x, cache.items[x]>> \in evicted'
    BY <1>1, <1>2, AddedLemma DEF GoodCache, Add
  <2> QED BY <2>1, <2>2 DEF Leaves
<1>3. ASSUME NEW k \in Keys, cache' = Use(cache, k) PROVE Leaves
  <2>1. cache'.items = cache.items
    BY <1>1, <1>3, UseLemma DEF GoodCache
  <2> QED BY <2>1 DEF Leaves, IsCached, Cached
<1>4. ASSUME cache' = cache PROVE Leaves
  BY <1>4 DEF Leaves, IsCached
<1>5. ASSUME NEW k, NEW answer, IsCached(cache, k), TakeOut(k, answer)
      PROVE  Leaves
  <2>1. /\ Cached(cache') = Cached(cache) \ {k}
        /\ \A x \in Cached(cache) \ {k} : cache'.items[x] = cache.items[x]
    BY <1>1, <1>5, RemoveElementLemma DEF GoodCache, TakeOut
  <2>2. <<k, cache.items[k]>> \in evicted'
    BY <1>5 DEF TakeOut, Entries
  <2> QED BY <2>1, <2>2 DEF Leaves, IsCached
<1>6. CASE Purge
  BY <1>6 DEF Purge, Entries, Leaves
<1>7. CASE RemoveOldest
  BY <1>4, <1>5, <1>7, OldestIsCached DEF RemoveOldest, NothingToTakeOut
<1>8. ASSUME NEW k \in Keys, Remove(k) PROVE Leaves
  BY <1>4, <1>5, <1>8 DEF Remove, NothingToTakeOut
<1>9. ASSUME NEW k \in Keys, GetHit(k) \/ GetMiss(k) \/ Touch(k) PROVE Leaves
  BY <1>3, <1>4, <1>9 DEF GetHit, GetMiss, Touch
<1> QED BY <1>2, <1>6, <1>7, <1>8, <1>9 DEF Next

\* An entry leaves the cache through the callback, or its own key is added
\* again: no page buffer is forgotten without being given back.
THEOREM NothingIsLost == Spec => LeavesThroughCallback
<1>1. [Leaves]_vars => [\A k \in Cached(cache) :
       \/ IsCached(cache, k)' /\ cache.items[k] = cache'.items[k]
       \/ <<k, cache.items[k]>> \in evicted'
       \/ IsCached(cache, k)' /\ stats'.total > stats.total]_vars
  BY DEF Leaves
<1> QED BY Invariant, LeavesLemma, <1>1, PTL DEF Spec, LeavesThroughCallback

-----------------------------------------------------------------------------
(* The refinement: the cache of lru.go is a RecencyCache. *)

\* The pairs of a list in the order of the list: Recency for any list.
ListOrder(s) ==
  LET P == 1..Len(s)
  IN {<<s[p[1]], s[p[2]]>> : p \in {q \in P \X P : q[1] < q[2]}}

\* Recency is the order of the list.
LEMMA RecencyIsListOrder == Recency = ListOrder(cache.evictList)
BY DEF Recency, ListOrder

\* The pairs of a list are those of Before.
LEMMA ListOrderLemma ==
  ASSUME NEW s, NEW p
  PROVE  p \in ListOrder(s) <=> \E x, y : p = <<x, y>> /\ Before(s, x, y)
<1> DEFINE P == 1..Len(s)
<1>1. p \in ListOrder(s) <=>
        \E i, j \in P : i < j /\ p = <<s[i], s[j]>>
  <2> DEFINE Q == {q \in P \X P : q[1] < q[2]}
  <2>1. p \in ListOrder(s) <=> \E q \in Q : p = <<s[q[1]], s[q[2]]>>
    BY DEF ListOrder
  <2>2. \A i, j \in P : i < j => <<i, j>> \in Q
    OBVIOUS
  <2>3. \A q \in Q : q[1] \in P /\ q[2] \in P /\ q[1] < q[2]
    OBVIOUS
  <2>4. \A i, j : <<i, j>>[1] = i /\ <<i, j>>[2] = j
    OBVIOUS
  <2>5. ASSUME NEW i \in P, NEW j \in P, i < j, p = <<s[i], s[j]>>
        PROVE  \E q \in Q : p = <<s[q[1]], s[q[2]]>>
    <3> DEFINE q == <<i, j>>
    <3>1. q \in Q /\ q[1] = i /\ q[2] = j
      BY <2>2, <2>4, <2>5
    <3> HIDE DEF q, Q
    <3> QED BY <2>5, <3>1
  <2> HIDE DEF Q, P
  <2> QED BY <2>1, <2>3, <2>5
<1>2. (\E i, j \in P : i < j /\ p = <<s[i], s[j]>>) <=>
        \E x, y : p = <<x, y>> /\ \E i, j \in P : i < j /\ s[i] = x /\ s[j] = y
  <2> HIDE DEF P
  <2> QED OBVIOUS
<1> QED BY <1>1, <1>2 DEF Before

\* What the three operations on the list do to the order, in the words of
\* RecencyCache, C being the elements of the list.
LEMMA OrderAfterRemove ==
  ASSUME NEW S, NEW s \in Seq(S), NoRepetition(s), NEW k, In(s, k)
  PROVE  ListOrder(ListRemove(s, k)) =
           {p \in ListOrder(s) : p[1] \notin {k} /\ p[2] \notin {k}}
<1> DEFINE r == ListRemove(s, k)
<1>1. \A x, y : Before(r, x, y) <=> Before(s, x, y) /\ x # k /\ y # k
  BY ListRemoveOrder
<1> HIDE DEF r
<1>2. \A x, y : <<x, y>>[1] = x /\ <<x, y>>[2] = y
  OBVIOUS
<1>3. ASSUME NEW p
      PROVE  p \in ListOrder(r) <=> p \in ListOrder(s) /\ p[1] # k /\ p[2] # k
  BY <1>1, <1>2, ListOrderLemma
<1> QED BY <1>3 DEF r

LEMMA OrderAfterPush ==
  ASSUME NEW S, NEW s \in Seq(S), NEW k, NEW C, \A x : In(s, x) <=> x \in C
  PROVE  ListOrder(PushFront(s, k)) = ListOrder(s) \cup ({k} \X C)
<1> DEFINE r == PushFront(s, k)
<1>1. \A x, y : Before(r, x, y) <=> Before(s, x, y) \/ (x = k /\ y \in C)
  BY PushFrontOrder
<1> HIDE DEF r
<1>2. ASSUME NEW p
      PROVE  p \in ListOrder(r) <=> p \in ListOrder(s) \cup ({k} \X C)
  <2>1. p \in ListOrder(r) <=>
          \E x, y : p = <<x, y>> /\ (Before(s, x, y) \/ (x = k /\ y \in C))
    BY <1>1, ListOrderLemma
  <2>2. p \in {k} \X C <=> \E x, y : p = <<x, y>> /\ x = k /\ y \in C
    OBVIOUS
  <2> QED BY <2>1, <2>2, ListOrderLemma
<1> QED BY <1>2 DEF r

LEMMA OrderAfterMove ==
  ASSUME NEW S, NEW s \in Seq(S), NoRepetition(s), NEW k, In(s, k),
         NEW C, \A x : In(s, x) <=> x \in C
  PROVE  ListOrder(MoveToFront(s, k)) =
           {p \in ListOrder(s) : p[1] \in C \ {k} /\ p[2] \in C \ {k}}
             \cup ({k} \X (C \ {k}))
<1> DEFINE r == MoveToFront(s, k)
           kept == {p \in ListOrder(s) : p[1] \in C \ {k} /\ p[2] \in C \ {k}}
<1>1. \A x, y : Before(r, x, y) <=>
        \/ Before(s, x, y) /\ x # k /\ y # k
        \/ x = k /\ y \in C /\ y # k
  BY MoveToFrontOrder
<1>2. \A x, y : Before(s, x, y) => x \in C /\ y \in C
  BY DEF Before, In
<1> HIDE DEF r
<1>3. \A x, y : <<x, y>>[1] = x /\ <<x, y>>[2] = y
  OBVIOUS
<1>4. ASSUME NEW p
      PROVE  p \in ListOrder(r) <=> p \in kept \cup ({k} \X (C \ {k}))
  <2>1. p \in ListOrder(r) <=>
          \E x, y : p = <<x, y>> /\ (\/ Before(s, x, y) /\ x # k /\ y # k
                                     \/ x = k /\ y \in C /\ y # k)
    BY <1>1, ListOrderLemma
  <2>2. p \in kept <=>
          \E x, y : p = <<x, y>> /\ Before(s, x, y) /\ x # k /\ y # k
    BY <1>2, <1>3, ListOrderLemma
  <2>3. p \in {k} \X (C \ {k}) <=>
          \E x, y : p = <<x, y>> /\ x = k /\ y \in C /\ y # k
    OBVIOUS
  <2> HIDE DEF kept
  <2> QED BY <2>1, <2>2, <2>3
<1> HIDE DEF kept
<1>5. ListOrder(r) = kept \cup ({k} \X (C \ {k}))
  BY <1>4
<1> QED BY <1>5 DEF r, kept

\* What the invariant says of the fields, in the terms of RecencyCache.
LEMMA FieldsLemma ==
  ASSUME IInv
  PROVE  /\ cache.evictList \in Seq(Keys) /\ NoRepetition(cache.evictList)
         /\ \A x : In(cache.evictList, x) <=> x \in Cached(cache)
         /\ cache.items = [x \in Cached(cache) |-> cache.items[x]]
         /\ Abstract!Cached = Cached(cache)
         /\ \A p \in Recency : p[1] \in Cached(cache) /\ p[2] \in Cached(cache)
<1>1. /\ cache.evictList \in Seq(Keys) /\ NoRepetition(cache.evictList)
      /\ \A x : In(cache.evictList, x) <=> x \in Cached(cache)
  BY InvIsGood, CacheFields, AgreeLemma DEF GoodCache, Good
<1>2. cache.items = [x \in Cached(cache) |-> cache.items[x]]
  BY InvIsGood, CacheFields DEF GoodCache, Good, MapOK, Cached
<1>3. Abstract!Cached = Cached(cache)
  BY DEF Abstract!Cached, Cached
<1>4. \A p \in Recency : p[1] \in Cached(cache) /\ p[2] \in Cached(cache)
  <2> SUFFICES ASSUME NEW p \in Recency
               PROVE  p[1] \in Cached(cache) /\ p[2] \in Cached(cache)
    OBVIOUS
  <2>1. PICK x, y : p = <<x, y>> /\ Before(cache.evictList, x, y)
    BY RecencyIsListOrder, ListOrderLemma
  <2>2. x \in Cached(cache) /\ y \in Cached(cache)
    BY <1>1, <2>1 DEF Before, In
  <2> QED BY <2>1, <2>2
<1> QED BY <1>1, <1>2, <1>3, <1>4

\* The least recently used entry is the one at the back of the list.
LEMMA OldestLemma ==
  ASSUME IInv
  PROVE  /\ cache.evictList # << >> => Abstract!Oldest = {Back(cache.evictList)}
         /\ cache.evictList = << >> => Cached(cache) = {} /\ Abstract!Oldest = {}
<1> DEFINE s == cache.evictList
           b == Back(s)
<1>1. /\ s \in Seq(Keys) /\ NoRepetition(s)
      /\ \A x : In(s, x) <=> x \in Cached(cache)
      /\ Abstract!Cached = Cached(cache)
  BY FieldsLemma
<1>2. \A x, y : <<x, y>> \in Recency <=> Before(s, x, y)
  BY RecencyIsListOrder, ListOrderLemma
<1>3. Abstract!Oldest =
        {k \in Cached(cache) : \A x \in Cached(cache) \ {k} : Before(s, x, k)}
  BY <1>1, <1>2 DEF Abstract!Oldest
<1>4. ASSUME s # << >>
      PROVE  {k \in Cached(cache) : \A x \in Cached(cache) \ {k} : Before(s, x, k)}
               = {b}
  <2>1. /\ In(s, b)
        /\ \A x : In(s, x) /\ x # b => Before(s, x, b)
        /\ \A x : ~ Before(s, b, x)
    BY <1>1, <1>4, BackIsLast
  <2> HIDE DEF b, s
  <2> QED BY <1>1, <2>1
<1>5. ASSUME s = << >> PROVE Cached(cache) = {}
  <2>1. \A x : ~ In(s, x)
    BY <1>5 DEF In
  <2> QED BY <1>1, <2>1
<1> QED BY <1>3, <1>4, <1>5

\* NewLRU gives an empty RecencyCache.
LEMMA InitRefines == Init => Abstract!Init
<1> SUFFICES ASSUME Init PROVE Abstract!Init
  OBVIOUS
<1>1. cache.items = << >> /\ cache.evictList = << >>
  BY DEF Init, Empty
<1>2. Recency = {}
  BY <1>1 DEF Recency
<1> QED BY <1>1, <1>2 DEF Init, Abstract!Init, Abstract!Nothing, Failure
\* Add is Store: what is dropped is the entry whose last use is the oldest.
LEMMA AddRefines ==
  ASSUME IInv, NEW k \in Keys, NEW v \in Values, Add(k, v)
  PROVE  Abstract!Store(k, v)
<1> DEFINE s == cache.evictList
           C == Cached(cache)
           b == Back(s)
<1>1. /\ s \in Seq(Keys) /\ NoRepetition(s) /\ Len(s) \in Nat
      /\ \A x : In(s, x) <=> x \in C
      /\ cache.items = [x \in C |-> cache.items[x]]
      /\ DOMAIN cache.items = C
      /\ Abstract!Cached = C
      /\ \A p \in Recency : p[1] \in C /\ p[2] \in C
  BY FieldsLemma DEF Cached
<1>2. Cardinality(C) = Len(s) /\ Len(s) <= Size /\ Size \in Nat \ {0}
  BY InvIsGood, CountLemma, SizeAssumption DEF GoodCache, Bounded, WithinSize
<1>3. Recency = ListOrder(s) /\ Recency' = ListOrder(cache'.evictList)
  BY DEF Recency, ListOrder
<1>4. ASSUME NEW K
      PROVE  /\ Abstract!Used(k, K) =
                  {p \in Recency : p[1] \in C \ (K \cup {k}) /\ p[2] \in C \ (K \cup {k})}
                    \cup ({k} \X (C \ (K \cup {k})))
             /\ Abstract!Entries(K) = {<<x, cache.items[x]>> : x \in K}
             /\ Abstract!Without(cache.items, K) = [x \in C \ K |-> cache.items[x]]
  BY <1>1 DEF Abstract!Used, Abstract!Entries, Abstract!Without
<1>5. \A f : Abstract!With(f, k, v) = Put(f, k, v)
  BY DEF Abstract!With, Put
<1>6. ASSUME NEW K \in SUBSET Abstract!Oldest,
             K # {} <=> k \notin C /\ Cardinality(C) = Size,
             cache'.items = Put([x \in C \ K |-> cache.items[x]], k, v),
             Recency' = Abstract!Used(k, K),
             evicted' = {<<x, cache.items[x]>> : x \in K}
      PROVE  Abstract!Store(k, v)
  <2>1. ret' = [ok |-> K # {}, value |-> NoValue]
    <3>1. evicted' # {} <=> K # {}
      BY <1>6
    <3> QED BY <3>1 DEF Add
  <2> HIDE DEF C
  <2>2. cache.items' = Abstract!With(Abstract!Without(cache.items, K), k, v)
    BY <1>4, <1>5, <1>6
  <2>3. evicted' = Abstract!Entries(K)
    BY <1>4, <1>6
  <2>4. K # {} <=> k \notin Abstract!Cached /\ Abstract!Cardinality(Abstract!Cached) = Size
    <3>1. \A S : Abstract!Cardinality(S) = Cardinality(S)
      BY Zenon DEF Cardinality, Abstract!Cardinality
    <3> QED BY <1>1, <1>6, <3>1
  <2>5. K \in SUBSET Abstract!Oldest /\ Recency' = Abstract!Used(k, K)
    BY <1>6
  <2> QED BY <2>1, <2>2, <2>3, <2>4, <2>5, Zenon DEF Abstract!Store
<1>7. {} \in SUBSET Abstract!Oldest /\ [x \in C \ {} |-> cache.items[x]] = cache.items
  BY <1>1
<1>8. CASE IsCached(cache, k)
  <2>1. cache' = Replace(cache, k, v) /\ evicted' = {}
    BY <1>8 DEF Add, Added, AddEvicts
  <2>2. k \in C /\ In(s, k)
    BY <1>1, <1>8 DEF IsCached
  <2>3. ListOrder(MoveToFront(s, k)) =
          {p \in ListOrder(s) : p[1] \in C \ {k} /\ p[2] \in C \ {k}}
            \cup ({k} \X (C \ {k}))
    BY <1>1, <2>2, OrderAfterMove
  <2>4. /\ cache'.items = Put(cache.items, k, v)
        /\ cache'.evictList = MoveToFront(s, k)
    BY <2>1 DEF Replace
  <2> HIDE DEF s, C
  <2>5. C \ ({} \cup {k}) = C \ {k}
    OBVIOUS
  <2>6. Recency' = Abstract!Used(k, {})
    BY <1>3, <1>4, <2>3, <2>4, <2>5
  <2> QED BY <1>6, <1>7, <2>1, <2>2, <2>4, <2>6
<1>9. CASE ~ IsCached(cache, k)
  <2>1. k \notin C
    BY <1>9 DEF IsCached
  <2>2. ListOrder(PushFront(s, k)) = ListOrder(s) \cup ({k} \X C)
    <3>1. s \in Seq(Keys) /\ \A x : In(s, x) <=> x \in C
      BY <1>1
    <3> HIDE DEF s, C
    <3> QED BY <3>1, OrderAfterPush
  <2>3. /\ Insert(cache, k, v).items = Put(cache.items, k, v)
        /\ Insert(cache, k, v).evictList = PushFront(s, k)
        /\ Len(PushFront(s, k)) = Len(s) + 1
    BY <1>1 DEF Insert, PushFront
  <2>4. CASE ~ Overflows(Insert(cache, k, v), Size)
    <3>1. cache' = Insert(cache, k, v) /\ evicted' = {}
      BY <1>9, <2>4 DEF Add, Added, AddEvicts
    <3>2. Cardinality(C) # Size
      BY <1>2, <2>3, <2>4 DEF Overflows
    <3> HIDE DEF s, C
    <3>3. Recency' = Recency \cup ({k} \X C)
      BY <1>3, <2>2, <2>3, <3>1
    <3>4. C \ ({} \cup {k}) = C
      BY <2>1
    <3>5. Recency' = Abstract!Used(k, {})
      <4>1. Abstract!Used(k, {}) =
              {p \in Recency : p[1] \in C /\ p[2] \in C} \cup ({k} \X C)
        BY <1>4, <3>4
      <4>2. {p \in Recency : p[1] \in C /\ p[2] \in C} = Recency
        BY <1>1
      <4> QED BY <3>3, <4>1, <4>2
    <3> QED BY <1>6, <1>7, <2>3, <3>1, <3>2, <3>5
  <2>5. CASE Overflows(Insert(cache, k, v), Size)
    <3>1. Len(s) = Size /\ s # << >>
      BY <1>2, <2>3, <2>5 DEF Overflows
    <3>2. /\ Back(PushFront(s, k)) = b /\ b \in C /\ b # k
          /\ Abstract!Oldest = {b}
      BY <1>9, <2>3, <3>1, BackLemma, OldestLemma, InvIsGood DEF GoodCache
    <3>3. /\ cache' = removeElement(Insert(cache, k, v), b)
          /\ evicted' = Entries(Insert(cache, k, v), {b})
      BY <1>9, <2>3, <2>5, <3>2 DEF Add, Added, AddEvicts
    <3>4. /\ cache'.items = Delete(Put(cache.items, k, v), b)
          /\ cache'.evictList = ListRemove(PushFront(s, k), b)
      BY <2>3, <3>3 DEF removeElement
    <3>5. /\ PushFront(s, k) \in Seq(Keys) /\ NoRepetition(PushFront(s, k))
          /\ In(PushFront(s, k), b)
      BY <1>1, <2>1, <3>2, PushFrontLemma
    <3>6. ListOrder(ListRemove(PushFront(s, k), b)) =
            {p \in ListOrder(PushFront(s, k)) : p[1] \notin {b} /\ p[2] \notin {b}}
      BY <3>5, OrderAfterRemove
    <3> HIDE DEF s, C, b
    <3>7. Recency' = Abstract!Used(k, {b})
      <4> DEFINE D == C \ ({b} \cup {k})
      <4>1. Recency' =
              {p \in Recency \cup ({k} \X C) : p[1] \notin {b} /\ p[2] \notin {b}}
        BY <1>3, <2>2, <3>4, <3>6
      <4>2. Abstract!Used(k, {b}) =
              {p \in Recency : p[1] \in D /\ p[2] \in D} \cup ({k} \X D)
        BY <1>4
      <4>3. \A p \in Recency : p[1] \in C /\ p[1] # k /\ p[2] \in C /\ p[2] # k
        BY <1>1, <2>1
      <4>4. ASSUME NEW p
            PROVE  p \in Recency' <=> p \in Abstract!Used(k, {b})
        <5>1. CASE p \in Recency
          BY <4>1, <4>2, <4>3, <5>1
        <5>2. CASE p \notin Recency
          <6>1. p \in Recency' <=> p \in {k} \X C /\ p[1] # b /\ p[2] # b
            BY <4>1, <5>2
          <6>2. p \in Abstract!Used(k, {b}) <=> p \in {k} \X D
            BY <4>2, <5>2
          <6> QED BY <2>1, <3>2, <6>1, <6>2
        <5> QED BY <5>1, <5>2
      <4> QED BY <4>4
    <3>8. cache'.items = Put([x \in C \ {b} |-> cache.items[x]], k, v)
      <4>1. Delete(Put(cache.items, k, v), b) =
              [x \in (C \cup {k}) \ {b} |-> IF x = k THEN v ELSE cache.items[x]]
        BY <1>1 DEF Delete, Put
      <4>2. Put([x \in C \ {b} |-> cache.items[x]], k, v) =
              [x \in (C \ {b}) \cup {k} |-> IF x = k THEN v ELSE cache.items[x]]
        BY DEF Put
      <4>3. (C \cup {k}) \ {b} = (C \ {b}) \cup {k}
        BY <3>2
      <4> QED BY <3>4, <4>1, <4>2, <4>3
    <3>9. evicted' = {<<x, cache.items[x]>> : x \in {b}}
      <4>1. Put(cache.items, k, v)[b] = cache.items[b]
        BY <1>1, <3>2 DEF Put
      <4> QED BY <2>3, <3>3, <4>1 DEF Entries
    <3> QED BY <1>2, <1>6, <2>1, <3>1, <3>2, <3>7, <3>8, <3>9
  <2> QED BY <2>4, <2>5
<1> QED BY <1>8, <1>9

\* What Get of a cached key and Touch do to the order.
LEMMA UseRefines ==
  ASSUME IInv, NEW k \in Keys, cache' = Use(cache, k)
  PROVE  /\ cache'.items = cache.items
         /\ Recency' = IF k \in Cached(cache) THEN Abstract!Used(k, {}) ELSE Recency
<1> DEFINE s == cache.evictList
           C == Cached(cache)
<1>1. /\ s \in Seq(Keys) /\ NoRepetition(s)
      /\ \A x : In(s, x) <=> x \in C
      /\ Abstract!Cached = C
  BY FieldsLemma
<1>2. cache'.items = cache.items
  BY InvIsGood, UseLemma DEF GoodCache
<1>3. Recency = ListOrder(s) /\ Recency' = ListOrder(cache'.evictList)
  BY DEF Recency, ListOrder
<1>4. CASE k \notin C
  BY <1>3, <1>4, <1>2 DEF Use, IsCached
<1>5. CASE k \in C
  <2>1. cache'.evictList = MoveToFront(s, k)
    BY <1>5, InvIsGood, CacheFields DEF Use, IsCached, GoodCache, Good
  <2>2. ListOrder(MoveToFront(s, k)) =
          {p \in ListOrder(s) : p[1] \in C \ {k} /\ p[2] \in C \ {k}}
            \cup ({k} \X (C \ {k}))
    BY <1>1, <1>5, OrderAfterMove
  <2> HIDE DEF s, C
  <2>3. Abstract!Used(k, {}) =
          {p \in Recency : p[1] \in C \ ({} \cup {k}) /\ p[2] \in C \ ({} \cup {k})}
            \cup ({k} \X (C \ ({} \cup {k})))
    BY <1>1 DEF Abstract!Used
  <2>4. C \ ({} \cup {k}) = C \ {k}
    OBVIOUS
  <2>5. Recency' = Abstract!Used(k, {})
    BY <1>3, <2>1, <2>2, <2>3, <2>4
  <2> QED BY <1>2, <1>5, <2>5 DEF C
<1> QED BY <1>4, <1>5

\* Get is Lookup.
LEMMA GetRefines ==
  ASSUME IInv, NEW k \in Keys, GetHit(k) \/ GetMiss(k)
  PROVE  Abstract!Lookup(k)
<1>1. Abstract!Cached = Cached(cache)
  BY FieldsLemma
<1>2. CASE GetHit(k)
  BY <1>1, <1>2, UseRefines DEF GetHit, IsCached, Abstract!Lookup, Abstract!Found, Success
<1>3. CASE GetMiss(k)
  <2>1. cache' = cache /\ Recency' = Recency
    BY <1>3 DEF GetMiss, Recency
  <2> QED BY <1>1, <1>3, <2>1 DEF GetMiss, IsCached, Abstract!Lookup, Abstract!Nothing, Failure
<1> QED BY <1>2, <1>3

\* Touch is Refresh.
LEMMA TouchRefines ==
  ASSUME IInv, NEW k \in Keys, Touch(k) PROVE Abstract!Refresh(k)
<1>1. Abstract!Cached = Cached(cache)
  BY FieldsLemma
<1> QED BY <1>1, UseRefines DEF Touch, Abstract!Refresh, Abstract!Nothing, Failure

\* removeElement takes out one key; the methods that find nothing take out none.
LEMMA TakeOutRefines ==
  ASSUME IInv, NEW k, IsCached(cache, k), NEW answer, TakeOut(k, answer)
  PROVE  Abstract!TakeOut({k})
<1> DEFINE s == cache.evictList
<1>1. /\ s \in Seq(Keys) /\ NoRepetition(s) /\ In(s, k)
      /\ Abstract!Cached = Cached(cache)
  BY FieldsLemma DEF IsCached
<1>2. cache'.items = Delete(cache.items, k) /\ cache'.evictList = ListRemove(s, k)
  BY DEF TakeOut, removeElement
<1>3. Recency = ListOrder(s) /\ Recency' = ListOrder(cache'.evictList)
  BY DEF Recency, ListOrder
<1>4. ListOrder(ListRemove(s, k)) =
        {p \in ListOrder(s) : p[1] \notin {k} /\ p[2] \notin {k}}
  BY <1>1, OrderAfterRemove
<1>5. Recency' = Abstract!Forgot({k})
  BY <1>2, <1>3, <1>4 DEF Abstract!Forgot
<1>6. cache'.items = Abstract!Without(cache.items, {k})
  BY <1>2 DEF Delete, Abstract!Without
<1>7. evicted' = Abstract!Entries({k})
  BY DEF TakeOut, Entries, Abstract!Entries
<1> QED BY <1>5, <1>6, <1>7 DEF Abstract!TakeOut

LEMMA NothingRefines ==
  ASSUME IInv, NothingToTakeOut PROVE Abstract!TakeOut({})
<1>1. /\ cache.items = [x \in Cached(cache) |-> cache.items[x]]
      /\ Abstract!Cached = Cached(cache)
  BY FieldsLemma
<1>2. cache' = cache /\ Recency' = Recency /\ evicted' = {}
  BY DEF NothingToTakeOut, Recency
<1>3. Abstract!Without(cache.items, {}) = cache.items
  BY <1>1 DEF Abstract!Without, Cached
<1>4. Abstract!Forgot({}) = Recency /\ Abstract!Entries({}) = {}
  BY DEF Abstract!Forgot, Abstract!Entries
<1> QED BY <1>2, <1>3, <1>4 DEF Abstract!TakeOut

\* Remove is Drop.
LEMMA RemoveRefines ==
  ASSUME IInv, NEW k \in Keys, Remove(k) PROVE Abstract!Drop(k)
<1>1. Abstract!Cached = Cached(cache)
  BY FieldsLemma
<1>2. CASE IsCached(cache, k) /\ TakeOut(k, Success(NoValue))
  <2>1. Abstract!TakeOut({k}) /\ {k} \cap Cached(cache) = {k}
    BY <1>2, TakeOutRefines DEF IsCached
  <2>2. ret' = [ok |-> TRUE, value |-> NoValue]
    BY <1>2 DEF TakeOut, Success
  <2> QED BY <1>1, <1>2, <2>1, <2>2 DEF Abstract!Drop, IsCached
<1>3. CASE ~ IsCached(cache, k) /\ NothingToTakeOut
  <2>1. Abstract!TakeOut({}) /\ {k} \cap Cached(cache) = {}
    BY <1>3, NothingRefines DEF IsCached
  <2>2. ret' = [ok |-> FALSE, value |-> NoValue]
    BY <1>3 DEF NothingToTakeOut, Failure
  <2>3. (k \in Cached(cache)) = FALSE
    BY <1>3 DEF IsCached
  <2> QED BY <1>1, <2>1, <2>2, <2>3, Zenon DEF Abstract!Drop
<1> QED BY <1>2, <1>3 DEF Remove

\* RemoveOldest is DropOldest.
LEMMA RemoveOldestRefines == ASSUME IInv, RemoveOldest PROVE Abstract!DropOldest
<1> DEFINE b == Back(cache.evictList)
<1>1. Abstract!Cached = Cached(cache)
  BY FieldsLemma
<1>2. CASE cache.evictList # << >> /\ TakeOut(b, Oldest)
  <2>1. Abstract!Oldest = {b} /\ IsCached(cache, b)
    BY <1>2, OldestLemma, OldestIsCached
  <2>2. Abstract!TakeOut({b})
    BY <1>2, <2>1, TakeOutRefines
  <2>3. (CHOOSE k \in {b} : TRUE) = b
    OBVIOUS
  <2>4. ret' = Abstract!Found(b)
    BY <1>2 DEF TakeOut, Oldest, Success, Abstract!Found
  <2>5. Abstract!Cached # {}
    BY <1>1, <2>1 DEF IsCached
  <2> HIDE DEF b
  <2> QED BY <2>1, <2>2, <2>3, <2>4, <2>5 DEF Abstract!DropOldest
<1>3. CASE cache.evictList = << >> /\ NothingToTakeOut
  <2>1. Abstract!Oldest = {} /\ Abstract!Cached = {}
    BY <1>1, <1>3, OldestLemma
  <2>2. Abstract!TakeOut({})
    BY <1>3, NothingRefines
  <2>3. ret' = Abstract!Nothing
    BY <1>3 DEF NothingToTakeOut, Failure, Abstract!Nothing
  <2> QED BY <2>1, <2>2, <2>3 DEF Abstract!DropOldest
<1> QED BY <1>2, <1>3 DEF RemoveOldest

\* Purge is Clear.
LEMMA PurgeRefines == ASSUME IInv, Purge PROVE Abstract!Clear
<1> DEFINE C == Cached(cache)
<1>1. /\ Abstract!Cached = C
      /\ \A p \in Recency : p[1] \in C /\ p[2] \in C
  BY FieldsLemma
<1>2. cache'.items = << >> /\ cache'.evictList = << >>
  BY DEF Purge, Empty
<1>3. Recency' = {}
  BY <1>2 DEF Recency
<1>4. Abstract!Forgot(C) = {}
  BY <1>1 DEF Abstract!Forgot
<1>5. Abstract!Without(cache.items, C) = << >>
  <2>1. DOMAIN cache.items \ C = {}
    BY DEF Cached
  <2> QED BY <2>1 DEF Abstract!Without
<1>6. evicted' = Abstract!Entries(C) /\ ret' = Abstract!Nothing
  BY DEF Purge, Entries, Abstract!Entries, Failure, Abstract!Nothing
<1> QED BY <1>1, <1>2, <1>3, <1>4, <1>5, <1>6 DEF Abstract!Clear, Abstract!TakeOut

\* Every step of the cache is one of RecencyCache, or leaves it as it is.
LEMMA NextRefines == IInv /\ [Next]_vars => [Abstract!Next]_(Abstract!vars)
<1> SUFFICES ASSUME IInv, [Next]_vars PROVE [Abstract!Next]_(Abstract!vars)
  OBVIOUS
<1>1. ASSUME NEW k \in Keys, NEW v \in Values, Add(k, v) PROVE Abstract!Next
  BY <1>1, AddRefines DEF Abstract!Next
<1>2. ASSUME NEW k \in Keys, GetHit(k) \/ GetMiss(k) PROVE Abstract!Next
  BY <1>2, GetRefines DEF Abstract!Next
<1>3. ASSUME NEW k \in Keys, Touch(k) PROVE Abstract!Next
  BY <1>3, TouchRefines DEF Abstract!Next
<1>4. ASSUME NEW k \in Keys, Remove(k) PROVE Abstract!Next
  BY <1>4, RemoveRefines DEF Abstract!Next
<1>5. CASE RemoveOldest
  BY <1>5, RemoveOldestRefines DEF Abstract!Next
<1>6. CASE Purge
  BY <1>6, PurgeRefines DEF Abstract!Next
<1>7. CASE UNCHANGED vars
  <2>1. cache' = cache /\ Recency' = Recency
    BY <1>7 DEF vars, Recency
  <2> QED BY <1>7, <2>1 DEF vars, Abstract!vars
<1> QED BY <1>1, <1>2, <1>3, <1>4, <1>5, <1>6, <1>7 DEF Next

\* Whatever methods of lru.go are called, and whatever its size is: the answers
\* and the evictions are those of a cache that drops what was used least
\* recently, and nothing else.
THEOREM IsARecencyCache == Spec => IsRecencyCache
<1>1. Spec => Abstract!Spec
  BY InitRefines, NextRefines, Invariant, PTL DEF Spec, Abstract!Spec
<1> QED BY <1>1 DEF IsRecencyCache
=============================================================================
