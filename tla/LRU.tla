-------------------------------- MODULE LRU ---------------------------------
(***************************************************************************)
(* parser/lru.go: a fixed size cache that forgets the least recently used  *)
(* entry.  Every method holds the cache's mutex from its first line to its *)
(* return, the eviction callback included, so each method is one action.   *)
(***************************************************************************)
EXTENDS LRUEntries

CONSTANTS
  Keys,        \* int keys: page offsets, MFT ids
  Values,      \* page buffers, MFT entries, summaries
  Size,        \* the "size" field
  NoValue,     \* nil
  MaxCalls     \* bound on the counters: calls of Add and Get

ASSUME SizeAssumption == Size \in Nat \ {0}     \* NewLRU refuses size <= 0

VARIABLES
  cache,       \* items and evictList
  stats,       \* the counters hits, miss and total
  ret,         \* what the last call returned
  evicted      \* <<key, value>> pairs given to onEvict during the last call

vars == <<cache, stats, ret, evicted>>

Failure == [ok |-> FALSE, value |-> NoValue]

Success(value) == [ok |-> TRUE, value |-> value]

\* GetOldest and RemoveOldest answer with the entry at the back of the list.
Oldest ==
  IF cache.evictList = << >> THEN Failure
  ELSE Success(cache.items[Back(cache.evictList)])

\* NewLRU
Init ==
  /\ cache = Empty
  /\ stats = [hits |-> 0, miss |-> 0, total |-> 0]
  /\ ret = Failure
  /\ evicted = {}

\* Mutant of Purge: without the callbacks.
PurgeQuietly ==
  /\ cache' = Empty
  /\ evicted' = {}
  /\ ret' = Failure
  /\ UNCHANGED stats

Purge ==
  /\ cache' = Empty
  /\ evicted' = Entries(cache, Cached(cache))
  /\ ret' = Failure
  /\ UNCHANGED stats

Add(k, v) ==
  /\ cache' = Added(cache, k, v, Size)
  /\ evicted' = AddEvicts(cache, k, v, Size)
  /\ stats' = [stats EXCEPT !.total = @ + 1]
  /\ ret' = [ok |-> evicted' # {}, value |-> NoValue]

Touch(k) ==
  /\ cache' = Use(cache, k)
  /\ evicted' = {}
  /\ ret' = Failure
  /\ UNCHANGED stats

GetHit(k) ==
  /\ IsCached(cache, k)
  /\ cache' = Use(cache, k)
  /\ stats' = [stats EXCEPT !.hits = @ + 1]
  /\ ret' = Success(cache.items[k])
  /\ evicted' = {}

GetMiss(k) ==
  /\ ~ IsCached(cache, k)
  /\ stats' = [stats EXCEPT !.miss = @ + 1]
  /\ ret' = Failure
  /\ evicted' = {}
  /\ UNCHANGED cache

\* removeElement on a cached key, with the answer of the method that calls it.
TakeOut(k, answer) ==
  /\ cache' = removeElement(cache, k)
  /\ evicted' = Entries(cache, {k})
  /\ ret' = answer
  /\ UNCHANGED stats

NothingToTakeOut ==
  /\ evicted' = {}
  /\ ret' = Failure
  /\ UNCHANGED <<cache, stats>>

Remove(k) ==
  \/ IsCached(cache, k) /\ TakeOut(k, Success(NoValue))
  \/ ~ IsCached(cache, k) /\ NothingToTakeOut

RemoveOldest ==
  \/ cache.evictList # << >> /\ TakeOut(Back(cache.evictList), Oldest)
  \/ cache.evictList = << >> /\ NothingToTakeOut

MayCount == stats.hits + stats.miss + stats.total < MaxCalls

Next ==
  \/ \E k \in Keys, v \in Values : MayCount /\ Add(k, v)
  \/ \E k \in Keys : MayCount /\ (GetHit(k) \/ GetMiss(k))
  \/ \E k \in Keys : Touch(k) \/ Remove(k)
  \/ RemoveOldest
  \/ Purge

Spec == Init /\ [][Next]_vars

-----------------------------------------------------------------------------
\* Each field holds what its Go type allows.
TypeOK ==
  /\ cache \in CacheOf(Keys, Values)
  /\ stats \in [hits : Nat, miss : Nat, total : Nat]
  /\ ret \in [ok : BOOLEAN, value : Values \cup {NoValue}]
  /\ evicted \subseteq Keys \X Values

\* The map and the list of lru.go never disagree, whatever methods are
\* called: a key in only one of them is never evicted, or evicted twice.
Consistent == MapAndListAgree(cache)

\* The cache never holds more entries than "size", in the list or the map.
Bounded == WithinSize(cache, Size)

\* An entry leaves the map through onEvict or is replaced by an Add of its
\* own key, and in no other way: the callback is what gives a page buffer
\* back to the free list of the reader.
LeavesThroughCallback ==
  [][\A k \in Cached(cache) :
       \/ IsCached(cache, k)' /\ cache.items[k] = cache'.items[k]
       \/ <<k, cache.items[k]>> \in evicted'
       \/ IsCached(cache, k)' /\ stats'.total > stats.total]_vars

\* The callback is given only what has left: never an entry that a later Get
\* could return, whose page would then be in two hands.
CallbackOnlyForTheGone == \A p \in evicted : ~ IsCached(cache, p[1])

-----------------------------------------------------------------------------
\* Which of two entries was used more recently, read off the list.
Recency ==
  LET P == 1..Len(cache.evictList)
  IN {<<cache.evictList[p[1]], cache.evictList[p[2]]>> :
        p \in {q \in P \X P : q[1] < q[2]}}

Abstract == INSTANCE RecencyCache WITH
              Capacity <- Size, contents <- cache.items, newer <- Recency,
              answer <- ret, dropped <- evicted

\* Every call of the cache is a call of the abstract cache, with the same
\* answer and the same evictions: what an Add drops is the entry whose last
\* use is the oldest, whatever calls came before.
IsRecencyCache == Abstract!Spec
=============================================================================
