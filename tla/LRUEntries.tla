----------------------------- MODULE LRUEntries -----------------------------
(***************************************************************************)
(* The two fields that hold the entries of an LRU (parser/lru.go) and what *)
(* its methods do to them, as operators, so that the modules of the caches *)
(* built on an LRU share one translation of it.                            *)
(*                                                                         *)
(* A cache is a record: "items" maps a key to the value of its entry, and  *)
(* "evictList" is the list of elements, most recently used first.  An      *)
(* element is named by the key of its entry, which never changes.          *)
(***************************************************************************)
EXTENDS Integers, Sequences, FiniteSets

(* container/list, on lists without repetition *)

Position(s, k) == CHOOSE i \in 1..Len(s) : s[i] = k

ListRemove(s, k) ==
  [j \in 1..(Len(s) - 1) |-> IF j < Position(s, k) THEN s[j] ELSE s[j + 1]]

PushFront(s, k) ==
  [j \in 1..(Len(s) + 1) |-> IF j = 1 THEN k ELSE s[j - 1]]

MoveToFront(s, k) == PushFront(ListRemove(s, k), k)

Back(s) == s[Len(s)]

(* The Go map *)

Delete(f, k) == [x \in DOMAIN f \ {k} |-> f[x]]

Put(f, k, v) == [x \in DOMAIN f \cup {k} |-> IF x = k THEN v ELSE f[x]]

-----------------------------------------------------------------------------
Empty == [items |-> << >>, evictList |-> << >>]

Cached(c) == DOMAIN c.items

IsCached(c, k) == k \in Cached(c)

\* Mutant of Entries: with the arguments of onEvict in the wrong order.
EntriesSwapped(c, K) == {<<c.items[k], k>> : k \in K}

\* The <<key, value>> pairs that removing the keys of K passes to onEvict.
Entries(c, K) == {<<k, c.items[k]>> : k \in K}

\* Mutant of Use: without the MoveToFront.
UseInPlace(c, k) == c

\* What both a hit of Get and Touch do.
Use(c, k) ==
  IF IsCached(c, k) THEN [c EXCEPT !.evictList = MoveToFront(@, k)] ELSE c

\* Mutant of removeElement: without the delete from the map.
removeElementFromList(c, k) == [c EXCEPT !.evictList = ListRemove(@, k)]

removeElement(c, k) ==
  [items |-> Delete(c.items, k), evictList |-> ListRemove(c.evictList, k)]

\* The key is there: its element moves, its value is replaced.
Replace(c, k, v) ==
  [items |-> Put(c.items, k, v), evictList |-> MoveToFront(c.evictList, k)]

Insert(c, k, v) ==
  [items |-> Put(c.items, k, v), evictList |-> PushFront(c.evictList, k)]

Overflows(c, size) == Len(c.evictList) > size

\* The cache after Add(k, v).
Added(c, k, v, size) ==
  LET inserted == Insert(c, k, v)
  IN IF IsCached(c, k) THEN Replace(c, k, v)
     ELSE IF Overflows(inserted, size)
          THEN removeElement(inserted, Back(inserted.evictList))
          ELSE inserted

\* Mutant of AddEvicts: with a callback for the value that is replaced.
AddEvictsReplaced(c, k, v, size) ==
  IF IsCached(c, k) THEN Entries(c, {k})
  ELSE IF Len(c.evictList) = size THEN Entries(c, {Back(c.evictList)}) ELSE {}

\* What that Add passes to onEvict: the entry at the back, never the value
\* that is replaced.
AddEvicts(c, k, v, size) ==
  LET inserted == Insert(c, k, v)
  IN IF ~ IsCached(c, k) /\ Overflows(inserted, size)
     THEN Entries(inserted, {Back(inserted.evictList)})
     ELSE {}

-----------------------------------------------------------------------------
CacheOf(Keys, Values) ==
  [items : UNION {[K -> Values] : K \in SUBSET Keys}, evictList : Seq(Keys)]

NoRepetition(s) == \A i, j \in 1..Len(s) : s[i] = s[j] => i = j

\* The list has one element for each entry of the map and no other: a key
\* that is only in the list would make an eviction delete nothing, one that
\* is only in the map would never be evicted.
MapAndListAgree(c) ==
  /\ \A k \in Cached(c) : \E i \in 1..Len(c.evictList) : c.evictList[i] = k
  /\ \A i \in 1..Len(c.evictList) : c.evictList[i] \in Cached(c)
  /\ NoRepetition(c.evictList)

WithinSize(c, size) == Len(c.evictList) <= size
=============================================================================
