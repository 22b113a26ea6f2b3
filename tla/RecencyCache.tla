---------------------------- MODULE RecencyCache ----------------------------
(***************************************************************************)
(* What the readers of a volume may assume of a bounded cache, with no     *)
(* word on how it is kept: the entries it holds, which of two entries was  *)
(* used more recently, the answer of the last call and the entries handed  *)
(* to the eviction callback during that call.                              *)
(***************************************************************************)
EXTENDS Naturals, FiniteSets

CONSTANTS
  Keys,        \* what may be cached
  Values,      \* what may be cached under a key
  Capacity,    \* most entries held at once
  NoValue      \* the answer of a lookup that misses

VARIABLES
  contents,    \* a function from the cached keys to their values
  newer,       \* <<a, b>>: a was used more recently than b
  answer,      \* what the last call returned
  dropped      \* <<k, v>>: passed to the callback by the last call

vars == <<contents, newer, answer, dropped>>

Cached == DOMAIN contents

Without(f, K) == [k \in DOMAIN f \ K |-> f[k]]

With(f, k, v) == [x \in DOMAIN f \cup {k} |-> IF x = k THEN v ELSE f[x]]

\* The recency order once k has been used and the keys of K have gone.
Used(k, K) ==
  LET others == Cached \ (K \cup {k})
  IN {p \in newer : p[1] \in others /\ p[2] \in others} \cup ({k} \X others)

Forgot(K) == {p \in newer : p[1] \notin K /\ p[2] \notin K}

\* The cached keys that every other cached key is more recent than.
Oldest == {k \in Cached : \A x \in Cached \ {k} : <<x, k>> \in newer}

Entries(K) == {<<k, contents[k]>> : k \in K}

Nothing == [ok |-> FALSE, value |-> NoValue]

Found(k) == [ok |-> TRUE, value |-> contents[k]]

Init ==
  /\ contents = << >>
  /\ newer = {}
  /\ answer = Nothing
  /\ dropped = {}

\* Storing a value under a cached key replaces it and calls nobody; storing
\* under a new key of a full cache drops exactly the least recently used one.
Store(k, v) ==
  \E K \in SUBSET Oldest :
    /\ K # {} <=> k \notin Cached /\ Cardinality(Cached) = Capacity
    /\ contents' = With(Without(contents, K), k, v)
    /\ newer' = Used(k, K)
    /\ answer' = [ok |-> K # {}, value |-> NoValue]
    /\ dropped' = Entries(K)

Lookup(k) ==
  /\ answer' = IF k \in Cached THEN Found(k) ELSE Nothing
  /\ newer' = IF k \in Cached THEN Used(k, {}) ELSE newer
  /\ dropped' = {}
  /\ UNCHANGED contents

Refresh(k) ==
  /\ newer' = IF k \in Cached THEN Used(k, {}) ELSE newer
  /\ answer' = Nothing
  /\ dropped' = {}
  /\ UNCHANGED contents

\* K is empty when there is nothing to take out.
TakeOut(K) ==
  /\ contents' = Without(contents, K)
  /\ newer' = Forgot(K)
  /\ dropped' = Entries(K)

Drop(k) ==
  /\ TakeOut({k} \cap Cached)
  /\ answer' = [ok |-> k \in Cached, value |-> NoValue]

DropOldest ==
  /\ TakeOut(Oldest)
  /\ answer' = IF Cached = {} THEN Nothing
               ELSE Found(CHOOSE k \in Oldest : TRUE)

Clear ==
  /\ TakeOut(Cached)
  /\ answer' = Nothing

Next ==
  \/ \E k \in Keys, v \in Values : Store(k, v)
  \/ \E k \in Keys : Lookup(k) \/ Refresh(k) \/ Drop(k)
  \/ DropOldest
  \/ Clear

Spec == Init /\ [][Next]_vars
=============================================================================
