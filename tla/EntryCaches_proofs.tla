------------------------- MODULE EntryCaches_proofs --------------------------
(***************************************************************************)
(* Proofs about the caches of a context, for every set of goroutines and   *)
(* of entries, every size of the caches and any number of writes and of    *)
(* calls of Purge.                                                         *)
(***************************************************************************)
EXTENDS EntryCaches, Lemmas

TwoSectors == Versions \X Versions

\* a is a version of both sectors that is no older than b.
NotOlder(a, b) == a[1] >= b[1] /\ a[2] >= b[2]

-----------------------------------------------------------------------------
(* The inductive invariant *)

\* The second sector is written behind the first one.
DiskInv ==
  /\ disk \in [Ids -> TwoSectors]
  /\ \A id \in Ids : disk[id][2] <= disk[id][1] /\ disk[id][1] <= disk[id][2] + 1

\* What a Purge that no lookup overlaps has done so far: there is still no
\* lookup, and the caches behind it are still empty.
QuietSoFar ==
  /\ Quiet
  /\ purge.start \in [Ids -> TwoSectors]
  /\ \A id \in Ids : NotOlder(disk[id], purge.start[id])
  /\ Cached(entries) = {}
  /\ purge.pc \in {"resolver", "flush", "mft"} => Cached(summaries) = {}

PurgeInv ==
  /\ purge = [pc |-> purge.pc, start |-> purge.start, fresh |-> purge.fresh]
  /\ purge.fresh \in [Ids -> TwoSectors]
  /\ purge.start # None => QuietSoFar

\* The disk and the pages are no older than the last quiet Purge.
PagesInv ==
  /\ pages = [id \in Ids |-> pages[id]]
  /\ \A id \in Ids : pages[id] # None => pages[id] \in TwoSectors
  /\ \A id \in Ids : NotOlder(Sectors(id), purge.fresh[id])
  /\ \A id \in Ids : NotOlder(disk[id], purge.fresh[id])

\* The calls of GetMFT and GetSummary in progress.
Calls ==
  [pc : {"summary", "entry", "buffer", "table", "keep", "add"}, id : Ids,
   buffer : TwoSectors \cup {None}, version : Versions \cup {None}]

\* So is what a lookup has in its hands: it began behind that Purge.
CallOK(c) ==
  \/ c = Idle
  \/ /\ c \in Calls
     /\ \/ c.pc \in {"summary", "entry", "buffer"} /\ c.buffer = None
        \/ /\ c.pc = "table"
           /\ c.buffer \in TwoSectors /\ NotOlder(c.buffer, purge.fresh[c.id])
        \/ /\ c.pc \in {"keep", "add"}
           /\ c.version \in Versions /\ c.version >= purge.fresh[c.id][2]
           /\ c.buffer # None => /\ c.buffer[1] = c.buffer[2]
                                 /\ c.version = c.buffer[1]

CallsInv ==
  /\ call = [t \in Threads |-> call[t]]
  /\ \A t \in Threads : CallOK(call[t])

\* A cache of versions, none older than the last quiet Purge.
FreshCache(c, size) ==
  /\ Good(c, Ids, Versions)
  /\ WithinSize(c, size)
  /\ \A id \in Cached(c) : c.items[id] >= purge.fresh[id][2]

\* FreshSinceQuietPurge is not inductive: what a step puts into a cache is
\* fresh because the lookup that has it is, and a Purge ends with nothing in a
\* cache because no lookup began while it ran.
IInv ==
  /\ DiskInv /\ PurgeInv /\ PagesInv /\ CallsInv
  /\ FreshCache(entries, EntrySize)
  /\ FreshCache(summaries, SummarySize)
  /\ mu \in Threads \cup {None}

LEMMA VersionsAreNumbers == Versions \subseteq Nat
BY CacheSizesAssumption DEF Versions

\* Both versions of a pair.
LEMMA PairLemma ==
  ASSUME NEW p \in TwoSectors
  PROVE  p = <<p[1], p[2]>> /\ p[1] \in Versions /\ p[2] \in Versions
                            /\ p[1] \in Nat /\ p[2] \in Nat
<1>1. p = <<p[1], p[2]>> /\ p[1] \in Versions /\ p[2] \in Versions
  BY DEF TwoSectors
<1> QED BY <1>1, VersionsAreNumbers

\* A later version of both sectors.
LEMMA LaterLemma ==
  ASSUME NEW a \in TwoSectors, NEW b \in TwoSectors, NEW c \in TwoSectors,
         NotOlder(a, b), NotOlder(b, c)
  PROVE  NotOlder(a, c)
BY PairLemma DEF NotOlder

-----------------------------------------------------------------------------
LEMMA InitLemma == Init => IInv
<1> SUFFICES ASSUME Init PROVE IInv
  OBVIOUS
<1>1. 0 \in Versions /\ <<0, 0>> \in TwoSectors
  BY CacheSizesAssumption DEF Versions, TwoSectors
<1>2. DiskInv
  BY <1>1 DEF Init, DiskInv
<1>3. PurgeInv
  BY <1>1 DEF Init, PurgeInv
<1>4. PagesInv
  BY <1>1 DEF Init, PagesInv, Sectors, NotOlder
<1>5. CallsInv
  BY DEF Init, CallsInv, CallOK, Idle
<1>6. FreshCache(entries, EntrySize) /\ FreshCache(summaries, SummarySize)
  BY EmptyLemma, CacheSizesAssumption DEF Init, FreshCache, WithinSize, Empty
<1> QED BY <1>2, <1>3, <1>4, <1>5, <1>6 DEF Init, IInv

-----------------------------------------------------------------------------
(* A step of a lookup *)

\* One call changes, to one that is allowed.
LEMMA OneCallLemma ==
  ASSUME CallsInv, purge' = purge, NEW t \in Threads, NEW c, CallOK(c),
         call' = [call EXCEPT ![t] = c]
  PROVE  CallsInv'
<1>1. call' = [u \in Threads |-> IF u = t THEN c ELSE call[u]]
  BY DEF CallsInv
<1>2. \A u \in Threads : CallOK(call'[u])
  BY <1>1 DEF CallsInv
<1>3. \A u \in Threads : CallOK(call[u])'
  BY <1>2 DEF CallOK
<1> QED BY <1>1, <1>3 DEF CallsInv

\* While a lookup is in progress, no Purge is quiet.
LEMMA NotQuietLemma ==
  ASSUME IInv, NEW t \in Threads, Active(t)
  PROVE  purge.start = None
BY DEF IInv, PurgeInv, QuietSoFar, Quiet

\* What is left to show of such a step, the page reader apart: that the call
\* it leads to is allowed, and the cache it changes fresh.
LEMMA LookupLemma ==
  ASSUME IInv, UNCHANGED <<disk, purge>>, NEW t \in Threads, Active(t),
         PagesInv', NEW c, CallOK(c), call' = [call EXCEPT ![t] = c],
         mu' \in {mu, t, None},
         FreshCache(entries', EntrySize), FreshCache(summaries', SummarySize)
  PROVE  IInv'
<1>1. DiskInv'
  BY DEF IInv, DiskInv
<1>2. PurgeInv'
  BY NotQuietLemma DEF IInv, PurgeInv
<1>3. CallsInv'
  BY OneCallLemma DEF IInv
<1>4. FreshCache(entries, EntrySize)' /\ FreshCache(summaries, SummarySize)'
  BY DEF FreshCache
<1> QED BY <1>1, <1>2, <1>3, <1>4 DEF IInv

\* The pages, where they and the disk stay.
LEMMA SamePagesLemma ==
  ASSUME IInv, UNCHANGED <<disk, pages, purge>>
  PROVE  PagesInv'
BY DEF IInv, PagesInv, Sectors

\* A read gives two sectors as fresh as the page, and keeps them.
LEMMA ReadPageLemma ==
  ASSUME IInv, UNCHANGED <<disk, purge>>, NEW id \in Ids, ReadPage(id)
  PROVE  /\ Sectors(id) \in TwoSectors /\ NotOlder(Sectors(id), purge.fresh[id])
         /\ PagesInv'
<1>1. Sectors(id) \in TwoSectors /\ NotOlder(Sectors(id), purge.fresh[id])
  BY DEF IInv, PagesInv, DiskInv, Sectors
<1>2. pages' = [x \in Ids |-> IF x = id THEN Sectors(id) ELSE pages[x]]
  BY DEF ReadPage, IInv, PagesInv
<1>3. \A x \in Ids : pages'[x] # None => pages'[x] \in TwoSectors
  BY <1>1, <1>2 DEF IInv, PagesInv
<1>4. \A x \in Ids : Sectors(x)' = Sectors(x)
  BY <1>2 DEF Sectors
<1> QED BY <1>1, <1>2, <1>3, <1>4 DEF IInv, PagesInv

\* Such a cache with a use of an entry is still one.
LEMMA FreshUseLemma ==
  ASSUME NEW c, NEW size, FreshCache(c, size), NEW id
  PROVE  FreshCache(Use(c, id), size)
BY UseLemma DEF FreshCache, WithinSize, Cached

\* So it is with an entry added that is fresh.
LEMMA FreshAddLemma ==
  ASSUME NEW c, NEW size \in Nat \ {0}, FreshCache(c, size), NEW id \in Ids,
         NEW v \in Versions, v >= purge.fresh[id][2]
  PROVE  FreshCache(Added(c, id, v, size), size)
<1> DEFINE after == Added(c, id, v, size)
           out == AddEvicts(c, id, v, size)
<1>1. /\ Good(after, Ids, Versions)
      /\ WithinSize(after, size)
      /\ IsCached(after, id) /\ after.items[id] = v
      /\ Cached(after) \subseteq Cached(c) \cup {id}
      /\ \A p \in out : ~ IsCached(after, p[1])
      /\ \A x \in Cached(c) \ {id} :
           \/ IsCached(after, x) /\ after.items[x] = c.items[x]
           \/ <<x, c.items[x]>> \in out
  BY AddedLemma DEF FreshCache
<1> HIDE DEF after, out
<1>2. \A x \in Cached(after) \ {id} : after.items[x] = c.items[x]
  <2>1. \A x, y : <<x, y>> \in out => ~ IsCached(after, x)
    BY <1>1
  <2> QED BY <1>1, <2>1 DEF IsCached
<1>3. \A x \in Cached(after) : after.items[x] >= purge.fresh[x][2]
  BY <1>1, <1>2 DEF FreshCache
<1> QED BY <1>1, <1>3 DEF FreshCache, after

\* What is cached is a version that is fresh.
LEMMA HitLemma ==
  ASSUME NEW c, NEW size, FreshCache(c, size), NEW id, IsCached(c, id)
  PROVE  c.items[id] \in Versions /\ c.items[id] >= purge.fresh[id][2]
BY CacheFields DEF FreshCache, Good, IsCached

-----------------------------------------------------------------------------
(* The steps of a lookup, one by one *)

LEMMA BeginStep ==
  ASSUME IInv, NEW t \in Threads, NEW id \in Ids,
         BeginMFT(t, id) \/ BeginSummary(t, id)
  PROVE  IInv'
<1>1. PICK pc \in {"entry", "summary"} :
        call' = [call EXCEPT ![t] = LookupOf(pc, id)]
  BY DEF BeginMFT, BeginSummary
<1>2. /\ UNCHANGED <<disk, pages, entries, summaries>>
      /\ mu' \in {mu, t}
      /\ purge' = [pc |-> purge.pc, start |-> None, fresh |-> purge.fresh]
  BY DEF BeginMFT, BeginSummary, Disturb, IInv, PurgeInv
<1>3. CallOK(LookupOf(pc, id))
  BY DEF CallOK, LookupOf, Calls
<1>4. CallsInv'
  <2>1. call' = [u \in Threads |-> IF u = t THEN LookupOf(pc, id) ELSE call[u]]
    BY <1>1 DEF IInv, CallsInv
  <2>2. \A u \in Threads : CallOK(call'[u])
    BY <1>3, <2>1 DEF IInv, CallsInv
  <2>3. purge'.fresh = purge.fresh
    BY <1>2
  <2>4. \A u \in Threads : CallOK(call[u])'
    BY <2>2, <2>3 DEF CallOK
  <2> QED BY <2>1, <2>4 DEF CallsInv
<1>5. DiskInv' /\ PagesInv' /\ PurgeInv'
  BY <1>2 DEF IInv, DiskInv, PagesInv, PurgeInv, Sectors
<1>6. FreshCache(entries, EntrySize)' /\ FreshCache(summaries, SummarySize)'
  BY <1>2 DEF IInv, FreshCache
<1> QED BY <1>2, <1>4, <1>5, <1>6 DEF IInv

\* The end of a lookup.
LEMMA ReturnStep ==
  ASSUME IInv, UNCHANGED <<disk, purge>>, NEW t \in Threads, Active(t), PagesInv',
         FreshCache(entries', EntrySize), FreshCache(summaries', SummarySize),
         Return(t)
  PROVE  IInv'
<1>1. CallOK(Idle)
  BY DEF CallOK
<1> QED BY <1>1, LookupLemma DEF Return

\* The fields of a call in progress.
LEMMA CallFields ==
  ASSUME IInv, NEW t \in Threads, Active(t)
  PROVE  LET c == call[t]
         IN /\ c \in Calls /\ c.id \in Ids
            /\ c.pc \in {"summary", "entry", "buffer"} => c.buffer = None
            /\ c.pc = "table" => /\ c.buffer \in TwoSectors
                                 /\ NotOlder(c.buffer, purge.fresh[c.id])
            /\ c.pc \in {"keep", "add"} =>
                 /\ c.version \in Versions /\ c.version >= purge.fresh[c.id][2]
                 /\ c.buffer # None => /\ c.buffer[1] = c.buffer[2]
                                       /\ c.version = c.buffer[1]
BY DEF IInv, CallsInv, CallOK, Active, Idle, Calls

\* A call goes on to another step that looks.
LEMMA GotoStep ==
  ASSUME IInv, UNCHANGED <<disk, purge, mu>>, NEW t \in Threads, Active(t), PagesInv',
         FreshCache(entries', EntrySize), FreshCache(summaries', SummarySize),
         NEW pc \in {"entry", "buffer"}, call[t].buffer = None, Goto(t, pc)
  PROVE  IInv'
<1> DEFINE c == [call[t] EXCEPT !.pc = pc]
<1>1. c \in Calls /\ c.pc = pc /\ c.buffer = None
  BY CallFields DEF Calls
<1>2. call' = [call EXCEPT ![t] = c]
  BY DEF Goto
<1> HIDE DEF c
<1>3. CallOK(c)
  BY <1>1, CallFields DEF CallOK
<1> QED BY <1>2, <1>3, LookupLemma

\* The caller of GetMFT has a fresh entry.
LEMMA GotEntryStep ==
  ASSUME IInv, UNCHANGED <<disk, purge>>, NEW t \in Threads, Active(t), PagesInv',
         FreshCache(entries', EntrySize), FreshCache(summaries', SummarySize),
         NEW v \in Versions, v >= purge.fresh[call[t].id][2],
         call[t].buffer # None => /\ call[t].buffer[1] = call[t].buffer[2]
                                  /\ v = call[t].buffer[1],
         GotEntry(t, v)
  PROVE  IInv'
<1>1. CASE mu = t
  <2> DEFINE c == [call[t] EXCEPT !.pc = "add", !.version = v]
  <2>1. /\ c \in Calls /\ c.pc = "add" /\ c.id = call[t].id
        /\ c.buffer = call[t].buffer /\ c.version = v
    BY CallFields DEF Calls
  <2>2. call' = [call EXCEPT ![t] = c] /\ mu' = mu
    BY <1>1 DEF GotEntry
  <2> HIDE DEF c
  <2>3. CallOK(c)
    BY <2>1, CallFields DEF CallOK
  <2> QED BY <2>2, <2>3, LookupLemma
<1>2. CASE mu # t
  BY <1>2, ReturnStep DEF GotEntry
<1> QED BY <1>1, <1>2

-----------------------------------------------------------------------------
(* Every step of a lookup keeps the invariant. *)

LEMMA FindSummaryStep ==
  ASSUME IInv, NEW t \in Threads, FindSummary(t)
  PROVE  IInv'
<1> DEFINE id == call[t].id
<1>1. /\ UNCHANGED <<disk, purge>> /\ Active(t) /\ PagesInv'
      /\ call[t].buffer = None
      /\ FreshCache(entries', EntrySize)
      /\ summaries' = Use(summaries, id)
  BY SamePagesLemma, CallFields DEF FindSummary, Active, IInv
<1>2. FreshCache(summaries', SummarySize)
  BY <1>1, FreshUseLemma DEF IInv
<1>3. CASE IsCached(summaries, id)
  BY <1>1, <1>2, <1>3, ReturnStep DEF FindSummary
<1>4. CASE ~ IsCached(summaries, id)
  BY <1>1, <1>2, <1>4, GotoStep DEF FindSummary
<1> QED BY <1>3, <1>4

LEMMA FindEntryStep ==
  ASSUME IInv, NEW t \in Threads, FindEntry(t)
  PROVE  IInv'
<1> DEFINE id == call[t].id
<1>1. /\ UNCHANGED <<disk, purge>> /\ Active(t) /\ PagesInv'
      /\ call[t].buffer = None
      /\ FreshCache(summaries', SummarySize)
      /\ entries' = Use(entries, id)
  BY SamePagesLemma, CallFields DEF FindEntry, Active, IInv
<1>2. FreshCache(entries', EntrySize)
  BY <1>1, FreshUseLemma DEF IInv
<1>3. CASE IsCached(entries, id)
  <2>1. entries.items[id] \in Versions /\ entries.items[id] >= purge.fresh[id][2]
    BY <1>3, HitLemma DEF IInv
  <2>2. GotEntry(t, entries.items[id])
    BY <1>3 DEF FindEntry
  <2> QED BY <1>1, <1>2, <2>1, <2>2, GotEntryStep
<1>4. CASE ~ IsCached(entries, id)
  BY <1>1, <1>2, <1>4, GotoStep DEF FindEntry
<1> QED BY <1>3, <1>4

LEMMA ReadBufferStep ==
  ASSUME IInv, NEW t \in Threads, ReadBuffer(t)
  PROVE  IInv'
<1> DEFINE id == call[t].id
           c == [call[t] EXCEPT !.pc = "table", !.buffer = Sectors(id)]
<1>1. /\ UNCHANGED <<disk, purge, mu>> /\ Active(t) /\ id \in Ids
      /\ FreshCache(entries', EntrySize) /\ FreshCache(summaries', SummarySize)
      /\ ReadPage(id)
  BY CallFields DEF ReadBuffer, Active, IInv
<1>2. /\ Sectors(id) \in TwoSectors /\ NotOlder(Sectors(id), purge.fresh[id])
      /\ PagesInv'
  BY <1>1, ReadPageLemma
<1>3. c \in Calls /\ c.pc = "table" /\ c.id = id /\ c.buffer = Sectors(id)
  BY <1>1, <1>2, CallFields DEF Calls
<1>4. call' = [call EXCEPT ![t] = c]
  BY DEF ReadBuffer
<1> HIDE DEF c
<1>5. CallOK(c)
  BY <1>1, <1>2, <1>3 DEF CallOK
<1> QED BY <1>1, <1>2, <1>4, <1>5, LookupLemma

\* What FixUp accepts is a version that both sectors of the buffer have: the
\* table may be of another read and another time, but it has to agree with both.
LEMMA FixUpLemma ==
  ASSUME NEW buffer, NEW table, FixUp(buffer, table) # None
  PROVE  FixUp(buffer, table) = buffer[1] /\ buffer[1] = buffer[2]
BY DEF FixUp

LEMMA ReadTableStep ==
  ASSUME IInv, NEW t \in Threads, ReadTable(t)
  PROVE  IInv'
<1> DEFINE id == call[t].id
           buffer == call[t].buffer
           version == FixUp(buffer, Sectors(id))
           c == [call[t] EXCEPT !.pc = "keep", !.version = version]
<1>1. /\ UNCHANGED <<disk, purge>> /\ Active(t) /\ id \in Ids
      /\ FreshCache(entries', EntrySize) /\ FreshCache(summaries', SummarySize)
      /\ ReadPage(id)
      /\ buffer \in TwoSectors /\ NotOlder(buffer, purge.fresh[id])
  BY CallFields DEF ReadTable, Active, IInv
<1>2. PagesInv'
  BY <1>1, ReadPageLemma
<1>3. CASE version = None
  <2>1. Return(t)
    BY <1>3 DEF ReadTable
  <2> QED BY <1>1, <1>2, <2>1, ReturnStep
<1>4. CASE version # None
  <2>1. call' = [call EXCEPT ![t] = c] /\ mu' = mu
    BY <1>4 DEF ReadTable
  <2>2. version = buffer[1] /\ buffer[1] = buffer[2]
    BY <1>4, FixUpLemma
  <2>3. version \in Versions /\ version >= purge.fresh[id][2]
    BY <1>1, <2>2, PairLemma DEF NotOlder
  <2>4. /\ c \in Calls /\ c.pc = "keep" /\ c.id = id /\ c.buffer = buffer
        /\ c.version = version
    BY <1>1, <2>3, CallFields DEF Calls
  <2> HIDE DEF c, version
  <2>5. CallOK(c)
    BY <1>1, <2>2, <2>3, <2>4 DEF CallOK
  <2> QED BY <1>1, <1>2, <2>1, <2>5, LookupLemma
<1> QED BY <1>3, <1>4

\* What the last two steps of a lookup keep.
LEMMA VersionLemma ==
  ASSUME IInv, NEW t \in Threads, call[t].pc \in {"keep", "add"}
  PROVE  LET c == call[t]
         IN /\ c.id \in Ids /\ c.version \in Versions
            /\ c.version >= purge.fresh[c.id][2]
            /\ c.buffer # None => /\ c.buffer[1] = c.buffer[2]
                                  /\ c.version = c.buffer[1]
BY CallFields DEF Active

LEMMA KeepEntryStep ==
  ASSUME IInv, NEW t \in Threads, KeepEntry(t)
  PROVE  IInv'
<1>1. /\ UNCHANGED <<disk, pages, purge>> /\ Active(t)
      /\ FreshCache(summaries', SummarySize)
      /\ call[t].pc \in {"keep", "add"}
      /\ entries' = Added(entries, call[t].id, call[t].version, EntrySize)
      /\ GotEntry(t, call[t].version)
  BY DEF KeepEntry, Active, IInv
<1>2. FreshCache(entries', EntrySize)
  BY <1>1, VersionLemma, FreshAddLemma, CacheSizesAssumption DEF IInv
<1>3. PagesInv'
  BY <1>1, SamePagesLemma
<1> QED BY <1>1, <1>2, <1>3, VersionLemma, GotEntryStep

LEMMA AddSummaryStep ==
  ASSUME IInv, NEW t \in Threads, AddSummary(t)
  PROVE  IInv'
<1>1. /\ UNCHANGED <<disk, pages, purge>> /\ Active(t)
      /\ FreshCache(entries', EntrySize)
      /\ call[t].pc \in {"keep", "add"}
      /\ summaries' = Added(summaries, call[t].id, call[t].version, SummarySize)
      /\ Return(t)
  BY DEF AddSummary, Active, IInv
<1>2. FreshCache(summaries', SummarySize)
  BY <1>1, VersionLemma, FreshAddLemma, CacheSizesAssumption DEF IInv
<1>3. PagesInv'
  BY <1>1, SamePagesLemma
<1> QED BY <1>1, <1>2, <1>3, ReturnStep

-----------------------------------------------------------------------------
(* Purge, the owner of the volume, and the rest of the reader's cache *)

\* An empty cache is fresh.
LEMMA FreshEmptyLemma ==
  ASSUME NEW size \in Nat \ {0}
  PROVE  FreshCache(Empty, size) /\ Cached(Empty) = {}
<1>1. Len(Empty.evictList) = 0
  BY DEF Empty
<1> QED BY <1>1, EmptyLemma DEF FreshCache, WithinSize

\* Calls and caches stay fresh while the disk of the last quiet Purge does.
LEMMA SameFreshLemma ==
  ASSUME purge'.fresh = purge.fresh
  PROVE  /\ CallsInv /\ UNCHANGED call => CallsInv'
         /\ \A c, size : FreshCache(c, size) => FreshCache(c, size)'
<1>1. \A c : CallOK(c) => CallOK(c)'
  BY DEF CallOK
<1>2. CallsInv /\ UNCHANGED call => CallsInv'
  BY <1>1 DEF CallsInv
<1> QED BY <1>2 DEF FreshCache

LEMMA PurgeEntriesStep ==
  ASSUME IInv, PurgeEntries
  PROVE  IInv'
<1>1. /\ UNCHANGED <<disk, pages, summaries, mu, call>>
      /\ entries' = Empty
      /\ purge' = [pc |-> "summaries", start |-> IF Quiet THEN disk ELSE None,
                   fresh |-> purge.fresh]
  BY DEF PurgeEntries, IInv, PurgeInv
<1>2. /\ purge'.pc = "summaries" /\ purge'.fresh = purge.fresh
      /\ purge'.start = IF Quiet THEN disk ELSE None
  BY <1>1
<1>3. DiskInv' /\ PagesInv'
  BY <1>1, <1>2 DEF IInv, DiskInv, PagesInv, Sectors
<1>4. PurgeInv'
  <2>1. ASSUME purge'.start # None PROVE QuietSoFar'
    <3>1. purge'.start = disk /\ Quiet /\ Quiet'
      BY <1>1, <1>2, <2>1 DEF Quiet, Active
    <3>2. \A id \in Ids : NotOlder(disk[id], disk[id])
      BY PairLemma DEF NotOlder, IInv, DiskInv
    <3>3. Cached(entries') = {}
      BY <1>1, FreshEmptyLemma, CacheSizesAssumption
    <3> QED BY <1>1, <1>2, <3>1, <3>2, <3>3 DEF QuietSoFar, IInv, DiskInv
  <2> QED BY <1>1, <1>2, <2>1 DEF PurgeInv, IInv
<1>5. FreshCache(entries, EntrySize)'
  BY <1>1, FreshEmptyLemma, CacheSizesAssumption DEF FreshCache
<1>6. CallsInv' /\ FreshCache(summaries, SummarySize)'
  BY <1>1, <1>2, SameFreshLemma DEF IInv, FreshCache
<1> QED BY <1>1, <1>3, <1>4, <1>5, <1>6 DEF IInv

LEMMA PurgeSummariesStep ==
  ASSUME IInv, PurgeSummaries
  PROVE  IInv'
<1>1. PICK pc \in {"resolver", "flush"} : purge' = [purge EXCEPT !.pc = pc]
  BY DEF PurgeSummaries, PurgeStep
<1>2. /\ UNCHANGED <<disk, pages, entries, mu, call>> /\ summaries' = Empty
      /\ purge' = [pc |-> pc, start |-> purge.start, fresh |-> purge.fresh]
  BY <1>1 DEF PurgeSummaries, IInv, PurgeInv
<1>3. purge'.fresh = purge.fresh /\ purge'.start = purge.start
  BY <1>2
<1>4. DiskInv' /\ PagesInv'
  BY <1>2, <1>3 DEF IInv, DiskInv, PagesInv, Sectors
<1>5. Cached(summaries') = {} /\ FreshCache(summaries', SummarySize)
  BY <1>2, FreshEmptyLemma, CacheSizesAssumption
<1>6. PurgeInv'
  <2>1. ASSUME purge'.start # None PROVE QuietSoFar'
    BY <1>2, <1>3, <1>5, <2>1
       DEF QuietSoFar, Quiet, Active, IInv, PurgeInv
  <2> QED BY <1>2, <1>3, <2>1 DEF PurgeInv, IInv
<1>7. CallsInv' /\ FreshCache(entries, EntrySize)' /\ FreshCache(summaries, SummarySize)'
  BY <1>2, <1>3, <1>5, SameFreshLemma DEF IInv, FreshCache
<1> QED BY <1>2, <1>4, <1>6, <1>7 DEF IInv

\* The pages are dropped; what is read from now on comes from the disk.
LEMMA NoPagesLemma ==
  ASSUME DiskInv, pages' = [id \in Ids |-> None], disk' = disk,
         \A id \in Ids : NotOlder(disk[id], purge'.fresh[id])
  PROVE  PagesInv'
BY DEF PagesInv, Sectors

LEMMA FlushPagesStep ==
  ASSUME IInv, FlushPages
  PROVE  IInv'
<1>1. /\ UNCHANGED <<disk, entries, summaries, mu, call>>
      /\ pages' = [id \in Ids |-> None]
  BY DEF FlushPages, lookup
<1>2. DiskInv'
  BY <1>1 DEF IInv, DiskInv
<1>3. CASE PurgeStep("flush", "mft")
  <2>1. /\ purge' = [pc |-> "mft", start |-> purge.start, fresh |-> purge.fresh]
        /\ purge.pc = "flush"
    BY <1>3 DEF PurgeStep, IInv, PurgeInv
  <2>2. /\ purge'.fresh = purge.fresh /\ purge'.start = purge.start
        /\ purge'.pc = "mft"
    BY <2>1
  <2>3. PagesInv'
    BY <1>1, <2>2, NoPagesLemma DEF IInv, PagesInv
  <2>4. PurgeInv'
    <3>1. ASSUME purge'.start # None PROVE QuietSoFar'
      BY <1>1, <2>1, <2>2, <3>1 DEF QuietSoFar, Quiet, Active, IInv, PurgeInv
    <3> QED BY <2>1, <2>2, <3>1 DEF PurgeInv, IInv
  <2>5. CallsInv' /\ FreshCache(entries, EntrySize)' /\ FreshCache(summaries, SummarySize)'
    BY <1>1, <2>2, SameFreshLemma DEF IInv, FreshCache
  <2> QED BY <1>1, <1>2, <2>3, <2>4, <2>5 DEF IInv
<1>4. CASE purge.pc = "mft" /\ FlushStep
  <2>1. purge' = [pc |-> "idle", start |-> None,
          fresh |-> IF purge.start = None THEN purge.fresh ELSE purge.start]
    BY <1>4 DEF FlushStep, PurgeStep, IInv, PurgeInv
  <2>2. /\ purge'.start = None
        /\ purge'.fresh = IF purge.start = None THEN purge.fresh ELSE purge.start
    BY <2>1
  <2>3. CASE purge.start = None
    <3>1. PagesInv' /\ PurgeInv'
      BY <1>1, <2>1, <2>2, <2>3, NoPagesLemma DEF IInv, PagesInv, PurgeInv
    <3>2. CallsInv' /\ FreshCache(entries, EntrySize)' /\ FreshCache(summaries, SummarySize)'
      BY <1>1, <2>2, <2>3, SameFreshLemma DEF IInv, FreshCache
    <3> QED BY <1>1, <1>2, <3>1, <3>2 DEF IInv
  <2>4. CASE purge.start # None
    <3>1. QuietSoFar /\ purge'.fresh = purge.start
      BY <2>2, <2>4 DEF IInv, PurgeInv
    <3>2. PagesInv' /\ PurgeInv'
      BY <1>1, <2>1, <2>2, <3>1, NoPagesLemma DEF IInv, PurgeInv, QuietSoFar
    <3>3. \A t \in Threads : call[t] = Idle
      BY <3>1 DEF QuietSoFar, Quiet, Active, IInv, CallsInv, CallOK, Calls
    <3>4. CallsInv'
      BY <1>1, <3>3 DEF IInv, CallsInv, CallOK
    <3>5. Cached(entries) = {} /\ Cached(summaries) = {}
      BY <1>4, <3>1 DEF QuietSoFar
    <3>6. FreshCache(entries, EntrySize)' /\ FreshCache(summaries, SummarySize)'
      BY <1>1, <3>5 DEF IInv, FreshCache
    <3> QED BY <1>1, <1>2, <3>2, <3>4, <3>6 DEF IInv
  <2> QED BY <2>3, <2>4
<1> QED BY <1>3, <1>4 DEF FlushPages, FlushStep

\* A write only makes the disk newer; the second sector is never ahead.
LEMMA WriteLemma ==
  ASSUME DiskInv, NEW id \in Written, WriteSector(id)
  PROVE  DiskInv' /\ \A x \in Ids : NotOlder(disk'[x], disk[x])
<1>1. id \in Ids /\ MaxWrites \in Nat
  BY CacheSizesAssumption
<1>2. disk[id] \in TwoSectors /\ disk[id][2] <= disk[id][1]
      /\ disk[id][1] <= disk[id][2] + 1
  BY <1>1 DEF DiskInv
<1>3. PICK n \in TwoSectors : /\ disk' = [disk EXCEPT ![id] = n]
                              /\ NotOlder(n, disk[id])
                              /\ n[2] <= n[1] /\ n[1] <= n[2] + 1
  <2>1. CASE disk[id][1] = disk[id][2]
    <3> DEFINE n == <<disk[id][1] + 1, disk[id][2]>>
    <3>1. n \in TwoSectors
      BY <1>1, <1>2, <2>1, PairLemma DEF WriteSector, TwoSectors, Versions
    <3>2. NotOlder(n, disk[id]) /\ n[2] <= n[1] /\ n[1] <= n[2] + 1
      BY <1>2, <2>1, PairLemma DEF NotOlder
    <3>3. [disk[id] EXCEPT ![1] = @ + 1] = n
      BY <1>2, PairLemma
    <3>4. disk' = [disk EXCEPT ![id] = n]
      BY <2>1, <3>3 DEF WriteSector
    <3> QED BY <3>1, <3>2, <3>4
  <2>2. CASE disk[id][1] # disk[id][2]
    <3> DEFINE n == <<disk[id][1], disk[id][2] + 1>>
    <3>1. disk[id][1] = disk[id][2] + 1
      BY <1>2, <2>2, PairLemma
    <3>2. n \in TwoSectors
      BY <1>2, <3>1, PairLemma DEF TwoSectors
    <3>3. NotOlder(n, disk[id]) /\ n[2] <= n[1] /\ n[1] <= n[2] + 1
      BY <1>2, <3>1, PairLemma DEF NotOlder
    <3>4. [disk[id] EXCEPT ![2] = @ + 1] = n
      BY <1>2, PairLemma
    <3>5. disk' = [disk EXCEPT ![id] = n]
      BY <2>2, <3>4 DEF WriteSector
    <3> QED BY <3>2, <3>3, <3>5
  <2> QED BY <2>1, <2>2
<1>4. disk' = [x \in Ids |-> IF x = id THEN n ELSE disk[x]]
  BY <1>3 DEF DiskInv
<1>5. \A x \in Ids : NotOlder(disk[x], disk[x])
  BY PairLemma DEF NotOlder, DiskInv
<1> QED BY <1>3, <1>4, <1>5 DEF DiskInv

LEMMA WriteSectorStep ==
  ASSUME IInv, NEW id \in Written, WriteSector(id)
  PROVE  IInv'
<1>1. UNCHANGED <<pages, entries, summaries, mu, call, purge>>
  BY DEF WriteSector, lookup
<1>2. DiskInv' /\ \A x \in Ids : NotOlder(disk'[x], disk[x])
  BY WriteLemma DEF IInv
<1>3. \A x \in Ids : disk[x] \in TwoSectors /\ disk'[x] \in TwoSectors
  BY <1>2 DEF IInv, DiskInv
<1>4. \A x \in Ids : NotOlder(disk'[x], purge.fresh[x])
  BY <1>2, <1>3, LaterLemma DEF IInv, PagesInv, PurgeInv
<1>5. PagesInv'
  BY <1>1, <1>4 DEF IInv, PagesInv, Sectors
<1>6. PurgeInv'
  <2>1. ASSUME purge.start # None PROVE QuietSoFar'
    <3>1. QuietSoFar
      BY <2>1 DEF IInv, PurgeInv
    <3>2. \A x \in Ids : NotOlder(disk'[x], purge.start[x])
      BY <1>2, <1>3, <3>1, LaterLemma DEF QuietSoFar
    <3> QED BY <1>1, <3>1, <3>2 DEF QuietSoFar, Quiet, Active
  <2> QED BY <1>1, <2>1 DEF IInv, PurgeInv
<1>7. CallsInv' /\ FreshCache(entries, EntrySize)' /\ FreshCache(summaries, SummarySize)'
  BY <1>1, SameFreshLemma DEF IInv, FreshCache
<1> QED BY <1>1, <1>2, <1>5, <1>6, <1>7 DEF IInv

LEMMA EvictPageStep ==
  ASSUME IInv, NEW id \in Ids, EvictPage(id)
  PROVE  IInv'
<1>1. /\ UNCHANGED <<disk, entries, summaries, mu, call, purge>>
      /\ pages' = [x \in Ids |-> IF x = id THEN None ELSE pages[x]]
  BY DEF EvictPage, lookup, IInv, PagesInv
<1>2. PagesInv'
  BY <1>1 DEF IInv, PagesInv, Sectors
<1>3. PurgeInv' /\ DiskInv'
  BY <1>1 DEF IInv, PurgeInv, DiskInv, QuietSoFar, Quiet, Active
<1>4. CallsInv' /\ FreshCache(entries, EntrySize)' /\ FreshCache(summaries, SummarySize)'
  BY <1>1, SameFreshLemma DEF IInv, FreshCache
<1> QED BY <1>1, <1>2, <1>3, <1>4 DEF IInv

LEMMA StepLemma == IInv /\ [Next]_vars => IInv'
<1> SUFFICES ASSUME IInv, [Next]_vars PROVE IInv'
  OBVIOUS
<1>1. ASSUME NEW t \in Threads, Lookup(t) PROVE IInv'
  BY <1>1, FindSummaryStep, FindEntryStep, ReadBufferStep, ReadTableStep,
     KeepEntryStep, AddSummaryStep DEF Lookup
<1>2. CASE PurgeEntries \/ PurgeSummaries \/ FlushPages
  BY <1>2, PurgeEntriesStep, PurgeSummariesStep, FlushPagesStep
<1>3. CASE UNCHANGED vars
  BY <1>3 DEF vars, IInv, DiskInv, PurgeInv, QuietSoFar, Quiet, Active, PagesInv,
              Sectors, CallsInv, CallOK, FreshCache
<1> QED BY <1>1, <1>2, <1>3, BeginStep, WriteSectorStep, EvictPageStep DEF Next

\* The invariant holds in every state: the caches, the pages and the lookups in
\* progress stay as fresh as the last quiet Purge.
THEOREM Invariant == Spec => []IInv
BY InitLemma, StepLemma, PTL DEF Spec

-----------------------------------------------------------------------------
\* Every variable keeps its type: the entry cache and the cache of summaries
\* stay caches of versions of entries, whatever order lookups and Purge take.
THEOREM TypesHold == Spec => []TypeOK
<1>1. IInv => TypeOK
  <2> SUFFICES ASSUME IInv PROVE TypeOK
    OBVIOUS
  <2>1. entries \in CacheOf(Ids, Versions) /\ summaries \in CacheOf(Ids, Versions)
    BY DEF IInv, FreshCache, Good
  <2>2. \A id \in Ids : pages[id] = None \/ pages[id] \in TwoSectors
    BY DEF IInv, PagesInv
  <2> QED BY <2>1, <2>2 DEF TypeOK, IInv, DiskInv, TwoSectors
<1> QED BY Invariant, <1>1, PTL

\* An entry that GetMFT keeps is whole, although FixUp reads the sectors twice
\* and the owner of the volume writes them in between.
THEOREM EntriesAreWhole == Spec => []NeverTorn
<1>1. IInv => NeverTorn
  BY VersionLemma DEF NeverTorn
<1> QED BY Invariant, <1>1, PTL

\* Once a Purge that no lookup overlapped has returned, no cache gives out
\* anything older than the volume was when that Purge began.
THEOREM QuietPurgeRefreshes == Spec => []FreshSinceQuietPurge
<1>1. IInv => FreshSinceQuietPurge
  <2> SUFFICES ASSUME IInv, NEW id \in Ids
               PROVE  /\ pages[id] # None =>
                           \A i \in 1..2 : pages[id][i] >= purge.fresh[id][i]
                      /\ IsCached(entries, id) =>
                           entries.items[id] >= purge.fresh[id][2]
                      /\ IsCached(summaries, id) =>
                           summaries.items[id] >= purge.fresh[id][2]
    BY DEF FreshSinceQuietPurge
  <2>1. pages[id] # None => \A i \in 1..2 : pages[id][i] >= purge.fresh[id][i]
    BY DEF IInv, PagesInv, Sectors, NotOlder
  <2> QED BY <2>1, HitLemma DEF IInv
<1> QED BY Invariant, <1>1, PTL
=============================================================================
