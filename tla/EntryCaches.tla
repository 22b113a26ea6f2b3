----------------------------- MODULE EntryCaches ------------------------------
(***************************************************************************)
(* parser/context.go and parser/caching.go over a live volume: GetMFT with *)
(* the fixup of parser/boot.go, GetSummary, and the Purge that WatchUSN    *)
(* makes before each poll, while other goroutines look entries up.         *)
(*                                                                         *)
(* An entry lies in two sectors, which the system that owns the volume     *)
(* writes one after the other; what a sector holds is the number of times  *)
(* it was written, which is also the update sequence number at its end.    *)
(* An entry has one page of the reader to itself.  PagedReader has the     *)
(* steps in which a page is read; here that is one step.                   *)
(***************************************************************************)
EXTENDS LRUEntries

CONSTANTS
  Threads,      \* goroutines that look entries up
  Ids,          \* MFT entry numbers
  EntrySize,    \* size of mft_entry_lru: 1000 in the code
  SummarySize,  \* size of the LRU of summaries: 10000 in the code
  Written,      \* the entries their owner writes to
  MaxWrites,    \* bound on the writes to such an entry
  MaxPurges,    \* bound on the calls of Purge
  None

ASSUME CacheSizesAssumption ==
  /\ EntrySize \in Nat \ {0}
  /\ SummarySize \in Nat \ {0}
  /\ Written \subseteq Ids
  /\ MaxWrites \in Nat

ASSUME NoneAssumption == None \notin Threads

VARIABLES
  disk,         \* entry -> <<first sector, second sector>>
  pages,        \* entry -> the sectors the page reader has, or None
  entries,      \* mft_entry_lru
  summaries,    \* the LRU of mft_summary_cache
  mu,           \* the thread that holds mft_summary_cache.mu, or None
  call,         \* thread -> its GetMFT or GetSummary in progress
  purge,        \* the Purge in progress: its step; the disk when it began, None
                \* if a lookup overlaps it; the disk at the last quiet one
  purges        \* calls of Purge so far

vars == <<disk, pages, entries, summaries, mu, call, purge, purges>>

lookup == <<entries, summaries, mu, call>>

-----------------------------------------------------------------------------
(* The page reader *)

\* What a read of entry id gives.
Sectors(id) == IF pages[id] = None THEN disk[id] ELSE pages[id]

\* Such a read brings the page into the cache.
ReadPage(id) == pages' = [pages EXCEPT ![id] = Sectors(id)]

-----------------------------------------------------------------------------
(* The entries *)

\* Mutant of FixUp: without the comparison with the magic of the table.
FixUpAnything(buffer, table) == buffer[1]

\* FixUpDiskMFTEntry: each sector has to end with the number that the table,
\* which is in the first sector and is read after the buffer, begins with.
\* What is left of an entry is the version it has.
FixUp(buffer, table) ==
  IF \A i \in 1..2 : buffer[i] = table[1] THEN buffer[1] ELSE None

Idle == [pc |-> "idle"]

Active(t) == call[t].pc # "idle"

\* The next step of the call.
Goto(t, pc) == call' = [call EXCEPT ![t].pc = pc]

LookupOf(pc, id) == [pc |-> pc, id |-> id, buffer |-> None, version |-> None]

\* A lookup begins: a Purge in progress is not a quiet one.
Disturb == purge' = [purge EXCEPT !.start = None]

\* GetMFT(id)
BeginMFT(t, id) ==
  /\ ~ Active(t)
  /\ call' = [call EXCEPT ![t] = LookupOf("entry", id)]
  /\ Disturb
  /\ UNCHANGED <<disk, pages, entries, summaries, mu, purges>>

\* GetSummary(id, seq), once it holds the mutex.  Whether a preloaded summary
\* suits seq better is decided by HardLinks.
BeginSummary(t, id) ==
  /\ ~ Active(t)
  /\ mu = None
  /\ mu' = t
  /\ call' = [call EXCEPT ![t] = LookupOf("summary", id)]
  /\ Disturb
  /\ UNCHANGED <<disk, pages, entries, summaries, purges>>

\* The lookup returns; GetSummary gives up its mutex.
Return(t) ==
  /\ call' = [call EXCEPT ![t] = Idle]
  /\ mu' = IF mu = t THEN None ELSE mu

\* What the caller of GetMFT does with the entry: _GetSummary makes a summary.
GotEntry(t, version) ==
  IF mu = t
  THEN /\ call' = [call EXCEPT ![t].pc = "add", ![t].version = version]
       /\ UNCHANGED mu
  ELSE Return(t)

\* lru.Get of the summaries
FindSummary(t) ==
  LET c == call[t]
  IN /\ c.pc = "summary"
     /\ summaries' = Use(summaries, c.id)
     /\ IF IsCached(summaries, c.id) THEN Return(t)
        ELSE Goto(t, "entry") /\ UNCHANGED mu
     /\ UNCHANGED <<disk, pages, entries, purge, purges>>

\* mft_entry_lru.Get
FindEntry(t) ==
  LET c == call[t]
  IN /\ c.pc = "entry"
     /\ entries' = Use(entries, c.id)
     /\ IF IsCached(entries, c.id) THEN GotEntry(t, entries.items[c.id])
        ELSE Goto(t, "buffer") /\ UNCHANGED mu
     /\ UNCHANGED <<disk, pages, summaries, purge, purges>>

\* The entry is read into the buffer.
ReadBuffer(t) ==
  LET c == call[t]
  IN /\ c.pc = "buffer"
     /\ ReadPage(c.id)
     /\ call' = [call EXCEPT ![t].pc = "table", ![t].buffer = Sectors(c.id)]
     /\ UNCHANGED <<disk, entries, summaries, mu, purge, purges>>

\* Mutant of ReadTable: without the test of the error.
ReadTableOnly(t) ==
  LET c == call[t]
  IN /\ c.pc = "table"
     /\ ReadPage(c.id)
     /\ call' = [call EXCEPT ![t].pc = "keep",
                             ![t].version = FixUp(c.buffer, Sectors(c.id))]
     /\ UNCHANGED <<disk, entries, summaries, mu, purge, purges>>

\* The fixup table is read again, from the page; then the buffer is fixed up.
\* An error is returned at once.
ReadTable(t) ==
  LET c == call[t]
      version == FixUp(c.buffer, Sectors(c.id))
  IN /\ c.pc = "table"
     /\ ReadPage(c.id)
     /\ IF version = None THEN Return(t)
        ELSE /\ call' = [call EXCEPT ![t].pc = "keep", ![t].version = version]
             /\ UNCHANGED mu
     /\ UNCHANGED <<disk, entries, summaries, purge, purges>>

\* mft_entry_lru.Add
KeepEntry(t) ==
  LET c == call[t]
  IN /\ c.pc = "keep"
     /\ entries' = Added(entries, c.id, c.version, EntrySize)
     /\ GotEntry(t, c.version)
     /\ UNCHANGED <<disk, pages, summaries, purge, purges>>

\* _GetSummary keeps the summary it made of the entry.
AddSummary(t) ==
  LET c == call[t]
  IN /\ c.pc = "add"
     /\ summaries' = Added(summaries, c.id, c.version, SummarySize)
     /\ Return(t)
     /\ UNCHANGED <<disk, pages, entries, purge, purges>>

-----------------------------------------------------------------------------
(* Purge: three caches, each under its own lock, the pages last. *)

\* No lookup is in progress.
Quiet == \A t \in Threads : ~ Active(t)

PurgeStep(from, to) == purge.pc = from /\ purge' = [purge EXCEPT !.pc = to]

PurgeEntries ==
  /\ purge.pc = "idle"
  /\ purges < MaxPurges
  /\ purges' = purges + 1
  /\ purge' = [purge EXCEPT !.pc = "summaries",
                            !.start = IF Quiet THEN disk ELSE None]
  /\ entries' = Empty
  /\ UNCHANGED <<disk, pages, summaries, mu, call>>

\* Of mft_summary_cache, and once more of the full_path_resolver that has it.
PurgeSummaries ==
  /\ PurgeStep("summaries", "resolver") \/ PurgeStep("resolver", "flush")
  /\ summaries' = Empty
  /\ UNCHANGED <<disk, pages, entries, mu, call, purges>>

\* Flush(DiskReader) and Flush(MFTReader), which flushes what it maps: the
\* disk reader again.
FlushStep ==
  \/ PurgeStep("flush", "mft")
  \/ /\ purge.pc = "mft"
     /\ purge' = [purge EXCEPT !.pc = "idle", !.start = None,
          !.fresh = IF purge.start = None THEN @ ELSE purge.start]

\* Mutant of FlushPages: without an effect on the reader.
FlushNothing == FlushStep /\ UNCHANGED <<disk, pages, lookup, purges>>

FlushPages ==
  /\ FlushStep
  /\ pages' = [id \in Ids |-> None]
  /\ UNCHANGED <<disk, lookup, purges>>

-----------------------------------------------------------------------------
(* The owner of the volume, and the rest of the cache *)

\* The first sector of the entry and then the second.
WriteSector(id) ==
  /\ \/ /\ disk[id][1] = disk[id][2]
        /\ disk[id][1] < MaxWrites
        /\ disk' = [disk EXCEPT ![id][1] = @ + 1]
     \/ /\ disk[id][1] # disk[id][2]
        /\ disk' = [disk EXCEPT ![id][2] = @ + 1]
  /\ UNCHANGED <<pages, lookup, purge, purges>>

\* Other reads push the page out of the reader's LRU.
EvictPage(id) ==
  /\ pages[id] # None
  /\ pages' = [pages EXCEPT ![id] = None]
  /\ UNCHANGED <<disk, lookup, purge, purges>>

Init ==
  /\ disk = [id \in Ids |-> <<0, 0>>]
  /\ pages = [id \in Ids |-> None]
  /\ entries = Empty
  /\ summaries = Empty
  /\ mu = None
  /\ call = [t \in Threads |-> Idle]
  /\ purge = [pc |-> "idle", start |-> None, fresh |-> disk]
  /\ purges = 0

Lookup(t) ==
  \/ FindSummary(t) \/ FindEntry(t) \/ ReadBuffer(t) \/ ReadTable(t)
  \/ KeepEntry(t) \/ AddSummary(t)

Versions == 0..MaxWrites

Next ==
  \/ \E t \in Threads : Lookup(t)
  \/ \E t \in Threads, id \in Ids : BeginMFT(t, id)
  \/ \E t \in Threads, id \in Ids : BeginSummary(t, id)
  \/ PurgeEntries \/ PurgeSummaries \/ FlushPages
  \/ \E id \in Written : WriteSector(id)
  \/ \E id \in Ids : EvictPage(id)

\* A goroutine inside a lookup goes on.
Spec == Init /\ [][Next]_vars /\ \A t \in Threads : WF_vars(Lookup(t))

-----------------------------------------------------------------------------
\* Each variable holds what its Go type allows.
TypeOK ==
  /\ disk \in [Ids -> Versions \X Versions]
  /\ \A id \in Ids : pages[id] = None \/ pages[id] \in Versions \X Versions
  /\ entries \in CacheOf(Ids, Versions)
  /\ summaries \in CacheOf(Ids, Versions)
  /\ mu \in Threads \cup {None}

\* An entry that is kept, or that a summary was made of, is one that was on
\* the disk: its sectors belong together, although it is read twice while its
\* owner writes it, its page is evicted or flushed, and read again.
NeverTorn ==
  \A t \in Threads :
    call[t].pc \in {"keep", "add"} /\ call[t].buffer # None =>
      /\ call[t].buffer[1] = call[t].buffer[2]
      /\ call[t].version = call[t].buffer[1]

\* Nothing that is cached is older than the start of the last Purge that no
\* lookup overlapped: neither a page, nor an entry, nor a summary.
FreshSinceQuietPurge ==
  \A id \in Ids :
    /\ pages[id] # None => \A i \in 1..2 : pages[id][i] >= purge.fresh[id][i]
    /\ IsCached(entries, id) => entries.items[id] >= purge.fresh[id][2]
    /\ IsCached(summaries, id) => summaries.items[id] >= purge.fresh[id][2]
=============================================================================
