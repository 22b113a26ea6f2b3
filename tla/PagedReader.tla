----------------------------- MODULE PagedReader ----------------------------
(***************************************************************************)
(* parser/reader.go: page aligned reads of a raw device through an LRU of  *)
(* pages whose buffers are recycled through a free list.                   *)
(*                                                                         *)
(* The device is a sequence of cells that its writer may change while it   *)
(* is read (a live volume); what a cell holds is abstracted to the cell's  *)
(* own offset and the number of times it was written.  ReadAt holds the    *)
(* reader's mutex mu from its first check to its return, and each cache,   *)
(* free list or device call it makes is one action.  Flush takes only the  *)
(* mutex of the LRU: it may come between any two of them.                  *)
(***************************************************************************)
EXTENDS LRUEntries

CONSTANTS
  Threads,      \* goroutines that call ReadAt
  Buffers,      \* the []byte pages make() can return
  PageSize,     \* pagesize, in cells
  CacheSize,    \* cache_size
  LargeRead,    \* 10 in the code: pages above which a read bypasses the cache
  FileLen,      \* cells of the device
  Offsets,      \* offsets a caller may ask for
  Lengths,      \* len(buf) of a caller
  Written,      \* the cells other programs change
  MaxWrites,    \* bound on the writes to one cell
  MaxFlushes,   \* bound on the calls of Flush
  None          \* nobody, nothing

ASSUME SizesAssumption ==
  /\ PageSize \in Nat \ {0}
  /\ CacheSize \in Nat \ {0}
  /\ LargeRead \in Nat
  /\ FileLen \in Nat
  /\ Written \subseteq 0..(FileLen - 1)
  /\ Offsets \subseteq Int
  /\ Lengths \subseteq Nat
ASSUME NoneAssumption == None \notin Threads \cup Buffers

VARIABLES
  disk,         \* cell -> number of writes so far
  mu,           \* the thread that holds the reader's mutex, or None
  lru,          \* the LRU of pages: page offset -> buffer
  freelist,     \* buffers in the pool
  mem,          \* buffer -> contents, a cell for each index
  call,         \* thread -> its ReadAt in progress
  flushes,      \* calls of Flush so far
  quiet         \* the disk as it was at the last Flush that found mu free

vars == <<disk, mu, lru, freelist, mem, call, flushes, quiet>>

flushVars == <<flushes, quiet>>

-----------------------------------------------------------------------------
Zero == [at |-> None, writes |-> 0]

\* The device's cell at offset o, in a state d of the device.
CellOf(d, o) == [at |-> o, writes |-> d[o]]

FileCells == 0..(FileLen - 1)

PageOf(offset) == offset - (offset % PageSize)

Pages == {PageOf(o) : o \in FileCells}

CellValues == {Zero} \cup [at : FileCells, writes : Nat]

\* io.ReaderAt of the device: how many of n cells at offset exist.
Available(offset, n) ==
  IF offset >= FileLen THEN 0
  ELSE IF offset + n > FileLen THEN FileLen - offset ELSE n

\* n cells of the device from an offset on, zeros after the first m of them.
Padded(offset, m, n) ==
  [i \in 1..n |-> IF i <= m THEN CellOf(disk, offset + i - 1) ELSE Zero]

Zeros(n) == [i \in 1..n |-> Zero]

Idle == [pc |-> "idle"]

IsLarge(n) == n > LargeRead * PageSize /\ n % PageSize = 0

-----------------------------------------------------------------------------
Init ==
  /\ disk = [o \in FileCells |-> 0]
  /\ mu = None
  /\ lru = Empty
  /\ freelist = {}
  /\ mem = [b \in Buffers |-> Zeros(PageSize)]
  /\ call = [t \in Threads |-> Idle]
  /\ flushes = 0
  /\ quiet = [o \in FileCells |-> 0]

\* A buffer of n cells to fill; buf holds what was copied into it so far.
NewCall(offset, n) ==
  [pc |-> "lock", start |-> offset, len |-> n,
   offset |-> offset, buf |-> << >>, page_buf |-> None, err |-> "nil"]

Return(t, buf, err) ==
  /\ mu' = None
  /\ call' = [call EXCEPT ![t].pc = "done", ![t].buf = buf,
                          ![t].page_buf = None, ![t].err = err]

Goto(t, pc, page_buf) ==
  /\ call' = [call EXCEPT ![t].pc = pc, ![t].page_buf = page_buf]
  /\ UNCHANGED mu

\* ReadAt(buf, offset) with len(buf) = n; a negative offset is refused at once.
Begin(t, offset, n) ==
  /\ call[t].pc \in {"idle", "done"}
  /\ call' = [call EXCEPT ![t] =
                IF offset < 0
                THEN [NewCall(offset, n) EXCEPT !.pc = "done", !.err = "EOF"]
                ELSE NewCall(offset, n)]
  /\ UNCHANGED <<disk, mu, lru, freelist, mem, flushVars>>

Lock(t) ==
  /\ call[t].pc = "lock"
  /\ mu = None
  /\ mu' = t
  /\ call' = [call EXCEPT ![t].pc = IF IsLarge(call[t].len) THEN "large"
                                    ELSE "loop"]
  /\ UNCHANGED <<disk, lru, freelist, mem, flushVars>>

\* The read goes to the device in one call.
ReadLarge(t) ==
  LET c == call[t]
      n == Available(c.start, c.len)
  IN /\ c.pc = "large"
     /\ \/ /\ n = 0
           /\ Return(t, << >>, "EOF")
        \/ /\ n > 0                        \* a short read is padded
           /\ Return(t, Padded(c.start, n, c.len), "nil")
        \/ Return(t, << >>, "failure")     \* the device reports an error
     /\ UNCHANGED <<disk, lru, freelist, mem, flushVars>>

\* Mutant of Page: without the alignment.
PageUnaligned(c) == c.offset

Page(c) == PageOf(c.offset)

BufIdx(c) == c.offset - c.start

\* to_read: the rest of the page, or of the caller's buffer.
ToRead(c) ==
  LET inPage == PageSize - (c.offset % PageSize)
      wanted == c.len - BufIdx(c)
  IN IF inPage > wanted THEN wanted ELSE inPage

Done(t) ==
  /\ call[t].pc = "loop"
  /\ ToRead(call[t]) = 0
  /\ Return(t, call[t].buf, "nil")
  /\ UNCHANGED <<disk, lru, freelist, mem, flushVars>>

InLoop(t) == call[t].pc = "loop" /\ ToRead(call[t]) > 0

\* lru.Get finds the page.
Hit(t) ==
  LET page == Page(call[t])
  IN /\ InLoop(t)
     /\ IsCached(lru, page)
     /\ lru' = Use(lru, page)
     /\ Goto(t, "copy", lru.items[page])
     /\ UNCHANGED <<disk, freelist, mem, flushVars>>

Miss(t) ==
  /\ InLoop(t)
  /\ ~ IsCached(lru, Page(call[t]))
  /\ Goto(t, "fetch", None)
  /\ UNCHANGED <<disk, lru, freelist, mem, flushVars>>

\* The buffers somebody holds: the LRU, or a call that is filling one.
InUse == {lru.items[p] : p \in Cached(lru)}
         \cup {call[t].page_buf : t \in {u \in Threads : call[u].pc # "idle"}}

\* sync.Pool returns one of the buffers put into it or makes a new one, which
\* the collector may have taken from those nobody refers to.
Take(t) ==
  /\ call[t].pc = "fetch"
  /\ \/ \E b \in freelist :
          /\ freelist' = freelist \ {b}
          /\ Goto(t, "fill", b)
          /\ UNCHANGED mem
     \/ \E b \in Buffers \ (freelist \cup InUse) :
          /\ mem' = [mem EXCEPT ![b] = Zeros(PageSize)]
          /\ Goto(t, "fill", b)
          /\ UNCHANGED freelist
  /\ UNCHANGED <<disk, lru, flushVars>>

\* The device read fails: the page goes back to the pool, and what was copied
\* from earlier pages is returned with the error.
Fail(t) ==
  LET c == call[t]
  IN /\ c.pc = "fill"
     /\ freelist' = freelist \cup {c.page_buf}
     /\ Return(t, c.buf, "failure")
     /\ UNCHANGED <<disk, lru, mem, flushVars>>

\* The device read, and the loop that clears what it did not fill.
Fill(t) ==
  LET c == call[t]
      n == Available(Page(c), PageSize)
  IN /\ c.pc = "fill"
     /\ mem' = [mem EXCEPT ![c.page_buf] = Padded(Page(c), n, PageSize)]
     /\ Goto(t, IF n > 0 THEN "add" ELSE "beyond", c.page_buf)
     /\ UNCHANGED <<disk, lru, freelist, flushVars>>

\* Mutant of Add: with the page put into the pool as soon as it is in the cache.
AddAndPut(t) ==
  LET c == call[t]
  IN /\ c.pc = "add"
     /\ lru' = Added(lru, Page(c), c.page_buf, CacheSize)
     /\ freelist' = freelist \cup {c.page_buf}
     /\ Goto(t, "copy", c.page_buf)
     /\ UNCHANGED <<disk, mem, flushVars>>

\* lru.Add; the callback puts the page it evicts into the pool.
Add(t) ==
  LET c == call[t]
  IN /\ c.pc = "add"
     /\ lru' = Added(lru, Page(c), c.page_buf, CacheSize)
     /\ freelist' = freelist \cup
          {e[2] : e \in AddEvicts(lru, Page(c), c.page_buf, CacheSize)}
     /\ Goto(t, "copy", c.page_buf)
     /\ UNCHANGED <<disk, mem, flushVars>>

\* Mutant of Beyond: with another try at a page that has nothing.
BeyondRetries(t) ==
  /\ call[t].pc = "beyond"
  /\ Goto(t, "fetch", None)
  /\ UNCHANGED <<disk, lru, freelist, mem, flushVars>>

\* The page lies after the end of the device.  The buffer is dropped without
\* being put back.  The first page ends the read with EOF, a later one pads.
Beyond(t) ==
  LET c == call[t]
  IN /\ c.pc = "beyond"
     /\ IF BufIdx(c) = 0 THEN Return(t, << >>, "EOF")
        ELSE Return(t, c.buf \o Zeros(c.len - BufIdx(c)), "nil")
     /\ UNCHANGED <<disk, lru, freelist, mem, flushVars>>

Copy(t) ==
  LET c == call[t]
      first == c.offset % PageSize
      n == ToRead(c)
  IN /\ c.pc = "copy"
     /\ call' = [call EXCEPT
          ![t].pc = "loop", ![t].page_buf = None, ![t].offset = @ + n,
          ![t].buf = @ \o SubSeq(mem[c.page_buf], first + 1, first + n)]
     /\ UNCHANGED <<disk, mu, lru, freelist, mem, flushVars>>

\* Mutant of Flush: with the pages cleared on their way into the pool.
FlushAndClear ==
  LET purged == {lru.items[p] : p \in Cached(lru)}
  IN /\ flushes < MaxFlushes
     /\ lru' = Empty
     /\ freelist' = freelist \cup purged
     /\ mem' = [b \in Buffers |-> IF b \in purged THEN Zeros(PageSize) ELSE mem[b]]
     /\ flushes' = flushes + 1
     /\ quiet' = IF mu = None THEN disk ELSE quiet
     /\ UNCHANGED <<disk, mu, call>>

\* Mutant of Flush: without the Purge.
FlushNothing ==
  /\ flushes < MaxFlushes
  /\ flushes' = flushes + 1
  /\ quiet' = IF mu = None THEN disk ELSE quiet
  /\ UNCHANGED <<disk, mu, lru, freelist, mem, call>>

\* Flush: lru.Purge puts every page into the pool, under the mutex of the LRU
\* and not the reader's.
Flush ==
  /\ flushes < MaxFlushes
  /\ lru' = Empty
  /\ freelist' = freelist \cup {lru.items[p] : p \in Cached(lru)}
  /\ flushes' = flushes + 1
  /\ quiet' = IF mu = None THEN disk ELSE quiet
  /\ UNCHANGED <<disk, mu, mem, call>>

\* The rest of the system writes to the live volume.
Write(o) ==
  /\ disk[o] < MaxWrites
  /\ disk' = [disk EXCEPT ![o] = @ + 1]
  /\ UNCHANGED <<mu, lru, freelist, mem, call, flushVars>>

ReadStep(t) ==
  \/ Lock(t) \/ ReadLarge(t)
  \/ Done(t) \/ Hit(t) \/ Miss(t) \/ Take(t) \/ Fail(t) \/ Fill(t)
  \/ Add(t) \/ Beyond(t) \/ Copy(t)

Next ==
  \/ \E t \in Threads : ReadStep(t)
  \/ \E t \in Threads, offset \in Offsets, n \in Lengths : Begin(t, offset, n)
  \/ Flush
  \/ \E o \in Written : Write(o)

Spec == Init /\ [][Next]_vars

\* A goroutine inside ReadAt goes on, and a sync.Mutex a goroutine waits for
\* is handed to it in the end (its starvation mode).
Fairness == \A t \in Threads : WF_vars(ReadStep(t)) /\ SF_vars(Lock(t))

FairSpec == Spec /\ Fairness

-----------------------------------------------------------------------------
\* A cell holds what the device has, or had, at offset o, or is the padding
\* after the end of the device.
Holds(cell, o) ==
  IF o < FileLen THEN cell.at = o /\ cell.writes <= disk[o] ELSE cell = Zero

Inside == {"large", "loop", "fetch", "fill", "add", "beyond", "copy"}

Calls == [pc : {"idle"}] \cup
         [pc : {"lock", "done"} \cup Inside, start : Int, len : Nat,
          offset : Int, err : {"nil", "EOF", "failure"},
          page_buf : Buffers \cup {None},
          buf : Seq(CellValues)]

\* Each variable holds what its Go type allows.
TypeOK ==
  /\ disk \in [FileCells -> Nat]
  /\ mu \in Threads \cup {None}
  /\ lru \in CacheOf(Pages, Buffers)
  /\ freelist \subseteq Buffers
  /\ mem \in [Buffers -> [1..PageSize -> CellValues]]
  /\ call \in [Threads -> Calls]
  /\ flushes \in Nat
  /\ quiet \in [FileCells -> Nat]

\* A buffer has one owner: it holds one cached page, or is in the pool, or is
\* being filled by a ReadAt.  A buffer with two owners would turn one page
\* into another under a reader.
OneOwner ==
  /\ \A p, q \in Cached(lru) : lru.items[p] = lru.items[q] => p = q
  /\ \A p \in Cached(lru) : lru.items[p] \notin freelist
  /\ \A t \in Threads : call[t].pc \in {"fill", "add", "beyond"} =>
       /\ call[t].page_buf \notin freelist
       /\ \A p \in Cached(lru) : lru.items[p] # call[t].page_buf

\* A ReadAt that returns no error has filled the caller's buffer, each index
\* with the cell of the device at its offset, zeros after the end, whatever the
\* pages' buffers held before; EOF is returned with nothing, for a read of
\* nothing that exists only.
ReadsAreRight ==
  \A t \in Threads : call[t].pc = "done" =>
    /\ call[t].err = "nil" =>
         /\ Len(call[t].buf) = call[t].len
         /\ \A i \in 1..call[t].len : Holds(call[t].buf[i], call[t].start + i - 1)
    /\ call[t].err = "EOF" =>
         /\ call[t].buf = << >>
         /\ call[t].start < 0 \/ call[t].start >= FileLen

\* Nothing in the cache is older than the last Flush that no read overlapped.
\* (A read that a Flush overlaps adds the page it has after the Flush.)
FreshSinceQuietFlush ==
  \A p \in Cached(lru) : \A o \in FileCells \cap (p..(p + PageSize - 1)) :
    mem[lru.items[p]][o - p + 1].writes >= quiet[o]

\* A read that began ends: nothing in the loop waits for another thread, and
\* the mutex is released on every return.
ReadsReturn ==
  \A t \in Threads : call[t].pc = "lock" ~> call[t].pc = "done"
=============================================================================
