------------------------- MODULE PagedReader_proofs --------------------------
(***************************************************************************)
(* Proofs about the paged reader, for every size of the device, of a page  *)
(* and of the cache, any set of goroutines and of buffers, and any number  *)
(* of writes to the device and of calls of Flush.                          *)
(***************************************************************************)
EXTENDS PagedReader, Lemmas

(* Where a page begins *)

LEMMA PageLemma ==
  ASSUME NEW offset \in Int
  PROVE  /\ offset % PageSize \in Int
         /\ 0 <= offset % PageSize /\ offset % PageSize < PageSize
         /\ PageOf(offset) \in Int
         /\ PageOf(offset) = offset - (offset % PageSize)
         /\ offset >= 0 => PageOf(offset) >= 0
         /\ PageOf(PageOf(offset)) = PageOf(offset)
<1>1. PageSize \in Nat \ {0}
  BY SizesAssumption
<1>2. /\ offset % PageSize \in Int
      /\ 0 <= offset % PageSize /\ offset % PageSize < PageSize
  BY <1>1
<1>3. offset >= 0 => offset % PageSize <= offset
  <2>1. offset >= 0 => offset - (offset % PageSize) >= 0
    BY <1>1
  <2> QED BY <1>2, <2>1
<1>4. (offset - (offset % PageSize)) % PageSize = 0
  BY <1>1
<1> QED BY <1>1, <1>2, <1>3, <1>4 DEF PageOf

LEMMA OffsetLemma ==
  ASSUME NEW offset \in Nat
  PROVE  PageOf(offset) \in Nat /\ PageOf(offset) <= offset
<1> PICK first : first = offset % PageSize
  OBVIOUS
<1>1. /\ first \in Int /\ 0 <= first /\ PageOf(offset) \in Int
      /\ PageOf(offset) = offset - first /\ PageOf(offset) >= 0
  BY PageLemma
<1> QED BY <1>1

\* A page that begins on the device is one of its pages.
LEMMA PagesLemma ==
  ASSUME NEW offset \in Int, offset >= 0, PageOf(offset) < FileLen
  PROVE  PageOf(offset) \in Pages
<1>1. PageOf(offset) \in FileCells
  BY PageLemma, SizesAssumption DEF FileCells
<1> QED BY <1>1, PageLemma DEF Pages

\* What is copied in one round of the loop: some of the page, and no more than
\* the caller's buffer has room for.
LEMMA ToReadLemma ==
  ASSUME NEW c, c.offset \in Int, c.start \in Int, c.len \in Nat
  PROVE  /\ ToRead(c) \in Int
         /\ ToRead(c) <= c.len - (c.offset - c.start)
         /\ ToRead(c) <= PageSize - (c.offset % PageSize)
         /\ c.offset - c.start <= c.len => ToRead(c) >= 0
         /\ ToRead(c) = 0 => c.offset - c.start = c.len
<1> DEFINE first == c.offset % PageSize
<1>1. first \in Int /\ 0 <= first /\ first < PageSize /\ PageSize \in Nat
  BY PageLemma, SizesAssumption
<1>2. ToRead(c) = IF PageSize - first > c.len - (c.offset - c.start)
                  THEN c.len - (c.offset - c.start) ELSE PageSize - first
  BY DEF ToRead, BufIdx
<1> HIDE DEF first
<1>3. /\ ToRead(c) \in Int
      /\ ToRead(c) <= c.len - (c.offset - c.start)
      /\ ToRead(c) <= PageSize - first
      /\ c.offset - c.start <= c.len => ToRead(c) >= 0
      /\ ToRead(c) = 0 => c.offset - c.start = c.len
  BY <1>1, <1>2
<1> QED BY <1>3 DEF first

-----------------------------------------------------------------------------
(* The inductive invariant *)

\* The page that begins at p is in m, or was at some time.
PageHolds(m, p) == \A i \in 1..PageSize : Holds(m[i], p + i - 1)

\* It is no older than the last quiet Flush.
PageFresh(m, p) ==
  \A i \in 1..PageSize : p + i - 1 \in FileCells => m[i].writes >= quiet[p + i - 1]

Cells == [1..PageSize -> CellValues]

Records == [pc : {"lock", "done"} \cup Inside, start : Int, len : Nat,
            offset : Int, err : {"nil", "EOF", "failure"},
            page_buf : Buffers \cup {None},
            buf : Seq(CellValues)]

\* What ReadAt promises about a call that has returned.
Answered(c) ==
  /\ c.err = "nil" => /\ c.start >= 0 /\ Len(c.buf) = c.len
                      /\ \A i \in 1..c.len : Holds(c.buf[i], c.start + i - 1)
  /\ c.err = "EOF" => c.buf = << >> /\ (c.start < 0 \/ c.start >= FileLen)

\* How far a call is: what it copied so far, from the start up to its offset.
Underway(c) ==
  /\ 0 <= c.start /\ c.start <= c.offset /\ c.offset - c.start <= c.len
  /\ Len(c.buf) = c.offset - c.start
  /\ \A i \in 1..Len(c.buf) : Holds(c.buf[i], c.start + i - 1)
  /\ c.pc = "large" => c.len > 0
  /\ c.pc \in {"fetch", "fill", "add", "beyond", "copy"} => ToRead(c) > 0
  /\ c.pc = "beyond" => Page(c) >= FileLen

Progress(c) ==
  \/ c = Idle
  \/ /\ c \in Records
     /\ IF c.pc = "done" THEN Answered(c) ELSE Underway(c)

\* Nobody else has the buffer b.
Unshared(b) ==
  /\ b \in Buffers \ freelist
  /\ \A p \in Cached(lru) : lru.items[p] # b

\* The page a call has in its hands.
InHand(c) ==
  /\ c.pc \in {"fill", "add", "beyond"} => Unshared(c.page_buf)
  /\ c.pc = "add" => /\ Page(c) \in Pages
                     /\ PageHolds(mem[c.page_buf], Page(c))
                     /\ PageFresh(mem[c.page_buf], Page(c))
  /\ c.pc = "copy" => /\ c.page_buf \in Buffers
                      /\ PageHolds(mem[c.page_buf], Page(c))

DiskInv ==
  /\ disk \in [FileCells -> Nat] /\ quiet \in [FileCells -> Nat]
  /\ \A o \in FileCells : quiet[o] <= disk[o]
  /\ flushes \in Nat

BuffersInv ==
  /\ freelist \subseteq Buffers
  /\ mem \in [Buffers -> Cells]

CacheInv ==
  /\ Good(lru, Pages, Buffers) /\ WithinSize(lru, CacheSize)
  /\ \A p, q \in Cached(lru) : lru.items[p] = lru.items[q] => p = q
  /\ \A p \in Cached(lru) : /\ lru.items[p] \notin freelist
                            /\ PageHolds(mem[lru.items[p]], p)
                            /\ PageFresh(mem[lru.items[p]], p)

\* Only the thread that holds the mutex is inside.
MutexInv ==
  /\ mu \in Threads \cup {None}
  /\ \A t \in Threads : call[t].pc \in Inside => mu = t

CallsInv ==
  /\ call = [t \in Threads |-> call[t]]
  /\ \A t \in Threads : Progress(call[t]) /\ InHand(call[t])

\* What ReadAt returns is right because the page it copies from is, and this
\* because nobody else has the page's buffer while it is filled.
IInv == DiskInv /\ BuffersInv /\ CacheInv /\ MutexInv /\ CallsInv

-----------------------------------------------------------------------------
\* Zeros and the cells of the device.
LEMMA CellLemma ==
  ASSUME NEW o \in Int, o >= 0
  PROVE  /\ Zero \in CellValues
         /\ o >= FileLen => Holds(Zero, o)
         /\ DiskInv /\ o < FileLen => /\ CellOf(disk, o) \in CellValues
                                      /\ Holds(CellOf(disk, o), o)
                                      /\ CellOf(disk, o).writes >= quiet[o]
                                      /\ o \in FileCells
BY SizesAssumption DEF CellValues, Zero, Holds, CellOf, DiskInv, FileCells

LEMMA ZerosLemma ==
  ASSUME NEW n \in Nat
  PROVE  /\ Zeros(n) \in Seq(CellValues) /\ Len(Zeros(n)) = n
         /\ \A i \in 1..n : Zeros(n)[i] = Zero
<1>1. Zero \in CellValues
  BY DEF CellValues
<1> QED BY <1>1 DEF Zeros

\* What the device has of n cells at an offset, with zeros behind it.
LEMMA PaddedLemma ==
  ASSUME DiskInv, NEW offset \in Nat, NEW n \in Nat
  PROVE  LET m == Available(offset, n)
             p == Padded(offset, m, n)
         IN /\ m \in 0..n /\ (m = 0 /\ n > 0 => offset >= FileLen)
            /\ m > 0 => offset < FileLen
            /\ p \in [1..n -> CellValues] /\ p \in Seq(CellValues) /\ Len(p) = n
            /\ \A i \in 1..n : Holds(p[i], offset + i - 1)
            /\ \A i \in 1..n : offset + i - 1 \in FileCells =>
                                 p[i].writes >= quiet[offset + i - 1]
<1> DEFINE m == Available(offset, n)
           p == Padded(offset, m, n)
<1>1. /\ m \in 0..n /\ (m = 0 /\ n > 0 => offset >= FileLen)
      /\ m > 0 => offset < FileLen
      /\ \A i \in 1..n : i <= m <=> offset + i - 1 < FileLen
  BY SizesAssumption DEF Available
<1> HIDE DEF m
<1>2. \A i \in 1..n : LET v == IF i <= m THEN CellOf(disk, offset + i - 1) ELSE Zero
                      IN /\ v \in CellValues /\ Holds(v, offset + i - 1)
                         /\ offset + i - 1 \in FileCells =>
                              v.writes >= quiet[offset + i - 1]
  BY <1>1, CellLemma, SizesAssumption DEF FileCells
<1>3. p = [i \in 1..n |-> IF i <= m THEN CellOf(disk, offset + i - 1) ELSE Zero]
  BY DEF Padded
<1> HIDE DEF p
<1>4. p \in [1..n -> CellValues] /\ p \in Seq(CellValues) /\ Len(p) = n
  BY <1>2, <1>3
<1> QED BY <1>1, <1>2, <1>3, <1>4 DEF m, p

\* What holds of the device as it was holds of it as it is.
LEMMA LaterLemma ==
  ASSUME DiskInv, disk' \in [FileCells -> Nat],
         \A o \in FileCells : disk[o] <= disk'[o],
         NEW o \in Int, o >= 0, NEW v \in CellValues, Holds(v, o)
  PROVE  Holds(v, o)'
BY SizesAssumption DEF Holds, DiskInv, FileCells, CellValues, Zero

-----------------------------------------------------------------------------
(* What a step of ReadAt needs to show *)

\* The thread that holds the mutex, or takes it, changes its own call: it is
\* left to show that the call, the buffers and the cache are still right.
LEMMA ReadLemma ==
  ASSUME IInv, UNCHANGED <<disk, flushVars>>, BuffersInv', CacheInv',
         NEW t \in Threads, mu \in {t, None}, mu' \in {t, None},
         NEW c, call' = [call EXCEPT ![t] = c],
         Progress(c), InHand(c)', c.pc \in Inside => mu' = t
  PROVE  IInv'
<1>1. DiskInv'
  BY DEF IInv, DiskInv, flushVars
<1>2. call' = [u \in Threads |-> IF u = t THEN c ELSE call[u]]
  BY DEF IInv, CallsInv
<1>3. \A u \in Threads \ {t} : call[u].pc \notin Inside
  BY NoneAssumption DEF IInv, MutexInv
<1>4. MutexInv'
  BY <1>2, <1>3 DEF MutexInv
<1>5. \A d : Progress(d) => Progress(d)'
  BY DEF Progress, Answered, Underway, Holds
<1>6. \A d : d.pc \notin Inside => InHand(d)'
  BY DEF InHand, Inside
<1>7. \A u \in Threads : Progress(call[u])' /\ InHand(call[u])'
  <2> SUFFICES ASSUME NEW u \in Threads
               PROVE  Progress(call[u])' /\ InHand(call[u])'
    OBVIOUS
  <2>1. CASE u = t
    BY <1>2, <1>5, <2>1
  <2>2. CASE u # t
    <3>1. call'[u] = call[u] /\ call[u].pc \notin Inside /\ Progress(call[u])
      BY <1>2, <1>3, <2>2 DEF IInv, CallsInv
    <3> QED BY <3>1, <1>5, <1>6
  <2> QED BY <2>1, <2>2
<1>8. CallsInv'
  BY <1>2, <1>7 DEF CallsInv
<1> QED BY <1>1, <1>4, <1>8 DEF IInv

\* The call of a thread that is past the lock.
LEMMA InsideLemma ==
  ASSUME IInv, NEW t \in Threads, call[t].pc \in Inside
  PROVE  /\ mu = t
         /\ call[t] \in Records /\ Underway(call[t]) /\ InHand(call[t])
         /\ call[t].start \in Nat /\ call[t].offset \in Nat /\ call[t].len \in Nat
         /\ call[t].buf \in Seq(CellValues)
BY DEF IInv, MutexInv, CallsInv, Progress, Underway, Idle, Inside, Records

\* The return of a ReadAt.
LEMMA ReturnLemma ==
  ASSUME IInv, UNCHANGED <<disk, flushVars>>, BuffersInv', CacheInv',
         NEW t \in Threads, call[t].pc \in Inside,
         NEW buf \in Seq(CellValues), NEW err \in {"nil", "EOF", "failure"},
         Return(t, buf, err),
         err = "nil" => /\ Len(buf) = call[t].len
                        /\ \A i \in 1..call[t].len :
                             Holds(buf[i], call[t].start + i - 1),
         err = "EOF" => buf = << >> /\ call[t].start >= FileLen
  PROVE  IInv'
<1>1. mu = t /\ call[t] \in Records
  BY InsideLemma
<1> PICK c : c = [call[t] EXCEPT !.pc = "done", !.buf = buf,
                                 !.page_buf = None, !.err = err]
  OBVIOUS
<1>2. /\ c \in Records /\ c.pc = "done" /\ c.buf = buf /\ c.err = err
      /\ c.len = call[t].len /\ c.start = call[t].start
  BY <1>1 DEF Records
<1>3. call' = [call EXCEPT ![t] = c] /\ mu' = None
  BY DEF Return
<1>4. Progress(c)
  BY <1>2, InsideLemma DEF Progress, Answered
<1>5. InHand(c)' /\ c.pc \notin Inside
  BY <1>2 DEF InHand, Inside
<1> QED BY <1>1, <1>3, <1>4, <1>5, ReadLemma

\* A call goes on to another step, with or without a page.
LEMMA GotoLemma ==
  ASSUME IInv, UNCHANGED <<disk, flushVars>>, BuffersInv', CacheInv',
         NEW t \in Threads, call[t].pc \in Inside,
         NEW pc \in {"fetch", "fill", "add", "beyond", "copy"},
         NEW b \in Buffers \cup {None},
         Goto(t, pc, b),
         ToRead(call[t]) > 0,
         pc = "beyond" => Page(call[t]) >= FileLen,
         pc \in {"fill", "add", "beyond"} => Unshared(b)',
         pc = "add" => /\ Page(call[t]) \in Pages
                       /\ PageHolds(mem'[b], Page(call[t]))
                       /\ PageFresh(mem'[b], Page(call[t])),
         pc = "copy" => b \in Buffers /\ PageHolds(mem'[b], Page(call[t]))
  PROVE  IInv'
<1>1. mu = t /\ call[t] \in Records /\ Underway(call[t])
  BY InsideLemma
<1> PICK c : c = [call[t] EXCEPT !.pc = pc, !.page_buf = b]
  OBVIOUS
<1>2. /\ c \in Records /\ c.pc = pc /\ c.page_buf = b
      /\ c.start = call[t].start /\ c.len = call[t].len
      /\ c.offset = call[t].offset /\ c.buf = call[t].buf
  BY <1>1 DEF Records, Inside
<1>3. call' = [call EXCEPT ![t] = c] /\ mu' = mu
  BY DEF Goto
<1>4. Page(c) = Page(call[t]) /\ ToRead(c) = ToRead(call[t])
  BY <1>2 DEF Page, ToRead, BufIdx
<1>5. Underway(c)
  BY <1>1, <1>2, <1>4 DEF Underway
<1>6. Progress(c)
  BY <1>2, <1>5 DEF Progress
<1>7. \A m, p : /\ PageHolds(m, p) => PageHolds(m, p)'
                /\ PageFresh(m, p) => PageFresh(m, p)'
  BY DEF PageHolds, PageFresh, Holds, flushVars
<1>8. InHand(c)'
  BY <1>2, <1>4, <1>7 DEF InHand
<1> QED BY <1>1, <1>3, <1>6, <1>8, ReadLemma

\* The pool and the cache, where nobody touches them.
LEMMA SameLemma ==
  ASSUME IInv, UNCHANGED <<disk, flushVars, lru, freelist, mem>>
  PROVE  BuffersInv' /\ CacheInv'
BY DEF IInv, BuffersInv, CacheInv, PageHolds, PageFresh, Holds, flushVars

-----------------------------------------------------------------------------
(* Every step of ReadAt keeps the invariant. *)

LEMMA BeginStep ==
  ASSUME IInv, NEW t \in Threads, NEW offset \in Offsets, NEW n \in Lengths,
         Begin(t, offset, n)
  PROVE  IInv'
<1>1. /\ offset \in Int /\ n \in Nat
      /\ NewCall(offset, n) \in Records /\ NewCall(offset, n).pc = "lock"
      /\ NewCall(offset, n).buf = << >> /\ NewCall(offset, n).start = offset
      /\ NewCall(offset, n).offset = offset /\ NewCall(offset, n).len = n
  BY SizesAssumption DEF NewCall, Records
<1> PICK c : c = IF offset < 0
                 THEN [NewCall(offset, n) EXCEPT !.pc = "done", !.err = "EOF"]
                 ELSE NewCall(offset, n)
  OBVIOUS
<1>2. UNCHANGED <<disk, mu, lru, freelist, mem, flushVars>>
      /\ call' = [u \in Threads |-> IF u = t THEN c ELSE call[u]]
  BY DEF Begin, IInv, CallsInv
<1>3. Progress(c) /\ c.pc \in {"lock", "done"}
  <2>1. CASE offset < 0
    <3>1. /\ c \in Records /\ c.pc = "done" /\ c.err = "EOF"
          /\ c.buf = << >> /\ c.start = offset
      BY <1>1, <2>1 DEF Records
    <3> QED BY <2>1, <3>1 DEF Progress, Answered
  <2>2. CASE ~ (offset < 0)
    <3>1. /\ c \in Records /\ c.pc = "lock" /\ c.buf = << >>
          /\ c.start = offset /\ c.offset = offset /\ c.len = n
      BY <1>1, <2>2
    <3> QED BY <1>1, <2>2, <3>1 DEF Progress, Underway
  <2> QED BY <2>1, <2>2
<1>4. \A d : /\ Progress(d) => Progress(d)'
             /\ InHand(d) => InHand(d)'
  BY <1>2 DEF Progress, Answered, Underway, Holds, InHand, Unshared, PageHolds,
              PageFresh, flushVars
<1>5. InHand(c)
  BY <1>3 DEF InHand
<1>6. CallsInv'
  BY <1>2, <1>3, <1>4, <1>5 DEF IInv, CallsInv
<1>7. DiskInv' /\ BuffersInv' /\ CacheInv'
  BY <1>2, SameLemma DEF IInv, DiskInv, flushVars
<1>8. MutexInv'
  BY <1>2, <1>3 DEF IInv, MutexInv, Inside
<1> QED BY <1>6, <1>7, <1>8 DEF IInv

LEMMA LockStep ==
  ASSUME IInv, NEW t \in Threads, Lock(t)
  PROVE  IInv'
<1> PICK c : c = [call[t] EXCEPT !.pc = IF IsLarge(call[t].len) THEN "large"
                                        ELSE "loop"]
  OBVIOUS
<1>1. /\ UNCHANGED <<disk, flushVars, lru, freelist, mem>>
      /\ mu = None /\ mu' = t /\ call[t].pc = "lock"
      /\ call' = [call EXCEPT ![t] = c]
  BY DEF Lock
<1>2. call[t] \in Records /\ Underway(call[t])
  BY <1>1 DEF IInv, CallsInv, Progress, Idle
<1>3. /\ c \in Records /\ c.pc = (IF IsLarge(call[t].len) THEN "large" ELSE "loop")
      /\ c.start = call[t].start /\ c.len = call[t].len
      /\ c.offset = call[t].offset /\ c.buf = call[t].buf
  BY <1>2 DEF Records, Inside
<1>4. c.pc = "large" => c.len > 0
  <2>1. LargeRead * PageSize \in Nat /\ c.len \in Nat
    BY <1>3, SizesAssumption DEF Records
  <2> QED BY <1>3, <2>1 DEF IsLarge
<1>5. Underway(c)
  BY <1>2, <1>3, <1>4 DEF Underway
<1>6. Progress(c) /\ InHand(c)'
  BY <1>3, <1>5 DEF Progress, InHand
<1> QED BY <1>1, <1>6, SameLemma, ReadLemma

LEMMA ReadLargeStep ==
  ASSUME IInv, NEW t \in Threads, ReadLarge(t)
  PROVE  IInv'
<1> DEFINE c == call[t]
           n == Available(c.start, c.len)
<1>1. /\ UNCHANGED <<disk, flushVars, lru, freelist, mem>>
      /\ c.pc \in Inside /\ c.pc = "large"
  BY DEF ReadLarge, Inside
<1>2. BuffersInv' /\ CacheInv'
  BY <1>1, SameLemma
<1>3. c.start \in Nat /\ c.len \in Nat /\ c.len > 0
  BY <1>1, InsideLemma DEF Underway
<1>4. CASE n = 0 /\ Return(t, << >>, "EOF")
  <2>1. c.start >= FileLen
    BY <1>3, <1>4, PaddedLemma DEF IInv
  <2>2. << >> \in Seq(CellValues)
    OBVIOUS
  <2> QED BY <1>1, <1>2, <1>4, <2>1, <2>2, ReturnLemma
<1>5. CASE Return(t, Padded(c.start, n, c.len), "nil")
  <2>1. /\ Padded(c.start, n, c.len) \in Seq(CellValues)
        /\ Len(Padded(c.start, n, c.len)) = c.len
        /\ \A i \in 1..c.len : Holds(Padded(c.start, n, c.len)[i], c.start + i - 1)
    BY <1>3, PaddedLemma DEF IInv
  <2> QED BY <1>1, <1>2, <1>5, <2>1, ReturnLemma
<1>6. CASE Return(t, << >>, "failure")
  <2>1. << >> \in Seq(CellValues)
    OBVIOUS
  <2> QED BY <1>1, <1>2, <1>6, <2>1, ReturnLemma
<1> QED BY <1>4, <1>5, <1>6 DEF ReadLarge

LEMMA DoneStep ==
  ASSUME IInv, NEW t \in Threads, Done(t)
  PROVE  IInv'
<1>1. /\ UNCHANGED <<disk, flushVars, lru, freelist, mem>>
      /\ call[t].pc \in Inside /\ ToRead(call[t]) = 0
      /\ Return(t, call[t].buf, "nil")
  BY DEF Done, Inside
<1>2. /\ Underway(call[t]) /\ call[t].buf \in Seq(CellValues)
      /\ call[t].start \in Nat /\ call[t].offset \in Nat /\ call[t].len \in Nat
  BY <1>1, InsideLemma
<1>3. Len(call[t].buf) = call[t].len
  BY <1>1, <1>2, ToReadLemma DEF Underway
<1> QED BY <1>1, <1>2, <1>3, SameLemma, ReturnLemma DEF Underway

LEMMA HitStep ==
  ASSUME IInv, NEW t \in Threads, Hit(t)
  PROVE  IInv'
<1> DEFINE page == Page(call[t])
           b == lru.items[page]
<1>1. /\ UNCHANGED <<disk, flushVars, freelist, mem>>
      /\ call[t].pc \in Inside /\ ToRead(call[t]) > 0
      /\ IsCached(lru, page) /\ lru' = Use(lru, page)
      /\ Goto(t, "copy", b)
  BY DEF Hit, InLoop, Inside
<1>2. /\ Good(lru', Pages, Buffers) /\ lru'.items = lru.items
      /\ WithinSize(lru', CacheSize)
  BY <1>1, UseLemma DEF IInv, CacheInv, WithinSize
<1>3. BuffersInv' /\ CacheInv'
  BY <1>1, <1>2 DEF IInv, BuffersInv, CacheInv, Cached, PageHolds, PageFresh,
                    Holds, flushVars
<1>4. b \in Buffers /\ PageHolds(mem[b], page)
  BY <1>1, CacheFields DEF IInv, CacheInv, Good, IsCached
<1> HIDE DEF b, page
<1>5. b \in Buffers /\ PageHolds(mem'[b], page)
  BY <1>1, <1>4
<1> QED BY <1>1, <1>3, <1>5, GotoLemma DEF b, page

LEMMA MissStep ==
  ASSUME IInv, NEW t \in Threads, Miss(t)
  PROVE  IInv'
<1>1. /\ UNCHANGED <<disk, flushVars, lru, freelist, mem>>
      /\ call[t].pc \in Inside /\ ToRead(call[t]) > 0
      /\ Goto(t, "fetch", None)
  BY DEF Miss, InLoop, Inside
<1> QED BY <1>1, SameLemma, GotoLemma

LEMMA TakeStep ==
  ASSUME IInv, NEW t \in Threads, Take(t)
  PROVE  IInv'
<1>1. /\ UNCHANGED <<disk, flushVars, lru>>
      /\ call[t].pc \in Inside /\ call[t].pc = "fetch"
  BY DEF Take, Inside
<1>2. ToRead(call[t]) > 0
  BY <1>1, InsideLemma DEF Underway
<1>3. ASSUME NEW b \in freelist, freelist' = freelist \ {b},
             Goto(t, "fill", b), UNCHANGED mem
      PROVE  IInv'
  <2>1. BuffersInv' /\ CacheInv'
    BY <1>1, <1>3 DEF IInv, BuffersInv, CacheInv, PageHolds, PageFresh, Holds,
                      flushVars
  <2>2. Unshared(b)' /\ b \in Buffers
    BY <1>1, <1>3 DEF IInv, BuffersInv, CacheInv, Unshared
  <2> QED BY <1>1, <1>2, <1>3, <2>1, <2>2, GotoLemma
<1>4. ASSUME NEW b \in Buffers \ (freelist \cup InUse),
             mem' = [mem EXCEPT ![b] = Zeros(PageSize)],
             Goto(t, "fill", b), UNCHANGED freelist
      PROVE  IInv'
  <2>1. \A p \in Cached(lru) : lru.items[p] # b
    BY DEF InUse
  <2>2. Zeros(PageSize) \in Cells
    BY SizesAssumption DEF Zeros, Cells, CellValues
  <2>3. mem' = [x \in Buffers |-> IF x = b THEN Zeros(PageSize) ELSE mem[x]]
    BY <1>4 DEF IInv, BuffersInv
  <2>4. BuffersInv'
    BY <1>4, <2>2, <2>3 DEF IInv, BuffersInv
  <2>5. \A p \in Cached(lru) : mem'[lru.items[p]] = mem[lru.items[p]]
    BY <2>1, <2>3, CacheFields DEF IInv, CacheInv, Good
  <2>6. CacheInv'
    BY <1>1, <1>4, <2>5 DEF IInv, CacheInv, PageHolds, PageFresh, Holds, flushVars
  <2>7. Unshared(b)'
    BY <1>1, <1>4, <2>1 DEF Unshared
  <2> QED BY <1>1, <1>2, <1>4, <2>4, <2>6, <2>7, GotoLemma
<1> QED BY <1>3, <1>4 DEF Take

LEMMA FailStep ==
  ASSUME IInv, NEW t \in Threads, Fail(t)
  PROVE  IInv'
<1>1. /\ UNCHANGED <<disk, flushVars, lru, mem>>
      /\ call[t].pc \in Inside /\ call[t].pc = "fill"
      /\ freelist' = freelist \cup {call[t].page_buf}
      /\ Return(t, call[t].buf, "failure")
  BY DEF Fail, Inside
<1>2. Unshared(call[t].page_buf) /\ call[t].buf \in Seq(CellValues)
  BY <1>1, InsideLemma DEF InHand
<1>3. BuffersInv' /\ CacheInv'
  BY <1>1, <1>2 DEF IInv, BuffersInv, CacheInv, Unshared, PageHolds, PageFresh,
                    Holds, flushVars
<1> QED BY <1>1, <1>2, <1>3, ReturnLemma

LEMMA FillStep ==
  ASSUME IInv, NEW t \in Threads, Fill(t)
  PROVE  IInv'
<1> PICK b, offset, page, n, m :
      /\ b = call[t].page_buf /\ offset = call[t].offset /\ page = PageOf(offset)
      /\ n = Available(page, PageSize) /\ m = Padded(page, n, PageSize)
  OBVIOUS
<1>1. /\ UNCHANGED <<disk, flushVars, lru, freelist>>
      /\ call[t].pc \in Inside /\ call[t].pc = "fill"
      /\ mem' = [mem EXCEPT ![b] = m]
      /\ Goto(t, IF n > 0 THEN "add" ELSE "beyond", b)
      /\ page = Page(call[t])
  BY DEF Fill, Inside, Page
<1>2. Unshared(b) /\ b \in Buffers /\ offset \in Nat /\ ToRead(call[t]) > 0
  BY <1>1, InsideLemma DEF InHand, Underway, Unshared
<1>3. page \in Nat /\ PageSize \in Nat \ {0}
  BY <1>2, OffsetLemma, SizesAssumption
<1>4. /\ n \in Nat /\ (n = 0 => page >= FileLen) /\ (n > 0 => page < FileLen)
      /\ m \in Cells /\ PageHolds(m, page) /\ PageFresh(m, page)
  <2>1. /\ n \in 0..PageSize /\ (n = 0 /\ PageSize > 0 => page >= FileLen)
        /\ n > 0 => page < FileLen
        /\ m \in [1..PageSize -> CellValues]
        /\ \A i \in 1..PageSize : Holds(m[i], page + i - 1)
        /\ \A i \in 1..PageSize : page + i - 1 \in FileCells =>
                                    m[i].writes >= quiet[page + i - 1]
    BY <1>3, PaddedLemma DEF IInv
  <2> QED BY <1>3, <2>1 DEF Cells, PageHolds, PageFresh
<1>5. n > 0 => page \in Pages
  BY <1>2, <1>3, <1>4, PagesLemma
<1>6. mem' = [x \in Buffers |-> IF x = b THEN m ELSE mem[x]]
  BY <1>1 DEF IInv, BuffersInv
<1>7. BuffersInv' /\ mem'[b] = m
  BY <1>1, <1>2, <1>4, <1>6 DEF IInv, BuffersInv
<1>8. \A p \in Cached(lru) : mem'[lru.items[p]] = mem[lru.items[p]]
  BY <1>2, <1>6, CacheFields DEF IInv, CacheInv, Good, Unshared
<1>9. CacheInv'
  BY <1>1, <1>8 DEF IInv, CacheInv, PageHolds, PageFresh, Holds, flushVars
<1>10. Unshared(b)'
  BY <1>1, <1>2 DEF Unshared
<1>11. CASE n > 0
  <2>1. Goto(t, "add", b)
    BY <1>1, <1>11
  <2> QED BY <1>1, <1>2, <1>4, <1>5, <1>7, <1>9, <1>10, <1>11, <2>1, GotoLemma
<1>12. CASE ~ (n > 0)
  <2>1. Goto(t, "beyond", b) /\ page >= FileLen
    BY <1>1, <1>4, <1>12
  <2> QED BY <1>1, <1>2, <1>7, <1>9, <1>10, <2>1, GotoLemma
<1> QED BY <1>11, <1>12

LEMMA AddStep ==
  ASSUME IInv, NEW t \in Threads, Add(t)
  PROVE  IInv'
<1> PICK b, page : b = call[t].page_buf /\ page = Page(call[t])
  OBVIOUS
<1> DEFINE out == AddEvicts(lru, page, b, CacheSize)
<1>1. /\ UNCHANGED <<disk, flushVars, mem>>
      /\ call[t].pc \in Inside /\ call[t].pc = "add"
      /\ lru' = Added(lru, page, b, CacheSize)
      /\ freelist' = freelist \cup {e[2] : e \in out}
      /\ Goto(t, "copy", b)
  BY DEF Add, Inside
<1>2. /\ Unshared(b) /\ b \in Buffers /\ ToRead(call[t]) > 0
      /\ page \in Pages /\ PageHolds(mem[b], page) /\ PageFresh(mem[b], page)
  BY <1>1, InsideLemma DEF InHand, Underway, Unshared
<1>3. /\ Good(lru', Pages, Buffers) /\ WithinSize(lru', CacheSize)
      /\ IsCached(lru', page) /\ lru'.items[page] = b
      /\ Cached(lru') \subseteq Cached(lru) \cup {page}
      /\ out \subseteq Pages \X Buffers
      /\ \A e \in out : ~ IsCached(lru', e[1])
      /\ \A e \in out : \E x \in Cached(lru) \ {page} : e = <<x, lru.items[x]>>
      /\ \A x \in Cached(lru) \ {page} :
           \/ IsCached(lru', x) /\ lru'.items[x] = lru.items[x]
           \/ <<x, lru.items[x]>> \in out
  <2>1. Good(lru, Pages, Buffers) /\ WithinSize(lru, CacheSize)
    BY DEF IInv, CacheInv
  <2> QED BY <1>1, <1>2, <2>1, AddedLemma, SizesAssumption
<1> HIDE DEF out
<1>4. \A x \in Cached(lru') \ {page} : x \in Cached(lru) /\ lru'.items[x] = lru.items[x]
  <2>1. \A x, y : <<x, y>> \in out => ~ IsCached(lru', x)
    BY <1>3
  <2> QED BY <1>3, <2>1 DEF IsCached
<1>5. \A e \in out : \E x \in Cached(lru) \ {page} :
                       e[2] = lru.items[x] /\ ~ IsCached(lru', x)
  BY <1>3
<1>6. ASSUME NEW p \in Cached(lru'), NEW q \in Cached(lru'),
             lru'.items[p] = lru'.items[q]
      PROVE  p = q
  BY <1>2, <1>3, <1>4, <1>6 DEF Unshared, IInv, CacheInv
<1>7. \A p \in Cached(lru') : lru'.items[p] \notin freelist'
  <2> SUFFICES ASSUME NEW p \in Cached(lru'), lru'.items[p] \in freelist'
               PROVE  FALSE
    OBVIOUS
  <2>1. lru'.items[p] \notin freelist
    BY <1>2, <1>3, <1>4 DEF Unshared, IInv, CacheInv
  <2>2. PICK x \in Cached(lru) \ {page} : /\ lru'.items[p] = lru.items[x]
                                          /\ ~ IsCached(lru', x)
    BY <1>1, <1>5, <2>1
  <2>3. CASE p = page
    BY <1>2, <1>3, <2>2, <2>3 DEF Unshared
  <2>4. CASE p # page
    BY <1>4, <2>2, <2>4 DEF IsCached, IInv, CacheInv
  <2> QED BY <2>3, <2>4
<1>8. \A p \in Cached(lru') : /\ PageHolds(mem[lru'.items[p]], p)
                              /\ PageFresh(mem[lru'.items[p]], p)
  BY <1>2, <1>3, <1>4 DEF IInv, CacheInv
<1>9. CacheInv'
  <2>1. (\A p \in Cached(lru) : /\ PageHolds(mem[lru.items[p]], p)
                                /\ PageFresh(mem[lru.items[p]], p))'
    <3>1. mem' = mem /\ disk' = disk /\ quiet' = quiet
      BY <1>1 DEF flushVars
    <3>2. (\A p \in Cached(lru) : PageHolds(mem[lru.items[p]], p))'
      BY <1>8, <3>1 DEF PageHolds, Holds
    <3>3. (\A p \in Cached(lru) : PageFresh(mem[lru.items[p]], p))'
      BY <1>8, <3>1 DEF PageFresh
    <3> QED BY <3>2, <3>3
  <2>2. Good(lru', Pages, Buffers) /\ WithinSize(lru', CacheSize)
    BY <1>3
  <2> QED BY <1>6, <1>7, <2>1, <2>2 DEF CacheInv
<1>10. BuffersInv'
  BY <1>1, <1>3 DEF IInv, BuffersInv
<1> QED BY <1>1, <1>2, <1>9, <1>10, GotoLemma

\* More cells behind those a call has copied.
LEMMA GrowLemma ==
  ASSUME NEW start \in Nat, NEW s \in Seq(CellValues), NEW r \in Seq(CellValues),
         \A i \in 1..Len(s) : Holds(s[i], start + i - 1),
         \A i \in 1..Len(r) : Holds(r[i], start + Len(s) + i - 1)
  PROVE  /\ s \o r \in Seq(CellValues) /\ Len(s \o r) = Len(s) + Len(r)
         /\ \A i \in 1..Len(s \o r) : Holds((s \o r)[i], start + i - 1)
<1>1. /\ s \o r \in Seq(CellValues) /\ Len(s \o r) = Len(s) + Len(r)
      /\ Len(s) \in Nat /\ Len(r) \in Nat
  OBVIOUS
<1>2. ASSUME NEW i \in 1..Len(s \o r) PROVE Holds((s \o r)[i], start + i - 1)
  <2>1. CASE i <= Len(s)
    <3>1. (s \o r)[i] = s[i] /\ i \in 1..Len(s)
      BY <1>1, <2>1
    <3> QED BY <3>1
  <2>2. CASE i > Len(s)
    <3> PICK j \in 1..Len(r) : i = Len(s) + j
      <4>1. i - Len(s) \in 1..Len(r) /\ i = Len(s) + (i - Len(s))
        BY <1>1, <2>2
      <4> QED BY <4>1
    <3>1. (s \o r)[i] = r[j] /\ start + i - 1 = start + Len(s) + j - 1
      BY <1>1, <2>2
    <3> QED BY <3>1
  <2> QED BY <1>1, <2>1, <2>2
<1> QED BY <1>1, <1>2

LEMMA BeyondStep ==
  ASSUME IInv, NEW t \in Threads, Beyond(t)
  PROVE  IInv'
<1> PICK c, k, start, offset, len, buf :
      /\ c = call[t] /\ k = offset - start
      /\ start = c.start /\ offset = c.offset /\ len = c.len /\ buf = c.buf
  OBVIOUS
<1>1. /\ UNCHANGED <<disk, flushVars, lru, freelist, mem>>
      /\ c.pc \in Inside /\ c.pc = "beyond"
      /\ IF k = 0 THEN Return(t, << >>, "EOF")
         ELSE Return(t, buf \o Zeros(len - k), "nil")
  BY DEF Beyond, Inside, BufIdx
<1>2. /\ Underway(c) /\ buf \in Seq(CellValues)
      /\ start \in Nat /\ offset \in Nat /\ len \in Nat
  BY <1>1, InsideLemma
<1>3. /\ Page(c) >= FileLen /\ PageOf(offset) = Page(c)
      /\ k \in Nat /\ k <= len /\ Len(buf) = k /\ start + k = offset
      /\ \A i \in 1..Len(buf) : Holds(buf[i], start + i - 1)
  BY <1>1, <1>2 DEF Underway, Page
<1>4. offset >= FileLen
  <2>1. PageOf(offset) <= offset /\ PageOf(offset) \in Nat
    BY <1>2, OffsetLemma
  <2> QED BY <1>2, <1>3, <2>1, SizesAssumption
<1>5. BuffersInv' /\ CacheInv'
  BY <1>1, SameLemma
<1>6. CASE k = 0
  <2>1. start >= FileLen /\ << >> \in Seq(CellValues)
    BY <1>2, <1>3, <1>4, <1>6
  <2> QED BY <1>1, <1>5, <1>6, <2>1, ReturnLemma
<1>7. CASE k # 0
  <2> PICK n \in Nat : n = len - k
    BY <1>2, <1>3
  <2> PICK z : z = Zeros(n)
    OBVIOUS
  <2>1. z \in Seq(CellValues) /\ Len(z) = n /\ \A i \in 1..n : z[i] = Zero
    BY ZerosLemma
  <2>2. ASSUME NEW i \in 1..Len(z) PROVE Holds(z[i], start + Len(buf) + i - 1)
    <3>1. start + Len(buf) + i - 1 \in Int /\ start + Len(buf) + i - 1 >= FileLen
      <4>1. start + Len(buf) = offset
        BY <1>3
      <4>2. i \in Nat /\ i >= 1
        BY <2>1
      <4>3. offset \in Nat /\ start \in Nat /\ Len(buf) \in Nat /\ FileLen \in Nat
        BY <1>2, <1>3, SizesAssumption
      <4> QED BY <1>4, <4>1, <4>2, <4>3
    <3>2. z[i] = Zero
      BY <2>1
    <3> QED BY <3>1, <3>2, SizesAssumption DEF Holds
  <2>3. /\ buf \o z \in Seq(CellValues) /\ Len(buf \o z) = Len(buf) + Len(z)
        /\ \A i \in 1..Len(buf \o z) : Holds((buf \o z)[i], start + i - 1)
    <3>1. \A i \in 1..Len(buf) : Holds(buf[i], start + i - 1)
      BY <1>3
    <3>2. \A i \in 1..Len(z) : Holds(z[i], start + Len(buf) + i - 1)
      BY <2>2
    <3>3. start \in Nat /\ buf \in Seq(CellValues) /\ z \in Seq(CellValues)
      BY <1>2, <2>1
    <3> QED BY ONLY <3>1, <3>2, <3>3, GrowLemma
  <2>4. Len(buf) + Len(z) = len
    BY <1>2, <1>3, <2>1
  <2> QED BY <1>1, <1>5, <1>7, <2>3, <2>4, ReturnLemma
<1> QED BY <1>6, <1>7

\* What a round of the loop copies from the page to which the offset belongs.
LEMMA CopiedLemma ==
  ASSUME NEW offset \in Nat, NEW m \in Cells, PageHolds(m, PageOf(offset)),
         NEW n \in Nat, n <= PageSize - (offset % PageSize)
  PROVE  LET r == SubSeq(m, (offset % PageSize) + 1, (offset % PageSize) + n)
         IN /\ r \in Seq(CellValues) /\ Len(r) = n
            /\ \A i \in 1..n : Holds(r[i], offset + i - 1)
<1>1. PICK first : first = offset % PageSize
  OBVIOUS
<1>2. PICK r : r = SubSeq(m, first + 1, first + n)
  OBVIOUS
<1>3. /\ first \in Int /\ 0 <= first /\ PageOf(offset) = offset - first
  BY <1>1, PageLemma
<1>4. first \in Nat /\ first + n <= PageSize /\ PageSize \in Nat
  BY <1>1, <1>3, SizesAssumption
<1>5. m \in Seq(CellValues) /\ Len(m) = PageSize
  BY SizesAssumption DEF Cells
<1>6. r \in Seq(CellValues) /\ Len(r) = n /\ \A i \in 1..n : r[i] = m[first + i]
  BY <1>2, <1>4, <1>5
<1>7. ASSUME NEW i \in 1..n PROVE Holds(r[i], offset + i - 1)
  <2>1. first + i \in 1..PageSize
    BY <1>4
  <2>2. Holds(m[first + i], PageOf(offset) + (first + i) - 1)
    BY <2>1 DEF PageHolds
  <2>3. PageOf(offset) + (first + i) - 1 = offset + i - 1
    BY <1>3, <1>4
  <2> QED BY <1>6, <2>2, <2>3
<1> QED BY <1>1, <1>2, <1>6, <1>7

LEMMA CopyStep ==
  ASSUME IInv, NEW t \in Threads, Copy(t)
  PROVE  IInv'
<1>1. PICK d, start, offset, len, buf, n :
        /\ d = call[t] /\ n = ToRead(d)
        /\ start = d.start /\ offset = d.offset /\ len = d.len /\ buf = d.buf
  OBVIOUS
<1>2. PICK m, r : /\ m = mem[d.page_buf]
                  /\ r = SubSeq(m, (offset % PageSize) + 1, (offset % PageSize) + n)
  OBVIOUS
<1>3. PICK c : c = [d EXCEPT !.pc = "loop", !.page_buf = None,
                             !.offset = offset + n, !.buf = buf \o r]
  OBVIOUS
<1>4. /\ UNCHANGED <<disk, mu, flushVars, lru, freelist, mem>>
      /\ d.pc \in Inside /\ d.pc = "copy"
      /\ call' = [call EXCEPT ![t] = c]
  BY <1>1, <1>2, <1>3 DEF Copy, Inside
<1>5. /\ mu = t /\ d \in Records /\ Underway(d) /\ InHand(d)
      /\ start \in Nat /\ offset \in Nat /\ len \in Nat /\ buf \in Seq(CellValues)
  BY <1>1, <1>4, InsideLemma
<1>6. m \in Cells /\ PageHolds(m, PageOf(offset))
  BY <1>1, <1>2, <1>4, <1>5 DEF InHand, Page, IInv, BuffersInv
<1>7. /\ start <= offset /\ Len(buf) = offset - start
      /\ \A i \in 1..Len(buf) : Holds(buf[i], start + i - 1)
  BY <1>1, <1>5 DEF Underway
<1>8. n \in Nat /\ n <= len - (offset - start) /\ n <= PageSize - (offset % PageSize)
  BY <1>1, <1>4, <1>5, ToReadLemma DEF Underway
<1>9. r \in Seq(CellValues) /\ Len(r) = n /\ \A i \in 1..n : Holds(r[i], offset + i - 1)
  BY <1>2, <1>5, <1>6, <1>8, CopiedLemma
<1>10. /\ buf \o r \in Seq(CellValues) /\ Len(buf \o r) = Len(buf) + Len(r)
       /\ \A i \in 1..Len(buf \o r) : Holds((buf \o r)[i], start + i - 1)
  <2>1. \A i \in 1..Len(buf) : Holds(buf[i], start + i - 1)
    BY <1>7
  <2>2. \A i \in 1..Len(r) : Holds(r[i], start + Len(buf) + i - 1)
    BY <1>5, <1>7, <1>9
  <2>3. start \in Nat /\ buf \in Seq(CellValues) /\ r \in Seq(CellValues)
    BY <1>5, <1>9
  <2> QED BY ONLY <2>1, <2>2, <2>3, GrowLemma
<1>11. /\ c \in Records /\ c.pc = "loop" /\ c.start = start /\ c.len = len
       /\ c.offset = offset + n /\ c.buf = buf \o r
  <2>1. "loop" \in Inside /\ offset + n \in Int
    BY <1>5, <1>8 DEF Inside
  <2> QED BY <1>1, <1>3, <1>5, <1>10, <2>1 DEF Records
<1>12. Underway(c)
  <2>1. /\ 0 <= c.start /\ c.start <= c.offset /\ c.offset - c.start <= c.len
        /\ Len(c.buf) = c.offset - c.start
    <3>1. 0 <= start /\ start <= offset + n /\ (offset + n) - start <= len
      BY <1>5, <1>7, <1>8
    <3>2. Len(buf) + Len(r) = (offset + n) - start
      BY <1>5, <1>7, <1>8, <1>9
    <3> QED BY <1>10, <1>11, <3>1, <3>2
  <2> QED BY <1>10, <1>11, <2>1 DEF Underway
<1>13. Progress(c) /\ InHand(c)'
  BY <1>11, <1>12 DEF Progress, InHand
<1> QED BY <1>4, <1>5, <1>13, SameLemma, ReadLemma

-----------------------------------------------------------------------------
(* Flush, and the writers of the device *)

LEMMA FlushStep ==
  ASSUME IInv, Flush
  PROVE  IInv'
<1> DEFINE purged == {lru.items[p] : p \in Cached(lru)}
<1>1. /\ UNCHANGED <<disk, mu, mem, call>> /\ lru' = Empty
      /\ freelist' = freelist \cup purged /\ flushes' = flushes + 1
      /\ quiet' = IF mu = None THEN disk ELSE quiet
  BY DEF Flush
<1>2. DiskInv'
  BY <1>1 DEF IInv, DiskInv
<1>3. purged \subseteq Buffers
  BY CacheFields DEF IInv, CacheInv, Good
<1>4. BuffersInv'
  BY <1>1, <1>3 DEF IInv, BuffersInv
<1>5. /\ Good(lru', Pages, Buffers) /\ Cached(lru') = {}
      /\ WithinSize(lru', CacheSize)
  <2>1. Len(Empty.evictList) = 0
    BY DEF Empty
  <2> QED BY <1>1, <2>1, EmptyLemma, SizesAssumption DEF WithinSize
<1>6. CacheInv'
  BY <1>5 DEF CacheInv
<1>7. MutexInv'
  BY <1>1 DEF IInv, MutexInv
<1>8. ASSUME NEW t \in Threads PROVE Progress(call[t])' /\ InHand(call[t])'
  <2> PICK c : c = call[t]
    OBVIOUS
  <2>1. Progress(c) /\ InHand(c) /\ call'[t] = c
    BY <1>1 DEF IInv, CallsInv
  <2>2. Progress(c)'
    BY <1>1, <2>1 DEF Progress, Answered, Underway, Holds
  <2>3. c.pc \in {"fill", "add", "beyond"} => Unshared(c.page_buf)'
    BY <1>1, <1>5, <2>1 DEF InHand, Unshared
  <2>4. c.pc = "add" => quiet' = quiet
    BY <1>1, NoneAssumption DEF IInv, MutexInv, Inside
  <2>5. InHand(c)'
    BY <1>1, <2>1, <2>3, <2>4 DEF InHand, PageHolds, PageFresh, Holds
  <2> QED BY <2>1, <2>2, <2>5
<1>9. CallsInv'
  BY <1>1, <1>8 DEF IInv, CallsInv
<1> QED BY <1>2, <1>4, <1>6, <1>7, <1>9 DEF IInv

LEMMA WriteStep ==
  ASSUME IInv, NEW o \in Written, Write(o)
  PROVE  IInv'
<1>1. UNCHANGED <<mu, lru, freelist, mem, call, flushes, quiet>>
  BY DEF Write, flushVars
<1>2. /\ disk' \in [FileCells -> Nat]
      /\ \A x \in FileCells : disk[x] <= disk'[x]
  <2>1. disk' = [x \in FileCells |-> IF x = o THEN disk[o] + 1 ELSE disk[x]]
    BY DEF Write, IInv, DiskInv
  <2> QED BY <2>1 DEF IInv, DiskInv
<1>3. DiskInv'
  BY <1>1, <1>2 DEF IInv, DiskInv
<1>4. \A x \in Int, v \in CellValues : x >= 0 /\ Holds(v, x) => Holds(v, x)'
  BY <1>2, LaterLemma DEF IInv
<1>5. \A p \in Nat, m \in Cells : PageHolds(m, p) => PageHolds(m, p)'
  <2> SUFFICES ASSUME NEW p \in Nat, NEW m \in Cells, PageHolds(m, p),
                      NEW i \in 1..PageSize
               PROVE  Holds(m[i], p + i - 1)'
    BY DEF PageHolds
  <2>1. p + i - 1 \in Int /\ p + i - 1 >= 0 /\ m[i] \in CellValues
    BY SizesAssumption DEF Cells
  <2> QED BY <1>4, <2>1 DEF PageHolds
<1>6. \A m, p : PageFresh(m, p) => PageFresh(m, p)'
  BY <1>1 DEF PageFresh
<1>7. Pages \subseteq Nat
  BY OffsetLemma DEF Pages, FileCells
<1>8. CacheInv'
  <2>1. \A p \in Cached(lru) : p \in Nat /\ mem[lru.items[p]] \in Cells
    BY <1>7, CacheFields DEF IInv, CacheInv, Good, BuffersInv
  <2>2. (\A p \in Cached(lru) : /\ lru.items[p] \notin freelist
                                /\ PageHolds(mem[lru.items[p]], p)
                                /\ PageFresh(mem[lru.items[p]], p))'
    BY <1>1, <1>5, <1>6, <2>1 DEF IInv, CacheInv
  <2> QED BY <1>1, <2>2 DEF IInv, CacheInv
<1>9. BuffersInv' /\ MutexInv'
  BY <1>1 DEF IInv, BuffersInv, MutexInv
<1>10. ASSUME NEW t \in Threads PROVE Progress(call[t])' /\ InHand(call[t])'
  <2> PICK c : c = call[t]
    OBVIOUS
  <2>1. Progress(c) /\ InHand(c) /\ call'[t] = c
    BY <1>1 DEF IInv, CallsInv
  <2>2. ASSUME c \in Records, NEW start \in Nat, NEW i \in 1..Len(c.buf),
               Holds(c.buf[i], start + i - 1)
        PROVE  Holds(c.buf[i], start + i - 1)'
    <3>1. c.buf[i] \in CellValues /\ start + i - 1 \in Int /\ start + i - 1 >= 0
      BY <2>2 DEF Records
    <3> QED BY <1>4, <2>2, <3>1
  <2>3. CASE c = Idle
    BY <2>1, <2>3 DEF Progress, InHand, Idle
  <2>4. CASE c \in Records /\ c.pc = "done"
    BY <2>1, <2>2, <2>4 DEF Progress, InHand, Answered, Records, Idle
  <2>5. CASE c \in Records /\ c.pc # "done"
    <3>1. Underway(c) /\ c.start \in Nat /\ c.offset \in Nat /\ Page(c) \in Nat
      <4>1. c.pc # "idle" /\ Underway(c) /\ c.start \in Int /\ c.offset \in Int
        BY <2>1, <2>5 DEF Progress, Records, Idle, Inside
      <4>2. c.start \in Nat /\ c.offset \in Nat
        BY <4>1 DEF Underway
      <4> QED BY <4>1, <4>2, OffsetLemma DEF Page
    <3>2. Underway(c)'
      BY <2>2, <2>5, <3>1 DEF Underway
    <3>3. InHand(c)'
      BY <1>1, <1>5, <1>6, <2>1, <3>1 DEF InHand, Unshared, IInv, BuffersInv
    <3> QED BY <2>1, <2>5, <3>2, <3>3 DEF Progress
  <2> QED BY <2>1, <2>3, <2>4, <2>5 DEF Progress
<1>11. CallsInv'
  BY <1>1, <1>10 DEF IInv, CallsInv
<1> QED BY <1>3, <1>8, <1>9, <1>11 DEF IInv

-----------------------------------------------------------------------------
LEMMA InitLemma == Init => IInv
<1> SUFFICES ASSUME Init PROVE IInv
  OBVIOUS
<1>1. DiskInv
  BY DEF Init, DiskInv
<1>2. Zeros(PageSize) \in Cells
  BY SizesAssumption DEF Zeros, Cells, CellValues
<1>3. BuffersInv
  BY <1>2 DEF Init, BuffersInv
<1>4. CacheInv
  <2>1. Len(Empty.evictList) = 0
    BY DEF Empty
  <2> QED BY <2>1, EmptyLemma, SizesAssumption DEF Init, CacheInv, WithinSize
<1>5. MutexInv
  BY DEF Init, MutexInv, Idle, Inside
<1>6. CallsInv
  BY DEF Init, CallsInv, Progress, InHand, Idle
<1> QED BY <1>1, <1>3, <1>4, <1>5, <1>6 DEF IInv

LEMMA StepLemma == IInv /\ [Next]_vars => IInv'
<1> SUFFICES ASSUME IInv, [Next]_vars PROVE IInv'
  OBVIOUS
<1>1. ASSUME NEW t \in Threads, ReadStep(t) PROVE IInv'
  BY <1>1, LockStep, ReadLargeStep, DoneStep, HitStep, MissStep, TakeStep, FailStep,
     FillStep, AddStep, BeyondStep, CopyStep DEF ReadStep
<1>2. CASE UNCHANGED vars
  <2>1. DiskInv' /\ BuffersInv' /\ CacheInv' /\ MutexInv'
    BY <1>2, SameLemma DEF vars, flushVars, IInv, DiskInv, MutexInv
  <2>2. CallsInv'
    BY <1>2 DEF vars, flushVars, IInv, CallsInv, Progress, Answered, Underway, Holds,
                InHand, Unshared, PageHolds, PageFresh
  <2> QED BY <2>1, <2>2 DEF IInv
<1> QED BY <1>1, <1>2, BeginStep, FlushStep, WriteStep DEF Next

\* The invariant holds in every state, with any interleaving of reads, calls of
\* Flush and writes to the device.
THEOREM Invariant == Spec => []IInv
BY InitLemma, StepLemma, PTL DEF Spec

-----------------------------------------------------------------------------
\* Every variable keeps its type.
THEOREM TypesHold == Spec => []TypeOK
<1>1. IInv => TypeOK
  <2> SUFFICES ASSUME IInv PROVE TypeOK
    OBVIOUS
  <2>1. \A t \in Threads : call[t] \in Calls
    BY DEF IInv, CallsInv, Progress, Calls, Records, Idle
  <2>2. call \in [Threads -> Calls]
    BY <2>1 DEF IInv, CallsInv
  <2> QED BY <2>2 DEF TypeOK, IInv, DiskInv, BuffersInv, CacheInv, MutexInv, Good, Cells
<1> QED BY Invariant, <1>1, PTL

\* No buffer ever has two owners, with whatever Flush of another goroutine
\* between the steps of ReadAt.
THEOREM BuffersHaveOneOwner == Spec => []OneOwner
<1>1. IInv => OneOwner
  BY DEF IInv, CacheInv, CallsInv, InHand, Unshared, OneOwner
<1> QED BY Invariant, <1>1, PTL

\* A ReadAt that returns without an error has filled the caller's buffer with
\* what the device has, or had, at each place; EOF says there is nothing.
THEOREM ReadsReturnTheDevice == Spec => []ReadsAreRight
<1>1. IInv => ReadsAreRight
  BY DEF IInv, CallsInv, Progress, Answered, Idle, ReadsAreRight
<1> QED BY Invariant, <1>1, PTL

\* A Flush that no read overlaps leaves nothing older in the cache.
THEOREM QuietFlushRefreshes == Spec => []FreshSinceQuietFlush
<1>1. IInv => FreshSinceQuietFlush
  <2> SUFFICES ASSUME IInv, NEW p \in Cached(lru),
                      NEW o \in FileCells \cap (p..(p + PageSize - 1))
               PROVE  mem[lru.items[p]][o - p + 1].writes >= quiet[o]
    BY DEF FreshSinceQuietFlush
  <2>1. p \in Pages
    BY CacheFields DEF IInv, CacheInv, Good
  <2>2. p \in Nat
    BY <2>1, OffsetLemma DEF Pages, FileCells
  <2>3. /\ o - p + 1 \in 1..PageSize /\ p + (o - p + 1) - 1 = o
    BY <2>2, SizesAssumption DEF FileCells
  <2>4. PageFresh(mem[lru.items[p]], p)
    BY DEF IInv, CacheInv
  <2> QED BY <2>3, <2>4 DEF PageFresh
<1> QED BY Invariant, <1>1, PTL
=============================================================================
