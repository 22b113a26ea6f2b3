------------------------------ MODULE UsnWatch ------------------------------
(***************************************************************************)
(* parser/usn.go: the goroutines of ParseUSN and WatchUSN, which follow    *)
(* the change journal of a live volume, and the consumer of their channel. *)
(*                                                                         *)
(* Offsets count 8 byte units.  The journal is a file of runs of whole     *)
(* pages; its first run was given back to the system (sparse) and the last *)
(* ones are filled by the system, one record after the other; a record     *)
(* does not cross a page, zeros fill what is left of one.  What the        *)
(* readers see of a page is what was there when its first read brought it  *)
(* into the page cache.                                                    *)
(***************************************************************************)
EXTENDS Integers, Sequences

CONSTANTS
  PageSize,          \* units of a page, of the journal and of the cache
  ScanSize,          \* MAX_USN_RECORD_SCAN_SIZE
  Extents,           \* lengths of the journal's runs, the first one sparse
  Lengths,           \* lengths of records
  RoundLengths,      \* those of them whose lowest byte is zero
  Preallocated,      \* runs are in the runlist before they are written to
  Programs,          \* "watch": WatchUSN; "list": one ParseUSN from offset 0
  MaxRecords         \* bound on the records of the journal

ASSUME SizesAssumption ==
  /\ PageSize \in Nat \ {0}
  /\ ScanSize \in Nat \ {0}
  /\ Extents \in Seq(Nat \ {0}) /\ Extents # << >>
  /\ \A i \in DOMAIN Extents : Extents[i] % PageSize = 0
  /\ Lengths \subseteq 1..PageSize
  /\ RoundLengths \subseteq Lengths
  /\ Preallocated \in BOOLEAN
  /\ Programs \subseteq {"watch", "list"}

VARIABLES
  journal,     \* the records written, in order
  seen,        \* page -> length of the journal when the page was cached
  parser,      \* the goroutine of the last ParseUSN
  watcher,     \* the goroutine of WatchUSN, or the reader of ParseUSN
  delivered,   \* the records the consumer got
  cancelled,   \* ctx is done
  known,       \* length of the journal at the last Purge, or at List
  base         \* the offset getLastUSN found

vars == <<journal, seen, parser, watcher, delivered, cancelled, known, base>>

-----------------------------------------------------------------------------
(* The journal file *)

ExtentStart[i \in 1..(Len(Extents) + 1)] ==
  IF i = 1 THEN 0 ELSE ExtentStart[i - 1] + Extents[i - 1]

Total == ExtentStart[Len(Extents) + 1]

PageOf(o) == o \div PageSize

PageEnd(o) == (PageOf(o) + 1) * PageSize

JournalEnd == IF journal = << >> THEN Extents[1]
         ELSE journal[Len(journal)].at + journal[Len(journal)].len

\* The next record goes to the tail, or to the next page if it does not fit.
Place(len) == IF JournalEnd + len <= PageEnd(JournalEnd) THEN JournalEnd ELSE PageEnd(JournalEnd)

\* Initialized_size: whole pages.
FileSize == IF JournalEnd % PageSize = 0 THEN JournalEnd ELSE PageEnd(JournalEnd)

\* The runs in the runlist of the $J attribute.
Runs == {i \in 1..Len(Extents) : Preallocated \/ ExtentStart[i] < FileSize}

\* MappedReader.Ranges: the runs up to the one that ends after end_offset,
\* which is trimmed, to nothing if it begins there.
Ranges ==
  LET whole == {i \in Runs : ExtentStart[i + 1] <= FileSize}
  IN [i \in {i \in Runs : \A j \in Runs : j < i => j \in whole} |->
        [offset |-> ExtentStart[i], sparse |-> i = 1,
         end |-> IF i \in whole THEN ExtentStart[i + 1] ELSE FileSize]]

-----------------------------------------------------------------------------
(* Reads of the journal through the cache *)

\* A read of units from..to brings the pages it touches into the cache.
Caching(from, to) ==
  LET pages == DOMAIN seen \cup (PageOf(from)..PageOf(to))
  IN [p \in pages |-> IF p \in DOMAIN seen THEN seen[p] ELSE Len(journal)]

\* The records that a reader of a cache c finds.
Visible(c) ==
  {journal[k] : k \in {k \in 1..Len(journal) :
                         /\ PageOf(journal[k].at) \in DOMAIN c
                         /\ k <= c[PageOf(journal[k].at)]}}

-----------------------------------------------------------------------------
(* The goroutine of ParseUSN *)

NoParser == [pc |-> "closed", ranges |-> << >>, i |-> 0, at |-> 0,
             misread |-> FALSE, from |-> 0]

\* What ParseUSN(ctx, ntfs_ctx, stream, from) starts.
StartParser(from) ==
  parser' = [pc |-> "range", ranges |-> Ranges, i |-> 1, at |-> 0,
             misread |-> FALSE, from |-> from]

environment == <<journal, cancelled, known>>
reader == <<watcher, delivered, base>>

\* The body of the loop for a record: skipped, or offered to the channel.
Consider(at, misread) ==
  parser' = [parser EXCEPT
               !.pc = IF at < parser.from THEN "next" ELSE "send",
               !.at = at, !.misread = misread]

NextRange == parser' = [parser EXCEPT !.pc = "range", !.i = @ + 1]

\* The first record of a range is whatever is at its start.
FirstOfRange ==
  LET range == parser.ranges[parser.i]
  IN /\ parser.pc = "range"
     /\ parser.i \in DOMAIN parser.ranges
     /\ IF range.sparse \/ parser.from > range.end
        THEN NextRange
        ELSE Consider(range.offset, FALSE)
     /\ UNCHANGED <<environment, reader, seen>>

NoMoreRanges ==
  /\ parser.pc = "range"
  /\ parser.i \notin DOMAIN parser.ranges
  /\ parser' = [parser EXCEPT !.pc = "closed"]
  /\ UNCHANGED <<environment, reader, seen>>

\* The test of Next: there is a valid record.
IsRecordAt(at, cache) == \E r \in Visible(cache) : r.at = at

\* USN_RECORD.Next looks where the record ends, past the end of the range
\* too, and if there is no valid record begins to scan there.
Advance ==
  LET here   == {r \in Visible(Caching(parser.at, parser.at)) :
                   r.at = parser.at /\ ~ parser.misread}
      length == IF here = {} THEN 0 ELSE (CHOOSE r \in here : TRUE).len
      after  == parser.at + length
      cache  == Caching(parser.at, after)
  IN /\ parser.pc = "next"
     /\ seen' = cache
     /\ IF parser.misread
        THEN NextRange                  \* its length is beyond any range
        ELSE IF length > 0 /\ IsRecordAt(after, cache)
             THEN Consider(after, FALSE)
             ELSE parser' = [parser EXCEPT !.pc = "scan", !.at = after]
     /\ UNCHANGED <<environment, reader>>

\* Mutant of ScanStop: past the end of the range.
ScanStopsAnywhere == parser.at + ScanSize

\* Where one read of the scan ends.
ScanStop ==
  LET end == parser.ranges[parser.i].end
  IN IF parser.at + ScanSize < end THEN parser.at + ScanSize ELSE end

\* Mutant of ScanFurther: after one read only.
GiveUp(at) == NextRange

ScanFurther(at) == parser' = [parser EXCEPT !.at = at]

\* One read of the scan: the first byte that is not zero and begins a valid
\* record is taken for it.  If the first byte of the record is zero that is
\* the second one, a record whose length makes no sense.
Scan ==
  LET cache == Caching(parser.at, ScanStop - 1)
      found == {r \in Visible(cache) : r.at \in parser.at..(ScanStop - 1)}
      first == CHOOSE r \in found : \A x \in found : r.at <= x.at
  IN /\ parser.pc = "scan"
     /\ IF parser.at >= parser.ranges[parser.i].end
        THEN NextRange /\ UNCHANGED seen
        ELSE /\ seen' = cache
             /\ IF found # {}
                THEN Consider(first.at, first.len \in RoundLengths)
                ELSE ScanFurther(ScanStop)
     /\ UNCHANGED <<environment, reader>>

\* Mutant of ParserCancelled: without a select: the channel operation alone.
ParserBlocked == FALSE /\ UNCHANGED vars

\* select: ctx is done while the record is offered.
ParserCancelled ==
  /\ parser.pc = "send"
  /\ cancelled
  /\ parser' = [parser EXCEPT !.pc = "closed"]
  /\ UNCHANGED <<environment, reader, seen>>

Sent == parser' = [parser EXCEPT !.pc = "next"]

ParserStep == FirstOfRange \/ NoMoreRanges \/ Advance \/ Scan

-----------------------------------------------------------------------------
(* The goroutine of WatchUSN *)

At(pc) == watcher.pc = pc

Goto(pc) == watcher' = [watcher EXCEPT !.pc = pc]

\* Mutant of PurgeContext: without an effect on the page cache.
PurgeOthers(from, to) ==
  /\ At(from)
  /\ known' = Len(journal)
  /\ Goto(to)
  /\ UNCHANGED <<journal, seen, parser, delivered, cancelled, base>>

\* ntfs_ctx.Purge()
PurgeContext(from, to) ==
  /\ At(from)
  /\ seen' = << >>
  /\ known' = Len(journal)
  /\ Goto(to)
  /\ UNCHANGED <<journal, parser, delivered, cancelled, base>>

Purge == PurgeContext("start", "last") \/ PurgeContext("purge", "open")

Real == {i \in DOMAIN Ranges : ~ Ranges[i].sparse}

LastReal == CHOOSE i \in Real : \A j \in Real : j <= i

\* getLastUSN reads the last range that is not sparse to its end; it fails if
\* the journal cannot be opened or has no such range.
OpenLast ==
  /\ At("last")
  /\ \/ Goto("wait") /\ UNCHANGED parser
     \/ /\ Real # {}
        /\ StartParser(Ranges[LastReal].offset)
        /\ watcher' = [watcher EXCEPT !.pc = "reading", !.found = FALSE]
  /\ UNCHANGED <<environment, seen, delivered, base>>

ReceiveLast ==
  /\ At("reading")
  /\ parser.pc = "send"
  /\ Sent
  /\ watcher' = [watcher EXCEPT !.found = TRUE, !.start = parser.at]
  /\ UNCHANGED <<environment, seen, delivered, base>>

LastFound ==
  /\ At("reading")
  /\ parser.pc = "closed"
  /\ Goto(IF watcher.found THEN "purge" ELSE "wait")
  /\ base' = watcher.start
  /\ UNCHANGED <<environment, seen, parser, delivered>>

\* OpenUSNStream; an error ends the watch.
Open ==
  /\ At("open")
  /\ \/ Goto("closed") /\ UNCHANGED parser
     \/ StartParser(watcher.start) /\ Goto("collect")
  /\ UNCHANGED <<environment, seen, delivered, base>>

IsNew == parser.at > watcher.start

\* Mutant of Receive: with start_offset moved before the record is delivered.
ReceiveAndMove ==
  /\ At("collect")
  /\ parser.pc = "send"
  /\ Sent
  /\ watcher' = IF IsNew
                THEN [watcher EXCEPT !.pc = "deliver", !.hand = parser.at,
                                     !.misread = parser.misread,
                                     !.start = parser.at]
                ELSE watcher
  /\ UNCHANGED <<environment, seen, delivered, base>>

Receive ==
  /\ At("collect")
  /\ parser.pc = "send"
  /\ Sent
  /\ watcher' = IF IsNew
                THEN [watcher EXCEPT !.pc = "deliver", !.hand = parser.at,
                                     !.misread = parser.misread]
                ELSE watcher
  /\ UNCHANGED <<environment, seen, delivered, base>>

EndOfPoll ==
  /\ At("collect")
  /\ parser.pc = "closed"
  /\ Goto("sleep")
  /\ UNCHANGED <<environment, seen, parser, delivered, base>>

\* The consumer receives from the channel.
Deliver ==
  /\ At("deliver")
  /\ delivered' = Append(delivered, [at |-> watcher.hand,
                                     misread |-> watcher.misread])
  /\ watcher' = [watcher EXCEPT !.pc = "collect", !.start = watcher.hand]
  /\ UNCHANGED <<environment, seen, parser, base>>

\* Mutant of Tick: with the next poll begun behind the Purge.
TickToOpen ==
  /\ \/ At("wait") /\ Goto("start")
     \/ At("sleep") /\ Goto("open")
  /\ UNCHANGED <<environment, seen, parser, delivered, base>>

\* time.After fires.
Tick ==
  /\ \/ At("wait") /\ Goto("start")
     \/ At("sleep") /\ Goto("purge")
  /\ UNCHANGED <<environment, seen, parser, delivered, base>>

\* The select statements of WatchUSN take their ctx.Done() case.
WatcherCancelled ==
  /\ cancelled
  /\ At("wait") \/ At("deliver") \/ At("sleep")
  /\ Goto("closed")
  /\ UNCHANGED <<environment, seen, parser, delivered, base>>

\* A program that lists the journal: for record := range ParseUSN(.., 0).
List ==
  /\ At("list")
  /\ StartParser(0)
  /\ Goto("listing")
  /\ known' = Len(journal)
  /\ UNCHANGED <<journal, cancelled, seen, delivered, base>>

ReceiveListed ==
  /\ At("listing")
  /\ parser.pc = "send"
  /\ Sent
  /\ delivered' = Append(delivered, [at |-> parser.at,
                                     misread |-> parser.misread])
  /\ UNCHANGED <<environment, seen, watcher, base>>

WatcherStep ==
  \/ Purge \/ OpenLast \/ ReceiveLast \/ LastFound
  \/ Open \/ Receive \/ EndOfPoll \/ List

-----------------------------------------------------------------------------
(* The system that writes the journal and the caller that cancels *)

Write(len) ==
  /\ Len(journal) < MaxRecords
  /\ Place(len) + len <= Total
  /\ journal' = Append(journal, [at |-> Place(len), len |-> len])
  /\ UNCHANGED <<cancelled, known, seen, parser, reader>>

Cancel ==
  /\ ~ cancelled
  /\ cancelled' = TRUE
  /\ UNCHANGED <<journal, known, seen, parser, reader>>

Init ==
  /\ journal = << >>
  /\ seen = << >>
  /\ parser = NoParser
  /\ \E program \in Programs :
       watcher = [pc |-> IF program = "watch" THEN "start" ELSE "list",
                  start |-> 0, hand |-> 0, misread |-> FALSE, found |-> FALSE]
  /\ delivered = << >>
  /\ cancelled = FALSE
  /\ known = 0
  /\ base = 0

Next ==
  \/ ParserStep \/ ParserCancelled
  \/ WatcherStep \/ WatcherCancelled \/ Deliver \/ Tick \/ ReceiveListed
  \/ \E len \in Lengths : Write(len)
  \/ Cancel

Spec == Init /\ [][Next]_vars

\* Goroutines run, timers fire, and a select statement chooses at random among
\* the cases that are ready, so that none is passed over for ever.
GoFairness ==
  /\ WF_vars(ParserStep)
  /\ WF_vars(WatcherStep)
  /\ WF_vars(Tick)
  /\ SF_vars(ParserCancelled)
  /\ SF_vars(WatcherCancelled)

GoSpec == Spec /\ GoFairness

\* Besides, somebody ranges over the channel.
ConsumedSpec == GoSpec /\ WF_vars(Deliver)

-----------------------------------------------------------------------------
Offsets == 0..Total

TypeOK ==
  /\ journal \in Seq([at : Offsets, len : Lengths])
  /\ DOMAIN seen \subseteq 0..PageOf(Total)
  /\ \A p \in DOMAIN seen : seen[p] \in 0..Len(journal)
  /\ parser.pc \in {"closed", "range", "next", "scan", "send"}
  /\ parser.at \in Offsets
  /\ parser.from \in Offsets
  /\ watcher \in [pc : {"start", "last", "wait", "reading", "purge", "open",
                        "collect", "deliver", "sleep", "closed", "list",
                        "listing"},
                  start : Offsets, hand : Offsets,
                  misread : BOOLEAN, found : BOOLEAN]
  /\ delivered \in Seq([at : Offsets, misread : BOOLEAN])
  /\ cancelled \in BOOLEAN
  /\ known \in 0..Len(journal)
  /\ base \in Offsets

Got(at) == \E i \in DOMAIN delivered : delivered[i].at = at

Listing == At("list") \/ At("listing")

Increasing ==
  \A i, j \in DOMAIN delivered : i < j => delivered[i].at < delivered[j].at

\* What the consumer gets are records; the consumer of a watch gets them in the
\* order of the journal and none of them twice, however often a poll reads the
\* same range, and start_offset never moves past one it has not got: no later
\* poll would look at it again.
DeliversTheJournal ==
  /\ \A i \in DOMAIN delivered :
       ~ delivered[i].misread /\ \E k \in DOMAIN journal : journal[k].at = delivered[i].at
  /\ ~ Listing => Increasing
  /\ base > 0 => \A k \in DOMAIN journal :
       base < journal[k].at /\ journal[k].at <= watcher.start => Got(journal[k].at)

\* When a poll ends, what the journal held at the Purge before it has been
\* delivered.
PollIsComplete ==
  At("sleep") /\ ~ cancelled => \A k \in 1..known :
    base < journal[k].at => Got(journal[k].at)

\* A listing that is not cancelled contains all that was there when it began.
ListIsComplete ==
  At("listing") /\ parser.pc = "closed" /\ ~ cancelled =>
    \A k \in 1..known : Got(journal[k].at)

\* A watch that is cancelled ends, and so does the goroutine that feeds it,
\* even when the consumer has stopped receiving.
CancelEndsBoth ==
  cancelled ~> (At("closed") \/ Listing) /\ parser.pc = "closed"

\* Every record written after the start of the watch reaches the consumer,
\* unless the watch ends.
RecordsArrive ==
  \A k \in 1..MaxRecords :
    (k \in DOMAIN journal /\ 0 < base /\ base < journal[k].at)
      ~> (At("closed") \/ (k \in DOMAIN journal /\ Got(journal[k].at)))

-----------------------------------------------------------------------------
(* What a comment of the repository says, and the code does not do. *)

\* usn.go:192: "We start parsing at the start of the file and continue until
\* the end": a listing names each record once, in the order of the journal.
\* Next goes on past the end of a range, which is then parsed by itself.
ListedOnce == Listing => Increasing
=============================================================================
