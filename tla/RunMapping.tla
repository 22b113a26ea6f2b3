----------------------------- MODULE RunMapping -----------------------------
(***************************************************************************)
(* parser/attribute.go and joinAllVCNs of parser/easy.go: from the runlist *)
(* of a file to the readers that map its clusters, and what the ranges and *)
(* reads of the resulting stream are.                                      *)
(*                                                                         *)
(* The loops of NewUncompressedRangeReader and consumeRuns are the actions *)
(* of a state machine that starts with any runlist.  A byte of a file is   *)
(* identified by where it comes from: a place on the disk, nowhere (zero), *)
(* or a place in what a compression unit decompresses to.                  *)
(***************************************************************************)
EXTENDS Integers, SequencesExt

CONSTANTS
  RunLists,     \* the runlists considered, sequences of runs
  Flags,        \* attribute flags considered: sets of {"compressed", "sparse"}
  Unit,         \* compression_unit_size, in clusters
  ClusterSize,  \* in bytes
  Slack         \* bytes that a size may fall short of the next larger one

ASSUME SizesAssumption ==
  /\ Unit \in Nat \ {0}
  /\ ClusterSize \in Nat \ {0}
  /\ Slack \subseteq Nat

\* delta is the RelativeUrnOffset.
Runs == [offset : Int, delta : Int, length : Nat]

ASSUME RunListsAssumption ==
  /\ \A list \in RunLists : list \in Seq(Runs)
  /\ Flags \subseteq SUBSET {"compressed", "sparse"}

VARIABLES
  orig,        \* the runlist as it was decoded
  flags,       \* of the first attribute of the stream
  sizes,       \* Initialized_size and Actual_size of that attribute, in bytes
  runs,        \* the runlist as the loop leaves it
  idx,         \* of the loop
  file_offset, \* clusters mapped so far
  readers      \* the MappedReaders made so far

vars == <<orig, flags, sizes, runs, idx, file_offset, readers>>

IsHole(run) == run.delta = 0

\* The clusters of the first n of some runs, readers or parts.
LengthOfFirst(n, rs) ==
  LET sum[i \in 0..n] == IF i = 0 THEN 0 ELSE sum[i - 1] + rs[i].length
  IN sum[n]

SumOfLengths(rs) == LengthOfFirst(Len(rs), rs)

\* A MappedReader of clusters.  "parts" are the runs it reads, in order: one
\* for a plain run, all the real runs of a compression unit.
Reader(offset, length, kind, parts) ==
  [fileOffset |-> offset, length |-> length, kind |-> kind, parts |-> parts]

PlainReader(run, length, sparse) ==
  Reader(file_offset, length, IF sparse THEN "sparse" ELSE "disk",
         <<[offset |-> run.offset, length |-> length]>>)

IsCompressed == "compressed" \in flags

-----------------------------------------------------------------------------
Init ==
  /\ orig \in RunLists
  /\ flags \in Flags
  /\ \E uninitialized, unused \in Slack :
       LET actual == SumOfLengths(orig) * ClusterSize - unused
       IN /\ actual >= uninitialized
          /\ sizes = [actual |-> actual, initialized |-> actual - uninitialized]
  /\ runs = orig
  /\ idx = 1
  /\ file_offset = 0
  /\ readers = << >>

fixed == <<orig, flags, sizes>>

InLoop == idx <= Len(runs)

Map(reader) ==
  /\ readers' = Append(readers, reader)
  /\ file_offset' = file_offset + reader.length

\* Mutant of SkipEmptyRun: without going on to the next run.
StayAtEmptyRun ==
  /\ InLoop
  /\ runs[idx].length = 0
  /\ UNCHANGED vars

\* Both loops ignore a run without a length.
SkipEmptyRun ==
  /\ InLoop
  /\ runs[idx].length = 0
  /\ idx' = idx + 1
  /\ UNCHANGED <<fixed, runs, file_offset, readers>>

\* NewUncompressedRangeReader: a hole is one only in a file that has the
\* sparse flag.
MapRun ==
  /\ InLoop
  /\ ~ IsCompressed
  /\ runs[idx].length > 0
  /\ Map(PlainReader(runs[idx], runs[idx].length,
                     "sparse" \in flags /\ IsHole(runs[idx])))
  /\ idx' = idx + 1
  /\ UNCHANGED <<fixed, runs>>

\* consumeRuns: the last run cannot be compressed.
MapLastRun ==
  /\ IsCompressed
  /\ idx = Len(runs)
  /\ runs[idx].length > 0
  /\ Map(PlainReader(runs[idx], runs[idx].length, IsHole(runs[idx])))
  /\ idx' = idx + 1
  /\ UNCHANGED <<fixed, runs>>

\* Mutant of HasWholeUnit.
IsLonger(run) == run.length > Unit

HasWholeUnit(run) == run.length >= Unit

\* The whole units of a long run are mapped as they are; what is left of the
\* run is considered again.
MapWholeUnits ==
  LET run   == runs[idx]
      whole == run.length - (run.length % Unit)
  IN /\ IsCompressed
     /\ idx < Len(runs)
     /\ HasWholeUnit(run)
     /\ Map(PlainReader(run, whole, IsHole(run)))
     /\ runs' = [runs EXCEPT ![idx].offset = @ + whole,
                             ![idx].length = @ - whole]
     /\ UNCHANGED <<fixed, idx>>

\* The runs that are gathered: up to the first with which they reach a unit.
LastGathered ==
  LET reaches == {i \in idx..Len(runs) :
                    LengthOfFirst(i, runs) - LengthOfFirst(idx - 1, runs) >= Unit}
  IN IF reaches = {} THEN Len(runs) ELSE Min(reaches)

Gathered == SubSeq(runs, idx, LastGathered)

RealOf(rs) ==
  FlattenSeq([i \in DOMAIN rs |-> IF IsHole(rs[i]) THEN << >> ELSE <<rs[i]>>])

Parts(rs) == [i \in DOMAIN rs |-> [offset |-> rs[i].offset,
                                   length |-> rs[i].length]]

\* A unit is compressed if one of its runs is a hole and they make exactly a
\* unit.  Otherwise nothing is mapped.  The loop goes on after the real runs
\* and one more.
GatherUnit ==
  LET run   == runs[idx]
      real  == RealOf(Gathered)
      hole  == \E i \in DOMAIN Gathered : IsHole(Gathered[i])
      \* One real run is read from the offset of the run the loop is at.
      parts == IF Len(real) > 1 THEN Parts(real) ELSE Parts(<<run>>)
  IN /\ IsCompressed
     /\ idx < Len(runs)
     /\ run.length > 0
     /\ ~ HasWholeUnit(run)
     /\ IF hole /\ SumOfLengths(Gathered) = Unit
        THEN Map(Reader(file_offset, Unit, "compressed", parts))
        ELSE UNCHANGED <<readers, file_offset>>
     /\ idx' = idx + Len(real) + 1
     /\ UNCHANGED <<fixed, runs>>

Next ==
  SkipEmptyRun \/ MapRun \/ MapLastRun \/ MapWholeUnits \/ GatherUnit

Spec == Init /\ [][Next]_vars

\* A loop that can go on goes on.
FairSpec == Spec /\ WF_vars(Next)

Mapped == idx > Len(runs)

-----------------------------------------------------------------------------
(* Reading the stream *)

Zero == [from |-> "zero"]

Disk(lcn, byte) == [from |-> "disk", lcn |-> lcn, byte |-> byte]

Decompressed(clusters, at) == [from |-> "unit", clusters |-> clusters, at |-> at]

NoByte == [from |-> "eof"]

\* The clusters on the disk that a list of runs or parts names, in order.
ClustersOf(ps) ==
  FlattenSeq([i \in DOMAIN ps |->
                [j \in 1..ps[i].length |-> ps[i].offset + j - 1]])

\* RangeReader.ReadAt and readFromARun: the first reader that covers byte x.
ReadRuns(x) ==
  LET covering == {i \in DOMAIN readers :
                     /\ readers[i].fileOffset * ClusterSize <= x
                     /\ x < (readers[i].fileOffset + readers[i].length) * ClusterSize}
      i  == Min(covering)
      at == x - readers[i].fileOffset * ClusterSize
  IN IF covering = {} THEN NoByte
     ELSE CASE readers[i].kind = "sparse" -> Zero
            [] readers[i].kind = "disk" ->
                 Disk(readers[i].parts[1].offset + at \div ClusterSize,
                      at % ClusterSize)
            [] readers[i].kind = "compressed" ->
                 Decompressed(ClustersOf(readers[i].parts), at)

\* What joinAllVCNs returns: the runs up to initialized_size, zeros after it.
ReadStream(x) ==
  IF x < sizes.initialized THEN ReadRuns(x)
  ELSE IF x < sizes.actual THEN Zero ELSE NoByte

-----------------------------------------------------------------------------
(* The ranges of the stream *)

RangeOf(offset, length, sparse) ==
  [offset |-> offset, length |-> length, sparse |-> sparse]

End(range) == range.offset + range.length

\* RangeReader.Ranges leaves out a part without a length.
RangesOfParts(r) ==
  FlattenSeq([i \in DOMAIN r.parts |->
    IF r.parts[i].length = 0 THEN << >>
    ELSE <<RangeOf((r.fileOffset + LengthOfFirst(i - 1, r.parts)) * ClusterSize,
                   r.parts[i].length * ClusterSize, FALSE)>>])

\* MappedReader.Ranges of a reader of clusters.  A reader with several parts
\* delegates to them and pads to its own length with a sparse range.
RangesOfReader(r) ==
  LET unused == r.length - SumOfLengths(r.parts)
  IN IF Len(r.parts) = 1
     THEN <<RangeOf(r.fileOffset * ClusterSize, r.length * ClusterSize,
                    r.kind = "sparse")>>
     ELSE RangesOfParts(r)
          \o (IF unused > 0
              THEN <<RangeOf((r.fileOffset + SumOfLengths(r.parts)) * ClusterSize,
                             unused * ClusterSize, TRUE)>>
              ELSE << >>)

RangesOfRuns == FlattenSeq([i \in DOMAIN readers |-> RangesOfReader(readers[i])])

\* Mutant of TrimmedRanges: without a cut.
UntrimmedRanges == RangesOfRuns

\* MappedReader.Ranges of the reader of the initialized bytes: the ranges of
\* the runs, the first that reaches past it cut there and the last.
TrimmedRanges ==
  LET rs   == RangesOfRuns
      past == {i \in DOMAIN rs : End(rs[i]) > sizes.initialized}
      n    == Min(past)
  IN IF past = {} THEN rs
     ELSE [SubSeq(rs, 1, n) EXCEPT ![n].length = sizes.initialized - rs[n].offset]

PaddedRanges ==
  LET rs == TrimmedRanges
      reached == IF rs = << >> THEN 0 ELSE End(Last(rs))
  IN IF reached < sizes.initialized
     THEN Append(rs, RangeOf(reached, sizes.initialized - reached, TRUE))
     ELSE rs

\* RangeReader.Ranges of the stream: readers without a length are left out.
Ranges ==
  (IF sizes.initialized > 0 THEN PaddedRanges ELSE << >>)
  \o (IF sizes.actual > sizes.initialized
       THEN <<RangeOf(sizes.initialized, sizes.actual - sizes.initialized, TRUE)>>
       ELSE << >>)

Bytes == 0..(sizes.actual - 1)

-----------------------------------------------------------------------------
(* What the runlist says of the file, cluster by cluster *)

\* A hole needs the flag: the first run of $Boot has delta 0 and is real.
IsHoleOfFile(run) == flags # {} /\ IsHole(run)

Start(i) == LengthOfFirst(i - 1, orig)

\* The run that has cluster c of the file.
RunOf(c) == CHOOSE i \in DOMAIN orig : Start(i) <= c /\ c < Start(i) + orig[i].length

\* Where it is on the disk.
ClusterAt(c) == orig[RunOf(c)].offset + c - Start(RunOf(c))

\* The clusters on the disk that hold what is in [first, first + n), in order.
RealIn(first, n) ==
  FlattenSeq([k \in 1..n |-> IF IsHoleOfFile(orig[RunOf(first + k - 1)]) THEN << >>
                             ELSE <<ClusterAt(first + k - 1)>>])

\* Where byte x comes from: a cluster or, in a compressed file, a unit.
Origin(x) ==
  LET n     == IF IsCompressed THEN Unit ELSE 1
      first == n * (x \div (n * ClusterSize))
      at    == x - first * ClusterSize
      real  == RealIn(first, n)
  IN IF x >= sizes.initialized \/ real = << >> THEN Zero
     ELSE IF Len(real) = n
     THEN Disk(real[1 + at \div ClusterSize], at % ClusterSize)
     ELSE Decompressed(real, at)

\* The runs with a cluster in unit u.
RunsIn(u) ==
  {i \in DOMAIN orig : /\ orig[i].length > 0
                       /\ Start(i) < (u + 1) * Unit
                       /\ u * Unit < Start(i) + orig[i].length}

Units == {u \in 0..SumOfLengths(orig) : (u + 1) * Unit <= SumOfLengths(orig)}

\* A list as NTFS writes it: whole units, in each of which the holes, one run
\* of them, are at the end, and no hole without a length.
WellFormed ==
  IF ~ IsCompressed
  THEN flags # {} \/ \A i \in 2..Len(orig) : ~ IsHole(orig[i])
  ELSE /\ SumOfLengths(orig) % Unit = 0
       /\ \A i \in DOMAIN orig :
            IsHole(orig[i]) => /\ orig[i].length > 0
                               /\ i < Len(orig) => ~ IsHole(orig[i + 1])
       /\ \A u \in Units : \A i, j \in RunsIn(u) : i < j => ~ IsHole(orig[i])

\* The shapes that the comments above consumeRuns describe: a unit lies in
\* one run, or is real runs and then a hole that ends with the unit.
AsDocumented ==
  /\ WellFormed
  /\ IsCompressed =>
       \A u \in Units :
         \/ \A i, j \in RunsIn(u) : i = j
         \/ \E i \in RunsIn(u) : /\ IsHole(orig[i])
                                /\ Start(i) + orig[i].length = (u + 1) * Unit

-----------------------------------------------------------------------------
\* Of a runlist of a documented shape, every byte of the stream comes from
\* where the runlist says: no unit is skipped, shifted, or decompressed from
\* other clusters than its own.
EveryByteFromItsPlace ==
  Mapped /\ AsDocumented => \A x \in Bytes : ReadStream(x) = Origin(x)

\* What is in a range that is not sparse is not a zero of a hole.
DataIsIn(range) ==
  range.sparse \/ \A x \in range.offset..(End(range) - 1) : ReadStream(x) # Zero

\* Ranges end to end from 0 to the size.
Partition(rs) ==
  /\ \A i \in DOMAIN rs :
       /\ rs[i].length >= 0
       /\ rs[i].offset = (IF i = 1 THEN 0 ELSE End(rs[i - 1]))
  /\ sizes.actual > 0 => rs # << >> /\ End(Last(rs)) = sizes.actual

\* The readers of a stream lie one after the other from its start, and its
\* ranges end to end from 0 to its size, whatever the runlist, so that the
\* linear search of ReadAt finds the only reader of a byte and a caller who
\* walks the ranges visits each byte once.  What is not in a sparse range is
\* data: the USN journal looks for records only there.
RangesPartition ==
  /\ \A i \in DOMAIN readers :
       readers[i].fileOffset = LengthOfFirst(i - 1, readers)
  /\ Mapped => \A rs \in {Ranges} : Partition(rs) /\ \A range \in ToSet(rs) : DataIsIn(range)

\* The loops end on every runlist: a run that is cut and considered again has
\* become shorter.
MappingEnds == <>Mapped

-----------------------------------------------------------------------------
\* attribute.go:450, "consumeRuns consumes whole compression units from the
\* runs": every unit of a well-formed runlist gets a reader.
EveryUnitIsMapped ==
  Mapped /\ IsCompressed /\ WellFormed => file_offset = SumOfLengths(orig)
=============================================================================
