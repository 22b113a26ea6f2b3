-------------------------------- MODULE Carver -------------------------------
(***************************************************************************)
(* CarveUSN of parser/usn.go: USN records anywhere on a disk, which is     *)
(* read in overlapping buffers; with `carve --record`, through the         *)
(* Recorder of parser/recorder.go.  A unit is 16 bytes, the alignment of a *)
(* record; a unit of the disk is None or [record, part], the part-th unit  *)
(* of a record.                                                            *)
(*                                                                         *)
(* A job is [kind |-> "carve", disk, size, bad, files]: the units of the   *)
(* disk, the size of the volume as its boot sector has it, the units that  *)
(* cannot be read, and the files of the recorder: for an offset that a     *)
(* file is named after, how much of it is there.  A record that has been   *)
(* sent keeps no bytes: it points into the buffer.                         *)
(***************************************************************************)
EXTENDS Producer

CONSTANTS
  Cluster,          \* ClusterSize
  BufferClusters    \* the clusters of a buffer, 1024 in the code

ASSUME CarverAssumption ==
  Cluster \in Nat \ {0} /\ BufferClusters \in Nat \ {0, 1}

\* A record has its time in its third unit, and a name that ends within 510
\* bytes (testUSNEntry: FileNameOffset and FileNameLength are at most 255), so
\* that it is not longer than the smallest cluster and a unit.
Records == [name : Nat, length : 3..(Cluster + 1)]

Units == [record : Records, part : Nat]

Items == [record : Records, at : Nat, pos : Nat, whole : BOOLEAN]

BufferSize == BufferClusters * Cluster

\* Mutant of StepSize: buffers that share nothing.
StepWhole == BufferSize

\* How far a buffer is behind the one before it: an entry may be split.
StepSize == BufferSize - Cluster

\* What is in the buffer: a part of the disk, filled up with zeros.
Blank == [base |-> 0, length |-> 0]

CarveStart == [i |-> 0, j |-> 0, old |-> Blank, buffer |-> Blank]

Least(a, b) == IF a < b THEN a ELSE b

\* Recorder.ReadAt: what was recorded at this offset, however little it is,
\* or else what the disk has.
LengthAt(offset) ==
  IF offset \in DOMAIN job.files THEN Least(job.files[offset], BufferSize)
  ELSE IF offset < Len(job.disk) THEN Least(Len(job.disk) - offset, BufferSize)
  ELSE 0

Readable(offset) ==
  offset \in DOMAIN job.files
    \/ job.bad \cap (offset + 1)..(offset + LengthAt(offset)) = {}

\* The unit at a place of the buffer: the paged reader pads what a large read is
\* short of.
Unit(buffer, k) == IF k < buffer.length THEN job.disk[buffer.base + k + 1] ELSE None
InBuffer(k) == Unit(reg.buffer, k)

IsPart(unit, part) == unit # None /\ unit.part = part

\* testUSNEntry: the version and the length are in the first unit, the time is
\* in the third one.  The rest of the record need not be in the buffer.
Accepted(j) ==
  /\ j < BufferSize - 1
  /\ IsPart(InBuffer(j), 0)
  /\ j + 2 < BufferSize
  /\ IsPart(InBuffer(j + 2), 2)

Item(j) ==
  LET record == InBuffer(j).record
  IN [record |-> record, at |-> reg.buffer.base + j, pos |-> j,
      whole |-> j + record.length <= BufferSize]

\* The head of the loop, up to the read into the one buffer there is.
ReadBuffer ==
  /\ At("next") /\ Sweeps("carve")
  /\ LET n == LengthAt(reg.i)
     IN IF reg.i >= job.size \/ cancelled \/ ~Readable(reg.i) \/ n = 0 THEN Done
        ELSE GoTo("read", [i |-> reg.i + StepSize, j |-> 0, old |-> reg.buffer,
                              buffer |-> [base |-> reg.i, length |-> n]])
  /\ UNCHANGED job

BufferIsRead ==
  /\ At("read") /\ Sweeps("carve")
  /\ GoTo("scan", [reg EXCEPT !.old = reg.buffer])
  /\ UNCHANGED job

\* The next record in the buffer.
Scan ==
  /\ At("scan") /\ Sweeps("carve")
  /\ LET found == {j \in reg.j..(BufferSize - 1) : Accepted(j)}
         j == CHOOSE j \in found : \A k \in found : j <= k
     IN IF found = {} THEN GoTo("next", reg)
        ELSE Offer(Item(j), "scan", [reg EXCEPT !.j = j + 1])
  /\ UNCHANGED job

\* The consumer prints the fields of a record, which it reads from the buffer
\* where the record was: while the buffer is read into, each unit may be the
\* old or the new one.
LookAtRecord ==
  /\ Sweeps("carve") /\ held # None
  /\ \E of \in [0..(held.record.length - 1) -> {reg.old, reg.buffer}] :
       Look([item |-> held, units |-> [k \in DOMAIN of |-> Unit(of[k], held.pos + k)]])
=============================================================================
