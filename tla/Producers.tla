------------------------------ MODULE Producers ------------------------------
(***************************************************************************)
(* ParseMFT and Carver: one job of either, with its consumer, and a caller *)
(* that may cancel it.                                                     *)
(***************************************************************************)
EXTENDS ParseMFT, Carver

CONSTANTS
  Tables,    \* the $MFT files and first entries to parse
  Volumes    \* the volumes to carve

ASSUME NoneAssumption ==
  /\ None \notin MFTEntries /\ None \notin Rows
  /\ None \notin Units /\ None \notin Items

ASSUME TablesAssumption ==
  \A t \in Tables : t.start \in Nat /\ t.entries \in Seq(MFTEntries \cup {None})

\* A volume does not end within a record, the unit of a record with its time is
\* there if its first one is, and what was recorded is of the volume.
ASSUME VolumesAssumption ==
  \A v \in Volumes :
    /\ v.disk \in Seq(Units \cup {None})
    /\ v.size \in Nat
    /\ \A b \in DOMAIN v.files : b \in Nat /\ v.files[b] \in 0..(Len(v.disk) - b)
    /\ \A k \in DOMAIN v.disk : IsPart(v.disk[k], 0) =>
         /\ k + v.disk[k].record.length - 1 \in DOMAIN v.disk
         /\ IsPart(v.disk[k + 2], 2)

Init ==
  \/ \E t \in Tables :
       Start([kind |-> "mft", entries |-> t.entries, start |-> t.start],
             MFTStart(t.entries, t.start))
  \/ \E v \in Volumes :
       Start([kind |-> "carve", disk |-> v.disk, size |-> v.size, bad |-> v.bad,
              files |-> v.files], CarveStart)

ProducerStep ==
  ParseEntry \/ NextAds \/ ReadBuffer \/ BufferIsRead \/ Scan \/ CancelSend

ConsumerStep == Receive \/ LookAtRow \/ LookAtRecord

Next == ProducerStep \/ ConsumerStep \/ Cancel

Spec == Init /\ [][Next]_vars

\* The two goroutines are scheduled, and the range loop of the consumer goes
\* back to the channel; once it has cancelled, it may or may not.  Nothing makes
\* a caller cancel.
Fairness ==
  /\ WF_vars(ProducerStep)
  /\ WF_vars(LookAtRow \/ LookAtRecord)
  /\ WF_vars(~cancelled /\ Receive)

FairSpec == Spec /\ Fairness

-----------------------------------------------------------------------------
(* Properties *)

Waiting(slot) == IF slot = None THEN << >> ELSE <<slot>>

\* What has been sent, in order.
SeenItems ==
  [k \in DOMAIN seen |-> IF Sweeps("mft") THEN seen[k].row ELSE seen[k].item]
Sent == SeenItems \o Waiting(held) \o Waiting(offered)

\* The channel carries what its sweep makes, one item at each end at most, and
\* what is being looked at was taken from the sweep's own job.
TypeOK ==
  /\ pc \in {"next", "ads", "read", "scan", "done"}
  /\ pc = "ads" => Sweeps("mft")
  /\ pc = "done" => offered = None
  /\ Sweeps("mft") => reg.id \in Nat /\ (reg.id = job.start \/ reg.id <= Len(job.entries) + 1)
  /\ Sweeps("carve") => reg.j <= BufferSize /\ reg.buffer.base <= reg.i
  /\ cancelled \in BOOLEAN

\* The rows an entry must have: its own, and one with
\* the name of each piece of an alternate stream.
RowsOf(id) ==
  LET entry == job.entries[id + 1]
      RowOfPiece(d) == IF d.name = NoName THEN << >> ELSE <<[entry |-> id, ads |-> d.name]>>
  IN IF entry = None \/ entry.names = << >> \/ ~entry.si THEN << >>
     ELSE <<[entry |-> id, ads |-> NoName]>>
            \o FlattenSeq([k \in DOMAIN entry.data |-> RowOfPiece(entry.data[k])])

Wanted ==
  FlattenSeq([k \in 1..(Len(job.entries) - job.start) |-> RowsOf(job.start + k - 1)])

Agrees(row, wanted) ==
  \A field \in DOMAIN wanted : row[field] = wanted[field]

\* ParseMFT: the rows that are sent are the rows of the usable entries from
\* start_entry on, each once and in order, whatever entries between them cannot
\* be read, and none is missing when the channel is closed without a
\* cancellation.  A row is looked at when the sweep is already somewhere else,
\* with its neighbours made from copies of it: its path and its names still are
\* those of its own entry, and end in the stream exactly if the row is of one.
RowsAreTheEntries == Sweeps("mft") =>
  /\ Len(Sent) <= Len(Wanted)
  /\ \A k \in DOMAIN Sent : Agrees(Sent[k], Wanted[k])
  /\ pc = "done" /\ ~cancelled => Len(Sent) = Len(Wanted)
  /\ \A k \in DOMAIN seen :
       LET row == seen[k].row
           Shown(name) == IF row.ads = NoName THEN <<name>> ELSE <<name, row.ads>>
           names == job.entries[row.entry + 1].names
       IN /\ seen[k].path = <<<<"root">>, Shown(names[1])>>
          /\ row.names = [m \in DOMAIN names |-> Shown(names[m])]

-----------------------------------------------------------------------------

Starts == {k \in DOMAIN job.disk : IsPart(job.disk[k], 0)}

\* The bases of the buffers that have been read.
Bases == {b \in 0..reg.buffer.base : b % StepSize = 0}

\* What a recorded page hides: the rest of the buffer behind it.
Hidden ==
  UNION {(b + job.files[b])..(b + BufferSize - 1) : b \in DOMAIN job.files \cap Bases}

\* CarveUSN: whatever buffer a record begins in and whatever buffers it is
\* split between, once the scan is a cluster behind its end it has been sent
\* whole, unless a page of the recorder hides a part of it.  Records come in the
\* order of the disk, but for those that begin in the cluster two buffers share,
\* which may come a second time.
CarvedSoFar == Sweeps("carve") =>
  /\ pc \in {"next", "done"} /\ ~cancelled /\ reg.i > 0 =>
       \A k \in Starts :
         LET first == k - 1
             last == k - 2 + job.disk[k].record.length
         IN (last < reg.i + Cluster /\ first..last \cap Hidden = {}) =>
              \E n \in DOMAIN Sent : Sent[n].at = first /\ Sent[n].whole
  /\ \A m, n \in DOMAIN Sent : m < n =>
       /\ Sent[n].at <= Sent[m].at => Sent[m].at - Sent[n].at < Cluster
       /\ Sent[n].at = Sent[m].at => Sent[n].pos < Cluster

\* What the consumer sees of a record is what testUSNEntry has checked
\* ("We check more carefully below", usn.go:412).
RecordsStayTrue == Sweeps("carve") =>
  \A k \in DOMAIN seen :
    LET item == seen[k].item
    IN \A u \in DOMAIN seen[k].units :
         item.pos + u < BufferSize => seen[k].units[u] = [record |-> item.record, part |-> u]

\* A job comes to its end and closes the channel, however slow the consumer is
\* and whenever the caller cancels.
Ends == <>(pc = "done")
=============================================================================
