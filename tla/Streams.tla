------------------------------- MODULE Streams -------------------------------
(***************************************************************************)
(* From the boot sector to an open stream: BootstrapMFT of parser/boot.go, *)
(* EnumerateAttributes of parser/mft.go, the attribute lists of            *)
(* parser/attribute.go, and the choice of a stream's attributes in         *)
(* parser/easy.go.                                                         *)
(*                                                                         *)
(* A stream may be cut into pieces (VCN attributes) that lie in several    *)
(* MFT entries, named by the attribute list of the first one.  The MFT is  *)
(* itself such a stream, so it is read through a part of itself before all *)
(* of it is known.  An entry takes one cluster here: entry n is in VCN n   *)
(* of $MFT.  A walk over the attributes of an entry is one step for each   *)
(* attribute and each item of its list.                                    *)
(***************************************************************************)
EXTENDS Attributes, FiniteSets

CONSTANTS
  LastEntry,    \* the last entry of the MFT
  Volumes,      \* the volumes considered: entry number -> entry, or None
  Queries,      \* the streams asked for: [entry, type, id, name]
  MaxVCNs,      \* 20 in the code: pieces joined behind the first one
  VcnModulus    \* 2^64 in the code: VCNs are unsigned

ASSUME BoundsAssumption ==
  /\ LastEntry \in Nat
  /\ MaxVCNs \in Nat
  /\ VcnModulus \in Nat \ {0}

VARIABLES
  volume,       \* the entries on the disk: [number, attrs]
  reader,       \* ntfs.MFTReader: the clusters it reads, in order
  pc,           \* where BootstrapMFT or OpenStream is
  walk,         \* the walk of EnumerateAttributes over an entry
  query,        \* the stream asked for
  vcns          \* the attributes GetAllVCNs has collected

vars == <<volume, reader, pc, walk, query, vcns>>

-----------------------------------------------------------------------------
(* Entries and attributes *)

\* The clusters of a piece, each known by the stream it belongs to.
Clusters(attr) ==
  [i \in 1..(attr.end - attr.start + 1) |->
     [type |-> attr.type, name |-> attr.name, vcn |-> attr.start + i - 1]]

Joined(attrs) == FlattenSeq([i \in DOMAIN attrs |-> Clusters(attrs[i])])

\* Mutant of SortedVCNs: the order they were found in.
UnsortedVCNs(attrs) == {attrs}

\* joinAllVCNs sorts by the first VCN; sort.Slice is not stable.
SortedVCNs(attrs) ==
  LET n == Len(attrs)
  IN {s \in {[i \in 1..n |-> attrs[o[i]]] :
               o \in {o \in [1..n -> 1..n] : IsInjective(o)}} :
        \A i \in 1..(n - 1) : s[i].start <= s[i + 1].start}

\* The entry read and fixed up at the place of entry n in some clusters; None
\* if they end before, or what is there is not an entry.
EntryIn(clusters, n) ==
  IF n + 1 \notin DOMAIN clusters THEN None
  ELSE LET c == clusters[n + 1]
       IN IF c.type = "DATA" /\ c.name = "" /\ c.vcn \in DOMAIN volume
          THEN volume[c.vcn] ELSE None

GetMFT(n) == EntryIn(reader, n)

\* GetDirectAttribute: the first attribute of the entry itself with that type
\* and id.  Lists are not followed.
GetDirectAttribute(entry, type, id) ==
  LET found == SelectSeq(entry.attrs, LAMBDA a : a.type = type /\ a.id = id)
  IN IF found = << >> THEN None ELSE found[1]

\* ATTRIBUTE_LIST_ENTRY.GetAttribute
GetAttribute(item) ==
  IF GetMFT(item.entry) = None THEN None
  ELSE GetDirectAttribute(GetMFT(item.entry), item.type, item.id)

-----------------------------------------------------------------------------
(* EnumerateAttributes *)

WalkOf(entry) == [entry |-> entry, i |-> 1, k |-> 0, found |-> << >>]

Attrs == walk.entry.attrs

Walking == pc \in {"first", "second", "walking"}

Walked == Walking /\ walk.k = 0 /\ walk.i > Len(Attrs)

NextAttribute ==
  /\ Walking
  /\ walk.k = 0
  /\ walk.i <= Len(Attrs)
  /\ walk' = IF Attrs[walk.i].type = "LIST" THEN [walk EXCEPT !.k = 1]
             ELSE [walk EXCEPT !.i = @ + 1, !.found = Append(@, Attrs[walk.i])]
  /\ UNCHANGED <<volume, reader, pc, query, vcns>>

\* Mutant of EndsList: without the check for an item of no length.
EndsListLate(item, list) == walk.k + item.length > Len(list)

\* The loop of ATTRIBUTE_LIST_ENTRY.Attributes ends behind an item of no
\* length, too.
EndsList(item, list) == item.length = 0 \/ walk.k + item.length > Len(list)

\* One item of the list.  Those of the entry itself are found anyway; the
\* first that cannot be resolved ends the list.  The list comes behind its
\* members.
NextListed ==
  LET attr    == Attrs[walk.i]
      item    == attr.list[walk.k]
      foreign == item.entry # walk.entry.number
      member  == GetAttribute(item)
      found   == IF foreign /\ member # None THEN Append(walk.found, member)
                 ELSE walk.found
  IN /\ Walking
     /\ walk.k > 0
     /\ walk' = IF (foreign /\ member = None) \/ EndsList(item, attr.list)
                THEN [walk EXCEPT !.k = 0, !.i = @ + 1,
                                  !.found = Append(found, attr)]
                ELSE [walk EXCEPT !.k = @ + item.length, !.found = found]
     /\ UNCHANGED <<volume, reader, pc, query, vcns>>

-----------------------------------------------------------------------------
(* BootstrapMFT *)

Init ==
  /\ volume \in Volumes
  /\ reader = << >>
  /\ pc = "boot"
  /\ walk = None
  /\ query = None
  /\ vcns = << >>

\* The first entry is read from the disk, where the boot sector points.
ReadRoot ==
  /\ pc = "boot"
  /\ IF volume[0] = None THEN pc' = "failed" /\ UNCHANGED walk
     ELSE pc' = "first" /\ walk' = WalkOf(volume[0])
  /\ UNCHANGED <<volume, reader, query, vcns>>

DataOf(attrs) == SelectSeq(attrs, LAMBDA a : a.type = "DATA")

\* Mutant of HasList: as if there never were an attribute list.
HasNoList == FALSE

HasList == \E i \in DOMAIN walk.found : walk.found[i].type = "LIST"

\* No member of a list can be read yet.  The last $DATA found is the MFT, or
\* its first piece, through which entry 0 is then read again.
BootFirst ==
  LET data == DataOf(walk.found)
  IN /\ pc = "first"
     /\ Walked
     /\ IF data = << >>
        THEN pc' = "failed" /\ UNCHANGED <<reader, walk>>
        ELSE LET clusters == Clusters(Last(data))
                 root     == EntryIn(clusters, 0)
             IN /\ reader' = clusters
                /\ IF ~ HasList THEN pc' = "ready" /\ UNCHANGED walk
                   ELSE IF root = None THEN pc' = "failed" /\ UNCHANGED walk
                   ELSE pc' = "second" /\ walk' = WalkOf(root)
     /\ UNCHANGED <<volume, query, vcns>>

\* All the pieces of the MFT that were found are joined.
BootSecond ==
  /\ pc = "second"
  /\ Walked
  /\ \E s \in SortedVCNs(DataOf(walk.found)) : reader' = Joined(s)
  /\ pc' = "ready"
  /\ UNCHANGED <<volume, walk, query, vcns>>

-----------------------------------------------------------------------------
(* OpenStream *)

\* Mutant of findNextVCN: of whatever name.
findNextOfAnyName(attrs, last) ==
  LET next == SelectSeq(attrs, LAMBDA a :
                ~ a.resident /\ a.start = (last.end + 1) % VcnModulus)
  IN IF last.end <= last.start \/ next = << >> THEN None ELSE next[1]

\* The piece that begins behind another one and has its name; its type is not
\* compared.  What a resident attribute has for its first VCN is the size and
\* the offset of its content, too large for any VCN.
findNextVCN(attrs, last) ==
  LET next == SelectSeq(attrs, LAMBDA a :
                /\ ~ a.resident
                /\ a.start = (last.end + 1) % VcnModulus
                /\ a.name = last.name)
  IN IF last.end <= last.start \/ next = << >> THEN None ELSE next[1]

\* OpenStream(ntfs, GetMFT(q.entry), q.type, q.id, q.name)
Open(q) ==
  /\ pc \in {"ready", "opened"}
  /\ GetMFT(q.entry) # None
  /\ pc' = "walking"
  /\ query' = q
  /\ walk' = WalkOf(GetMFT(q.entry))
  /\ vcns' = << >>
  /\ UNCHANGED <<volume, reader>>

Select ==
  LET attr == selectAttribute(walk.found, query)
  IN /\ pc = "walking"
     /\ Walked
     /\ IF attr = None THEN pc' = "ready" /\ UNCHANGED vcns
        ELSE /\ pc' = IF attr.resident THEN "opened" ELSE "gather"
             /\ vcns' = <<attr>>
     /\ UNCHANGED <<volume, reader, walk, query>>

\* Mutant of TooMany: one later.
TooManyLate == Len(vcns) > MaxVCNs + 1

TooMany == Len(vcns) > MaxVCNs

\* One turn of the loop of GetAllVCNs, and the sort of joinAllVCNs behind it.
Gather ==
  LET next == findNextVCN(walk.found, Last(vcns))
  IN /\ pc = "gather"
     /\ IF next = None \/ TooMany
        THEN pc' = "opened" /\ vcns' \in SortedVCNs(vcns)
        ELSE pc' = "gather" /\ vcns' = Append(vcns, next)
     /\ UNCHANGED <<volume, reader, walk, query>>

Step ==
  \/ ReadRoot \/ BootFirst \/ BootSecond
  \/ NextAttribute \/ NextListed \/ Select \/ Gather

Next == Step \/ \E q \in Queries : Open(q)

Spec == Init /\ [][Next]_vars /\ WF_vars(Step)

-----------------------------------------------------------------------------
(* What an entry's streams are, by definition. *)

ListItems(entry) ==
  UNION {ToSet(entry.attrs[i].list) : i \in {i \in DOMAIN entry.attrs :
                                               entry.attrs[i].type = "LIST"}}

Resolves(item) ==
  /\ volume[item.entry] # None
  /\ GetDirectAttribute(volume[item.entry], item.type, item.id) # None
  /\ item.length > 0

\* The attributes of an entry, its own and those its list names.
AttributesOf(entry) ==
  ToSet(entry.attrs) \cup
  {GetDirectAttribute(volume[x.entry], x.type, x.id) :
     x \in {x \in ListItems(entry) : Resolves(x)}}

StreamOf(entry, type, name) ==
  {a \in AttributesOf(entry) : a.type = type /\ a.name = name}

\* The pieces begin at VCN 0 and each begins where another one ends; none ends
\* with the last VCN there is, behind which comes 0 again.
Contiguous(pieces) ==
  /\ \A a \in pieces : ~ a.resident /\ a.start <= a.end /\ a.end + 1 < VcnModulus
  /\ \E a \in pieces : a.start = 0
  /\ \A a, b \in pieces : a.start = b.start => a = b
  /\ \A a \in pieces : a.start > 0 =>
       \E b \in pieces : a.start = b.end + 1

\* Every attribute of the entry can be read, through what is known of the MFT.
Readable(entry) ==
  \A x \in ListItems(entry) : Resolves(x) /\ GetMFT(x.entry) # None

\* The streams that can be expected to open: their pieces are contiguous, no
\* more than the code joins and, but for the last one, longer than one
\* cluster, and no stream of another type goes on where one of them ends.
Openable(entry, pieces) ==
  /\ Contiguous(pieces)
  /\ Cardinality(pieces) <= MaxVCNs + 1
  /\ \A a \in pieces :
       a.start < a.end \/ ~ \E b \in pieces : b.start = a.end + 1
  /\ \A a \in pieces, b \in AttributesOf(entry) \ pieces :
       b.name = a.name /\ ~ b.resident => b.start # a.end + 1

MFTPieces == StreamOf(volume[0], "DATA", "")

Booted == pc \in {"ready", "walking", "gather", "opened"}

TypeOK ==
  /\ pc \in {"boot", "first", "second", "ready", "walking", "gather", "opened",
             "failed"}
  /\ walk = None \/ /\ walk.i \in 1..(Len(Attrs) + 1)
                    /\ walk.k > 0 => walk.k \in DOMAIN Attrs[walk.i].list
  /\ query \in Queries \cup {None}
  /\ Len(vcns) <= MaxVCNs + 1

\* What GetMFT returns for n is entry n, while the MFT is put together and
\* also when only a part of it could be: an MFT put together in another order
\* would give one file's entry for another's.
RightEntry ==
  \A n \in 0..LastEntry : GetMFT(n) # None => GetMFT(n).number = n

\* If the entries that hold the pieces of the MFT lie in its first piece, then
\* every entry can be read.
MFTIsWhole ==
  Booted /\ (\A x \in ListItems(volume[0]) :
               /\ Resolves(x)
               /\ \E a \in MFTPieces : a.start = 0 /\ x.entry <= a.end)
    => Len(reader) = LastEntry + 1

\* A stream that is opened is the one asked for, and whole: its clusters in
\* their order, each once, none of another stream, wherever its pieces lie.
StreamIsWhole ==
  pc = "opened" /\ ~ vcns[1].resident =>
    LET entry  == volume[query.entry]
        pieces == StreamOf(entry, query.type, vcns[1].name)
        clusters == Joined(vcns)
    IN /\ query.name # Wildcard => vcns[1].name = query.name
       /\ query.name = Wildcard /\ query.id = Wildcard /\ Readable(entry) =>
            vcns[1].name = "" \/ StreamOf(entry, query.type, "") = {}
       /\ Readable(entry) /\ Openable(entry, pieces) =>
            /\ \A i \in DOMAIN clusters :
                 clusters[i] = [type |-> query.type, name |-> vcns[1].name,
                                vcn |-> i - 1]
            /\ \A a \in pieces : a.end < Len(clusters)

\* Neither a list that names itself, or has an item of no length, nor pieces
\* that come round to the first one keep the parser going.
Settles == Walking \/ pc = "gather" ~> pc \in {"ready", "opened", "failed"}

\* The inodes that Stat and ModelMFTEntry would list for the entry.
Shown == Listed(query.entry, walk.found)

Reopens(k) == selectAttribute(walk.found, ParseMFTId(Shown[k].inode)) = Shown[k].attr

\* Whichever entries the streams of a file lie in: the inode that is listed for
\* a stream, parsed again, opens that stream and no other of the same type and
\* id, unless the stream has no name and such another one was listed before it.
ListedInodesOpen ==
  pc = "walking" /\ Walked =>
    \A k \in DOMAIN Shown :
      \/ Reopens(k)
      \/ /\ Shown[k].attr.name = ""
         /\ \E j \in 1..(k - 1) : /\ Shown[j].attr.type = Shown[k].attr.type
                                 /\ Shown[j].attr.id = Shown[k].attr.id

-----------------------------------------------------------------------------
(* What a comment of the repository says, and the code does not do. *)

\* easy.go:424: "Now collect all attributes with the exact set of type, id and
\* name. These all form part of the same VCN set."
CollectsTheExactSet ==
  pc = "opened" /\ ~ vcns[1].resident =>
    LET pieces == StreamOf(volume[query.entry], query.type, vcns[1].name)
    IN Contiguous(pieces) /\ Cardinality(pieces) <= MaxVCNs =>
         ToSet(vcns) = pieces

\* inode.go:9: "Format an inode unambigously": also the data without a name, when
\* a stream that lies in another entry is found before it.
InodesAreUnambiguous ==
  pc = "walking" /\ Walked => \A k \in DOMAIN Shown : Shown[k].attr.type = "DATA" => Reopens(k)
=============================================================================
