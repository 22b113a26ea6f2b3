----------------------------- MODULE Directories -----------------------------
(***************************************************************************)
(* The way down: directory indexes, Open and Stat of parser/mft.go and     *)
(* parser/easy.go, on the volumes on which HardLinks finds the way up.     *)
(* An entry also has si, whether it has STANDARD_INFORMATION; index, the   *)
(* id of its last index attribute, or None; and attrs, its DATA attributes *)
(* in the order of EnumerateAttributes.                                    *)
(***************************************************************************)
EXTENDS HardLinks

CONSTANTS
  Wildcard,     \* any stream
  Lower,        \* a name -> the name in lower case
  Tilded,       \* the names that contain a ~
  StaleNode     \* an index block that has been freed

INSTANCE Attributes

-----------------------------------------------------------------------------
(* Indexes *)

Readable == {id \in Ids : mft[id] # None}
Folders == {Root} \cup {id \in Readable : mft[id].index # None}

\* A name in a directory of an MFT m, and not in what its entry was before.
IsIn(fn, d, m) == fn.parent = d /\ (d = Root \/ fn.seq = m[d].seq)

\* The records of one entry in a directory; those of what cannot be read stay in
\* the root.
RecordsOf(id, d) ==
  IF id \notin Readable THEN IF d = Root THEN <<[name |-> id, entry |-> id]>> ELSE << >>
  ELSE FlattenSeq([k \in DOMAIN mft[id].names |->
         LET fn == mft[id].names[k]
         IN IF IsIn(fn, d, mft) THEN <<[name |-> fn.name, entry |-> id]>> ELSE << >>])

InOrder == SetToSeq(Ids)
IndexOf(d) == FlattenSeq([k \in DOMAIN InOrder |-> RecordsOf(InOrder[k], d)])

\* INDEX_ROOT has some of the records, INDEX_ALLOCATION the others, behind a
\* block that is not in use.
Nodes(d) ==
  LET index == IndexOf(d)
      half  == Len(index) \div 2
  IN <<[magic |-> 1, tails |-> <<1, 1>>, records |-> SubSeq(index, 1, half)],
       StaleNode,
       [magic |-> 1, tails |-> <<1, 1>>, records |-> SubSeq(index, half + 1, Len(index))]>>

\* Mutant of Decodes: only the first sector is looked at.
DecodesFirst(node) == node.tails[1] = node.magic

\* DecodeSTANDARD_INDEX_HEADER: each sector of the block ends in the magic of
\* its fixup table.
Decodes(node) == \A k \in DOMAIN node.tails : node.tails[k] = node.magic

DirNodes(d) ==
  LET nodes == Nodes(d)
  IN FlattenSeq([k \in DOMAIN nodes |-> IF Decodes(nodes[k]) THEN <<nodes[k]>> ELSE << >>])

\* MFT_ENTRY.Dir; what is no directory has no nodes.
Dir(d) ==
  LET nodes == DirNodes(d)
  IN IF d \in Folders THEN FlattenSeq([k \in DOMAIN nodes |-> nodes[k].records]) ELSE << >>

-----------------------------------------------------------------------------
(* Open *)

\* Mutant of IsNamed: as it is written.
Exactly(name, component) == name = component

\* NTFS is usually case insensitive.
IsNamed(name, component) == Lower[name] = Lower[component]

\* The entry of the first record with that name, None if there is none or it
\* cannot be read.
get_path_in_dir(component, d) ==
  LET records == Dir(d)
      named   == {k \in DOMAIN records : IsNamed(records[k].name, component)}
      entry   == records[Min(named)].entry
  IN IF named = {} \/ entry \notin Readable THEN None ELSE entry

\* Where the first n components of a path lead.
Follow(path, n) ==
  LET at[i \in 0..n] ==
        IF i = 0 THEN Root
        ELSE IF at[i - 1] = None THEN None ELSE get_path_in_dir(path[i], at[i - 1])
  IN at[n]

Open(path) == Follow(path, Len(path))

-----------------------------------------------------------------------------
(* The volumes *)

\* What is above a name is a directory, and no other entry has a name in it that
\* differs only in case.
WellIndexed(m) ==
  \A id \in {x \in Ids : m[x] # None} :
    /\ "index" \in DOMAIN m[id]
    /\ \A fn \in ToSet(m[id].names) :
         /\ fn.name \in DOMAIN Lower
         /\ LET d == fn.parent
            IN d # Root /\ m[d] # None /\ m[d].seq = fn.seq => m[d].index # None
         /\ \A other \in Ids \ {id} :
              IF m[other] = None THEN fn.parent = Root => Lower[other] # Lower[fn.name]
              ELSE \A x \in ToSet(m[other].names) :
                     x.parent = fn.parent /\ (x.parent = Root \/ x.seq = fn.seq)
                       => Lower[x.name] # Lower[fn.name]

\* The streams that begin have names of their own, and the one that has none
\* comes before those that have its id in other entries.
StreamsNamed(attrs) ==
  LET begin == {k \in DOMAIN attrs : CanBegin(attrs[k])}
  IN /\ attrs \in Seq(ToSet(attrs)) /\ None \notin ToSet(attrs)
     /\ \A attr \in ToSet(attrs) : /\ attr.type = "DATA" /\ attr.id # Wildcard
                                   /\ attr.name \notin {Wildcard, None, "$I30"}
     /\ \A k \in begin : \A j \in begin :
          j < k => /\ attrs[j].name # attrs[k].name
                   /\ attrs[j].id = attrs[k].id => attrs[k].name # NoName

\* The short names of a file that has a long one differ from all its others.
NamesDiffer(names) ==
  (\E k \in DOMAIN names : IsLongName(names[k])) =>
    \A k \in DOMAIN names : \A j \in DOMAIN names \ {k} :
      ~ IsLongName(names[k]) => names[j].name # names[k].name

WellNamed(m) ==
  \A id \in {x \in Ids : m[x] # None} :
    /\ {"si", "index", "attrs"} \subseteq DOMAIN m[id]
    /\ StreamsNamed(m[id].attrs)
    /\ NamesDiffer(m[id].names)

ASSUME DirectoriesAssumption ==
  /\ IsFiniteSet(Ids) /\ None \notin Ids \cup {Root}
  /\ \A n \in DOMAIN Lower : Lower[Lower[n]] = Lower[n]
  /\ \E k \in DOMAIN StaleNode.tails : StaleNode.tails[k] # StaleNode.magic
  /\ \A v \in Volumes : WellIndexed(v.mft)

ASSUME ListingAssumption == \A v \in Volumes : WellNamed(v.mft)

-----------------------------------------------------------------------------
(* Stat and ListDir *)

\* What is shown behind the name of a file for one of its streams.
Ads(attr) == IF attr.name \in {NoName, "$I30"} THEN << >> ELSE <<attr.name>>

\* add_extra_names: a short name that does not look like one is listed, too.
WithExtraNames(info, names) ==
  Append(FlattenSeq([k \in DOMAIN names |->
           IF IsLongName(names[k]) \/ names[k].name \in Tilded THEN << >>
           ELSE <<[info EXCEPT !.name = names[k].name]>>]),
         info)

\* Stat: one line for the index and for each stream of data, under the last
\* long name.
Stat(id) ==
  LET entry == mft[id]
      long  == {k \in DOMAIN entry.names : IsLongName(entry.names[k])}
      data  == Listed(id, entry.attrs)
      Line(inode, ads) ==
        WithExtraNames([entry |-> id, inode |-> inode, ads |-> ads,
                        name |-> entry.names[Max(long)].name], entry.names)
  IN IF ~ entry.si \/ long = {} THEN << >>
     ELSE (IF entry.index = None THEN << >>
           ELSE Line([components |-> <<id, "INDEX", entry.index>>, name |-> None], << >>))
          \o FlattenSeq([k \in DOMAIN data |-> Line(data[k].inode, Ads(data[k].attr))])

\* There are records for the long name of a file and for its short one.
EachFile(records) ==
  FlattenSeq([k \in DOMAIN records |->
    IF \E j \in 1..(k - 1) : records[j].entry = records[k].entry THEN << >>
    ELSE <<records[k].entry>>])

ListDir(d) ==
  LET files == EachFile(Dir(d))
  IN FlattenSeq([k \in DOMAIN files |->
                   IF files[k] \in Readable THEN Stat(files[k]) ELSE << >>])

\* What GetDataForPath and OpenStream of a parsed inode select.
DataForPath(d, name, ads) ==
  LET id == get_path_in_dir(name, d)
  IN IF id = None THEN None
     ELSE selectAttribute(mft[id].attrs,
            [type |-> "DATA", id |-> Wildcard, name |-> IF ads = << >> THEN Wildcard ELSE ads[1]])

DataForInode(inode) ==
  LET q == ParseMFTId(inode) IN selectAttribute(mft[q.entry].attrs, q)

-----------------------------------------------------------------------------
(* Properties *)

IsError(path) == "<Err>" \in ToSet(path)

\* The way up and the way down agree: each path that GetHardLinks returns
\* without an error, whichever directories and names it goes through, is
\* opened by Open and leads to the entry, also when it is written in another
\* case.
PathsOpen ==
  call.pc = "done" /\ call.id.from = "mft" /\ preloaded = << >> /\ ~ Overflowed =>
    \A path \in Found :
      LET down == SubSeq(path, Len(Prefix) + 1, Len(path))
      IN ~ IsError(path) =>
           /\ Open(down) = call.id.id
           /\ Open([k \in DOMAIN down |-> Lower[down[k]]]) = call.id.id

\* The names of the entry are all in one directory.
OnlyIn(id, d) == \A fn \in ToSet(mft[id].names) : IsIn(fn, d, mft)

\* What ListDir prints can be opened: the name of a line, in that directory,
\* and its inode lead to the same stream of the same file, if the file has no
\* name elsewhere (Stat takes the last one, wherever it is).  No line comes
\* twice, however many names a file has in the directory, and no file with a
\* long name is missing.
LinesOpen ==
  calls = 0 => \A d \in Folders :
    LET lines == ListDir(d)
    IN /\ IsInjective(lines)
       /\ \A r \in ToSet(IndexOf(d)) :
            r.entry \in Readable /\ Stat(r.entry) # << >> =>
              \E line \in ToSet(lines) : line.entry = r.entry
       /\ \A line \in {x \in ToSet(lines) : OnlyIn(x.entry, d)} :
            /\ get_path_in_dir(line.name, d) = line.entry
            /\ line.inode.components[2] = "DATA" =>
                 /\ DataForInode(line.inode) # None
                 /\ DataForInode(line.inode) = DataForPath(d, line.name, line.ads)
=============================================================================
