------------------------------ MODULE ParseMFT -------------------------------
(***************************************************************************)
(* ParseMFTFileWithOptions of parser/mft.go: the entries of an $MFT file   *)
(* in order, one row for each that can be read and has a name and standard *)
(* information, and behind it one row for each named piece of its data.    *)
(*                                                                         *)
(* A job is [kind |-> "mft", entries, start]: a sequence of entries, the   *)
(* first one number 0, and start_entry.  An entry is None if GetMFT fails, *)
(* or [names, si, data]: its file names as FILE_NAME attributes have them, *)
(* whether it has STANDARD_INFORMATION, and its DATA attributes in order,  *)
(* as [name, size].  A row keeps its names and finds its path when it is   *)
(* looked at.                                                              *)
(***************************************************************************)
EXTENDS Producer

\* The name of an attribute that has none.
NoName == ""

Names == STRING \cup {NoName}

MFTEntries ==
  [names : Seq(Names), si : BOOLEAN, data : Seq([name : Names, size : Nat])]

Rows ==
  [entry : Nat, inode : [id : Nat \cup {None}, ads : Names], names : Seq(Seq(Names)),
   ads : Names, size : Nat, hasAds : BOOLEAN]

MFTStart(entries, start) == [id |-> start, ads |-> << >>, row |-> None]

\* Mutant of LastId: further than the file goes.
LastIdLater == Len(job.entries) + 1

\* size / record_size: the number behind the last whole record.
LastId == Len(job.entries)

EntryAt(id) == IF id < Len(job.entries) THEN job.entries[id + 1] ELSE None

\* The first size that is not zero.
FileSizeOf(data) ==
  LET sized == {k \in DOMAIN data : data[k].size # 0}
  IN IF sized = {} THEN 0 ELSE data[CHOOSE k \in sized : \A j \in sized : k <= j].size

\* The attributes of alternate streams, which have names, gathered one by one.
AdsOf(data) ==
  LET ads[n \in 0..Len(data)] ==
        IF n = 0 THEN << >>
        ELSE IF data[n].name # NoName THEN Append(ads[n - 1], data[n]) ELSE ads[n - 1]
  IN ads[Len(data)]

\* The row of an entry.
RowOf(id, entry) ==
  [entry |-> id, inode |-> [id |-> id, ads |-> NoName],
   names |-> [k \in DOMAIN entry.names |-> <<entry.names[k]>>], ads |-> NoName,
   size |-> FileSizeOf(entry.data), hasAds |-> AdsOf(entry.data) # << >>]

\* NTFS_ATTRIBUTE.Size: of the structure, whatever the attribute holds.
AttributeSize == 64

\* Copy, and what is then changed for an alternate stream.  Copy leaves the
\* inode out, to which the name is added.
AdsRow(row, d) ==
  [row EXCEPT !.inode = [id |-> None, ads |-> d.name], !.ads = d.name,
              !.size = AttributeSize,
              !.names = [k \in DOMAIN row.names |-> Append(row.names[k], d.name)]]

Usable(entry) == entry # None /\ entry.names # << >> /\ entry.si

\* Mutant of ParseEntry: the sweep gives up at the first entry it cannot use.
ParseOrStop ==
  /\ At("next") /\ Sweeps("mft")
  /\ LET entry == EntryAt(reg.id)
     IN IF reg.id > LastId \/ ~Usable(entry) THEN Done
        ELSE Offer(RowOf(reg.id, entry), "ads",
                   [id |-> reg.id + 1, ads |-> AdsOf(entry.data), row |-> RowOf(reg.id, entry)])
  /\ UNCHANGED job

\* An iteration of the loop over the entries, up to the send of its row.
ParseEntry ==
  /\ At("next") /\ Sweeps("mft")
  /\ LET entry == EntryAt(reg.id)
     IN IF reg.id > LastId THEN Done
        ELSE IF ~Usable(entry) THEN GoTo("next", [reg EXCEPT !.id = @ + 1])
        ELSE Offer(RowOf(reg.id, entry), "ads",
                   [id |-> reg.id + 1, ads |-> AdsOf(entry.data), row |-> RowOf(reg.id, entry)])
  /\ UNCHANGED job

\* The rows of its alternate streams.
NextAds ==
  /\ At("ads") /\ Sweeps("mft")
  /\ IF reg.ads = << >> THEN GoTo("next", reg)
     ELSE Offer(AdsRow(reg.row, Head(reg.ads)), "ads", [reg EXCEPT !.ads = Tail(@)])
  /\ UNCHANGED job

\* setADS: the name is put behind the last component.
SetAds(components, name) ==
  [k \in DOMAIN components |-> IF k < Len(components) THEN <<components[k]>>
                               ELSE <<components[k], name>>]

\* FullPath of a row: the first path of its entry, which the walk of
\* GetHardLinks finds in the entries themselves, and the stream.
PathOf(row) ==
  LET path == <<"root", EntryAt(row.entry).names[1]>>
  IN IF row.ads = NoName THEN [k \in DOMAIN path |-> <<path[k]>>] ELSE SetAds(path, row.ads)

LookAtRow ==
  /\ Sweeps("mft") /\ held # None
  /\ Look([row |-> held, path |-> PathOf(held)])
=============================================================================
