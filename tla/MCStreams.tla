------------------------------ MODULE MCStreams ------------------------------
(* Streams for TLC.  Entry 0 is the MFT and entry 1 a file; entry 2 holds   *)
(* what is cut off from the MFT, 3 and 4 what is cut off from the file.     *)
EXTENDS Streams, TLC

Piece(type, name, start, end) ==
  [type |-> type, name |-> name, resident |-> FALSE, start |-> start,
   end |-> end, list |-> << >>]

Small(type, name) ==
  [type |-> type, name |-> name, resident |-> TRUE, start |-> 0, end |-> 0,
   list |-> << >>]

\* An attribute gets the id of its place in the entry: ids are unique in an
\* entry, and not in a file.
WithIds(attrs) ==
  [i \in DOMAIN attrs |->
     [type |-> attrs[i].type, id |-> i, name |-> attrs[i].name,
      resident |-> attrs[i].resident, start |-> attrs[i].start,
      end |-> attrs[i].end, list |-> attrs[i].list]]

Item(entry, type, id) ==
  [entry |-> entry, type |-> type, id |-> id, length |-> 1]

ListAttr(items) == [Small("LIST", "") EXCEPT !.list = items]

At(n, placed) ==
  SelectSeq([i \in DOMAIN placed |-> placed[i].attr],
            LAMBDA a : \E i \in DOMAIN placed : placed[i] = [attr |-> a, at |-> n])

\* The entry n with attributes spread over base and others, and the list that
\* names them if there is more than one entry; attributes are in the order of
\* their types, names and VCNs.
EntryOf(n, base, placed) ==
  LET own(m) == WithIds(IF m = base /\ \E i \in DOMAIN placed : placed[i].at # base
                        THEN <<Small("LIST", "")>> \o At(m, placed)
                        ELSE At(m, placed))
      item(i) ==
        LET m == placed[i].at
            k == CHOOSE k \in DOMAIN own(m) :
                   own(m)[k] = [placed[i].attr @@ [id |-> k] EXCEPT !.list = << >>]
        IN Item(m, own(m)[k].type, k)
  IN [number |-> n,
      attrs |-> IF n = base /\ own(n) # << >> /\ own(n)[1].type = "LIST"
                THEN [own(n) EXCEPT ![1].list = [i \in DOMAIN placed |-> item(i)]]
                ELSE own(n)]

VolumeOf(mft, file) ==
  [n \in 0..4 |-> IF n \in {0, 2} THEN EntryOf(n, 0, mft) ELSE EntryOf(n, 1, file)]

Placed(type, name, start, end, n) ==
  IF n = None THEN << >>
  ELSE <<[attr |-> Piece(type, name, start, end), at |-> n]>>

MFTs ==
  {Placed("DATA", "", 0, 4, 0)} \cup
  {Placed("DATA", "", 0, p, 0) \o Placed("DATA", "", p + 1, 4, 2) : p \in 1..3} \cup
  {Placed("DATA", "", 0, 2, 0) \o Placed("DATA", "", 3, 3, 2)
     \o Placed("DATA", "", 4, 4, 2)}

Files ==
  {Placed("DATA", "", 0, 1, a) \o Placed("DATA", "", 2, 3, b)
   \o Placed("DATA", "", 4, 4, c) \o Placed("DATA", "s", 0, 1, d)
   \o Placed("DATA", "s", 2, 2, e) \o Placed("BITMAP", "", 0, 1, f) :
     a \in {1, 3}, b \in {None, 3, 4}, c \in {None, 4},
     d \in {None, 1, 3, 4}, e \in {None, 3}, f \in {None, 1}}

Data(start, end) == Piece("DATA", "", start, end)

\* A file that one attribute, or a damaged list, makes up.
OddFiles == {
  [base |-> <<Small("DATA", "")>>, other |-> << >>],
  [base |-> <<Small("DATA", "s"), Data(0, 1)>>, other |-> << >>],
  [base |-> <<Data(0, 0), Data(1, 2)>>, other |-> << >>],
  [base |-> <<Data(0, 1), Data(2, 7)>>, other |-> << >>],
  [base |-> <<ListAttr(<<Item(1, "DATA", 2), Item(3, "DATA", 2),
                         Item(3, "DATA", 1)>>), Data(0, 1)>>,
   other |-> <<Data(2, 3)>>],
  [base |-> <<ListAttr(<<[Item(1, "DATA", 2) EXCEPT !.length = 0],
                         Item(3, "DATA", 1)>>), Data(0, 1)>>,
   other |-> <<Data(2, 3)>>],
  [base |-> <<ListAttr(<<Item(3, "LIST", 1), Item(3, "DATA", 2)>>), Data(0, 1)>>,
   other |-> <<ListAttr(<<Item(1, "LIST", 1)>>), Data(2, 3)>>] }

OddVolume(file) ==
  LET mft == Placed("DATA", "", 0, 4, 0)
  IN [n \in 0..4 |->
        CASE n = 0 -> EntryOf(0, 0, mft)
          [] n = 1 -> [number |-> 1, attrs |-> WithIds(file.base)]
          [] n = 2 -> None
          [] n = 3 -> [number |-> 3, attrs |-> WithIds(file.other)]
          [] n = 4 -> None]

MCVolumes == {VolumeOf(m, f) : m \in MFTs, f \in Files}
             \cup {OddVolume(f) : f \in OddFiles}

\* Inodes as a user gives them, with less and with more in them.
MCQueries ==
  {ParseMFTId([components |-> c, name |-> n]) : c \in {<<1>>, <<1, "DATA", 2>>}, n \in {None, "s"}}
  \cup {ParseMFTId([components |-> c, name |-> None]) :
          c \in {<<0, "DATA">>, <<0, "BITMAP">>, <<1, "BITMAP">>}}
=============================================================================
