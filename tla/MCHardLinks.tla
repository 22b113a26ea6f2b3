---------------------------- MODULE MCHardLinks -----------------------------
(* HardLinks for TLC: a file f and two directories a and b, on every volume *)
(* in which f has up to two names, out of long and short ones in the root,  *)
(* in a, in b, and in a directory that a's entry was reused for; a and b    *)
(* are named in the root, in each other or nowhere, and b may be unreadable.*)
EXTENDS Directories, TLC

Fn(name, type, parent, seq) ==
  [name |-> name, type |-> type, parent |-> parent, seq |-> seq]

MCIds == {"f", "a", "b"}

FNames == {Fn("f", "Win32", "root", 1), Fn("f", "Win32", "a", 1),
           Fn("f", "Win32", "a", 2), Fn("g", "Win32", "b", 1),
           Fn("F~1", "DOS", "a", 1), Fn("G~1", "DOS", "root", 1),
           Fn("H", "DOS", "a", 1)}

ALists == {<< >>,
           <<Fn("a", "Win32", "root", 1)>>,
           <<Fn("A~1", "DOS", "root", 1), Fn("a", "Win32", "root", 1)>>,
           <<Fn("a", "Win32", "b", 1), Fn("A~1", "DOS", "b", 1)>>,
           <<Fn("A~1", "DOS", "root", 1), Fn("A~2", "DOS", "root", 1)>>}

BLists == {<<Fn("b", "Win32", "root", 1)>>,
           <<Fn("b", "Win32", "a", 1)>>,
           <<Fn("B~1", "DOS", "root", 1), Fn("b", "Win32", "a", 1)>>}

Data(id, name, start) ==
  [type |-> "DATA", id |-> id, name |-> name, resident |-> FALSE, start |-> start]

Entry(names, index, attrs) ==
  [seq |-> 1, names |-> names, si |-> TRUE, index |-> index, attrs |-> attrs]

File(names) == Entry(names, None, <<Data(3, "", 0), Data(3, "", 2), Data(3, "s", 0), Data(4, "t", 0)>>)

Folder(names) == Entry(names, 6, <<Data(7, "x", 0)>>)

OldA == [seq |-> 2, names |-> <<Fn("olda", "Win32", "root", 1)>>]

MCVolumes ==
  {[mft |-> [id \in MCIds |-> CASE id = "f" -> File(fs)
                               [] id = "a" -> Folder(as)
                               [] id = "b" -> bs],
    preloaded |-> pre] :
     fs \in {<< >>} \cup {<<x>> : x \in FNames} \cup (FNames \X FNames),
     as \in ALists,
     bs \in {Folder(l) : l \in BLists} \cup {None},
     pre \in {<< >>, (<<"a", 2>> :> OldA)}}

\* A directory a with two short names, one of them in b, and b in a.
MCReordered ==
  {[mft |-> [id \in MCIds |-> CASE id = "f" -> File(<<fn>>)
                               [] id = "a" -> Folder(as)
                               [] id = "b" -> Folder(bs)],
    preloaded |-> << >>] :
     fn \in {x \in FNames : x.type = "Win32"},
     as \in {<<Fn("A~1", "DOS", x, 1), Fn("A~2", "DOS", y, 1)>> : x, y \in {"root", "b"}},
     bs \in BLists}

\* The names that are not in lower case.
Capitals == ("F~1" :> "f~1" @@ "G~1" :> "g~1" @@ "A~1" :> "a~1" @@ "A~2" :> "a~2"
             @@ "B~1" :> "b~1" @@ "H" :> "h")
MCLower ==
  Capitals @@ [n \in {"f", "g", "h", "a", "b", "olda"} \cup {Capitals[x] : x \in DOMAIN Capitals} |-> n]
MCTilded == {n \in DOMAIN Capitals : n # "H"}

MCStaleNode == [magic |-> 1, tails |-> <<1, 2>>, 
                records |-> <<[name |-> "f", entry |-> "a"],
                              [name |-> "a", entry |-> "f"]>>]

MCPrefix == <<"C:">>
=============================================================================
