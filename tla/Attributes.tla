------------------------------ MODULE Attributes -----------------------------
(***************************************************************************)
(* How the attributes of an entry are named and found again: the inodes    *)
(* of parser/inode.go, ParseMFTId and selectAttribute of parser/easy.go.   *)
(* An attribute has [type, id, name, resident, start].                     *)
(* Ids are unique in an MFT entry, but not among the attributes of a file, *)
(* which may lie in several.                                               *)
(***************************************************************************)
EXTENDS Integers, Sequences, SequencesExt

CONSTANTS
  Wildcard,     \* any stream: WILDCARD_STREAM_NAME, WILDCARD_STREAM_ID
  None

\* The name of an attribute that has none.
NoName == ""

\* A piece with which a stream can begin; Stat and ModelMFTEntry show no other.
CanBegin(attr) == attr.resident \/ attr.start = 0

\* The attributes selectAttribute looks for, the most wanted first.
Wanted(attr, q) ==
  IF q.id = Wildcard
  THEN IF q.name = Wildcard
       THEN <<attr.name = NoName, TRUE>>
       ELSE <<attr.name = q.name>>
  ELSE <<attr.id = q.id /\ q.name \in {Wildcard, attr.name}>>

selectAttribute(attrs, q) ==
  LET Candidates(n) ==
        {k \in DOMAIN attrs : /\ attrs[k].type = q.type /\ CanBegin(attrs[k])
                              /\ n \in DOMAIN Wanted(attrs[k], q)
                              /\ Wanted(attrs[k], q)[n]}
  IN IF Candidates(1) # {} THEN attrs[Min(Candidates(1))]
     ELSE IF Candidates(2) # {} THEN attrs[Min(Candidates(2))]
     ELSE None

-----------------------------------------------------------------------------
(* Inodes: "5-128-3:name" is [components |-> <<5, 128, 3>>, name |-> name].  *)

\* Mutant of Formatted: the formatter remembers no ids.
NotFormatted(attrs, k) == FALSE

\* Whether the formatter was given the type and the id of attribute k before.
Formatted(attrs, k) ==
  \E j \in 1..(k - 1) :
    CanBegin(attrs[j]) /\ attrs[j].type = attrs[k].type /\ attrs[j].id = attrs[k].id

\* InodeFormatter.Inode, called for each attribute of an entry that is listed.
Inode(entry, attrs, k) ==
  [components |-> <<entry, attrs[k].type, attrs[k].id>>,
   name |-> IF Formatted(attrs, k) /\ attrs[k].name # NoName THEN attrs[k].name ELSE None]

\* What a component is if the inode has none there.
Component(inode, k, default) ==
  IF k \in DOMAIN inode.components THEN inode.components[k] ELSE default

ParseMFTId(inode) ==
  [entry |-> inode.components[1],
   type  |-> Component(inode, 2, "DATA"),
   id    |-> Component(inode, 3, Wildcard),
   name  |-> IF inode.name = None THEN Wildcard ELSE inode.name]

\* The attributes that Stat and ModelMFTEntry list, each with its inode.
Listed(entry, attrs) ==
  FlattenSeq([k \in DOMAIN attrs |->
    IF CanBegin(attrs[k]) THEN <<[attr |-> attrs[k], inode |-> Inode(entry, attrs, k)]>>
    ELSE << >>])
=============================================================================
