----------------------------- MODULE MCProducers -----------------------------
(* Producers for TLC: tables of up to three entries, and disks with one or   *)
(* two records at any place, through buffers of three clusters.              *)
EXTENDS Producers, TLC

Stream(name, size) == [name |-> name, size |-> size]
Entry(names, si, data) == [names |-> names, si |-> si, data |-> data]

MCEntries ==
  {None, Entry(<< >>, TRUE, << >>), Entry(<<"n">>, FALSE, <<Stream("", 1)>>),
   Entry(<<"n", "m">>, TRUE, <<Stream("", 0), Stream("a", 2)>>),
   Entry(<<"m">>, TRUE, <<Stream("a", 3), Stream("b", 4), Stream("b", 5)>>)}

MCTables ==
  {[entries |-> e, start |-> s] : e \in UNION {[1..n -> MCEntries] : n \in 0..3}, s \in 0..1}

\* Records of four or five units, Cluster + 1 being the longest that any
\* overlap holds.
Record(n) == [name |-> n, length |-> n + 3]
Free == 16
Empty == [k \in 1..Free |-> None]
With(disk, record, at) ==
  [k \in DOMAIN disk |->
     IF k \in (at + 1)..(at + record.length)
     THEN [record |-> record, part |-> k - at - 1] ELSE disk[k]]

MCDisks ==
  {With(Empty, Record(2), at) : at \in 0..(Free - 5)}
    \cup {With(With(Empty, Record(1), a), Record(2), b) :
            <<a, b>> \in {<<a, b>> \in (0..7) \X (4..11) : a + 4 <= b}}

MCVolumes ==
  {[disk |-> d, size |-> s, bad |-> b, files |-> f] :
     d \in MCDisks, s \in {12, Free}, b \in {{}, {14}}, 
     f \in {<< >>, (0 :> 2), (0 :> 2 @@ 8 :> 0)}}
=============================================================================
