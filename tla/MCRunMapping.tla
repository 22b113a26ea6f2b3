---------------------------- MODULE MCRunMapping ----------------------------
(* RunMapping for TLC.  The real runs of a list are on clusters 100, 200,   *)
(* ... of the disk, in the order of the list, and a hole has the offset of  *)
(* the run before it, as RunList computes it.                               *)
EXTENDS RunMapping

CONSTANTS MaxRuns, Lengths

Place(kinds, i) == 100 * Cardinality({j \in 1..i : kinds[j] = "real"})

ListOf(kinds, lengths) ==
  [i \in DOMAIN kinds |->
     [offset |-> Place(kinds, i),
      delta  |-> IF kinds[i] = "hole" THEN 0 ELSE 100,
      length |-> lengths[i]]]

\* Every list of at most MaxRuns runs: most are no list of a compressed file.
AnyLists ==
  UNION {{ListOf(kinds, lengths) :
            kinds \in [1..n -> {"real", "hole"}], lengths \in [1..n -> Lengths]} :
         n \in 1..MaxRuns}

\* Lists of whole units, each of a shape that NTFS writes, as <<kind, length>>.
Shapes == {
  << <<"real", 4>> >>, << <<"real", 8>> >>, << <<"hole", 4>> >>,
  << <<"real", 1>>, <<"hole", 3>> >>,
  << <<"real", 5>>, <<"hole", 3>> >>,
  << <<"real", 1>>, <<"real", 2>>, <<"hole", 1>> >>,
  << <<"real", 0>> >> }

UnitLists ==
  {ListOf([i \in DOMAIN l |-> l[i][1]], [i \in DOMAIN l |-> l[i][2]]) :
     l \in {s \o t \o u : s, t, u \in Shapes}}

MCRunLists == AnyLists \cup UnitLists

MCFlags == SUBSET {"compressed", "sparse"}
=============================================================================
