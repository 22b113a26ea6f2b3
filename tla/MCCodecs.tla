------------------------------ MODULE MCCodecs -------------------------------
(* Codecs for TLC: messages around the places where a width changes, a group *)
(* of flags ends, or a copy runs into itself.                                *)
EXTENDS Codecs, TLC

B(x) == [byte |-> x]
M(d, l) == [distance |-> d, length |-> l]

\* n different bytes, so that a wrong distance shows.
Literals(n) == [k \in 1..n |-> B(k)]

Tails(S, n) == UNION {[1..m -> S] : m \in 0..n}

\* LZNT1: pointers change their layout at 17 and 33 bytes of a chunk, and a tag
\* has eight symbols.
PackedChunks ==
  {[plain |-> FALSE, symbols |-> Literals(n) \o t] :
     n \in {2, 7, 16, 17}, t \in Tails({B(99), M(1, 3), M(2, 17)}, 2)}
PlainChunk == [plain |-> TRUE, bytes |-> <<71, 72, 73>>]
HugeChunk == [plain |-> FALSE, symbols |-> Literals(7) \o <<M(7, 330)>>]

MCChunks ==
  {<<c>> : c \in PackedChunks}
    \cup {<<PlainChunk, c>> : c \in PackedChunks}
    \cup {<<[plain |-> FALSE, symbols |-> Literals(9)], PlainChunk>>, <<HugeChunk>>}

\* Runs: lengths and distances at the limits of a byte and two, holes.
Places == {5, 127, 128, 40000}
MCRunLists ==
  UNION {{[k \in 1..n |-> [place |-> p[k], length |-> l[k]]] :
            p \in [1..n -> Places], l \in [1..n -> {1, 255, 256, 70000}]} : n \in 1..2}
    \cup {<<[place |-> p, length |-> 7], [place |-> p, length |-> 9], [place |-> 1, length |-> 1]>> :
            p \in Places}

\* Plain LZ77: 32 flags to a group; lengths at the limits of the four forms.
MCSymbols ==
  {Literals(n) \o t : n \in {2, 31}, t \in Tails({B(99), M(1, 9), M(2, 10), M(1, 25)}, 3)}
    \cup {Literals(30) \o t : t \in Tails({B(99), M(5, 279), M(1, 24), M(6, 280)}, 2)}
    \cup {<<B(1), M(1, 600)>>}

\* LZ77 and Huffman: the symbols that occur have the longest or the shortest
\* codes of a complete code of 16 symbols.
Chain(symbols, longest) ==
  LET used == {CodeSymbol(symbols[k]) : k \in DOMAIN symbols} \cup {EndSymbol}
      others == (240..255) \ used
      coded == used \cup {s \in others : Cardinality({t \in others : t < s}) < 16 - Cardinality(used)}
      first == IF longest THEN coded \ used ELSE used
      IsBefore(t, s) == IF (t \in first) = (s \in first) THEN t < s ELSE t \in first
  IN [s \in coded |-> Smaller(15, 1 + Cardinality({t \in coded : IsBefore(t, s)}))]

CodedTails == Tails({B(2), EndMark, M(2, 5), M(5, 18), M(4, 300)}, 3)
MCCodedSymbols ==
  {[symbols |-> <<B(1), B(2), B(1), B(2), B(3)>> \o t,
    lens    |-> Chain(<<B(1), B(2), B(3)>> \o t, longest)] :
     t \in CodedTails, longest \in BOOLEAN}
    \cup {[symbols |-> <<B(1)>>, lens |-> (1 :> 1 @@ 256 :> 2)],
          [symbols |-> <<B(1)>>, lens |-> (1 :> 1 @@ 256 :> 1 @@ 3 :> 15)]}
=============================================================================
