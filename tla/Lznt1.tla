-------------------------------- MODULE Lznt1 --------------------------------
(***************************************************************************)
(* LZNT1Decompress of parser/lznt1.go.  The input is a sequence of chunks, *)
(* each of a header and a body that is either plain or made of groups: a   *)
(* tag byte and up to eight symbols, of which a clear bit of the tag marks *)
(* a byte and a set bit a pointer into the chunk.                          *)
(*                                                                         *)
(* A step is a chunk header, a tag or a symbol.  An index behind the end   *)
(* of the slice is a run time panic, the result "panic".                   *)
(***************************************************************************)
EXTENDS Decoder

SizeMask == 4096        \* SIZE_MASK + 1
CompressedMask == 15    \* COMPRESSED_MASK: bit 15 of a header

\* How often a distance is halved until it is below 16.
get_displacement(offset) ==
  LET f[o \in Nat] == IF o < 16 THEN 0 ELSE 1 + f[o \div 2] IN f[offset % 65536]

Lznt1Start == [at |-> "chunk", start |-> 0, end |-> 0, header |-> 0, mask |-> 0]

\* An iteration of the outer loop up to the loop over the groups.
Lznt1Chunk ==
  /\ Running("lznt1") /\ reg.at = "chunk"
  /\ IF Len(in) < i + 2 THEN Return("ok")
     ELSE LET block_header == Uint16(i)
              size == block_header % SizeMask
          IN IF size = 0 THEN Return("ok")
             ELSE IF Len(in) < i + 2 + size THEN Return("too small")
             ELSE IF Bit(block_header, CompressedMask) = 1
             THEN /\ i' = i + 2
                  /\ reg' = [reg EXCEPT !.at = "tag", !.start = Len(out),
                                        !.end = i + size + 3]
                  /\ UNCHANGED <<codec, message, says, in, out, result>>
             ELSE IF Len(in) < i + 2 + size + 1 THEN Return("too small")
             ELSE /\ i' = i + 2 + size + 1
                  /\ out' = out \o SubSeq(in, i + 3, i + 2 + size + 1)
                  /\ reg' = [reg EXCEPT !.at = "limit"]
                  /\ UNCHANGED <<codec, message, says, in, result>>

\* The tag of the next group, unless the chunk has ended.
Lznt1Tag ==
  /\ Running("lznt1") /\ reg.at = "tag"
  /\ IF i >= reg.end
     THEN /\ reg' = [reg EXCEPT !.at = "limit"]
          /\ UNCHANGED <<codec, message, says, in, i, out, result>>
     ELSE IF i + 1 > Len(in) - 1 THEN Return("too small")
     ELSE /\ i' = i + 1
          /\ reg' = [reg EXCEPT !.at = "symbol", !.header = At(i), !.mask = 0]
          /\ UNCHANGED <<codec, message, says, in, out, result>>

\* What a pointer says, in a chunk that has given `given` bytes so far.
SymbolOf(pointer, given) ==
  LET displacement == get_displacement(given - 1)
  IN [distance |-> (pointer \div 2^(12 - displacement)) + 1,
      length   |-> (pointer % 2^(12 - displacement)) + 3]

SymbolDone ==
  reg' = [reg EXCEPT !.header = @ \div 2, !.mask = @ + 1]

Lznt1Byte ==
  /\ reg.header % 2 = 0
  /\ IF ~Has(1) THEN Return("panic")
     ELSE /\ out' = Append(out, At(i))
          /\ i' = i + 1
          /\ SymbolDone
          /\ UNCHANGED <<codec, message, says, in, result>>

Lznt1Pointer ==
  /\ reg.header % 2 = 1
  /\ IF ~Has(2) THEN Return("panic")
     ELSE IF Len(out) < reg.start + 1 THEN Return("invalid")
     ELSE LET s == SymbolOf(Uint16(i), Len(out) - reg.start)
          IN IF s.distance > Len(out) THEN Return("shift")
             ELSE /\ i' = i + 2
                  /\ out' = CopyMatch(out, s.distance, s.length)
                  /\ SymbolDone
                  /\ UNCHANGED <<codec, message, says, in, result>>

\* The next symbol of a group, which ends with its eighth or with the chunk.
Lznt1Symbol ==
  /\ Running("lznt1") /\ reg.at = "symbol"
  /\ IF reg.mask < 8 /\ i < reg.end
     THEN Lznt1Byte \/ Lznt1Pointer
     ELSE /\ reg' = [reg EXCEPT !.at = "tag"]
          /\ UNCHANGED <<codec, message, says, in, i, out, result>>

\* The end of an iteration of the outer loop.
Lznt1Limit ==
  /\ Running("lznt1") /\ reg.at = "limit"
  /\ IF Len(out) > MaxDecompressed THEN Return("too large")
     ELSE /\ reg' = [reg EXCEPT !.at = "chunk"]
          /\ UNCHANGED <<codec, message, says, in, i, out, result>>

Lznt1Next == Lznt1Chunk \/ Lznt1Tag \/ Lznt1Symbol \/ Lznt1Limit

-----------------------------------------------------------------------------
(* The reference: a message is a sequence of chunks, each plain bytes or a  *)
(* sequence of symbols, and Lznt1Bytes is what a writer makes of it.        *)

Lznt1Says(chunks) ==
  FoldLeft(LAMBDA o, c : IF c.plain THEN o \o c.bytes ELSE Expanded(o, c.symbols),
           << >>, chunks)

\* A pointer has as many bits for the distance, at least four, as are needed
\* to reach the beginning of the chunk from where it stands.
PointerOf(s, given) ==
  LET bits == CHOOSE n \in 4..16 : /\ given <= 2^n
                                   /\ n = 4 \/ given > 2^(n - 1)
  IN (s.distance - 1) * 2^(16 - bits) + s.length - 3

\* The bytes of the k-th symbol of a chunk.
SymbolBytes(symbols, k) ==
  LET before == FoldLeft(LAMBDA n, s : n + Length(s), 0, SubSeq(symbols, 1, k - 1))
  IN IF IsByte(symbols[k]) THEN <<symbols[k].byte>>
     ELSE Word(PointerOf(symbols[k], before))

Tag(group) ==
  FoldRight(LAMBDA s, acc : 2 * acc + (IF IsByte(s) THEN 0 ELSE 1), group, 0)

ChunkBody(symbols) ==
  FlattenSeq([g \in 1..((Len(symbols) + 7) \div 8) |->
    LET first == 8 * g - 7
        last  == Smaller(8 * g, Len(symbols))
    IN <<Tag(SubSeq(symbols, first, last))>>
         \o FlattenSeq([k \in 1..(last - first + 1) |->
                          SymbolBytes(symbols, first + k - 1)])])

ChunkBytes(c) ==
  LET body == IF c.plain THEN c.bytes ELSE ChunkBody(c.symbols)
  IN Word(Len(body) - 1 + (IF c.plain THEN 0 ELSE 2^15) + 3 * 2^12) \o body

Lznt1Bytes(chunks) == FlattenSeq([k \in DOMAIN chunks |-> ChunkBytes(chunks[k])])

\* The whole chunks among the first n bytes of what is written.
WholeChunks(chunks, n) ==
  LET fits == {k \in 0..Len(chunks) : Len(Lznt1Bytes(SubSeq(chunks, 1, k))) <= n}
  IN SubSeq(chunks, 1, CHOOSE k \in fits : \A m \in fits : m <= k)
=============================================================================
