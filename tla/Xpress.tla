------------------------------- MODULE Xpress --------------------------------
(***************************************************************************)
(* The two decoders of parser/xpress.go.  XpressDecompress reads groups of *)
(* 32 flags, a clear one for a byte and a set one for a match.             *)
(* XpressHuffmanDecompress reads symbols of a canonical prefix code and    *)
(* the bits of distances through a register of 32 bits, with bytes for     *)
(* long matches from behind the words that the register has taken.         *)
(*                                                                         *)
(* A step is a flag group, a byte or match, a refill of the register, or a *)
(* symbol.  A word is kept as its bits, most significant first; a table of *)
(* codes as the code lengths of the symbols that have one.                 *)
(***************************************************************************)
EXTENDS Decoder, FiniteSetsExt

TableBits == 15     \* xpressTableBits
EndSymbol == 256    \* 0..255 are bytes, 257..511 matches

-----------------------------------------------------------------------------
(* Plain LZ77 *)

PlainStart == [flags |-> << >>, pending |-> -1]

\* The bits of an integer of n bits, most significant first.
Bits(x, n) == [k \in 1..n |-> Bit(x, n - k)]

FlagsAt(k) == Bits(Uint16(k + 2), 16) \o Bits(Uint16(k), 16)

\* What is left of the input ends before what the decoder wants to read.
Ends == Return("end of stream")

FlagGroup ==
  /\ Running("xpress") /\ reg.flags = << >>
  /\ IF ~Has(4) THEN Ends
     ELSE /\ i' = i + 4
          /\ reg' = [reg EXCEPT !.flags = FlagsAt(i)]
          /\ UNCHANGED <<codec, message, says, in, out, result>>

PlainByte ==
  /\ Running("xpress") /\ reg.flags # << >> /\ Head(reg.flags) = 0
  /\ IF ~Has(1) THEN Ends
     ELSE /\ i' = i + 1
          /\ out' = Append(out, At(i))
          /\ reg' = [reg EXCEPT !.flags = Tail(@)]
          /\ UNCHANGED <<codec, message, says, in, result>>

\* How the length of a match is read: its value, the index behind it, and the
\* half byte that is left for the next match; or the error.
Got(length, next, pending) == [error |-> "", length |-> length, next |-> next, pending |-> pending]
Error(e) == [error |-> e]

\* A length of 7 in the word of the match goes on in a half byte, which is the
\* high half of the byte another match has used the low half of, if any.
Nibble(k) == IF reg.pending = -1 THEN At(k) % 16 ELSE At(reg.pending) \div 16

\* Behind a half byte of 15 the length is in a byte, behind a byte of 255 in a
\* word, behind a word of 0 in two.
PlainExtension(k, pending) ==
  IF Len(in) - k < 1 THEN Error("end of stream")
  ELSE IF At(k) # 255 THEN Got(At(k) + 25, k + 1, pending)
  ELSE IF Len(in) - k < 3 THEN Error("end of stream")
  ELSE IF Uint16(k + 1) = 0 /\ Len(in) - k < 7 THEN Error("end of stream")
  ELSE LET wide == Uint16(k + 1) = 0
           v == IF wide THEN Uint32(k + 3) ELSE Uint16(k + 1)
       IN IF v < 22 THEN Error("corrupt")
          ELSE Got(v + 3, k + (IF wide THEN 7 ELSE 3), pending)

PlainLength(low, k) ==
  IF low # 7 THEN Got(low + 3, k, reg.pending)
  ELSE IF reg.pending = -1 /\ Len(in) - k < 1 THEN Error("end of stream")
  ELSE LET fresh   == reg.pending = -1
           next    == IF fresh THEN k + 1 ELSE k
           pending == IF fresh THEN k ELSE -1
       IN IF Nibble(k) = 15 THEN PlainExtension(next, pending)
          ELSE Got(Nibble(k) + 10, next, pending)

\* A match; without any input left its flag is the end of the data.
PlainMatch ==
  /\ Running("xpress") /\ reg.flags # << >> /\ Head(reg.flags) = 1
  /\ IF ~Has(1) THEN Return("ok")
     ELSE IF ~Has(2) THEN Ends
     ELSE LET distance == (Uint16(i) \div 8) + 1
              m == PlainLength(Uint16(i) % 8, i + 2)
          IN IF m.error # "" THEN Return(m.error)
             ELSE IF distance > 8192 \/ distance > Len(out) THEN Return("corrupt")
             ELSE IF Len(out) > MaxDecompressed - m.length THEN Return("too large")
             ELSE /\ i' = m.next
                  /\ out' = CopyMatch(out, distance, m.length)
                  /\ reg' = [flags |-> Tail(reg.flags), pending |-> m.pending]
                  /\ UNCHANGED <<codec, message, says, in, result>>

PlainNext == FlagGroup \/ PlainByte \/ PlainMatch

-----------------------------------------------------------------------------
(* LZ77 and Huffman.  The 256 bytes of code lengths are reg.lens: the length *)
(* of each symbol that has a code.  `in` is what follows them.              *)

HuffmanStart(lens, size) ==
  [lens |-> lens, first |-> << >>, size |-> size, bits |-> << >>, at |-> "table",
   hb |-> 0, length |-> 0]

\* The entries of the decode table that a symbol fills.
Entries(lens, s) == 2^(TableBits - lens[s])
Before(lens, s) == {t \in DOMAIN lens : \/ lens[t] < lens[s]
                                        \/ lens[t] = lens[s] /\ t < s}
TotalEntries(lens, symbols) ==
  MapThenSumSet(LAMBDA s : Entries(lens, s), symbols)

\* The first of them: the table is filled in the order of lengths and symbols.
FirstEntry(lens, s) == TotalEntries(lens, Before(lens, s))

\* The table must be filled, and no more.  It is kept as the first entries.
HuffmanTable ==
  /\ Running("huffman") /\ reg.at = "table"
  /\ IF TotalEntries(reg.lens, DOMAIN reg.lens) # 2^TableBits THEN Return("invalid code")
     ELSE /\ reg' = [reg EXCEPT !.at = "preload",
                                !.first = [s \in DOMAIN reg.lens |-> FirstEntry(reg.lens, s)]]
          /\ UNCHANGED <<codec, message, says, in, i, out, result>>

\* The symbol in the table at an index.
SymbolAt(entry) ==
  CHOOSE s \in DOMAIN reg.lens :
    reg.first[s] <= entry /\ entry < reg.first[s] + Entries(reg.lens, s)

\* Takes the next word into the register.
Refill(next) ==
  IF ~Has(2) THEN Ends
  ELSE /\ i' = i + 2
       /\ reg' = [reg EXCEPT !.bits = @ \o Bits(Uint16(i), 16), !.at = next]
       /\ UNCHANGED <<codec, message, says, in, out, result>>

\* Two words before the first symbol, then while there are less than 15 bits.
HuffmanPreload ==
  /\ Running("huffman") /\ reg.at = "preload"
  /\ Refill(IF reg.bits = << >> THEN "preload" ELSE "symbol")

\* Mutant of HuffmanRefill: while a word would still be missing.
HuffmanRefillEarly ==
  Running("huffman") /\ reg.at = "symbol" /\ Len(reg.bits) < 18 /\ Refill("symbol")

HuffmanRefill ==
  /\ Running("huffman") /\ reg.at = "symbol" /\ Len(reg.bits) < TableBits
  /\ Refill("symbol")

Number(bits) == FoldLeft(LAMBDA acc, b : 2 * acc + b, 0, bits)

\* The symbol at the front of the register, and the register without it.
NextSymbol == SymbolAt(Number(SubSeq(reg.bits, 1, TableBits)))
Without(n) == SubSeq(reg.bits, n + 1, Len(reg.bits))
Consume(symbol) == Without(reg.lens[symbol])

AtSymbol ==
  Running("huffman") /\ reg.at = "symbol" /\ Len(reg.bits) >= TableBits

HuffmanByte ==
  /\ AtSymbol /\ NextSymbol < EndSymbol
  /\ IF Len(out) + 1 > reg.size THEN Return("corrupt")
     ELSE /\ out' = Append(out, NextSymbol)
          /\ reg' = [reg EXCEPT !.bits = Consume(NextSymbol)]
          /\ UNCHANGED <<codec, message, says, in, i, result>>

\* Mutant of HuffmanEnd: the end of the data wherever its symbol is.
HuffmanEndAnywhere ==
  AtSymbol /\ NextSymbol = EndSymbol /\ Return("ok")

\* The end of the data, or a match of three bytes in the middle of it.
HuffmanEnd ==
  /\ AtSymbol /\ NextSymbol = EndSymbol
  /\ IF Len(out) = reg.size THEN Return("ok")
     ELSE IF Len(out) = 0 \/ reg.size - Len(out) < 3 THEN Return("corrupt")
     ELSE /\ out' = CopyMatch(out, 1, 3)
          /\ reg' = [reg EXCEPT !.bits = Consume(EndSymbol)]
          /\ UNCHANGED <<codec, message, says, in, i, result>>

\* A length of 15 goes on in a byte, and from there as in plain LZ77.
HuffmanLength(low, k) ==
  IF low # 15 THEN Got(low + 3, k, 0)
  ELSE IF Len(in) - k < 1 THEN Error("end of stream")
  ELSE IF At(k) # 255 THEN Got(At(k) + 18, k + 1, 0)
  ELSE IF Len(in) - k < 3 THEN Error("end of stream")
  ELSE IF Uint16(k + 1) # 0 THEN Got(Uint16(k + 1) + 3, k + 3, 0)
  ELSE IF Len(in) - k < 7 THEN Error("end of stream")
  ELSE Got(Uint32(k + 3) + 3, k + 7, 0)

\* The symbol of a match: its bytes of length follow at once.
HuffmanMatch ==
  /\ AtSymbol /\ NextSymbol > EndSymbol
  /\ LET hb == (NextSymbol - EndSymbol) \div 16
         m == HuffmanLength((NextSymbol - EndSymbol) % 16, i)
     IN IF m.error # "" THEN Return(m.error)
        ELSE /\ i' = m.next
             /\ reg' = [reg EXCEPT !.at = "distance", !.bits = Consume(NextSymbol),
                                   !.hb = hb, !.length = m.length]
             /\ UNCHANGED <<codec, message, says, in, out, result>>

AtDistance == Running("huffman") /\ reg.at = "distance"

HuffmanRefillDistance ==
  AtDistance /\ Len(reg.bits) < reg.hb /\ Refill("distance")

\* The bits of the distance behind its highest one, and the match.
HuffmanDistance ==
  /\ AtDistance /\ Len(reg.bits) >= reg.hb
  /\ LET distance == 2^reg.hb + Number(SubSeq(reg.bits, 1, reg.hb))
     IN IF distance > Len(out) THEN Return("corrupt")
        ELSE IF Len(out) > MaxDecompressed - reg.length THEN Return("too large")
        ELSE IF Len(out) + reg.length > reg.size THEN Return("corrupt")
        ELSE /\ out' = CopyMatch(out, distance, reg.length)
             /\ reg' = [reg EXCEPT !.at = "symbol", !.bits = Without(reg.hb)]
             /\ UNCHANGED <<codec, message, says, in, i, result>>

HuffmanNext ==
  \/ HuffmanTable \/ HuffmanPreload \/ HuffmanRefill \/ HuffmanByte \/ HuffmanEnd
  \/ HuffmanMatch \/ HuffmanRefillDistance \/ HuffmanDistance

-----------------------------------------------------------------------------
(* The reference for plain LZ77: what the comment of xpress.go says of the   *)
(* stream, for a message that is a sequence of symbols.                      *)

FlagBytes(flags) == Word(Number(SubSeq(flags, 17, 32))) \o Word(Number(SubSeq(flags, 1, 16)))

\* The flags of the group that begins at symbol k, padded with set bits.
GroupFlags(symbols, k) ==
  FlagBytes([j \in 1..32 |->
    IF k + j - 1 <= Len(symbols) THEN (IF IsByte(symbols[k + j - 1]) THEN 0 ELSE 1) ELSE 1])

\* A match behind some bytes.  acc.half is the byte whose high half is free,
\* 0 if there is none.
PlainMatchBytes(acc, s) ==
  LET over == s.length - 10
      nibble == Smaller(over, 15)
      head == acc.bytes \o Word(8 * (s.distance - 1) + Smaller(s.length - 3, 7))
      half == IF acc.half = 0 THEN Append(head, nibble)
              ELSE [head EXCEPT ![acc.half] = @ + 16 * nibble]
      more == IF over < 15 THEN << >>
              ELSE IF over < 270 THEN <<over - 15>>
              ELSE <<255>> \o (IF s.length - 3 < 65536 THEN Word(s.length - 3)
                               ELSE <<0, 0>> \o Word((s.length - 3) % 65536)
                                             \o Word((s.length - 3) \div 65536))
  IN IF over < 0 THEN [acc EXCEPT !.bytes = head]
     ELSE [bytes |-> half \o more, half |-> IF acc.half = 0 THEN Len(head) + 1 ELSE 0]

PlainBytes(symbols) ==
  LET Put(acc, k) ==
        LET begun == IF k % 32 = 1
                     THEN [acc EXCEPT !.bytes = @ \o GroupFlags(symbols, k)] ELSE acc
        IN IF IsByte(symbols[k]) THEN [begun EXCEPT !.bytes = Append(@, symbols[k].byte)]
           ELSE PlainMatchBytes(begun, symbols[k])
      all == FoldLeft(Put, [bytes |-> << >>, half |-> 0],
                      [k \in DOMAIN symbols |-> k]).bytes
  IN IF Len(symbols) % 32 = 0 THEN all \o <<255, 255, 255, 255>> ELSE all

-----------------------------------------------------------------------------
(* The reference for LZ77 and Huffman, for a message of symbols and code     *)
(* lengths.  Words are taken when the bits of the next symbol or distance    *)
(* need them, and the bytes of a long match are where the reader then is.    *)

Log2(x) == CHOOSE n \in 0..15 : 2^n <= x /\ x < 2^(n + 1)

\* The end of the data, which in the middle of it is a match.
EndMark == [end |-> TRUE, distance |-> 1, length |-> 3]

\* The symbol of the code that stands for a symbol of the message.
CodeSymbol(s) ==
  IF s = EndMark THEN EndSymbol
  ELSE IF IsByte(s) THEN s.byte
  ELSE EndSymbol + 16 * Log2(s.distance) + Smaller(s.length - 3, 15)

\* The bits of the code of a symbol, canonical codes being consecutive numbers.
CodeBits(lens, c) ==
  Bits(FirstEntry(lens, c) \div Entries(lens, c), lens[c])

DistanceBits(s) ==
  IF s = EndMark \/ IsByte(s) THEN << >>
  ELSE Bits(s.distance - 2^Log2(s.distance), Log2(s.distance))

LongBytes(s) ==
  IF s = EndMark \/ IsByte(s) \/ s.length < 18 THEN << >>
  ELSE IF s.length - 18 < 255 THEN <<s.length - 18>>
  ELSE <<255>> \o Word(s.length - 3)

\* The words taken when n more bits are wanted behind acc.bits.
Wanted(acc, n) ==
  LET words == (Len(acc.bits) + n + 15) \div 16 IN IF words > acc.words THEN words ELSE acc.words

\* acc.marks holds, in the order of the stream, a byte, or -1 for a word.
Take(acc, n) ==
  [acc EXCEPT !.words = Wanted(acc, n),
              !.marks = @ \o [j \in 1..(Wanted(acc, n) - acc.words) |-> -1]]
PutSymbol(lens, acc, s) ==
  LET a == Take(acc, TableBits)
      b == [a EXCEPT !.bits = @ \o CodeBits(lens, CodeSymbol(s)), !.marks = @ \o LongBytes(s)]
      c == Take(b, Len(DistanceBits(s)))
  IN [c EXCEPT !.bits = @ \o DistanceBits(s)]

HuffmanBytes(lens, symbols) ==
  LET all == FoldLeft(LAMBDA acc, s : PutSymbol(lens, acc, s),
                      [bits |-> << >>, words |-> 2, marks |-> <<-1, -1>>],
                      Append(symbols, EndMark))
      Padded(k) == IF k <= Len(all.bits) THEN all.bits[k] ELSE 0
      WordAt(k) == Number([j \in 1..16 |-> Padded(16 * k + j)])
      Place(m) == Cardinality({k \in 1..(m - 1) : all.marks[k] = -1})
  IN FlattenSeq([m \in DOMAIN all.marks |->
       IF all.marks[m] = -1 THEN Word(WordAt(Place(m))) ELSE <<all.marks[m]>>])
=============================================================================
