------------------------------- MODULE Decoder -------------------------------
(***************************************************************************)
(* What the decoders of the package have in common: a byte slice `in`, an  *)
(* index i into it, an output that is appended to, and local variables of  *)
(* their own.  Lznt1, Xpress and RunList each add the steps of one loop.   *)
(*                                                                         *)
(* A decoder is checked against the message its input was written from:    *)
(* `message` is that message and `says` what it stands for; no step reads   *)
(* them.                                                                   *)
(***************************************************************************)
EXTENDS Integers, Sequences, SequencesExt

CONSTANT MaxDecompressed   \* MAX_DECOMPRESSED_FILE

ASSUME MaxDecompressedAssumption == MaxDecompressed \in Nat

VARIABLES
  codec,     \* the function that was called
  message,   \* what its input was written from
  says,      \* what it should produce
  in,        \* the bytes it was given
  i,         \* the index of the next byte
  out,       \* what it has produced
  reg,       \* its other local variables
  result     \* "run", "ok", or the error it returned

vars == <<codec, message, says, in, i, out, reg, result>>

\* The byte at an index, as the slice counts.  The values are those of a
\* uint8; what they stand for in `in` is a number.
At(k) == in[k + 1]

\* binary.LittleEndian.Uint16 and Uint32.
Uint16(k) == At(k) + 256 * At(k + 1)
Uint32(k) == Uint16(k) + 65536 * Uint16(k + 2)

\* There are n bytes left.
Has(n) == Len(in) - i >= n

Bit(x, k) == (x \div 2^k) % 2

\* The smaller of two numbers.
Smaller(a, b) == IF a < b THEN a ELSE b

\* Mutant of CopyMatch: all at once, what is appended not being seen.
CopyBlock(o, distance, length) ==
  LET first == Len(o) - distance + 1
  IN o \o SubSeq(o, first, Smaller(Len(o), first + length - 1))

\* Appends length bytes of the output to it, one at a time, from its
\* distance-th byte from the end: the copy may run into what it appends.
CopyMatch(o, distance, length) ==
  LET copied[n \in 1..length] ==
        IF n <= distance THEN o[Len(o) - distance + n] ELSE copied[n - distance]
  IN o \o [n \in 1..length |-> copied[n]]

Running(name) == result = "run" /\ codec = name

Return(r) == result' = r /\ UNCHANGED <<codec, message, says, in, i, out, reg>>

Call(name, m, meaning, bytes, locals) ==
  /\ codec = name
  /\ message = m
  /\ says = meaning
  /\ in = bytes
  /\ i = 0
  /\ out = << >>
  /\ reg = locals
  /\ result = "run"

-----------------------------------------------------------------------------
(* The messages of the LZ77 decoders, for reference. *)

\* A symbol is a byte, or a match at a distance.
IsByte(s) == "byte" \in DOMAIN s
Length(s) == IF IsByte(s) THEN 1 ELSE s.length

\* What symbols stand for behind some bytes: a match repeats the last
\* `distance` bytes over and over.
Expanded(before, symbols) ==
  FoldLeft(LAMBDA o, s :
             IF IsByte(s) THEN Append(o, s.byte)
             ELSE o \o [j \in 1..s.length |->
                          o[Len(o) - s.distance + 1 + ((j - 1) % s.distance)]],
           before, symbols)

\* A number in two bytes.
Word(x) == <<x % 256, x \div 256>>

=============================================================================
