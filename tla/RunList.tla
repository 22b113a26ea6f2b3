------------------------------- MODULE RunList -------------------------------
(***************************************************************************)
(* NTFS_ATTRIBUTE.RunList of parser/attribute.go: the runs of an attribute *)
(* are bytes of which each run takes one for two sizes, then its length,   *)
(* then its distance from the run before, in as few bytes as will do.      *)
(*                                                                         *)
(* A step is a run.  The slice holds at most 8 bytes of a number; numbers  *)
(* of 8 bytes wrap to negative ones.                                       *)
(***************************************************************************)
EXTENDS Decoder

RunListStart == [offset |-> 0]

\* The k-th byte from an index, or zero behind the end of the buffer.
ByteOrZero(k) == IF k < Len(in) THEN At(k) ELSE 0

\* A size nibble above 8 takes 8 bytes.
Taken(size) == IF size < 8 THEN size ELSE 8

\* The number in some bytes from an index: unsigned, or with the sign of the
\* last of them.
Unsigned(k, n) == FoldRight(LAMBDA j, acc : ByteOrZero(k + j) + 256 * acc,
                            [j \in 1..n |-> j - 1], 0)
IsNegative(k, n) == n > 0 /\ ByteOrZero(k + n - 1) >= 128
Signed(k, n) == Unsigned(k, n) - (IF IsNegative(k, n) THEN 256^n ELSE 0)

RunOf(k, lengthSize, offsetSize) ==
  LET relative == Signed(k + lengthSize, offsetSize)
  IN [Offset |-> reg.offset + relative, RelativeUrnOffset |-> relative,
      Length |-> IF lengthSize = 8 THEN Signed(k, 8) ELSE Unsigned(k, lengthSize)]

RunListNext ==
  /\ Running("runlist")
  /\ IF ~Has(1) THEN Return("ok")
     ELSE IF At(i) = 0 THEN Return("ok")
     ELSE LET lengthSize == Taken(At(i) % 16)
              offsetSize == Taken(At(i) \div 16)
              run == RunOf(i + 1, lengthSize, offsetSize)
          IN /\ out' = Append(out, run)
             /\ reg' = [offset |-> run.Offset]
             /\ i' = i + 1 + lengthSize + offsetSize
             /\ UNCHANGED <<codec, message, says, in, result>>

-----------------------------------------------------------------------------
(* The reference: a message is a sequence of runs, each a length and a      *)
(* place on the disk.                                                       *)

\* The fewest bytes that hold a length, and a distance with its sign.
LengthSize(x) == CHOOSE n \in 1..8 : x < 256^n /\ (n = 1 \/ x >= 256^(n - 1))
Fits(x, n) == -(256^n \div 2) <= x /\ x < 256^n \div 2
DistanceSize(x) ==
  IF x = 0 THEN 0 ELSE CHOOSE n \in 1..8 : Fits(x, n) /\ (n = 1 \/ ~Fits(x, n - 1))

NumberBytes(x, n) == [k \in 1..n |-> (x \div 256^(k - 1)) % 256]

\* A hole has no distance: it has the place of the run before it.
RunListSays(runs) ==
  [k \in DOMAIN runs |->
     [Offset |-> runs[k].place, Length |-> runs[k].length,
      RelativeUrnOffset |->
        runs[k].place - (IF k = 1 THEN 0 ELSE runs[k - 1].place)]]

RunListBytes(runs) ==
  LET steps == RunListSays(runs)
      RunBytes(r) ==
        LET n == LengthSize(r.Length)
            m == DistanceSize(r.RelativeUrnOffset)
        IN <<n + 16 * m>> \o NumberBytes(r.Length, n)
                           \o NumberBytes(r.RelativeUrnOffset, m)
  IN FlattenSeq([k \in DOMAIN steps |-> RunBytes(steps[k])]) \o <<0>>
=============================================================================
