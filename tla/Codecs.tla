------------------------------- MODULE Codecs --------------------------------
(***************************************************************************)
(* The decoders of parser/lznt1.go, parser/xpress.go and                   *)
(* NTFS_ATTRIBUTE.RunList of parser/attribute.go, each called with what a  *)
(* writer made of a message, or with the first bytes of it.                *)
(***************************************************************************)
EXTENDS Lznt1, RunList, Xpress

CONSTANTS
  Chunks,         \* messages of LZNT1: sequences of chunks
  RunLists,       \* messages of RunList: sequences of runs
  Symbols,        \* messages of plain LZ77: sequences of symbols
  CodedSymbols,   \* messages of LZ77 and Huffman: [symbols, lens]
  Cuts            \* how many bytes the input may be short of

Cut(bytes, n) == SubSeq(bytes, 1, Len(bytes) - n)

\* What the input of a call would be if nothing of it were missing.
Whole ==
  CASE codec = "lznt1"   -> Lznt1Bytes(message)
    [] codec = "runlist" -> RunListBytes(message)
    [] codec = "xpress"  -> PlainBytes(message)
    [] codec = "huffman" -> HuffmanBytes(message.lens, message.symbols)

CallLznt1(m, n) == Call("lznt1", m, Lznt1Says(m), Cut(Lznt1Bytes(m), n), Lznt1Start)
CallRunList(m) == Call("runlist", m, RunListSays(m), RunListBytes(m), RunListStart)
CallPlain(m, n) == Call("xpress", m, Expanded(<< >>, m), Cut(PlainBytes(m), n), PlainStart)
CallHuffman(m, n) ==
  LET meaning == Expanded(<< >>, m.symbols)
  IN Call("huffman", m, meaning, Cut(HuffmanBytes(m.lens, m.symbols), n),
          HuffmanStart(m.lens, Len(meaning)))

Init ==
  \/ \E m \in Chunks, n \in Cuts : CallLznt1(m, n)
  \/ \E m \in RunLists : CallRunList(m)
  \/ \E m \in Symbols, n \in Cuts : CallPlain(m, n)
  \/ \E m \in CodedSymbols, n \in Cuts : CallHuffman(m, n)

Next == Lznt1Next \/ RunListNext \/ PlainNext \/ HuffmanNext

Spec == Init /\ [][Next]_vars

-----------------------------------------------------------------------------
(* Properties *)

Errors == {"too small", "invalid", "shift", "too large", "corrupt",
           "end of stream", "invalid code", "panic"}

\* The index stays inside the input, and the Huffman decoder never takes a word
\* into its register that does not fit into the 32 bits (xpress.go:231).
TypeOK ==
  /\ result \in {"run", "ok"} \cup Errors
  /\ i \in 0..Len(in)
  /\ codec = "huffman" => Len(reg.bits) <= 32

\* Whatever a decoder has produced when it is interrupted, cut short or done
\* is the beginning of the message, so that a match never copies from the
\* wrong place.
OutIsTheMessage == IsPrefix(out, says)

\* The message has a code for the symbols it uses.
Coded == codec = "huffman" =>
  TotalEntries(message.lens, DOMAIN message.lens) = 2^TableBits

\* What a decoder may take for the end: LZNT1 any end of a chunk, plain LZ77
\* the place of any match (the comment at xpress.go:23).
Ending(o) ==
  \/ codec = "lznt1" /\ o = Lznt1Says(WholeChunks(message, Len(in)))
  \/ codec = "xpress" /\ \E k \in DOMAIN message :
       ~IsByte(message[k]) /\ o = Expanded(<< >>, SubSeq(message, 1, k - 1))
  \/ o = says

\* A decoder that reports success has produced all of the message, or what
\* has to pass for it, and one that is given all of a message succeeds, as
\* long as the result is not too large.
NoSilentLoss ==
  /\ result = "ok" => Ending(out)
  /\ result \in Errors => \/ in # Whole
                          \/ Len(says) > MaxDecompressed
                          \/ ~Coded

\* An input that ends inside a chunk is an error that is returned
\* (tests/decompression_test.go:29), and not a panic.
CutIsReported == result # "panic"
=============================================================================
