CONSTANTS
  MaxDecompressed = 320
  Cuts = {0, 2, 3}
  Chunks <- MCChunks
  RunLists <- MCRunLists
  Symbols <- MCSymbols
  CodedSymbols <- MCCodedSymbols
SPECIFICATION Spec
INVARIANTS TypeOK OutIsTheMessage 
CHECK_DEADLOCK FALSE
