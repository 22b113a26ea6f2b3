------------------------------- MODULE MCLRU --------------------------------
(* LRU for TLC.  With one more key than the cache can hold, an Add finds    *)
(* its key at the front, in the middle, at the back or not at all, evicts,  *)
(* and can be followed by the return of the key it evicted.                 *)
EXTENDS LRU

MCSize == Cardinality(Keys) - 1
=============================================================================
