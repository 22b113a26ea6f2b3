---------------------------- MODULE MCPagedReader ---------------------------
(* PagedReader for TLC.  Two pages of two cells, the last one half past the *)
(* end of the device, and a cache of one page: every read of the other page *)
(* evicts, and its buffer is handed on with its old contents.  A third      *)
(* buffer would never be in use: one page is cached, one being filled.      *)
EXTENDS PagedReader

MCOffsets == {-1, 1, 3, 4}

MCLengths == {2, 4}
=============================================================================
