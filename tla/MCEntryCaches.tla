---------------------------- MODULE MCEntryCaches ----------------------------
(* EntryCaches for TLC.  Two entries compete for one place in each cache;   *)
(* two goroutines look them up while a third purges and the owner of the    *)
(* volume writes.                                                           *)
EXTENDS EntryCaches
=============================================================================
