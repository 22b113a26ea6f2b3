----------------------------- MODULE MCUsnWatch -----------------------------
(* UsnWatch for TLC.  Pages of four units; the journal has a sparse page, a *)
(* run of one page and a run of two, and records of two or three units, so  *)
(* that a page ends with a record or with zeros.                            *)
EXTENDS UsnWatch

MCExtents == <<4, 4, 8>>
=============================================================================
