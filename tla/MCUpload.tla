------------------------------ MODULE MCUpload ------------------------------
(***************************************************************************)
(* Two uploads on one socket, to one path or to two: one of known size and *)
(* two chunks, one of unknown size and a single chunk.                     *)
(***************************************************************************)
EXTENDS Upload

MCSize == [u \in Up |-> IF u \in Sized THEN 2 ELSE 1]
=============================================================================
