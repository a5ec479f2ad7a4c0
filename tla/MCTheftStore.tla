---------------------------- MODULE MCTheftStore ----------------------------
(***************************************************************************)
(* Two nodes with one capture at a time each, and one device.  Captures of *)
(* one node never store at the same time, so more of them add nothing.     *)
(***************************************************************************)
EXTENDS TheftStore, TLC

Symmetry == Permutations(Node)
=============================================================================
