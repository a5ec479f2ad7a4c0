---------------------------- MODULE MCTheftLoop ----------------------------
(***************************************************************************)
(* One hub node and two devices: one waits while the other is captured.    *)
(***************************************************************************)
EXTENDS TheftLoop, TLC

Symmetry == Permutations(Req)
=============================================================================
