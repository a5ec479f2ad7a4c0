----------------------------- MODULE MCPresence -----------------------------
(***************************************************************************)
(* Two nodes and three connections: an old one, a half-open one and a new  *)
(* one, on the same node or on different nodes.                            *)
(***************************************************************************)
EXTENDS Presence, TLC

Symmetry == Permutations(Node) \cup Permutations(Conn)
=============================================================================
