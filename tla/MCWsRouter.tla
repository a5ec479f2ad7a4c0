----------------------------- MODULE MCWsRouter -----------------------------
(***************************************************************************)
(* WsRouter for TLC: any two of a unary call and two streams, which are    *)
(* interchangeable.                                                        *)
(***************************************************************************)
EXTENDS WsRouter, TLC

StreamSymmetry == Permutations(Stream)
=============================================================================
