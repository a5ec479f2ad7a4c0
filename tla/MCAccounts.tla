----------------------------- MODULE MCAccounts -----------------------------
(***************************************************************************)
(* Three registrations that race for names and one invite on two nodes,    *)
(* one of which reads an embedded replica, and an address that tries to    *)
(* log in with two requests at a time.                                     *)
(***************************************************************************)
EXTENDS Accounts, TLC

Symmetry == Permutations(Req) \cup Permutations(Name) \cup Permutations(Code)
              \cup Permutations(Thread)
=============================================================================
