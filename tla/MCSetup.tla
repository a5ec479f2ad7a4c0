------------------------------- MODULE MCSetup ------------------------------
(***************************************************************************)
(* Two POSTs to /setup, one registration and an admin at a node that may   *)
(* use a remote database, with the database set in the environment or not. *)
(***************************************************************************)
EXTENDS Setup

MCEnv == {Unset} \cup {[k \in Key |-> d] : d \in Remote}
=============================================================================
