---------------------------- MODULE MCEnrolment ----------------------------
(* Enrolment with two nodes and two agents.                                *)
EXTENDS Enrolment
=============================================================================
