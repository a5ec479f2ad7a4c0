--------------------------- MODULE PairingLedger ---------------------------
(***************************************************************************)
(* What enrolment promises, without nodes, requests or agents: the account *)
(* gives out codes, and devices join it one after the other.  A device     *)
(* that joins with a code redeems it, and a code is redeemed once; others  *)
(* join on the strength of the account token or of a session, and are      *)
(* entered as 0.  Nothing is ever struck from the ledger.                  *)
(***************************************************************************)
EXTENDS Naturals, Sequences

VARIABLES
  given,   \* the number of codes given out
  ledger   \* the code each device joined with, in the order they joined

Redeemed == {ledger[i] : i \in DOMAIN ledger}

Init == given = 0 /\ ledger = <<>>

GiveCode == given' = given + 1 /\ UNCHANGED ledger

Redeem ==
  /\ \E c \in (1..given) \ Redeemed : ledger' = Append(ledger, c)
  /\ UNCHANGED given

JoinWithoutCode == ledger' = Append(ledger, 0) /\ UNCHANGED given

Next == GiveCode \/ Redeem \/ JoinWithoutCode

Spec == Init /\ [][Next]_<<given, ledger>>
=============================================================================
