----------------------------- MODULE MCLiveView -----------------------------
(* LiveView with two displays and a few live views.                        *)
EXTENDS LiveView
=============================================================================
