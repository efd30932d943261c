------------------------ MODULE MCSubscriptionGuards ------------------------
(* Three callers over three filters: every pair of overlapping sets meets. *)
EXTENDS SubscriptionGuards, TLC

CONSTANTS c1, c2, c3
=============================================================================
