-------------------------- MODULE MCSessionRenewal --------------------------
(* One till that renews its session with the cloud, for TLC. *)
EXTENDS SessionRenewal, TLC

CONSTANTS r1, r2

\* The renewals in hand are alike.
Alike == Permutations(Request)
=============================================================================
