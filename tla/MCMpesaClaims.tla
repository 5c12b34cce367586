---------------------------- MODULE MCMpesaClaims ----------------------------
(* Two tills for TLC: a has two legs, b one.                                 *)
EXTENDS MpesaClaims, TLC
CONSTANTS a, b, l1, l2, l3
LegsOf == (l1 :> a) @@ (l2 :> a) @@ (l3 :> b)
Symmetric == Permutations(Payments)
=============================================================================
