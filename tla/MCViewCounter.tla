---------------------------- MODULE MCViewCounter ----------------------------
(* Instance of ViewCounter for TLC: one snippet seen twice, one seen once. *)
EXTENDS ViewCounter, TLC

CONSTANTS s1, s2

TwoAndOne == s1 :> 2 @@ s2 :> 1
=============================================================================
