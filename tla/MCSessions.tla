----------------------------- MODULE MCSessions -----------------------------
(* Requests are alike.                                                     *)
EXTENDS Sessions, TLC

RequestSymmetry == Permutations(Requests)
=============================================================================
