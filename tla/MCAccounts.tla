----------------------------- MODULE MCAccounts -----------------------------
(* Pairs of requests that are kept apart. The code has no such rule: two   *)
(* logins of one account that overlap break LockoutCounts, two             *)
(* deactivations AdminRemains. All other pairs overlap as they like.       *)
EXTENDS Accounts, TLC

AllApart == {{"login"}, {"deactivate"}}
AdminsMeet == AllApart \ {{"deactivate"}}
RequestSymmetry == Permutations(Requests)
=============================================================================
