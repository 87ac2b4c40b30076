------------------------------ MODULE MCAccounts ------------------------------
(* Values for the constants of Accounts.                                      *)
EXTENDS Accounts, TLC

CONSTANTS ann, bob, r1, r2

AnyOrder == Permutations(Requests)
=============================================================================
