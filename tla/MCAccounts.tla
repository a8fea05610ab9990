------------------------------ MODULE MCAccounts ------------------------------
(* Values for model-checking Accounts.                                        *)
EXTENDS Accounts, TLC

CONSTANTS h1, h2, platform, m1, ann, bob, cleo

Symmetry == Permutations(Requests) \cup Permutations(Usernames)
=============================================================================
