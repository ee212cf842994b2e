----------------------------- MODULE MCAccounts -----------------------------
(* Small instances of Accounts: names, random values and requests are      *)
(* interchangeable.                                                        *)
EXTENDS Accounts, TLC

Symmetry ==
  Permutations(Users) \cup Permutations(Callers) \cup Permutations(Hashes)
=============================================================================
