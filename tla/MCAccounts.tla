----------------------------- MODULE MCAccounts ------------------------------
(* Symmetry for model checking Accounts. *)
EXTENDS Accounts, TLC

Symmetry ==
  Permutations(Users) \cup Permutations(Uids) \cup Permutations(Emails)
    \cup Permutations(Requests)
=============================================================================
