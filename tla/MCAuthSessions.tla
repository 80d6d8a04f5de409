--------------------------- MODULE MCAuthSessions ----------------------------
(* Model values and symmetry for model checking AuthSessions. *)
EXTENDS AuthSessions, TLC

Symmetry ==
  Permutations(Users) \cup Permutations(Sessions)
    \cup Permutations(Tokens) \cup Permutations(Requests)
=============================================================================
