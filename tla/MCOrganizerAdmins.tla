-------------------------- MODULE MCOrganizerAdmins --------------------------
(* Symmetry for model checking OrganizerAdmins. *)
EXTENDS OrganizerAdmins, TLC

Symmetry ==
  Permutations(Organizers) \cup Permutations(Admins) \cup Permutations(Requests)
=============================================================================
