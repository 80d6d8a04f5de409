--------------------------- MODULE MCAnnouncements ---------------------------
(* Symmetry for model checking Announcements. *)
EXTENDS Announcements, TLC

Symmetry ==
  Permutations(Sessions) \cup Permutations(Types) \cup Permutations(Requests)
=============================================================================
