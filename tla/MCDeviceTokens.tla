---------------------------- MODULE MCDeviceTokens ----------------------------
(* Symmetry for model checking DeviceTokens. *)
EXTENDS DeviceTokens

Symmetry == Permutations(Users) \cup Permutations(Pushes)
=============================================================================
