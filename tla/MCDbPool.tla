------------------------------- MODULE MCDbPool -------------------------------
(* DbPool for model checking; its constants are given by the .cfg. *)
EXTENDS DbPool
=============================================================================
