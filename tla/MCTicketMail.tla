----------------------------- MODULE MCTicketMail -----------------------------
(* TicketMail for model checking; its constants are given by the .cfg. *)
EXTENDS TicketMail
=============================================================================
