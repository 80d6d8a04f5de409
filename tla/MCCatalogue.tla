----------------------------- MODULE MCCatalogue -----------------------------
(* Plans for model checking Catalogue. *)
EXTENDS Catalogue

P(starts, ends, opens, closes) ==
  [starts |-> starts, ends |-> ends, opens |-> opens, closes |-> closes]

\* On sale until the job completes it; a window before the start; and one that
\* is refused, because sales would go on after the end.
MCPlans == {P(0, 1, 0, NoEnd), P(1, 2, 1, 1), P(0, 1, 0, 2)}
=============================================================================
