--------------------------- MODULE MCRequestBudget ---------------------------
(* RequestBudget on small instances. *)
EXTENDS RequestBudget, TLC

=============================================================================
