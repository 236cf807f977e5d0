--------------------------- MODULE MCSharedBudget ---------------------------
(* Model-checking instances of SharedBudget. *)
EXTENDS SharedBudget

MCItems == 1..N
=============================================================================
