-------------------------- MODULE MCResourceBudget --------------------------
(* Small instances of ResourceBudget for TLC.                              *)
EXTENDS ResourceBudget, TLC

\* Threads, budget addresses and reservation objects are interchangeable.
Symmetry ==
  Permutations(Threads) \cup Permutations(Budgets) \cup Permutations(Reservations)
=============================================================================
