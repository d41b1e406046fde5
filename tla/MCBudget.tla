------------------------------ MODULE MCBudget ------------------------------
(* A small instance of Budget.  The clients are interchangeable. *)
EXTENDS Budget, TLC

CONSTANTS c1, c2

Symmetry == Permutations(Clients)
=============================================================================
