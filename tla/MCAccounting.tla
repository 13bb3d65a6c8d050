----------------------------- MODULE MCAccounting -----------------------------
(* Accounting with interchangeable workers. *)
EXTENDS Accounting, TLC

Symmetry == Permutations(Workers)
=============================================================================
