--------------------------- MODULE MCConnections ---------------------------
(***************************************************************************)
(* Connections for TLC.  Its sessions are interchangeable: they are used   *)
(* in no order, no operator chooses one of them, and what is checked with  *)
(* this module is an invariant of all of them.                             *)
(***************************************************************************)
EXTENDS Connections, TLC

Symmetry == Permutations(Sessions)
=============================================================================
