------------------------------- MODULE Ledger -------------------------------
(***************************************************************************)
(* What the pool promises about accepted work: work is first volatile      *)
(* (credited, not yet written), then banked.  What is banked stays banked; *)
(* only the end of the process loses anything, and only what is volatile.  *)
(* Removing a worker and resetting the counters are not steps of a ledger. *)
(***************************************************************************)
EXTENDS Naturals

VARIABLES banked, volatile

LedgerInit == banked \in Nat /\ volatile = 0

Earn == \E d \in 1 .. (volatile' + banked') :
          \/ volatile' = volatile + d /\ UNCHANGED banked
          \/ banked' = banked + volatile + d /\ volatile' = 0

Bank == banked' = banked + volatile /\ volatile' = 0

Lose == volatile' = 0 /\ UNCHANGED banked

LedgerSpec == LedgerInit /\ [][Earn \/ Bank \/ Lose]_<<banked, volatile>>
=============================================================================
