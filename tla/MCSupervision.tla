--------------------------- MODULE MCSupervision ----------------------------
(***************************************************************************)
(* The process of Supervision, or a page of Dashboard.  A page changes     *)
(* nothing of the process and sees of it only what Dashboard's own process *)
(* has, so that the two need not be run against each other: each is run    *)
(* while the other rests.                                                  *)
(***************************************************************************)
EXTENDS Supervision, Dashboard

MCInit == Init /\ PageInit
MCNext ==
  \/ page = "never" /\ Next /\ UNCHANGED pageVars
  \/ page # "never" /\ PageNext /\ UNCHANGED vars

MCSpec == MCInit /\ [][MCNext]_<<vars, pageVars>> /\ Fairness /\ PageFairness
=============================================================================
