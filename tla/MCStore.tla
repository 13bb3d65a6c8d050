------------------------------ MODULE MCStore ------------------------------
(***************************************************************************)
(* The settings table of Settings, or the samples and shares of Retention. *)
(* No statement touches the tables of both, and what Retention is about    *)
(* uses no setting, so that the two need not be run against each other:    *)
(* each is run while the other rests.  The workers are interchangeable.     *)
(***************************************************************************)
EXTENDS Settings, Retention

Symmetry == Permutations(Workers)

VARIABLE part   \* the one that runs: "settings" or "history"

MCInit ==
  /\ Init /\ RetentionInit
  /\ \/ part = "settings" /\ scenario = "steady"
     \/ part = "history" /\ file = CHOOSE f \in Settings : Loads(f, network) /\ f[Name] > 0

MCNext ==
  \/ part = "settings" /\ Next /\ UNCHANGED <<retentionVars, part>>
  \/ part = "history" /\ RetentionNext /\ UNCHANGED <<vars, part>>

MCSpec == MCInit /\ [][MCNext]_<<vars, retentionVars, part>>
=============================================================================
