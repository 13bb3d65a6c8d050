----------------------------- MODULE MCVardiff ------------------------------
(***************************************************************************)
(* SteadyMiner with few difficulties and a short window for the erratic    *)
(* miner, whose every order of shares is tried, and a window long enough   *)
(* for an estimate for the steady ones.                                    *)
(***************************************************************************)
EXTENDS SteadyMiner

MCErraticConfig ==
  [min_difficulty |-> 1, max_difficulty |-> 4, initial_difficulties |-> {2},
   target_share_seconds |-> 2, retarget_seconds |-> 2, variance_percent |-> 30,
   WINDOW_RETARGETS |-> 2, MIN_SHARES_TO_RAISE |-> 2, MAX_WINDOW_SHARES |-> 5]

MCSteadyConfig ==
  [min_difficulty |-> 4, max_difficulty |-> 16, initial_difficulties |-> {4, 16},
   target_share_seconds |-> 1, retarget_seconds |-> 3, variance_percent |-> 30,
   WINDOW_RETARGETS |-> 4, MIN_SHARES_TO_RAISE |-> 8, MAX_WINDOW_SHARES |-> 200]

MCConfigs == {MCErraticConfig, MCSteadyConfig}
=============================================================================
