---------------------------- MODULE SteadyMiner ----------------------------
(***************************************************************************)
(* Vardiff.tla with two kinds of miners.  An erratic one submits shares    *)
(* and suggests difficulties as it likes.  A steady one does rate units of *)
(* work in a unit of time and submits a share whenever it has done a job's *)
(* difficulty, as in the unit test of vardiff.rs 213-249, but at every     *)
(* speed in Rates, from every initial difficulty, and with a new           *)
(* difficulty reaching it with its next job, whenever that comes, where    *)
(* the test has one speed and applies a difficulty at once.                *)
(***************************************************************************)
EXTENDS Vardiff

CONSTANTS
  ErraticConfig, SteadyConfig, \* the configs for either kind of miner
  Rates, \* the speeds of steady miners, in difficulty per unit of time
  Slack  \* percent a share may come sooner or later than one per TargetTime

ASSUME MinersAssumption ==
  /\ Configs = {ErraticConfig, SteadyConfig}
  /\ Rates \subseteq Nat \ {0} /\ Slack \in Nat

VARIABLES
  rate,     \* the miner's speed: 0 of an erratic one
  progress  \* the work done towards a steady miner's next share

minerVars == <<vardiffVars, rate, progress>>

Erratic == rate = 0

MinerInit ==
  /\ VardiffInit /\ progress = 0
  /\ \/ Erratic /\ cfg = ErraticConfig
     \/ rate \in Rates /\ cfg = SteadyConfig

ErraticStep == Erratic /\ VardiffNext /\ UNCHANGED progress

(* The miner has done the work of a share, and submits it.                 *)
Found == progress >= job /\ SubmitShare /\ progress' = progress - job

(* The session's timer finds a reason to change the difficulty.            *)
Retarget ==
  /\ Due /\ Proposed(Trimmed(shares)) # difficulty
  /\ Evaluate
  /\ UNCHANGED progress

GetsJob == NewJob /\ UNCHANGED progress

(* Time passes once the shares are in and the timer has looked.            *)
WorksOn ==
  /\ progress < job
  /\ ~(Due /\ Proposed(Trimmed(shares)) # difficulty)
  /\ Tick
  /\ progress' = progress + rate

Steadily(A) == ~Erratic /\ A /\ UNCHANGED rate

MinerNext ==
  \/ ErraticStep /\ UNCHANGED rate
  \/ Steadily(Found) \/ Steadily(Retarget) \/ Steadily(GetsJob) \/ Steadily(WorksOn)

MinerSpec ==
  /\ MinerInit /\ [][MinerNext]_minerVars
  /\ WF_minerVars(Steadily(Found)) /\ WF_minerVars(Steadily(Retarget))
  /\ WF_minerVars(Steadily(GetsJob)) /\ WF_minerVars(Steadily(WorksOn))

----------------------------------------------------------------------------
(* A miner of constant speed is not retargeted for ever: the estimate      *)
(* measures work and not shares, so a change of difficulty does not move   *)
(* the estimate it came from (vardiff.rs 74-102).                          *)
Settles == <>[][Erratic \/ difficulty' = difficulty]_minerVars

(* In the end a steady miner's share comes at most Slack percent sooner or *)
(* later than one per TargetTime, unless a configured bound is in the way. *)
Near ==
  \/ AbsOf(difficulty - rate * TargetTime) * 100 <= Slack * difficulty
  \/ difficulty = cfg.min_difficulty /\ difficulty > rate * TargetTime
  \/ difficulty = cfg.max_difficulty /\ difficulty < rate * TargetTime
SettlesNearTarget == <>[](Erratic \/ Near)

(* A miner of constant speed comes to rest at a share per target time.     *)
Rests == Settles /\ SettlesNearTarget

=============================================================================
