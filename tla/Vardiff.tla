------------------------------ MODULE Vardiff ------------------------------
(***************************************************************************)
(* The difficulty a session asks of its miner                              *)
(* (crates/alamo-stratum/src/vardiff.rs, called from session.rs): accepted *)
(* shares are remembered for a window of several retarget intervals, and   *)
(* on a share or a timer tick the difficulty moves towards the one at      *)
(* which the work seen in the window would come as one share per           *)
(* TargetTime.                                                             *)
(*                                                                         *)
(* Time is discrete and kept as ages, so that it needs no bound: the age   *)
(* of each share, of the session and of the last change, the latter two    *)
(* capped where they stop to matter.  Difficulties are numbers and a       *)
(* quotient is rounded down (the code computes in f64).  A share counts    *)
(* the difficulty of its job, which can be an older one of the session's.  *)
(***************************************************************************)
EXTENDS Integers, Sequences, SequencesExt

CONSTANTS Configs,     \* the VardiffConfigs in use, see Config
          MaxPerTick,  \* bound on the shares of one unit of time
          Suggestions  \* the difficulties a miner suggests

(* The fields of VardiffConfig, where initial_difficulties are the initial *)
(* difficulties to look at, and the constants of vardiff.rs, which are to  *)
(* be small when the intervals are.                                        *)
Config ==
  [min_difficulty : Nat \ {0}, max_difficulty : Nat, initial_difficulties : SUBSET Nat,
   target_share_seconds : Nat \ {0}, retarget_seconds : Nat \ {0}, variance_percent : Nat,
   WINDOW_RETARGETS : Nat \ {0}, MIN_SHARES_TO_RAISE : Nat, MAX_WINDOW_SHARES : Nat \ {0}]

ASSUME VardiffAssumption ==
  /\ Configs \subseteq Config /\ MaxPerTick \in Nat /\ Suggestions \subseteq Nat
  /\ \A c \in Configs : c.min_difficulty <= c.max_difficulty
                       /\ c.initial_difficulties \subseteq c.min_difficulty..c.max_difficulty

VARIABLES
  cfg,         \* the VardiffConfig
  difficulty,  \* the session's difficulty, that of the next job
  job,         \* the difficulty of the job the miner works on
  shares,      \* the remembered shares, oldest first: age and difficulty
  age,         \* time since the session started
  sinceChange, \* time since the last change by retarget
  all,         \* history: every share of the window, also those forgotten
  thisTick,    \* shares in this unit of time
  moved        \* history: what the last step changed the difficulty from

vardiffVars == <<cfg, difficulty, job, shares, age, sinceChange, all, thisTick, moved>>

TargetTime == cfg.target_share_seconds
RetargetTime == cfg.retarget_seconds
Window == RetargetTime * cfg.WINDOW_RETARGETS
MaxStep == 2
QuietStep == 4

AtLeast(a, b) == IF a > b THEN a ELSE b
AtMost(a, b)  == IF a < b THEN a ELSE b
AbsOf(n) == AtLeast(n, -n)
Clamp(d) == AtMost(AtLeast(d, cfg.min_difficulty), cfg.max_difficulty)

Work(s) ==
  LET upTo[i \in 0..Len(s)] == IF i = 0 THEN 0 ELSE upTo[i - 1] + s[i].difficulty
  IN  upTo[Len(s)]

VardiffInit ==
  /\ cfg \in Configs /\ difficulty \in cfg.initial_difficulties /\ job = difficulty
  /\ shares = <<>> /\ all = <<>>
  /\ age = 0 /\ sinceChange = 0 /\ thisTick = 0 /\ moved = "no"

----------------------------------------------------------------------------
(* on_share: remember the share, and forget the oldest beyond the cap and, *)
(* from the front, those that have left the window.                        *)
From(s, oldest) ==
  CHOOSE i \in 1..(Len(s) + 1) :
    (i <= Len(s) => s[i].age <= oldest) /\ \A j \in 1..(i - 1) : s[j].age > oldest
TrimmedShort(s) == SubSeq(s, From(s, RetargetTime - 1), Len(s))
Trimmed(s) == SubSeq(s, From(s, Window), Len(s))
Capped(s)  == IF Len(s) > cfg.MAX_WINDOW_SHARES THEN Tail(s) ELSE s

FixedSpan == Window
Span == AtLeast(AtMost(age, Window), 1)

(* The work of s exceeds, or falls short of, that of one share of the      *)
(* current difficulty per TargetTime by so much.                           *)
Surplus(s) == Work(s) * TargetTime - difficulty * Span

(* The difficulty evaluate proposes: the present one where it sees no      *)
(* reason to move, and else the one at which the work of s would come as a *)
(* share per TargetTime, at most MaxStep times higher or lower.            *)
Proposed(s) ==
  IF s = <<>> THEN Clamp(difficulty \div QuietStep)
  ELSE IF \/ AbsOf(Surplus(s)) * 100 <= cfg.variance_percent * difficulty * Span
          \/ Surplus(s) > 0 /\ Len(s) < cfg.MIN_SHARES_TO_RAISE
    THEN difficulty
  ELSE Clamp(AtMost(AtLeast((Work(s) * TargetTime) \div Span, difficulty \div MaxStep),
                    difficulty * MaxStep))

Due == sinceChange >= RetargetTime

(* maybe_retarget, with the shares as they are now.                        *)
Retargeted(s) ==
  IF Due /\ Proposed(s) # difficulty
  THEN /\ difficulty' = Proposed(s) /\ sinceChange' = 0
       /\ moved' = IF s = <<>> THEN "quiet" ELSE "measured"
  ELSE difficulty' = difficulty /\ sinceChange' = sinceChange /\ moved' = "no"

(* The miner submits a share that is accepted.                             *)
SubmitShare ==
  /\ thisTick' = thisTick + 1
  /\ LET share == [age |-> 0, difficulty |-> job] IN
       /\ shares' = Trimmed(Capped(Append(shares, share)))
       /\ all' = Append(all, share)
  /\ Retargeted(shares')
  /\ UNCHANGED <<cfg, job, age>>

(* A refused share is not remembered, but may retarget like the session's  *)
(* timer does.                                                             *)
Evaluate ==
  /\ shares' = IF Due THEN Trimmed(shares) ELSE shares
  /\ Retargeted(shares')
  /\ UNCHANGED <<cfg, job, age, all, thisTick>>

(* mining.suggest_difficulty.                                              *)
Suggest(d) ==
  /\ d > 0 /\ Clamp(d) # difficulty
  /\ difficulty' = Clamp(d) /\ moved' = "suggested"
  /\ UNCHANGED <<cfg, job, shares, age, sinceChange, all, thisTick>>

(* New work: the miner's next job has the session's difficulty.            *)
NewJob ==
  /\ job # difficulty
  /\ job' = difficulty /\ moved' = "no"
  /\ UNCHANGED <<cfg, difficulty, shares, age, sinceChange, all, thisTick>>

Older(s) == [i \in DOMAIN s |-> [s[i] EXCEPT !.age = AtMost(@ + 1, Window + 1)]]

Tick ==
  /\ shares' = Older(shares)
  /\ all' = Trimmed(Older(all))
  /\ age' = AtMost(age + 1, Window) /\ sinceChange' = AtMost(sinceChange + 1, RetargetTime)
  /\ thisTick' = 0 /\ moved' = "no"
  /\ UNCHANGED <<cfg, difficulty, job>>

VardiffNext ==
  \/ thisTick < MaxPerTick /\ SubmitShare
  \/ Evaluate \/ NewJob \/ Tick
  \/ \E d \in Suggestions : Suggest(d)

VardiffSpec == VardiffInit /\ [][VardiffNext]_vardiffVars

----------------------------------------------------------------------------
Shares == [age : 0..(Window + 1), difficulty : cfg.min_difficulty..cfg.max_difficulty]

(* The difficulty sent to the miner and that of its job always lie within  *)
(* the configured bounds, and the memory never exceeds its cap.            *)
VardiffTypeOK ==
  /\ cfg \in Configs
  /\ {difficulty, job} \subseteq cfg.min_difficulty..cfg.max_difficulty
  /\ \A i \in DOMAIN shares : shares[i] \in Shares
  /\ \A i \in DOMAIN all : all[i] \in Shares
  /\ Len(shares) <= cfg.MAX_WINDOW_SHARES
  /\ age \in 0..Window /\ sinceChange \in 0..RetargetTime
  /\ thisTick \in Nat
  /\ moved \in {"no", "suggested", "measured", "quiet"}

(* What the miner really did in the window, and what it does at a share of *)
(* the current difficulty per TargetTime in the time the window covers.    *)
RealWork   == Work(all') * TargetTime
TargetWork == difficulty * (IF age = 0 THEN 1 ELSE age)

(* A retarget never makes the work easier for a miner whose real work in   *)
(* the window already came faster than a share per TargetTime              *)
(* (vardiff.rs 81-94: the span of a young session and the remembered       *)
(* shares must describe the same time).                                    *)
NeverLowersFastMiner ==
  [][moved' \in {"measured", "quiet"} /\ difficulty' < difficulty
       => RealWork <= TargetWork]_vardiffVars

(* A retarget never makes the work harder for a miner whose real work in   *)
(* the window, not counting what it did before, is below target.           *)
NeverRaisesSlowMiner ==
  [][moved' \in {"measured", "quiet"} /\ difficulty' > difficulty
       => RealWork > TargetWork]_vardiffVars

(* A miner counts as quiet, and may be lowered by QuietStep at once, only  *)
(* if it submitted nothing in the whole window; any other retarget at most *)
(* halves the difficulty (vardiff.rs 87-99), give or take the rounding.    *)
OnlyQuietFallsFar ==
  [][moved' \in {"measured", "quiet"} /\ difficulty' < difficulty \div MaxStep
       => all' = <<>>]_vardiffVars

(* No retarget goes against what the miner really did: neither its         *)
(* direction nor how far it goes.                                          *)
RetargetsAgreeWithWork ==
  NeverLowersFastMiner /\ NeverRaisesSlowMiner /\ OnlyQuietFallsFar

=============================================================================
