SPECIFICATION FairSpec
CONSTANTS
  Workers = {w1, w2}
  Payouts = {p1, p2}
  Solutions = {n1}
  MinDiff = 1
  MaxDiff = 2
  ParentDiff = 2
  AuxDiff = 2
  MAX_JOBS = 2
  None = None
  MaxWork = 2
  MaxAuxTip = 1
INVARIANTS
  JobsAgree
  NoDoubleCredit
  CandidatesAreGood
PROPERTIES
  WorkReachesMiner
CHECK_DEADLOCK FALSE
