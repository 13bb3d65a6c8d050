SPECIFICATION Spec
CONSTANTS
  Workers = {w1, w2}
  Sessions = {s1}
  Mult = 2
  FlushThreshold = 2
  JobDiffs = {1}
  ShareDiffs = {2}
  MaxShares = 3
INVARIANTS
  WorkAccountedFor
  CountsAgree
  NothingUnderflows
PROPERTIES
  ImplementsLedger
SYMMETRY Symmetry
