SPECIFICATION Spec
CONSTANTS
  Sessions = {s1, s2}
  Workers = {w1}
  Chains = {0, 1}
  EventCap = 1
  BlockCap = 1
  CommandCap = 1
  MaxRequests = 2
  MaxRemovals = 1
SYMMETRY Symmetry
INVARIANTS
  ShownAsConnected
  BlocksAreHandedOn
CHECK_DEADLOCK FALSE
