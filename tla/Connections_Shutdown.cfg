SPECIFICATION LiveSpec
CONSTANTS
  Sessions = {s1, s2}
  Workers = {w1}
  Chains = {0}
  EventCap = 1
  BlockCap = 1
  CommandCap = 1
  MaxRequests = 2
  MaxRemovals = 0
PROPERTY ShutdownCompletes
CHECK_DEADLOCK FALSE
