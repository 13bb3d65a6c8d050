SPECIFICATION Spec
CONSTANTS
  Hashes = {h1, h2}
  Repeated = {h2}
  Capacity = 2
  Maturity = 2
  MaxFailures = 1
  MaxStops = 0
  MaxReorgs = 0
INVARIANTS
  RejectedWasRefused
CHECK_DEADLOCK FALSE
