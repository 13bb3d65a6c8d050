SPECIFICATION LiveSpec
CONSTANTS
  Hashes = {h1, h2}
  Repeated = {h2}
  Capacity = 2
  Maturity = 2
  MaxFailures = 2
  MaxStops = 1
  MaxReorgs = 2
INVARIANTS
  TableAgrees
PROPERTIES
  SettledStays
  CandidatesSettle
CHECK_DEADLOCK FALSE
