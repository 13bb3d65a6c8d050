SPECIFICATION MCSpec
CONSTANTS
  Nodes = 2
  MaxPending = 2
  MaxConns = 2
  MaxPanics = 2
  MaxWebFails = 1
  MaxDocuments = 3
  Polls = {1, 2}
  MaxBreaks = 2
INVARIANTS
  ReturnedIsDone
PROPERTIES
  ProcessEnds
  PageFollows
CHECK_DEADLOCK FALSE
