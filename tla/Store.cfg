SPECIFICATION MCSpec
CONSTANTS
  MaxValue = 2
  MaxChanges = 2
  MaxPatches = 2
  MaxFailures = 1
  MaxStops = 1
  MaxEdits = 1
  Rates = {0, 1}
  MidBucket = 2
  LongBucket = 4
  RawAge = 1
  MidAge = 3
  LongAge = 4
  RetainInterval = 1
  MaxTime = 12
  MaxAborts = 1
  Workers = {w1, w2}
  Window = 2
  RestoreCap = 2
  ShareAge = 2
  ShareMaxRows = 3
  MaxShareTime = 7
  MaxShares = 4
SYMMETRY Symmetry
INVARIANTS
  ConfigurationAgrees
  ValidFileStarts
  SamplesAreCovered
  RowsAreBuckets
  WindowIsNewest
CHECK_DEADLOCK FALSE
