SPECIFICATION FairSpec
CONSTANTS
  Sessions = {s1}
  NoWork = NoWork
  MAX_JOBS = 2
  MaxTip = 2
  MaxTemplates = 4
  MaxJobId = 5
INVARIANTS
  TypeOK
  NoOutdatedAuxBlock
  NewestJobIsCurrent
  OldTipJobsStale
PROPERTIES
  CleanOncePerTemplate
  EventuallyCurrent
