\* Three commits, batches of two over the three newest events, two troubles.
SPECIFICATION MCSpec
CONSTANTS
  MaxEvents = 3
  BatchSize = 2
  ScanLimit = 3
  MaxTroubles = 2
INVARIANTS
  TypeOK
  MarkedIsDone
  DuplicatesHaveACause
  BacklogIsExplained
\* Commits stop coming.
CHECK_DEADLOCK FALSE
