SPECIFICATION FairSpec

CONSTANTS
  NoRow = NoRow
  Sinks = {s1}
  Logs = {l1, l2}
  Workers = {w1}
  BatchSize = 1
  Policies = {2, 3}
  MaxAdmin = 2
  MaxDbErrors = 1
  MaxCrashes = 1

INVARIANTS
  AttemptsWereMade
  TriesWithinPolicy

PROPERTIES
  BackoffRespected
  SettlesUnlessStranded

CHECK_DEADLOCK FALSE
