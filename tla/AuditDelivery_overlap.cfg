SPECIFICATION Spec

CONSTANTS
  NoRow = NoRow
  Sinks = {s1}
  Logs = {l1}
  Workers = {w1, w2}
  BatchSize = 2
  Policies = {2}
  MaxAdmin = 0
  MaxDbErrors = 0
  MaxCrashes = 0

INVARIANTS
  TriesWithinPolicy

CHECK_DEADLOCK FALSE
