SPECIFICATION FairSpec

CONSTANTS
  NoRow = NoRow
  Sinks = {s1}
  Logs = {l1}
  Workers = {w1}
  BatchSize = 2
  Policies = {2}
  MaxAdmin = 0
  MaxDbErrors = 0
  MaxCrashes = 1

PROPERTIES
  EveryRowSettles

CHECK_DEADLOCK FALSE
