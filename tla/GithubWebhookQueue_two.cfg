SPECIFICATION Spec
CONSTANTS
  Teams = {t1}
  Repos = {r1}
  Events = {e1, e2}
  Workers = {w1, w2}
  BatchSize = 2
  MaxAttempts = 2
  Nil = Nil
  MaxThrows = 2
  MaxRepoErrors = 0
  MaxFaults = 1
  MaxSwitches = 0
SYMMETRY Symmetry
INVARIANTS
  TypeOK
  ClaimedAtMostOnce
  SingleHandler
  AbandonedOnlyByFaults
CHECK_DEADLOCK FALSE
