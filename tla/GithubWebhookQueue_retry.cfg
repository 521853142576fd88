SPECIFICATION Spec
CONSTANTS
  Teams = {t1}
  Repos = {r1}
  Events = {e1}
  Workers = {w1}
  BatchSize = 1
  MaxAttempts = 3
  Nil = Nil
  MaxThrows = 1
  MaxRepoErrors = 0
  MaxFaults = 0
  MaxSwitches = 0
INVARIANTS
  SuccessOwesNothing
CHECK_DEADLOCK FALSE
