SPECIFICATION FairSpec
CONSTANTS
  Teams = {t1, t2}
  Repos = {r1}
  Events = {e1, e2}
  Workers = {w1}
  BatchSize = 1
  MaxAttempts = 2
  Nil = Nil
  MaxThrows = 2
  MaxRepoErrors = 1
  MaxFaults = 0
  MaxSwitches = 1
INVARIANTS
  ConvergesUnlessMissed
PROPERTIES
  RolesNeverGoBack
  EventSettles
CHECK_DEADLOCK FALSE
