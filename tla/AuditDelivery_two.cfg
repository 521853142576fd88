SPECIFICATION Spec

CONSTANTS
  NoRow = NoRow
  Sinks = {s1}
  Logs = {l1, l2}
  Workers = {w1, w2}
  BatchSize = 2
  Policies = {2}
  MaxAdmin = 1
  MaxDbErrors = 1
  MaxCrashes = 1

SYMMETRY Symmetry

INVARIANTS
  TypeOK
  SingleFlight
  StrandedOnlyByFaults
  DeliveredWasAcked

PROPERTIES
  ImplementsLedger

CHECK_DEADLOCK FALSE
