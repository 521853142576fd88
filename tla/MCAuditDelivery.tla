--------------------------- MODULE MCAuditDelivery ---------------------------
(* Instances of AuditDelivery for TLC.                                      *)
EXTENDS AuditDelivery, TLC

\* Sinks, logs and instances are interchangeable in the safety runs.
Symmetry ==
  Permutations(Sinks) \union Permutations(Logs) \union Permutations(Workers)
=============================================================================
