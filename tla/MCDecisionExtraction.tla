------------------------ MODULE MCDecisionExtraction ------------------------
EXTENDS DecisionExtraction

\* Next, but for two restrictions: no more than two batches run at once, which show
\* every overlap of the properties; and the settings and the backfill days change
\* before the second commit comes.
Few == Cardinality({b \in Events : Running(b)}) < 2
Early == captured <= 1

MCNext ==
  \/ Capture
  \/ Early /\ Age
  \/ Early /\ ChangeSettings
  \/ \E b \in Events : Few /\ Read(b)
  \/ \E b \in Events :
       \/ ReadDisabled(b) \/ GetConfig(b)
       \/ \E e \in Events : NoteAttempt(b, e) \/ Classify(b, e)
       \/ WriteUnanswered(b) \/ WriteDismissed(b) \/ CreateMemory(b) \/ MarkProcessed(b)
       \/ Throw(b) \/ Die(b)
MCSpec == Init /\ [][MCNext]_vars
=============================================================================
