---------------------------- MODULE MCActiveWork ----------------------------
EXTENDS ActiveWork, FiniteSets

\* Two candidates of one title, and a third whose title differs only in case.
CONSTANTS c1, c2, c3, t1, t2, j1
MCTitleOf == [c \in Candidates |-> IF c = c3 THEN t2 ELSE t1]
MCKeyOf == [t \in Titles |-> "key"]

\* The instance is a sum.  It starts with no trouble spent: then two may be at work
\* at once, j1 the first of two recomputes, over one candidate, until one fails.  Or
\* it starts with all spent: then they work one after the other, over all three
\* candidates, whose evidence comes once.
Busy == Cardinality({x \in Actors : hand[x].at # "idle"})
Free == Busy = 0 \/ (Busy = 1 /\ troubles = 0)
MayStart(j) == Free /\ (j = j1 \/ hand[j1].at # "idle")
MayCome(c) == IF troubles < MaxTroubles THEN c = c1 ELSE signal[c] = 0

\* Next so restricted.  One of the two settings is on and the other may be switched
\* on, once: from then on quiet rows have to be closed.
MCNext ==
  \/ Tick
  \/ autoClose # listed /\ SetPolicy /\ autoClose' /\ listed'
  \/ \E c \in Candidates : MayCome(c) /\ NewEvidence(c)
  \/ \E j \in Jobs : MayStart(j) /\ (Nightly(j) \/ Requested(j))
  \/ \E j \in Jobs : JobStep(j)
  \/ \E h \in Clerks : Record(h)
  \/ \E h \in Clerks, t \in Titles, s \in Statuses \ {"absent"} : Free /\ Decide(h, t, s)
  \/ \E x \in Actors : troubles = 0 /\ Fail(x)
MCInit == Init /\ troubles \in {0, MaxTroubles} /\ autoClose # listed
MCFairness == WF_vars(Nightly(j1)) /\ \A j \in Jobs : WF_vars(JobStep(j))
MCSpec == MCInit /\ [][MCNext]_vars /\ MCFairness
=============================================================================
