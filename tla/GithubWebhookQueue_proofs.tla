---------------------- MODULE GithubWebhookQueue_proofs ----------------------
(***************************************************************************)
(* Proofs about GithubWebhookQueue for every set of teams, repositories,   *)
(* webhooks and instances, every batch size, number of attempts and budget.*)
(***************************************************************************)
EXTENDS GithubWebhookQueue, FiniteSetTheorems, TLAPS

IsJob(j) == \E rs \in SUBSET Repos : j \in Job([rs -> Views])

Budgets == {"throw", "repo", "fault", "switch"}

LEMMA SpendTyped ==
  ASSUME NEW what \in Budgets, TypeOK, Spend(what)
  PROVE  spent' \in [Budgets -> Nat]
BY DEF TypeOK, Spend, Budgets

LEMMA NoJobTyped == IsJob(NoJob)
<1>1. NoJob.views \in [{} -> Views]
  BY DEF NoJob
<1>2. 0 \in 0 .. MaxAttempts
  BY AttemptAssumption
<1>3. NoJob \in Job([{} -> Views])
  BY <1>1, <1>2 DEF NoJob, Job, Places, Views
<1> QED
  BY <1>3 DEF IsJob

\* A handler's record keeps its type when a step assigns these fields.
LEMMA AttemptTyped ==
  ASSUME NEW j, IsJob(j), NEW at \in Places, NEW sync \in BOOLEAN,
         NEW todo \in SUBSET Repos, NEW owed \in SUBSET Repos
  PROVE  /\ IsJob([j EXCEPT !.at = at])
         /\ IsJob([j EXCEPT !.sync = sync, !.at = at])
         /\ IsJob([j EXCEPT !.at = at, !.todo = todo, !.owed = owed])
<1> PICK rs \in SUBSET Repos : j \in Job([rs -> Views])
  BY DEF IsJob
<1> QED
  BY DEF IsJob, Job

LEMMA StartTyped ==
  ASSUME NEW e \in Events \union {Nil}, NEW at \in Places,
         NEW n \in 0 .. MaxAttempts, NEW owed \in SUBSET Repos
  PROVE  /\ IsJob([NoJob EXCEPT !.at = at, !.event = e, !.attempt = n,
                                !.owed = owed])
         /\ IsJob([NoJob EXCEPT !.at = at, !.event = e, !.attempt = n])
         /\ IsJob([NoJob EXCEPT !.at = at])
<1>1. PICK rs \in SUBSET Repos : NoJob \in Job([rs -> Views])
  BY NoJobTyped DEF IsJob
<1> QED
  BY <1>1 DEF IsJob, Job

LEMMA SetJobTyped ==
  ASSUME NEW w \in Workers, NEW j, TypeOK, IsJob(j),
         job' = [job EXCEPT ![w] = j]
  PROVE  /\ DOMAIN job' = Workers
         /\ \A v \in Workers : \E rs \in SUBSET Repos : job'[v] \in Job([rs -> Views])
BY DEF TypeOK, IsJob

\* The fields of a typed handler.
LEMMA JobFields ==
  ASSUME TypeOK, NEW w \in Workers
  PROVE  /\ IsJob(job[w])
         /\ job[w].at \in Places
         /\ job[w].event \in Events \union {Nil}
         /\ job[w].attempt \in 0 .. MaxAttempts
         /\ job[w].todo \in SUBSET Repos
         /\ job[w].repo \in Repos \union {Nil}
         /\ job[w].teams \in SUBSET Teams
         /\ job[w].view \in Views
         /\ job[w].owed \in SUBSET Repos
         /\ DOMAIN job[w].views \in SUBSET Repos
         /\ \A r \in DOMAIN job[w].views : job[w].views[r] \in Views
<1> PICK rs \in SUBSET Repos : job[w] \in Job([rs -> Views])
  BY DEF TypeOK
<1> QED
  BY DEF IsJob, Job

LEMMA EndTickTyped ==
  ASSUME NEW w \in Workers, TypeOK, EndTick(w), recent' \in [Workers -> SUBSET Repos],
         spent' \in [Budgets -> Nat]
  PROVE  TypeOK'
<1>1. batch' \in [Workers -> SUBSET Events]
  BY DEF TypeOK, EndTick
<1>2. job' = [job EXCEPT ![w] = NoJob]
  BY DEF EndTick
<1> QED
  BY <1>1, <1>2, NoJobTyped, SetJobTyped DEF TypeOK, EndTick, world, github, caches, Budgets

LEMMA StatusTyped ==
  ASSUME NEW row \in EventRows,
         NEW status \in {"none", "sent", "queued", "processing"} \union Final
  PROVE  /\ [row EXCEPT !.status = status] \in EventRows
         /\ [row EXCEPT !.status = status, !.claims = row.claims + 1] \in EventRows
<1>1. row.claims + 1 \in Nat
  BY DEF EventRows
<1> QED
  BY <1>1 DEF EventRows

LEMMA SettleTyped ==
  ASSUME NEW w \in Workers, TypeOK, NEW status \in {"processing"} \union Final,
         Settle(w, status)
  PROVE  TypeOK'
<1>1. event' \in [Events -> EventRows]
  <2>1. event' = [event EXCEPT ![job[w].event] =
                    [event[job[w].event] EXCEPT !.status = status]]
    BY DEF TypeOK, Settle
  <2> QED
    BY <2>1, StatusTyped DEF TypeOK
<1>2. IsJob([NoJob EXCEPT !.at = "batch"])
  <2>1. "batch" \in Places /\ 0 \in 0 .. MaxAttempts /\ Nil \in Events \union {Nil}
    BY AttemptAssumption DEF Places
  <2> QED
    BY <2>1, StartTyped
<1> QED
  BY <1>1, <1>2, SetJobTyped DEF TypeOK, Settle, world, github, caches

LEMMA EnvironmentTyped == TypeOK /\ Environment => TypeOK'
<1> SUFFICES ASSUME TypeOK, Environment PROVE TypeOK'
  OBVIOUS
<1>a. ASSUME NEW e \in Events, NEW kind \in {"members", "grant", "install"},
             NEW t \in Teams \union {Nil}, NEW rs \in SUBSET Repos,
             Send(e, kind, t, rs)
      PROVE  /\ event' \in [Events -> EventRows]
             /\ UNCHANGED <<setting, caches, applied, handlers, spent>>
  BY <1>a DEF TypeOK, Send, EventRows
<1>1. ASSUME NEW e \in Events, NEW t \in Teams, ChangeMembers(e, t) PROVE TypeOK'
  <2>1. members' \in [Teams -> Nat] /\ grants' = grants
    BY <1>1 DEF ChangeMembers, TypeOK
  <2>2. Send(e, "members", t, {}) /\ {} \in SUBSET Repos
    BY <1>1 DEF ChangeMembers
  <2> QED
    BY <1>a, <2>1, <2>2 DEF TypeOK, caches, handlers
<1>2. ASSUME NEW e \in Events, NEW t \in Teams, NEW r \in Repos, ChangeGrant(e, t, r)
      PROVE  TypeOK'
  <2>1. grants' \in [Repos -> SUBSET Teams] /\ members' = members
    BY <1>2 DEF ChangeGrant, TypeOK
  <2>2. Send(e, "grant", t, {r}) /\ {r} \in SUBSET Repos
    BY <1>2 DEF ChangeGrant
  <2> QED
    BY <1>a, <2>1, <2>2 DEF TypeOK, caches, handlers
<1>3. ASSUME NEW e \in Events, NEW rs \in SUBSET Repos, ChangeInstallation(e, rs)
      PROVE  TypeOK'
  BY <1>3, <1>a DEF ChangeInstallation, TypeOK, caches, handlers, github
<1>4. ASSUME NEW e \in Events, Receive(e) PROVE TypeOK'
  <2>1. event' = [event EXCEPT ![e] = [event[e] EXCEPT !.status = "queued"]]
    BY <1>4 DEF TypeOK, Receive
  <2>2. event' \in [Events -> EventRows]
    BY <2>1, StatusTyped DEF TypeOK
  <2> QED
    BY <1>4, <2>2 DEF Receive, TypeOK, caches, handlers, github
<1>5. CASE SwitchSetting
  <2>1. spent' \in [Budgets -> Nat]
    BY <1>5, SpendTyped DEF SwitchSetting, Budgets
  <2> QED
    BY <1>5, <2>1 DEF SwitchSetting, TypeOK, caches, handlers, github, Budgets
<1>6. ASSUME NEW w \in Workers, NEW r \in Repos, WindowPasses(w, r) PROVE TypeOK'
  BY <1>6 DEF WindowPasses, TypeOK, caches, github
<1> QED
  BY <1>1, <1>2, <1>3, <1>4, <1>5, <1>6 DEF Environment

\* The event a handler has in hand is a stored one, in processing.
HeldIsProcessing ==
  \A w \in Workers :
    job[w].at \notin {"idle", "batch"} =>
      job[w].event \in Events /\ event[job[w].event].status = "processing"

\* A handler that computes has a repository.
ComputesRepo ==
  \A w \in Workers : job[w].at = "compute" => job[w].repo \in Repos

LEMMA AttemptStepTyped ==
  ASSUME NEW w \in Workers, TypeOK, HeldIsProcessing, ComputesRepo, Attempt(w)
  PROVE  TypeOK'
<1> USE JobFields
<1>a. Attempting \subseteq Places /\ {"success", "failure", "batch"} \subseteq Places
  BY DEF Places
<1>b. ASSUME NEW at \in Places, Goto(w, at)
      PROVE  /\ DOMAIN job' = Workers
             /\ \A v \in Workers : \E rs \in SUBSET Repos : job'[v] \in Job([rs -> Views])
  <2>1. IsJob([job[w] EXCEPT !.at = at])
    BY AttemptTyped
  <2>2. job' = [job EXCEPT ![w] = [job[w] EXCEPT !.at = at]]
    BY <1>b DEF Goto, TypeOK
  <2> QED
    BY <2>1, <2>2, SetJobTyped
<1>1. CASE IgnoreEvent(w) \/ NoRecompute(w) \/ RecordRecompute(w)
  BY <1>1, <1>a, <1>b DEF IgnoreEvent, NoRecompute, RecordRecompute, TypeOK, world, github, caches
<1>2. CASE InvalidateRepoTeams(w)
  <2> DEFINE at == IF Row(w).team = Nil THEN "affected" ELSE "members"
             sync == setting = "on"
  <2>1. repoTeams' \in [Repos -> {Nil} \union SUBSET Teams]
    BY <1>2 DEF InvalidateRepoTeams, TypeOK
  <2>2. IsJob([job[w] EXCEPT !.sync = sync, !.at = at])
    <3>1. at \in Places /\ sync \in BOOLEAN
      BY DEF Places, Attempting
    <3> HIDE DEF at, sync
    <3> QED
      BY <3>1, AttemptTyped
  <2>3. job' = [job EXCEPT ![w] = [job[w] EXCEPT !.sync = sync, !.at = at]]
    BY <1>2 DEF InvalidateRepoTeams, TypeOK
  <2> HIDE DEF at, sync
  <2> QED
    BY <1>2, <2>1, <2>2, <2>3, SetJobTyped DEF InvalidateRepoTeams, TypeOK, world, github
<1>3. CASE InvalidateTeamMembers(w)
  <2>1. teamUsers' \in [Teams -> Nat \union {Nil}]
    BY <1>3 DEF InvalidateTeamMembers, TypeOK
  <2> QED
    BY <1>3, <2>1, <1>a, <1>b DEF InvalidateTeamMembers, TypeOK, world, github, Attempting
<1>4. CASE Debounce(w)
  <2> DEFINE affected == Affected(Row(w))
             accepted == affected \ recent[w]
             at == IF accepted = {} THEN "success" ELSE "sync"
             owed == job[w].owed \union accepted
  <2>1. job[w].event \in Events
    BY <1>4 DEF Debounce, HeldIsProcessing
  <2>2. affected \in SUBSET Repos
    BY <2>1 DEF Affected, Row, TypeOK, EventRows
  <2>3. accepted \in SUBSET Repos /\ owed \in SUBSET Repos /\ at \in Places
    BY <2>2 DEF Places, Attempting
  <2>4. job' = [job EXCEPT ![w] =
                  [job[w] EXCEPT !.at = at, !.todo = accepted, !.owed = owed]]
    BY <1>4 DEF Debounce, TypeOK
  <2>5. recent' = [recent EXCEPT ![w] = @ \union accepted]
        /\ missed' = missed \union (affected \ accepted)
    BY <1>4 DEF Debounce
  <2> HIDE DEF at, owed, accepted, affected
  <2>6. IsJob([job[w] EXCEPT !.at = at, !.todo = accepted, !.owed = owed])
    BY <2>3, AttemptTyped
  <2>7. recent' \in [Workers -> SUBSET Repos] /\ missed' \subseteq Repos
    BY <2>2, <2>3, <2>5 DEF TypeOK
  <2> QED
    BY <1>4, <2>4, <2>6, <2>7, SetJobTyped DEF Debounce, TypeOK, world, github, caches
<1>5. CASE ReadRepoTeams(w)
  <2>0. PICK r \in job[w].todo : \E teams \in {grants[r], repoTeams[r]} \ {Nil} :
          /\ repoTeams' = [repoTeams EXCEPT ![r] = teams]
          /\ job' = [job EXCEPT ![w].at = "compute", ![w].repo = r,
                                ![w].todo = @ \ {r}, ![w].teams = teams,
                                ![w].view = {}]
    BY <1>5, Zenon DEF ReadRepoTeams
  <2>1. PICK teams \in {grants[r], repoTeams[r]} \ {Nil} :
          /\ repoTeams' = [repoTeams EXCEPT ![r] = teams]
          /\ job' = [job EXCEPT ![w].at = "compute", ![w].repo = r,
                                ![w].todo = @ \ {r}, ![w].teams = teams,
                                ![w].view = {}]
    BY <2>0
  <2>2. r \in Repos /\ teams \in SUBSET Teams
    BY <2>1 DEF TypeOK
  <2>3. repoTeams' \in [Repos -> {Nil} \union SUBSET Teams]
    BY <2>1, <2>2 DEF TypeOK
  <2>4. IsJob([job[w] EXCEPT !.at = "compute", !.repo = r, !.todo = @ \ {r},
                             !.teams = teams, !.view = {}])
    <3>1. "compute" \in Places /\ {} \in Views
      BY DEF Places, Attempting, Views
    <3> QED
      BY <2>2, <3>1 DEF IsJob, Job
  <2>5. job' = [job EXCEPT ![w] =
                 [job[w] EXCEPT !.at = "compute", !.repo = r, !.todo = @ \ {r},
                                !.teams = teams, !.view = {}]]
    BY <2>1 DEF TypeOK
  <2> QED
    BY <1>5, <2>3, <2>4, <2>5, SetJobTyped DEF ReadRepoTeams, TypeOK, world, github
<1>6. CASE ReadTeamMembers(w)
  <2>0. PICK t \in job[w].teams : \E version \in {members[t], teamUsers[t]} \ {Nil} :
          /\ teamUsers' = [teamUsers EXCEPT ![t] = version]
          /\ job' = [job EXCEPT ![w].teams = @ \ {t},
                                ![w].view = @ \union {<<t, version>>}]
    BY <1>6, Zenon DEF ReadTeamMembers
  <2>1. PICK version \in {members[t], teamUsers[t]} \ {Nil} :
          /\ teamUsers' = [teamUsers EXCEPT ![t] = version]
          /\ job' = [job EXCEPT ![w].teams = @ \ {t},
                                ![w].view = @ \union {<<t, version>>}]
    BY <2>0
  <2>2. t \in Teams /\ version \in Nat
    <3>1. t \in Teams
      BY JobFields
    <3> QED
      BY <2>1, <3>1 DEF TypeOK
  <2>3. teamUsers' \in [Teams -> Nat \union {Nil}]
    BY <2>1, <2>2 DEF TypeOK
  <2>4. IsJob([job[w] EXCEPT !.teams = @ \ {t},
                             !.view = @ \union {<<t, version>>}])
    <3>1. job[w].view \union {<<t, version>>} \in Views
      BY <2>2 DEF Views
    <3> QED
      BY <2>2, <3>1 DEF IsJob, Job
  <2>5. job' = [job EXCEPT ![w] =
                 [job[w] EXCEPT !.teams = @ \ {t},
                                !.view = @ \union {<<t, version>>}]]
    <3> DEFINE seen == {<<t, version>>}
    <3>1. job' = [job EXCEPT ![w].teams = @ \ {t}, ![w].view = @ \union seen]
      BY <2>1
    <3> HIDE DEF seen
    <3>2. job' = [job EXCEPT ![w] = [job[w] EXCEPT !.teams = @ \ {t},
                                                   !.view = @ \union seen]]
      BY <3>1 DEF TypeOK
    <3> QED
      BY <3>2 DEF seen
  <2> QED
    BY <1>6, <2>3, <2>4, <2>5, SetJobTyped DEF ReadTeamMembers, TypeOK, world, github
<1>7. CASE FinishRepo(w)
  <2> DEFINE done == job[w].views
             views == [q \in DOMAIN done \union {job[w].repo} |->
                         IF q = job[w].repo THEN job[w].view ELSE done[q]]
  <2>1. job[w].repo \in Repos
    BY <1>7 DEF FinishRepo, ComputesRepo
  <2>2. DOMAIN views \in SUBSET Repos /\ views \in [DOMAIN views -> Views]
    BY <2>1
  <2>3. "sync" \in Places /\ {} \in Views
    BY DEF Places, Attempting, Views
  <2>4. job' = [job EXCEPT ![w] =
                 [job[w] EXCEPT !.at = "sync", !.repo = Nil, !.view = {},
                                !.views = views]]
    BY <1>7 DEF FinishRepo, TypeOK
  <2> HIDE DEF views
  <2>5. IsJob([job[w] EXCEPT !.at = "sync", !.repo = Nil, !.view = {},
                             !.views = views])
    BY <2>2, <2>3 DEF IsJob, Job
  <2> QED
    BY <1>7, <2>4, <2>5, SetJobTyped DEF FinishRepo, TypeOK, world, github, caches
<1>8. CASE SkipRepo(w)
  <2>1. PICK r \in Repos :
          /\ missed' = missed \union {r}
          /\ job' = [job EXCEPT ![w].at = "sync", ![w].todo = @ \ {r},
                       ![w].repo = Nil, ![w].teams = {}, ![w].view = {}]
    BY <1>8, Zenon DEF SkipRepo
  <2>2. "sync" \in Places /\ {} \in Views
    BY DEF Places, Attempting, Views
  <2>3. IsJob([job[w] EXCEPT !.at = "sync", !.todo = @ \ {r}, !.repo = Nil,
                             !.teams = {}, !.view = {}])
    BY <2>2 DEF IsJob, Job
  <2>4. job' = [job EXCEPT ![w] =
                 [job[w] EXCEPT !.at = "sync", !.todo = @ \ {r}, !.repo = Nil,
                                !.teams = {}, !.view = {}]]
    BY <2>1 DEF TypeOK
  <2>5. spent' \in [Budgets -> Nat]
    BY <1>8, SpendTyped DEF SkipRepo, Budgets
  <2> QED
    BY <1>8, <2>1, <2>3, <2>4, <2>5, SetJobTyped
    DEF SkipRepo, TypeOK, world, github, caches, Budgets
<1>9. CASE Apply(w)
  <2> DEFINE done == DOMAIN job[w].views
  <2>1. applied' \in [Repos -> Views]
    BY <1>9 DEF Apply, TypeOK
  <2>2. IsJob([job[w] EXCEPT !.at = "audit", !.owed = @ \ done,
                             !.views = NoJob.views])
    <3>1. "audit" \in Places /\ NoJob.views \in [{} -> Views] /\ {} \in SUBSET Repos
      BY DEF Places, Attempting, NoJob
    <3> QED
      BY <3>1 DEF IsJob, Job
  <2>3. job' = [job EXCEPT ![w] =
                 [job[w] EXCEPT !.at = "audit", !.owed = @ \ done,
                                !.views = NoJob.views]]
    BY <1>9 DEF Apply, TypeOK
  <2>4. missed' \subseteq Repos
    BY <1>9 DEF Apply, TypeOK
  <2> QED
    BY <1>9, <2>1, <2>2, <2>3, <2>4, SetJobTyped
    DEF Apply, TypeOK, world, github, caches
<1>10. CASE AttemptThrows(w)
  <2>1. spent' \in [Budgets -> Nat]
    BY <1>10, SpendTyped DEF AttemptThrows, Budgets
  <2>2. PICK j : IsJob(j) /\ job' = [job EXCEPT ![w] = j]
    <3>1. CASE RetriesLeft(w)
      <4>1. job[w].attempt + 1 \in 0 .. MaxAttempts
        BY <3>1, AttemptAssumption DEF RetriesLeft
      <4>2. IsJob([NoJob EXCEPT !.at = "start", !.event = job[w].event,
                     !.attempt = job[w].attempt + 1, !.owed = job[w].owed])
        BY <4>1, <1>a, StartTyped DEF Attempting
      <4> QED
        BY <1>10, <3>1, <4>2 DEF AttemptThrows, StartAttempt
    <3>2. CASE ~RetriesLeft(w)
      <4>1. MaxAttempts \in 0 .. MaxAttempts /\ {} \in SUBSET Repos
        BY AttemptAssumption
      <4>2. IsJob([NoJob EXCEPT !.at = "failure", !.event = job[w].event,
                     !.attempt = MaxAttempts])
        BY <4>1, <1>a, StartTyped
      <4> QED
        BY <1>10, <3>2, <4>2 DEF AttemptThrows
    <3> QED
      BY <3>1, <3>2
  <2> QED
    BY <1>10, <2>1, <2>2, SetJobTyped
    DEF AttemptThrows, TypeOK, world, github, caches, Budgets
<1> QED
  BY <1>1, <1>2, <1>3, <1>4, <1>5, <1>6, <1>7, <1>8, <1>9, <1>10 DEF Attempt

LEMMA ProcessTyped ==
  ASSUME NEW w \in Workers, TypeOK, HeldIsProcessing, ComputesRepo, Process(w)
  PROVE  TypeOK'
<1>1. CASE ReadBatch(w)
  <2>1. \A rows \in Batches(QueuedEvents) : rows \subseteq Events
    BY DEF Batches, QueuedEvents
  <2>2. batch' \in [Workers -> SUBSET Events]
    BY <1>1, <2>1 DEF ReadBatch, TypeOK
  <2>3. job' = [job EXCEPT ![w] = [job[w] EXCEPT !.at = "batch"]]
    BY <1>1 DEF ReadBatch, TypeOK
  <2>4. IsJob([job[w] EXCEPT !.at = "batch"])
    BY JobFields, AttemptTyped DEF Places
  <2> QED
    BY <1>1, <2>2, <2>3, <2>4, SetJobTyped DEF ReadBatch, TypeOK, world, github, caches
<1>2. CASE Claim(w)
  <2>1. PICK e \in batch[w] :
          /\ Claimable(e)
          /\ event' = [event EXCEPT ![e].status = "processing",
                                    ![e].claims = @ + 1]
          /\ batch' = [batch EXCEPT ![w] = @ \ {e}]
          /\ StartAttempt(w, e, 1, {})
    BY <1>2, Zenon DEF Claim
  <2>2. e \in Events
    BY <2>1 DEF TypeOK
  <2>3. event' \in [Events -> EventRows]
    <3>1. event' = [event EXCEPT ![e] =
            [event[e] EXCEPT !.status = "processing", !.claims = event[e].claims + 1]]
      BY <2>1, <2>2 DEF TypeOK
    <3>2. event[e] \in EventRows
      BY <2>2 DEF TypeOK
    <3>3. [event[e] EXCEPT !.status = "processing",
                           !.claims = event[e].claims + 1] \in EventRows
      BY <3>2, StatusTyped
    <3> QED
      BY <2>2, <3>1, <3>3 DEF TypeOK
  <2>4. IsJob([NoJob EXCEPT !.at = "start", !.event = e, !.attempt = 1,
                            !.owed = {}])
    <3>1. "start" \in Places /\ 1 \in 0 .. MaxAttempts /\ {} \in SUBSET Repos
      BY AttemptAssumption DEF Places, Attempting
    <3> QED
      BY <2>2, <3>1, StartTyped
  <2>5. job' = [job EXCEPT ![w] = [NoJob EXCEPT !.at = "start", !.event = e,
                                                !.attempt = 1, !.owed = {}]]
    BY <2>1 DEF StartAttempt
  <2>6. batch' \in [Workers -> SUBSET Events]
    BY <2>1 DEF TypeOK
  <2> QED
    BY <1>2, <2>3, <2>4, <2>5, <2>6, SetJobTyped DEF Claim, TypeOK, world, github, caches
<1>3. CASE SkipEvent(w)
  <2>1. batch' \in [Workers -> SUBSET Events]
    BY <1>3 DEF SkipEvent, TypeOK
  <2> QED
    BY <1>3, <2>1 DEF SkipEvent, TypeOK, world, github, caches
<1>4. CASE FinishBatch(w)
  BY <1>4, EndTickTyped DEF FinishBatch, TypeOK, Budgets
<1>5. CASE MarkDone(w) \/ MarkFailed(w)
  BY <1>5, SettleTyped DEF MarkDone, MarkFailed, Final
<1> QED
  BY <1>1, <1>2, <1>3, <1>4, <1>5, AttemptStepTyped DEF Process

LEMMA TypeStep ==
  TypeOK /\ HeldIsProcessing /\ ComputesRepo /\ [Next]_vars => TypeOK'
<1> SUFFICES ASSUME TypeOK, HeldIsProcessing, ComputesRepo, [Next]_vars
             PROVE  TypeOK'
  OBVIOUS
<1>1. ASSUME NEW w \in Workers, QueueUpdateThrows(w) \/ Crash(w)
      PROVE  TypeOK'
  <2>1. spent' \in [Budgets -> Nat]
    BY <1>1, SpendTyped DEF QueueUpdateThrows, Crash, Budgets
  <2>2. recent' \in [Workers -> SUBSET Repos]
    BY <1>1 DEF QueueUpdateThrows, Crash, TypeOK
  <2> QED
    BY <1>1, <2>1, <2>2, EndTickTyped DEF QueueUpdateThrows, Crash
<1>2. CASE UNCHANGED vars
  BY <1>2 DEF TypeOK, vars, github, caches
<1> QED
  BY <1>1, <1>2, EnvironmentTyped, ProcessTyped DEF Next

LEMMA InitTyped == Init => TypeOK
<1> SUFFICES ASSUME Init PROVE TypeOK
  OBVIOUS
<1>1. event \in [Events -> EventRows]
  BY DEF Init, Unsent, EventRows
<1>2. \A w \in Workers : \E rs \in SUBSET Repos : job[w] \in Job([rs -> Views])
  BY NoJobTyped DEF Init, IsJob
<1>3. applied \in [Repos -> Views]
  <2>1. \A r \in Repos : Truth(r) \in Views
    BY DEF Init, Truth, Views
  <2> QED
    BY <2>1 DEF Init
<1>4. grants \in [Repos -> SUBSET Teams] /\ repoTeams \in [Repos -> {Nil} \union SUBSET Teams]
  BY DEF Init
<1>5. members \in [Teams -> Nat] /\ teamUsers \in [Teams -> Nat \union {Nil}]
  BY DEF Init
<1> QED
  BY <1>1, <1>2, <1>3, <1>4, <1>5 DEF Init, TypeOK

-----------------------------------------------------------------------------
(* Events: who may change the row of an event, and when.                   *)

Busy(j) == j.at \notin {"idle", "batch"}

\* An event was claimed as often as its status says: not before it is taken
\* into processing, and once since.
ClaimsMatchStatus ==
  \A e \in Events :
    event[e].claims = IF event[e].status \in {"none", "sent", "queued"} THEN 0 ELSE 1

QueueInvariant ==
  /\ TypeOK
  /\ HeldIsProcessing
  /\ ComputesRepo
  /\ SingleHandler
  /\ ClaimsMatchStatus

\* A throwing attempt leaves a fresh record behind, with the same event.
LEMMA ThrowEffect ==
  ASSUME NEW w \in Workers, TypeOK, AttemptThrows(w)
  PROVE  /\ job'[w].at \in {"start", "failure"}
         /\ job'[w].event = job[w].event
         /\ job'[w].view = {} /\ job'[w].views = NoJob.views
         /\ job'[w].sync
         /\ \A v \in Workers \ {w} : job'[v] = job[v]
<1>1. CASE RetriesLeft(w)
  <2>1. job' = [job EXCEPT ![w] = [NoJob EXCEPT !.at = "start",
                  !.event = job[w].event, !.attempt = job[w].attempt + 1,
                  !.owed = job[w].owed]]
    BY <1>1 DEF AttemptThrows, StartAttempt
  <2> QED
    BY <2>1 DEF NoJob, TypeOK
<1>2. CASE ~RetriesLeft(w)
  <2>1. job' = [job EXCEPT ![w] = [NoJob EXCEPT !.at = "failure",
                  !.event = job[w].event, !.attempt = MaxAttempts]]
    BY <1>2 DEF AttemptThrows
  <2> QED
    BY <2>1 DEF NoJob, TypeOK
<1> QED
  BY <1>1, <1>2

\* A step of an attempt leaves every event row as it is and the same event in
\* the handler's hands.
LEMMA AttemptKeepsEvent ==
  ASSUME NEW w \in Workers, QueueInvariant, Attempt(w)
  PROVE  /\ event' = event
         /\ \A v \in Workers \ {w} : job'[v] = job[v]
         /\ Busy(job[w]) /\ Busy(job[w])'
         /\ job'[w].event = job[w].event
         /\ job'[w].at = "compute" => job'[w].repo \in Repos
<1>0. TypeOK /\ ComputesRepo /\ IsJob(job[w])
  BY JobFields DEF QueueInvariant
<1> USE DEF Busy
<1>1. CASE IgnoreEvent(w) \/ NoRecompute(w) \/ RecordRecompute(w)
  BY <1>0, <1>1 DEF IgnoreEvent, NoRecompute, RecordRecompute, Goto, TypeOK, IsJob, Job
<1>2. CASE InvalidateRepoTeams(w)
  BY <1>0, <1>2 DEF InvalidateRepoTeams, TypeOK, IsJob, Job
<1>3. CASE InvalidateTeamMembers(w)
  BY <1>0, <1>3 DEF InvalidateTeamMembers, Goto, TypeOK, IsJob, Job
<1>4. CASE Debounce(w)
  BY <1>0, <1>4 DEF Debounce, TypeOK, IsJob, Job
<1>5. CASE ReadRepoTeams(w)
  <2>1. PICK r \in job[w].todo : \E teams \in {grants[r], repoTeams[r]} \ {Nil} :
          job' = [job EXCEPT ![w].at = "compute", ![w].repo = r,
                             ![w].todo = @ \ {r}, ![w].teams = teams,
                             ![w].view = {}]
    BY <1>5, Zenon DEF ReadRepoTeams
  <2>2. r \in Repos
    BY <1>0, JobFields
  <2> QED
    BY <1>0, <1>5, <2>1, <2>2 DEF ReadRepoTeams, TypeOK, IsJob, Job
<1>6. CASE ReadTeamMembers(w)
  <2>1. PICK t, version :
          job' = [job EXCEPT ![w].teams = @ \ {t},
                             ![w].view = @ \union {<<t, version>>}]
    BY <1>6, Zenon DEF ReadTeamMembers
  <2>2. job[w].at = "compute" /\ event' = event
    BY <1>6 DEF ReadTeamMembers
  <2> DEFINE seen == {<<t, version>>}
  <2>3. job' = [job EXCEPT ![w].teams = @ \ {t}, ![w].view = @ \union seen]
    BY <2>1
  <2> HIDE DEF seen
  <2> QED
    BY <1>0, <2>2, <2>3 DEF TypeOK, IsJob, Job, ComputesRepo
<1>7. CASE FinishRepo(w)
  BY <1>0, <1>7 DEF FinishRepo, TypeOK, IsJob, Job
<1>8. CASE SkipRepo(w)
  <2>1. PICK r \in Repos :
          /\ job' = [job EXCEPT ![w].at = "sync", ![w].todo = @ \ {r},
                       ![w].repo = Nil, ![w].teams = {}, ![w].view = {}]
          /\ job[w].at \in {"sync", "compute"}
    BY <1>8, Zenon DEF SkipRepo
  <2> QED
    BY <1>0, <1>8, <2>1 DEF SkipRepo, TypeOK, IsJob, Job
<1>9. CASE Apply(w)
  BY <1>0, <1>9 DEF Apply, TypeOK, IsJob, Job
<1>10. CASE AttemptThrows(w)
  BY <1>0, <1>10, ThrowEffect DEF AttemptThrows, Attempting
<1> QED
  BY <1>1, <1>2, <1>3, <1>4, <1>5, <1>6, <1>7, <1>8, <1>9, <1>10 DEF Attempt

\* GitHub and the endpoint touch only events that are not queued yet, and no
\* handler.
LEMMA EnvironmentKeepsEvents ==
  ASSUME QueueInvariant, Environment
  PROVE  /\ job' = job
         /\ \A e \in Events :
              \/ event'[e] = event[e]
              \/ /\ event[e].status \in {"none", "sent"}
                 /\ event'[e].status \in {"sent", "queued"}
                 /\ event'[e].claims = event[e].claims
<1>0. TypeOK /\ ClaimsMatchStatus
  BY DEF QueueInvariant
<1>1. ASSUME NEW e \in Events, NEW kind, NEW t, NEW rs, Send(e, kind, t, rs)
      PROVE  /\ job' = job
             /\ event[e].status = "none" /\ event[e].claims = 0
             /\ event'[e].status = "sent" /\ event'[e].claims = 0
             /\ \A f \in Events \ {e} : event'[f] = event[f]
  BY <1>0, <1>1 DEF Send, Unsent, TypeOK, handlers
<1>2. ASSUME NEW e \in Events, Receive(e)
      PROVE  /\ job' = job
             /\ event[e].status = "sent"
             /\ event'[e].status = "queued" /\ event'[e].claims = event[e].claims
             /\ \A f \in Events \ {e} : event'[f] = event[f]
  BY <1>0, <1>2 DEF Receive, Insertable, TypeOK, EventRows, handlers
<1>3. ASSUME NEW e \in Events, NEW t \in Teams, ChangeMembers(e, t)
      PROVE  Send(e, "members", t, {})
  BY <1>3 DEF ChangeMembers
<1>4. ASSUME NEW e \in Events, NEW t \in Teams, NEW r \in Repos, ChangeGrant(e, t, r)
      PROVE  Send(e, "grant", t, {r})
  BY <1>4 DEF ChangeGrant
<1>5. ASSUME NEW e \in Events, NEW rs \in SUBSET Repos, ChangeInstallation(e, rs)
      PROVE  Send(e, "install", Nil, rs)
  BY <1>5 DEF ChangeInstallation
<1>6. CASE SwitchSetting \/ \E w \in Workers, r \in Repos : WindowPasses(w, r)
  BY <1>6 DEF SwitchSetting, WindowPasses, handlers
<1> QED
  BY <1>1, <1>2, <1>3, <1>4, <1>5, <1>6 DEF Environment

LEMMA QueueInit == Init => QueueInvariant
<1> SUFFICES ASSUME Init PROVE QueueInvariant
  OBVIOUS
<1>1. \A w \in Workers : job[w].at = "idle"
  BY DEF Init, NoJob
<1>2. \A e \in Events : event[e].status = "none" /\ event[e].claims = 0
  BY DEF Init, Unsent
<1> QED
  BY <1>1, <1>2, InitTyped
  DEF QueueInvariant, HeldIsProcessing, ComputesRepo, SingleHandler, Handles,
      ClaimsMatchStatus

\* What the remaining steps of a tick do to the rows and the handlers.
LEMMA ClaimEffect ==
  ASSUME NEW w \in Workers, QueueInvariant, Claim(w)
  PROVE  \E e \in Events :
           /\ event[e].status = "queued"
           /\ event'[e].status = "processing"
           /\ event'[e].claims = event[e].claims + 1
           /\ \A f \in Events \ {e} : event'[f] = event[f]
           /\ job'[w].at = "start" /\ job'[w].event = e
           /\ \A v \in Workers \ {w} : job'[v] = job[v]
<1>0. TypeOK
  BY DEF QueueInvariant
<1>1. PICK e \in batch[w] :
        /\ Claimable(e)
        /\ event' = [event EXCEPT ![e].status = "processing",
                                  ![e].claims = @ + 1]
        /\ StartAttempt(w, e, 1, {})
  BY Zenon DEF Claim
<1>2. e \in Events
  BY <1>0, <1>1 DEF TypeOK
<1>3. event'[e].status = "processing" /\ event'[e].claims = event[e].claims + 1
  BY <1>0, <1>1, <1>2 DEF TypeOK, EventRows
<1>4. \A f \in Events \ {e} : event'[f] = event[f]
  BY <1>0, <1>1, <1>2 DEF TypeOK
<1>5. job'[w].at = "start" /\ job'[w].event = e
      /\ \A v \in Workers \ {w} : job'[v] = job[v]
  BY <1>0, <1>1 DEF StartAttempt, NoJob, TypeOK
<1> QED
  BY <1>1, <1>2, <1>3, <1>4, <1>5 DEF Claimable

LEMMA SettleEffect ==
  ASSUME NEW w \in Workers, QueueInvariant, MarkDone(w) \/ MarkFailed(w)
  PROVE  /\ job[w].event \in Events
         /\ event[job[w].event].status = "processing"
         /\ event'[job[w].event].status \in Final
         /\ event'[job[w].event].claims = event[job[w].event].claims
         /\ \A f \in Events \ {job[w].event} : event'[f] = event[f]
         /\ ~Busy(job[w])' /\ Busy(job[w])
         /\ \A v \in Workers \ {w} : job'[v] = job[v]
<1>0. TypeOK /\ HeldIsProcessing
  BY DEF QueueInvariant
<1>1. PICK status \in Final : Settle(w, status)
  BY Zenon DEF MarkDone, MarkFailed, Final
<1>2. job[w].at \in {"success", "failure"}
  BY DEF MarkDone, MarkFailed
<1>3. job[w].event \in Events /\ event[job[w].event].status = "processing"
  BY <1>0, <1>2 DEF HeldIsProcessing
<1>4. /\ event'[job[w].event].status = status
      /\ event'[job[w].event].claims = event[job[w].event].claims
      /\ \A f \in Events \ {job[w].event} : event'[f] = event[f]
  BY <1>0, <1>1, <1>3 DEF Settle, TypeOK, EventRows
<1>5. job'[w].at = "batch" /\ \A v \in Workers \ {w} : job'[v] = job[v]
  BY <1>0, <1>1 DEF Settle, NoJob, TypeOK
<1> QED
  BY <1>1, <1>2, <1>3, <1>4, <1>5 DEF Busy

\* The end of a tick, by whatever cause, and the steps between two events.
LEMMA TickKeepsEvents ==
  ASSUME NEW w \in Workers, TypeOK,
         \/ ReadBatch(w) \/ SkipEvent(w) \/ FinishBatch(w)
         \/ QueueUpdateThrows(w) \/ Crash(w)
  PROVE  /\ event' = event
         /\ \A v \in Workers \ {w} : job'[v] = job[v]
         /\ ~Busy(job[w])'
<1>1. CASE ReadBatch(w)
  <2>1. job' = [job EXCEPT ![w] = [job[w] EXCEPT !.at = "batch"]]
    BY <1>1 DEF ReadBatch, TypeOK
  <2>2. IsJob(job[w])
    BY JobFields
  <2> QED
    BY <1>1, <2>1, <2>2 DEF ReadBatch, TypeOK, Busy, IsJob, Job
<1>2. CASE SkipEvent(w)
  BY <1>2 DEF SkipEvent, Busy
<1>3. CASE FinishBatch(w) \/ QueueUpdateThrows(w) \/ Crash(w)
  <2>1. EndTick(w)
    BY <1>3 DEF FinishBatch, QueueUpdateThrows, Crash
  <2> QED
    BY <2>1 DEF EndTick, NoJob, TypeOK, Busy
<1> QED
  BY <1>1, <1>2, <1>3

LEMMA QueueStep == QueueInvariant /\ [Next]_vars => QueueInvariant'
<1> SUFFICES ASSUME QueueInvariant, [Next]_vars PROVE QueueInvariant'
  OBVIOUS
<1>0. /\ TypeOK /\ HeldIsProcessing /\ ComputesRepo /\ SingleHandler /\ ClaimsMatchStatus
      /\ TypeOK'
  BY TypeStep DEF QueueInvariant
<1> USE DEF Busy
<1>1. CASE Environment
  <2>1. \A e \in Events : event[e].status = "processing" => event'[e] = event[e]
    BY <1>1, EnvironmentKeepsEvents
  <2>2. HeldIsProcessing' /\ ComputesRepo' /\ SingleHandler'
    BY <1>0, <1>1, <2>1, EnvironmentKeepsEvents
    DEF HeldIsProcessing, ComputesRepo, SingleHandler, Handles
  <2>3. ClaimsMatchStatus'
    BY <1>0, <1>1, EnvironmentKeepsEvents DEF ClaimsMatchStatus
  <2> QED
    BY <1>0, <2>2, <2>3 DEF QueueInvariant
<1>2. ASSUME NEW w \in Workers, Attempt(w) PROVE QueueInvariant'
  <2>1. HeldIsProcessing' /\ ComputesRepo' /\ SingleHandler' /\ ClaimsMatchStatus'
    BY <1>0, <1>2, AttemptKeepsEvent
    DEF HeldIsProcessing, ComputesRepo, SingleHandler, Handles, ClaimsMatchStatus
  <2> QED
    BY <1>0, <2>1 DEF QueueInvariant
<1>3. ASSUME NEW w \in Workers, Claim(w) PROVE QueueInvariant'
  <2>1. PICK e \in Events :
           /\ event[e].status = "queued"
           /\ event'[e].status = "processing"
           /\ event'[e].claims = event[e].claims + 1
           /\ \A f \in Events \ {e} : event'[f] = event[f]
           /\ job'[w].at = "start" /\ job'[w].event = e
           /\ \A v \in Workers \ {w} : job'[v] = job[v]
    BY <1>3, ClaimEffect
  <2>2. \A v \in Workers \ {w} : ~Handles(v, e)
    BY <1>0, <2>1 DEF HeldIsProcessing, Handles
  <2>3. HeldIsProcessing' /\ ComputesRepo'
    BY <1>0, <2>1 DEF HeldIsProcessing, ComputesRepo
  <2>4. SingleHandler'
    BY <1>0, <2>1, <2>2, <2>3 DEF SingleHandler, HeldIsProcessing, Handles
  <2>5. ClaimsMatchStatus'
    BY <1>0, <2>1 DEF ClaimsMatchStatus
  <2> QED
    BY <1>0, <2>3, <2>4, <2>5 DEF QueueInvariant
<1>4. ASSUME NEW w \in Workers, MarkDone(w) \/ MarkFailed(w) PROVE QueueInvariant'
  <2>1. \A v \in Workers \ {w} : Busy(job[v]) => job[v].event # job[w].event
    BY <1>0, <1>4, SettleEffect DEF SingleHandler, Handles, HeldIsProcessing
  <2>2. HeldIsProcessing' /\ ComputesRepo' /\ SingleHandler'
    BY <1>0, <1>4, <2>1, SettleEffect
    DEF HeldIsProcessing, ComputesRepo, SingleHandler, Handles
  <2>3. ClaimsMatchStatus'
    BY <1>0, <1>4, SettleEffect DEF ClaimsMatchStatus, Final
  <2> QED
    BY <1>0, <2>2, <2>3 DEF QueueInvariant
<1>5. ASSUME NEW w \in Workers,
             \/ ReadBatch(w) \/ SkipEvent(w) \/ FinishBatch(w)
             \/ QueueUpdateThrows(w) \/ Crash(w)
      PROVE  QueueInvariant'
  <2>1. HeldIsProcessing' /\ ComputesRepo' /\ SingleHandler' /\ ClaimsMatchStatus'
    BY <1>0, <1>5, TickKeepsEvents
    DEF HeldIsProcessing, ComputesRepo, SingleHandler, Handles, ClaimsMatchStatus
  <2> QED
    BY <1>0, <2>1 DEF QueueInvariant
<1>6. CASE UNCHANGED vars
  BY <1>0, <1>6
  DEF QueueInvariant, HeldIsProcessing, ComputesRepo, SingleHandler, Handles,
      ClaimsMatchStatus, vars
<1> QED
  BY <1>1, <1>2, <1>3, <1>4, <1>5, <1>6 DEF Next, Process

\* The queue's invariant holds in every reachable state.
THEOREM QueueInvariantHolds == Spec => []QueueInvariant
<1>1. QueueInvariant /\ [Next]_vars => QueueInvariant'
  BY QueueStep
<1> QED
  BY QueueInit, <1>1, PTL DEF Spec

\* Every variable keeps its type: attempts stay within the loop's bound, a
\* handler computes only known repositories, and views hold known teams.
THEOREM TypeCorrect == Spec => []TypeOK
BY QueueInvariantHolds, PTL DEF QueueInvariant

\* Whatever is redelivered and however many instances read the queue, an event
\* is claimed at most once (the claim's condition on status).
THEOREM NoEventIsClaimedTwice == Spec => []ClaimedAtMostOnce
<1>1. QueueInvariant => ClaimedAtMostOnce
  BY DEF QueueInvariant, ClaimsMatchStatus, ClaimedAtMostOnce
<1> QED
  BY <1>1, QueueInvariantHolds, PTL

\* An event in hand is in processing, and in one instance's hands only.
THEOREM OneHandlerAtATime == Spec => []SingleHandler
BY QueueInvariantHolds, PTL DEF QueueInvariant

\* No step takes an event out of done or failed.
THEOREM FinalEventsStayFinal == Spec => FinalIsFinal
<1>1. QueueInvariant /\ [Next]_vars =>
        [\A e \in Events : event[e].status \in Final => event'[e] = event[e]]_vars
  <2> SUFFICES ASSUME QueueInvariant, Next,
                      NEW e \in Events, event[e].status \in Final
               PROVE  event'[e] = event[e]
    BY Zenon
  <2> USE DEF Final
  <2>1. CASE Environment
    BY <2>1, EnvironmentKeepsEvents
  <2>2. ASSUME NEW w \in Workers, Attempt(w) PROVE event'[e] = event[e]
    BY <2>2, AttemptKeepsEvent
  <2>3. ASSUME NEW w \in Workers, Claim(w) PROVE event'[e] = event[e]
    BY <2>3, ClaimEffect
  <2>4. ASSUME NEW w \in Workers, MarkDone(w) \/ MarkFailed(w) PROVE event'[e] = event[e]
    BY <2>4, SettleEffect
  <2>5. ASSUME NEW w \in Workers,
               \/ ReadBatch(w) \/ SkipEvent(w) \/ FinishBatch(w)
               \/ QueueUpdateThrows(w) \/ Crash(w)
        PROVE  event'[e] = event[e]
    BY <2>5, TickKeepsEvents DEF QueueInvariant
  <2> QED
    BY <2>1, <2>2, <2>3, <2>4, <2>5 DEF Next, Process
<1> QED
  BY <1>1, QueueInvariantHolds, PTL DEF Spec, FinalIsFinal

-----------------------------------------------------------------------------
(* Events left in processing with no handler.                              *)

Abandoned ==
  {e \in Events : event[e].status = "processing" /\ \A w \in Workers : ~Handles(w, e)}

AbandonedIsBounded ==
  IsFiniteSet(Abandoned) /\ Cardinality(Abandoned) <= spent.fault

\* Only a crash or a failed queue update abandons an event, and then one.
LEMMA FaultAbandonsOne ==
  ASSUME NEW w \in Workers, QueueInvariant, QueueUpdateThrows(w) \/ Crash(w)
  PROVE  /\ Abandoned' \subseteq Abandoned \union {job[w].event}
         /\ spent'.fault = spent.fault + 1
<1>0. TypeOK
  BY DEF QueueInvariant
<1>1. spent'.fault = spent.fault + 1
  BY <1>0 DEF QueueUpdateThrows, Crash, Spend, TypeOK
<1>2. event' = event /\ \A v \in Workers \ {w} : job'[v] = job[v]
  BY <1>0, TickKeepsEvents
<1>3. \A e \in Events \ {job[w].event} : \A v \in Workers :
        Handles(v, e) => Handles(v, e)'
  BY <1>2 DEF Handles
<1> QED
  BY <1>1, <1>2, <1>3 DEF Abandoned

LEMMA OtherStepsAbandonNone ==
  ASSUME QueueInvariant,
         \/ Environment
         \/ \E w \in Workers : Process(w)
  PROVE  Abandoned' \subseteq Abandoned /\ spent'.fault = spent.fault
<1>0. TypeOK /\ HeldIsProcessing
  BY DEF QueueInvariant
<1>1. CASE Environment
  <2>1. \A e \in Events : event'[e].status = "processing" => event'[e] = event[e]
    BY <1>1, EnvironmentKeepsEvents
  <2>2. job' = job
    BY <1>1, EnvironmentKeepsEvents
  <2>3. spent'.fault = spent.fault
    <3>1. CASE SwitchSetting
      BY <1>0, <3>1 DEF SwitchSetting, Spend, TypeOK
    <3>2. CASE ~SwitchSetting
      BY <1>1, <3>2, SMT
      DEF Environment, ChangeMembers, ChangeGrant, ChangeInstallation, Send, Receive,
          WindowPasses
    <3> QED
      BY <3>1, <3>2
  <2> QED
    BY <2>1, <2>2, <2>3 DEF Abandoned, Handles
<1>2. ASSUME NEW w \in Workers, Attempt(w)
      PROVE  Abandoned' \subseteq Abandoned /\ spent'.fault = spent.fault
  <2>1. \A v \in Workers, e \in Events : Handles(v, e) => Handles(v, e)'
    BY <1>2, AttemptKeepsEvent DEF Handles, Busy
  <2>2. spent'.fault = spent.fault
    BY <1>0, <1>2
    DEF Attempt, IgnoreEvent, InvalidateRepoTeams, InvalidateTeamMembers, NoRecompute,
        Debounce, ReadRepoTeams, ReadTeamMembers, FinishRepo, SkipRepo, Apply,
        RecordRecompute, AttemptThrows, Spend, TypeOK
  <2> QED
    BY <1>2, <2>1, <2>2, AttemptKeepsEvent DEF Abandoned
<1>3. ASSUME NEW w \in Workers, Claim(w)
      PROVE  Abandoned' \subseteq Abandoned /\ spent'.fault = spent.fault
  <2>1. PICK e \in Events :
           /\ \A f \in Events \ {e} : event'[f] = event[f]
           /\ job'[w].at = "start" /\ job'[w].event = e
           /\ \A v \in Workers \ {w} : job'[v] = job[v]
    BY <1>3, ClaimEffect
  <2>2. ~Busy(job[w]) /\ spent' = spent
    BY <1>3 DEF Claim, Busy
  <2>3. Handles(w, e)'
    BY <2>1 DEF Handles
  <2>4. \A v \in Workers, f \in Events : Handles(v, f) => Handles(v, f)'
    BY <2>1, <2>2 DEF Handles, Busy
  <2> QED
    BY <2>1, <2>2, <2>3, <2>4 DEF Abandoned
<1>4. ASSUME NEW w \in Workers, MarkDone(w) \/ MarkFailed(w)
      PROVE  Abandoned' \subseteq Abandoned /\ spent'.fault = spent.fault
  <2>1. \A v \in Workers, f \in Events \ {job[w].event} :
          Handles(v, f) => Handles(v, f)'
    BY <1>4, SettleEffect DEF Handles
  <2>2. spent' = spent
    BY <1>4 DEF MarkDone, MarkFailed, Settle
  <2> QED
    BY <1>4, <2>1, <2>2, SettleEffect DEF Abandoned, Final
<1>5. ASSUME NEW w \in Workers, ReadBatch(w) \/ SkipEvent(w) \/ FinishBatch(w)
      PROVE  Abandoned' \subseteq Abandoned /\ spent'.fault = spent.fault
  <2>1. ~Busy(job[w]) /\ spent' = spent
    BY <1>5 DEF ReadBatch, SkipEvent, FinishBatch, Busy
  <2>2. \A v \in Workers, f \in Events : Handles(v, f) => Handles(v, f)'
    BY <1>0, <1>5, <2>1, TickKeepsEvents DEF Handles, Busy
  <2> QED
    BY <1>0, <1>5, <2>1, <2>2, TickKeepsEvents DEF Abandoned
<1> QED
  BY <1>1, <1>2, <1>3, <1>4, <1>5 DEF Process

\* Events are left in processing for good only by crashes and failed queue
\* updates, one each: no throwing attempt, race or redelivery loses one.
THEOREM EventsAreAbandonedOnlyByFaults == Spec => []AbandonedOnlyByFaults
<1>1. Init => AbandonedIsBounded
  <2> SUFFICES ASSUME Init PROVE AbandonedIsBounded
    OBVIOUS
  <2>1. Abandoned = {}
    BY DEF Init, Abandoned, Unsent
  <2>2. spent.fault = 0
    BY DEF Init
  <2> QED
    BY <2>1, <2>2, FS_EmptySet DEF AbandonedIsBounded
<1>2. QueueInvariant /\ AbandonedIsBounded /\ [Next]_vars => AbandonedIsBounded'
  <2> SUFFICES ASSUME QueueInvariant, AbandonedIsBounded, [Next]_vars
               PROVE  AbandonedIsBounded'
    OBVIOUS
  <2>0. spent.fault \in Nat /\ IsFiniteSet(Abandoned)
        /\ Cardinality(Abandoned) \in Nat /\ Cardinality(Abandoned) <= spent.fault
    BY FS_CardinalityType DEF QueueInvariant, TypeOK, AbandonedIsBounded
  <2>1. CASE Environment \/ \E w \in Workers : Process(w)
    <3>1. Abandoned' \subseteq Abandoned /\ spent'.fault = spent.fault
      BY <2>1, OtherStepsAbandonNone
    <3>2. IsFiniteSet(Abandoned') /\ Cardinality(Abandoned') <= Cardinality(Abandoned)
      BY <2>0, <3>1, FS_Subset
    <3>3. Cardinality(Abandoned') \in Nat
      BY <3>2, FS_CardinalityType
    <3> QED
      BY <2>0, <3>1, <3>2, <3>3 DEF AbandonedIsBounded
  <2>2. ASSUME NEW w \in Workers, QueueUpdateThrows(w) \/ Crash(w)
        PROVE  AbandonedIsBounded'
    <3> DEFINE more == Abandoned \union {job[w].event}
    <3>1. Abandoned' \subseteq more /\ spent'.fault = spent.fault + 1
      BY <2>2, FaultAbandonsOne
    <3>2. IsFiniteSet(more) /\ Cardinality(more) <= Cardinality(Abandoned) + 1
      BY <2>0, FS_AddElement
    <3> HIDE DEF more
    <3>3. IsFiniteSet(Abandoned') /\ Cardinality(Abandoned') <= Cardinality(more)
      BY <3>1, <3>2, FS_Subset
    <3>4. Cardinality(Abandoned') \in Nat /\ Cardinality(more) \in Nat
      BY <3>2, <3>3, FS_CardinalityType
    <3> QED
      BY <2>0, <3>1, <3>2, <3>3, <3>4 DEF AbandonedIsBounded
  <2>3. CASE UNCHANGED vars
    BY <2>0, <2>3 DEF AbandonedIsBounded, Abandoned, Handles, vars
  <2> QED
    BY <2>1, <2>2, <2>3 DEF Next
<1>3. AbandonedIsBounded => AbandonedOnlyByFaults
  BY DEF AbandonedIsBounded, Abandoned, AbandonedOnlyByFaults
<1> QED
  BY <1>1, <1>2, <1>3, QueueInvariantHolds, PTL DEF Spec

-----------------------------------------------------------------------------
(* Versions of member lists: one instance never applies an older one.      *)

\* No later read of the team can find less than what p says of it.
Known(p) ==
  /\ p[2] <= members[p[1]]
  /\ teamUsers[p[1]] # Nil => p[2] <= teamUsers[p[1]]

Supersedes(new, old) ==
  \A p \in new, q \in old : p[1] = q[1] => q[2] <= p[2]

VersionInvariant ==
  /\ \A t \in Teams : teamUsers[t] # Nil => teamUsers[t] <= members[t]
  /\ \A r \in Repos : \A p \in applied[r] : Known(p)
  /\ \A w \in Workers :
       /\ \A p \in job[w].view : Known(p)
       /\ job[w].at = "compute" => Supersedes(job[w].view, applied[job[w].repo])
       /\ \A r \in DOMAIN job[w].views :
            /\ \A p \in job[w].views[r] : Known(p)
            /\ Supersedes(job[w].views[r], applied[r])

\* Versions on GitHub only grow, and a deleted cache row bounds nothing.
LEMMA KnownStaysKnown ==
  ASSUME TypeOK, TypeOK', NEW p \in Teams \X Nat, Known(p),
         \A t \in Teams : members[t] <= members'[t],
         \A t \in Teams : teamUsers'[t] \in {Nil, teamUsers[t]}
  PROVE  Known(p)'
<1>1. p[1] \in Teams /\ p[2] \in Nat
  OBVIOUS
<1>2. members[p[1]] \in Nat /\ members'[p[1]] \in Nat
  BY <1>1 DEF TypeOK
<1> QED
  BY <1>1, <1>2 DEF Known

\* A step that applies nothing and computes no new pair keeps the invariant.
LEMMA NothingNewKeepsVersions ==
  ASSUME TypeOK, TypeOK', VersionInvariant,
         applied' = applied,
         \A t \in Teams : members[t] <= members'[t],
         \A t \in Teams : teamUsers'[t] \in {Nil, teamUsers[t]},
         \A w \in Workers :
           /\ job'[w].view \in {{}, job[w].view}
           /\ \/ job'[w].views = job[w].views
              \/ job'[w].views = NoJob.views
           /\ job'[w].at = "compute" =>
                \/ job'[w].view = {}
                \/ job[w].at = "compute" /\ job'[w].repo = job[w].repo
  PROVE  VersionInvariant'
<1>1. \A p \in Teams \X Nat : Known(p) => Known(p)'
  BY KnownStaysKnown
<1>2. \A t \in Teams : teamUsers'[t] # Nil => teamUsers'[t] <= members'[t]
  <2> SUFFICES ASSUME NEW t \in Teams, teamUsers'[t] # Nil
               PROVE  teamUsers'[t] <= members'[t]
    OBVIOUS
  <2>1. teamUsers'[t] = teamUsers[t] /\ teamUsers[t] <= members[t]
    BY DEF VersionInvariant
  <2>2. teamUsers[t] \in Nat /\ members[t] \in Nat /\ members'[t] \in Nat
    BY <2>1 DEF TypeOK
  <2> QED
    BY <2>1, <2>2
<1>3. \A r \in Repos : \A p \in applied'[r] : Known(p)'
  BY <1>1 DEF VersionInvariant, TypeOK, Views
<1>4. ASSUME NEW w \in Workers
      PROVE  /\ \A p \in job'[w].view : Known(p)'
             /\ job'[w].at = "compute" =>
                  Supersedes(job'[w].view, applied'[job'[w].repo])
             /\ \A r \in DOMAIN job'[w].views :
                  /\ \A p \in job'[w].views[r] : Known(p)'
                  /\ Supersedes(job'[w].views[r], applied'[r])
  <2>1. \A p \in job'[w].view : Known(p)'
    BY <1>1, JobFields DEF VersionInvariant, Views
  <2>2. job'[w].at = "compute" => Supersedes(job'[w].view, applied'[job'[w].repo])
    BY DEF VersionInvariant, Supersedes
  <2>3. \A r \in DOMAIN job'[w].views :
          /\ \A p \in job'[w].views[r] : Known(p)'
          /\ Supersedes(job'[w].views[r], applied'[r])
    <3>1. CASE job'[w].views = job[w].views
      BY <1>1, <3>1, JobFields DEF VersionInvariant, Views
    <3>2. CASE job'[w].views = NoJob.views
      BY <3>2 DEF NoJob
    <3> QED
      BY <3>1, <3>2
  <2> QED
    BY <2>1, <2>2, <2>3
<1> QED
  BY <1>2, <1>3, <1>4 DEF VersionInvariant

\* The only steps of an attempt that make a pair or hand one on are the reads
\* of team members, the end of a repository and the transaction.
LEMMA AttemptKeepsVersions ==
  ASSUME NEW w \in Workers, QueueInvariant, TypeOK', VersionInvariant, Attempt(w),
         ~ReadTeamMembers(w), ~FinishRepo(w), ~Apply(w)
  PROVE  VersionInvariant'
<1>0. TypeOK /\ ComputesRepo /\ IsJob(job[w])
  BY JobFields DEF QueueInvariant
<1>1. members' = members /\ applied' = applied
  BY DEF Attempt, IgnoreEvent, InvalidateRepoTeams, InvalidateTeamMembers, NoRecompute,
         Debounce, ReadRepoTeams, SkipRepo, RecordRecompute, AttemptThrows, world, github
<1>2. \A t \in Teams : teamUsers'[t] \in {Nil, teamUsers[t]}
  BY <1>0
  DEF Attempt, IgnoreEvent, InvalidateRepoTeams, InvalidateTeamMembers, NoRecompute,
      Debounce, ReadRepoTeams, SkipRepo, RecordRecompute, AttemptThrows, caches, TypeOK
<1>3. \A v \in Workers \ {w} : job'[v] = job[v]
  BY AttemptKeepsEvent
<1>4. /\ job'[w].view \in {{}, job[w].view}
      /\ job'[w].views = job[w].views \/ job'[w].views = NoJob.views
      /\ job'[w].at = "compute" => job'[w].view = {}
  <2>1. CASE IgnoreEvent(w) \/ NoRecompute(w) \/ RecordRecompute(w)
    BY <1>0, <2>1 DEF IgnoreEvent, NoRecompute, RecordRecompute, Goto, TypeOK, IsJob, Job
  <2>2. CASE InvalidateRepoTeams(w)
    BY <1>0, <2>2 DEF InvalidateRepoTeams, TypeOK, IsJob, Job
  <2>3. CASE InvalidateTeamMembers(w)
    BY <1>0, <2>3 DEF InvalidateTeamMembers, Goto, TypeOK, IsJob, Job
  <2>4. CASE Debounce(w)
    BY <1>0, <2>4 DEF Debounce, TypeOK, IsJob, Job
  <2>5. CASE ReadRepoTeams(w)
    <3>1. PICK r, teams :
            job' = [job EXCEPT ![w].at = "compute", ![w].repo = r,
                               ![w].todo = @ \ {r}, ![w].teams = teams,
                               ![w].view = {}]
      BY <2>5, Zenon DEF ReadRepoTeams
    <3> QED
      BY <1>0, <3>1 DEF TypeOK, IsJob, Job
  <2>6. CASE SkipRepo(w)
    <3>1. PICK r :
            job' = [job EXCEPT ![w].at = "sync", ![w].todo = @ \ {r},
                       ![w].repo = Nil, ![w].teams = {}, ![w].view = {}]
      BY <2>6, Zenon DEF SkipRepo
    <3> QED
      BY <1>0, <3>1 DEF TypeOK, IsJob, Job
  <2>7. CASE AttemptThrows(w)
    BY <1>0, <2>7, ThrowEffect
  <2> QED
    BY <2>1, <2>2, <2>3, <2>4, <2>5, <2>6, <2>7 DEF Attempt
<1>5. \A t \in Teams : members[t] <= members'[t]
  BY <1>0, <1>1 DEF TypeOK
<1> QED
  BY <1>0, <1>1, <1>2, <1>3, <1>4, <1>5, NothingNewKeepsVersions

LEMMA ReadKeepsVersions ==
  ASSUME NEW w \in Workers, QueueInvariant, TypeOK', VersionInvariant,
         ReadTeamMembers(w)
  PROVE  VersionInvariant'
<1>0. TypeOK /\ ComputesRepo /\ IsJob(job[w])
  BY JobFields DEF QueueInvariant
<1>1. PICK t \in job[w].teams : \E version \in {members[t], teamUsers[t]} \ {Nil} :
        /\ teamUsers' = [teamUsers EXCEPT ![t] = version]
        /\ job' = [job EXCEPT ![w].teams = @ \ {t},
                              ![w].view = @ \union {<<t, version>>}]
  BY Zenon DEF ReadTeamMembers
<1>2. PICK version \in {members[t], teamUsers[t]} \ {Nil} :
        /\ teamUsers' = [teamUsers EXCEPT ![t] = version]
        /\ job' = [job EXCEPT ![w].teams = @ \ {t},
                              ![w].view = @ \union {<<t, version>>}]
  BY <1>1
<1>3. t \in Teams
  BY <1>0, JobFields
<1>4. version \in Nat /\ members[t] \in Nat /\ members' = members
      /\ applied' = applied /\ job[w].at = "compute"
  BY <1>0, <1>2, <1>3 DEF ReadTeamMembers, TypeOK, world, github
<1>5. version <= members[t] /\ (teamUsers[t] # Nil => teamUsers[t] <= version)
  <2>1. teamUsers[t] # Nil => teamUsers[t] \in Nat /\ teamUsers[t] <= members[t]
    BY <1>0, <1>3 DEF TypeOK, VersionInvariant
  <2> QED
    BY <1>2, <1>4, <2>1
<1>6. teamUsers'[t] = version /\ \A u \in Teams \ {t} : teamUsers'[u] = teamUsers[u]
  BY <1>0, <1>2, <1>3 DEF TypeOK
<1>7. \A p \in Teams \X Nat : Known(p) =>
        Known(p)' /\ (p[1] = t => p[2] <= version)
  <2> SUFFICES ASSUME NEW p \in Teams \X Nat, Known(p)
               PROVE  Known(p)' /\ (p[1] = t => p[2] <= version)
    OBVIOUS
  <2>1. p[1] = t => p[2] <= version
    BY <1>2 DEF Known
  <2> QED
    BY <1>4, <1>6, <2>1 DEF Known
<1> DEFINE pair == <<t, version>>
<1>8. Known(pair)'
  BY <1>4, <1>5, <1>6 DEF Known
<1>9. /\ job'[w].view = job[w].view \union {pair}
      /\ job'[w].views = job[w].views /\ job'[w].repo = job[w].repo
      /\ \A v \in Workers \ {w} : job'[v] = job[v]
  <2>1. job' = [job EXCEPT ![w].teams = @ \ {t}, ![w].view = @ \union {pair}]
    BY <1>2
  <2> HIDE DEF pair
  <2> QED
    BY <1>0, <2>1 DEF TypeOK, IsJob, Job
<1>10. pair[1] = t /\ pair[2] = version
  OBVIOUS
<1> HIDE DEF pair
<1>11. \A u \in Teams : teamUsers'[u] # Nil => teamUsers'[u] <= members'[u]
  BY <1>4, <1>5, <1>6 DEF VersionInvariant
<1>12. \A r \in Repos : \A p \in applied'[r] : Known(p)'
  BY <1>0, <1>4, <1>7 DEF VersionInvariant, TypeOK, Views
<1>13. ASSUME NEW v \in Workers
       PROVE  \A p \in job[v].view : p \in Teams \X Nat /\ Known(p)'
  BY <1>0, <1>7, JobFields DEF VersionInvariant, Views
<1>14. ASSUME NEW v \in Workers, NEW r \in DOMAIN job'[v].views
       PROVE  /\ \A p \in job'[v].views[r] : Known(p)'
              /\ Supersedes(job'[v].views[r], applied'[r])
  <2>1. job'[v].views = job[v].views
    BY <1>9
  <2>2. \A p \in job[v].views[r] : p \in Teams \X Nat /\ Known(p)
    BY <1>0, <2>1, <1>14, JobFields DEF VersionInvariant, Views
  <2> QED
    BY <1>4, <1>7, <1>14, <2>1, <2>2 DEF VersionInvariant
<1>15. Supersedes(job'[w].view, applied'[job'[w].repo])
  <2>1. job[w].repo \in Repos
    BY <1>0, <1>4 DEF ComputesRepo
  <2>2. \A q \in applied[job[w].repo] : q[1] = t => q[2] <= version
    BY <1>0, <1>7, <2>1 DEF VersionInvariant, TypeOK, Views
  <2>3. Supersedes(job[w].view, applied[job[w].repo])
    BY <1>4 DEF VersionInvariant
  <2> QED
    BY <1>4, <1>9, <1>10, <2>2, <2>3 DEF Supersedes
<1>16. ASSUME NEW v \in Workers
       PROVE  /\ \A p \in job'[v].view : Known(p)'
              /\ job'[v].at = "compute" =>
                   Supersedes(job'[v].view, applied'[job'[v].repo])
  <2>1. CASE v = w
    BY <1>8, <1>9, <1>13, <1>15, <2>1
  <2>2. CASE v # w
    BY <1>4, <1>9, <1>13, <2>2 DEF VersionInvariant
  <2> QED
    BY <2>1, <2>2
<1> QED
  BY <1>11, <1>12, <1>14, <1>16 DEF VersionInvariant

LEMMA FinishKeepsVersions ==
  ASSUME NEW w \in Workers, QueueInvariant, TypeOK', VersionInvariant,
         FinishRepo(w)
  PROVE  VersionInvariant'
<1>0. TypeOK /\ ComputesRepo /\ IsJob(job[w])
  BY JobFields DEF QueueInvariant
<1> DEFINE done == job[w].views
           views == [q \in DOMAIN done \union {job[w].repo} |->
                       IF q = job[w].repo THEN job[w].view ELSE done[q]]
<1>1. /\ job'[w].view = {} /\ job'[w].at = "sync"
      /\ job'[w].views = views
      /\ \A v \in Workers \ {w} : job'[v] = job[v]
  BY <1>0 DEF FinishRepo, TypeOK, IsJob, Job
<1>2. /\ members' = members /\ teamUsers' = teamUsers /\ applied' = applied
      /\ job[w].at = "compute"
  BY DEF FinishRepo, world, github, caches
<1>3. ASSUME NEW r \in DOMAIN views
      PROVE  /\ \A p \in views[r] : Known(p)
             /\ Supersedes(views[r], applied[r])
  <2>1. CASE r = job[w].repo
    BY <1>2, <2>1 DEF VersionInvariant
  <2>2. CASE r # job[w].repo
    BY <2>2 DEF VersionInvariant
  <2> QED
    BY <2>1, <2>2
<1>4. \A p : Known(p)' <=> Known(p)
  BY <1>2 DEF Known
<1> HIDE DEF views
<1>5. ASSUME NEW v \in Workers
      PROVE  /\ \A p \in job'[v].view : Known(p)'
             /\ job'[v].at = "compute" =>
                  Supersedes(job'[v].view, applied'[job'[v].repo])
             /\ \A r \in DOMAIN job'[v].views :
                  /\ \A p \in job'[v].views[r] : Known(p)'
                  /\ Supersedes(job'[v].views[r], applied'[r])
  <2>1. CASE v = w
    BY <1>1, <1>2, <1>3, <1>4, <2>1
  <2>2. CASE v # w
    BY <1>1, <1>2, <1>4, <2>2 DEF VersionInvariant
  <2> QED
    BY <2>1, <2>2
<1> QED
  BY <1>2, <1>4, <1>5 DEF VersionInvariant

\* The transaction of the only instance: what it applies is known, and no other
\* instance holds a view it could have overtaken.
LEMMA ApplyKeepsVersions ==
  ASSUME NEW w \in Workers, \A v \in Workers : v = w,
         QueueInvariant, TypeOK', VersionInvariant, Apply(w)
  PROVE  VersionInvariant'
<1>0. TypeOK /\ IsJob(job[w])
  BY JobFields DEF QueueInvariant
<1>1. /\ job'[w].views = NoJob.views /\ job'[w].at = "audit"
      /\ job'[w].view = job[w].view
  BY <1>0 DEF Apply, TypeOK, IsJob, Job
<1>2. /\ members' = members /\ teamUsers' = teamUsers
      /\ applied' = [r \in Repos |-> IF r \in DOMAIN job[w].views
                                     THEN job[w].views[r] ELSE applied[r]]
  BY DEF Apply, world, github, caches
<1>3. \A p : Known(p)' <=> Known(p)
  BY <1>2 DEF Known
<1>4. \A r \in Repos : \A p \in applied'[r] : Known(p)'
  BY <1>2, <1>3 DEF VersionInvariant
<1>5. ASSUME NEW v \in Workers
      PROVE  /\ \A p \in job'[v].view : Known(p)'
             /\ job'[v].at # "compute"
             /\ \A r \in DOMAIN job'[v].views : FALSE
  BY <1>1, <1>3 DEF VersionInvariant, NoJob
<1> QED
  BY <1>2, <1>3, <1>4, <1>5 DEF VersionInvariant

LEMMA VersionInit == Init => VersionInvariant
<1> SUFFICES ASSUME Init PROVE VersionInvariant
  OBVIOUS
<1>1. \A w \in Workers : job[w].view = {} /\ job[w].views = NoJob.views
                         /\ job[w].at = "idle"
  BY DEF Init, NoJob
<1>2. \A t \in Teams : members[t] = 0 /\ teamUsers[t] \in {0, Nil}
  BY DEF Init
<1>3. ASSUME NEW r \in Repos, NEW p \in applied[r] PROVE Known(p)
  <2>1. PICK t \in Teams : p = <<t, 0>>
    BY <1>3, <1>2 DEF Init, Truth
  <2>2. members[t] = 0 /\ teamUsers[t] \in {0, Nil} /\ p[1] = t /\ p[2] = 0
    BY <1>2, <2>1
  <2> QED
    BY <2>2 DEF Known
<1>4. \A t \in Teams : teamUsers[t] # Nil => teamUsers[t] <= members[t]
  BY <1>2
<1> QED
  BY <1>1, <1>3, <1>4 DEF VersionInvariant, NoJob

LEMMA VersionStep ==
  ASSUME \A v, w \in Workers : v = w
  PROVE  QueueInvariant /\ VersionInvariant /\ [Next]_vars => VersionInvariant'
<1> SUFFICES ASSUME QueueInvariant, VersionInvariant, [Next]_vars
             PROVE  VersionInvariant'
  OBVIOUS
<1>0. TypeOK /\ TypeOK'
  BY QueueStep DEF QueueInvariant
<1>1. ASSUME NEW w \in Workers, Attempt(w) PROVE VersionInvariant'
  BY <1>0, <1>1, AttemptKeepsVersions, ReadKeepsVersions, FinishKeepsVersions,
     ApplyKeepsVersions
<1>2. ASSUME applied' = applied, teamUsers' = teamUsers,
             \A t \in Teams : members[t] <= members'[t],
             \A w \in Workers : job'[w] = job[w]
      PROVE  VersionInvariant'
  BY <1>0, <1>2, NothingNewKeepsVersions
<1>3. \A t \in Teams : members[t] <= members[t]
  BY <1>0 DEF TypeOK
<1>4. CASE Environment
  <2>1. \A w \in Workers : job'[w] = job[w]
    BY <1>4, EnvironmentKeepsEvents
  <2>2. applied' = applied /\ teamUsers' = teamUsers
    BY <1>4
    DEF Environment, ChangeMembers, ChangeGrant, ChangeInstallation, Send, Receive,
        SwitchSetting, WindowPasses, caches
  <2>3. \A t \in Teams : members[t] <= members'[t]
    <3>1. CASE \E e \in Events, t \in Teams : ChangeMembers(e, t)
      BY <1>0, <3>1 DEF ChangeMembers, TypeOK
    <3>2. CASE ~ \E e \in Events, t \in Teams : ChangeMembers(e, t)
      <4>1. members' = members
        BY <1>4, <3>2
        DEF Environment, ChangeGrant, ChangeInstallation, Receive, SwitchSetting,
            WindowPasses, github
      <4> QED
        BY <1>3, <4>1
    <3> QED
      BY <3>1, <3>2
  <2> QED
    BY <1>2, <2>1, <2>2, <2>3
<1>5. ASSUME NEW w \in Workers,
             \/ ReadBatch(w) \/ SkipEvent(w) \/ Claim(w) \/ FinishBatch(w)
             \/ MarkDone(w) \/ MarkFailed(w) \/ QueueUpdateThrows(w) \/ Crash(w)
      PROVE  VersionInvariant'
  <2>1. applied' = applied /\ teamUsers' = teamUsers /\ members' = members
    BY <1>5
    DEF ReadBatch, SkipEvent, Claim, FinishBatch, MarkDone, MarkFailed, Settle,
        QueueUpdateThrows, Crash, EndTick, world, github, caches
  <2>2. /\ job'[w].at # "compute"
        /\ job'[w].view \in {{}, job[w].view}
        /\ job'[w].views = job[w].views \/ job'[w].views = NoJob.views
    <3>1. CASE ReadBatch(w) \/ SkipEvent(w)
      <4>1. IsJob(job[w])
        BY <1>0, JobFields
      <4> QED
        BY <1>0, <3>1, <4>1 DEF ReadBatch, SkipEvent, TypeOK, IsJob, Job
    <3>2. CASE Claim(w)
      <4>1. PICK e : StartAttempt(w, e, 1, {})
        BY <3>2, Zenon DEF Claim
      <4> QED
        BY <1>0, <4>1 DEF StartAttempt, NoJob, TypeOK
    <3>3. CASE MarkDone(w) \/ MarkFailed(w)
      <4>1. job' = [job EXCEPT ![w] = [NoJob EXCEPT !.at = "batch"]]
        BY <3>3 DEF MarkDone, MarkFailed, Settle
      <4> QED
        BY <1>0, <4>1 DEF NoJob, TypeOK
    <3>4. CASE FinishBatch(w) \/ QueueUpdateThrows(w) \/ Crash(w)
      BY <1>0, <3>4 DEF FinishBatch, QueueUpdateThrows, Crash, EndTick, NoJob, TypeOK
    <3> QED
      BY <1>5, <3>1, <3>2, <3>3, <3>4
  <2> QED
    BY <1>0, <1>3, <2>1, <2>2, NothingNewKeepsVersions
<1>6. CASE UNCHANGED vars
  BY <1>2, <1>3, <1>6 DEF vars, github, caches
<1> QED
  BY <1>1, <1>4, <1>5, <1>6 DEF Next, Process

\* One instance never sets roles back to an older member list, whatever caches
\* expire and in whichever order webhooks arrive: what is applied is never newer
\* than the cached row a later recompute may use.
THEOREM OneInstanceNeverGoesBack ==
  ASSUME \A v, w \in Workers : v = w
  PROVE  Spec => RolesNeverGoBack
<1>1. QueueInvariant /\ VersionInvariant /\ [Next]_vars => VersionInvariant'
  BY VersionStep
<1>2. QueueInvariant /\ VersionInvariant /\ [Next]_vars =>
        [\A r \in Repos : applied'[r] # applied[r] =>
           \A old \in applied[r], new \in applied'[r] :
             old[1] = new[1] => old[2] <= new[2]]_vars
  <2> SUFFICES ASSUME QueueInvariant, VersionInvariant, Next,
                      NEW r \in Repos, applied'[r] # applied[r],
                      NEW old \in applied[r], NEW new \in applied'[r],
                      old[1] = new[1]
               PROVE  old[2] <= new[2]
    BY Zenon
  <2>1. PICK w \in Workers : Apply(w)
    <3>1. ~Environment
      BY DEF Environment, ChangeMembers, ChangeGrant, ChangeInstallation, Send, Receive,
             SwitchSetting, WindowPasses
    <3>2. PICK w \in Workers : Process(w) \/ QueueUpdateThrows(w) \/ Crash(w)
      BY <3>1 DEF Next
    <3>3. ~QueueUpdateThrows(w) /\ ~Crash(w)
      BY DEF QueueUpdateThrows, Crash, EndTick
    <3>4. Attempt(w)
      BY <3>2, <3>3
      DEF Process, ReadBatch, SkipEvent, Claim, FinishBatch, EndTick, MarkDone,
          MarkFailed, Settle
    <3> QED
      BY <3>4
      DEF Attempt, IgnoreEvent, InvalidateRepoTeams, InvalidateTeamMembers, NoRecompute,
          Debounce, ReadRepoTeams, ReadTeamMembers, FinishRepo, SkipRepo,
          RecordRecompute, AttemptThrows
  <2>2. r \in DOMAIN job[w].views /\ applied'[r] = job[w].views[r]
    BY <2>1 DEF Apply
  <2> QED
    BY <2>2 DEF VersionInvariant, Supersedes
<1> QED
  BY VersionInit, <1>1, <1>2, QueueInvariantHolds, PTL DEF Spec, RolesNeverGoBack

-----------------------------------------------------------------------------
(* With one instance the roles agree with GitHub once every webhook has    *)
(* been processed.  Until then each difference has its reason, and each    *)
(* reason is a step some event has yet to come to.                         *)

\* What an attempt has behind it: its repositories' teams are no longer cached;
\* nor are its team's members; its repositories have been found.
Synced == {"sync", "compute", "audit", "success"}
Matched == {"affected"} \union Synced
Invalidated == {"members"} \union Matched
Stages == {Synced, Matched, Invalidated}

\* An event on its way that has not come so far: a webhook or a queued row, one
\* an instance has in hand before these places, or one that was given up.
Ahead(e, places) ==
  /\ event[e].status \notin {"none", "done"}
  /\ ~ \E w \in Workers : job[w].event = e /\ job[w].at \in places

Concerns(e, r) ==
  \/ r \in event[e].repos
  \/ event[e].kind = "members" /\ event[e].team \in grants[r]

NamedAhead(r, places) == \E e \in Events : Ahead(e, places) /\ r \in event[e].repos
ChangeAhead(t, places) ==
  \E e \in Events : /\ Ahead(e, places)
                    /\ event[e].kind = "members" /\ event[e].team = t
Awaited(r) == \E e \in Events : Ahead(e, Synced) /\ Concerns(e, r)

\* A cached row that is out of date has yet to be deleted.
TeamsAreCached ==
  \A r \in Repos : repoTeams[r] \in {Nil, grants[r]} \/ NamedAhead(r, Invalidated)
MembersAreCached ==
  \A t \in Teams : teamUsers[t] \in {Nil, members[t]} \/ ChangeAhead(t, Matched)

Working(w) == job[w].at \in {"sync", "compute"}
InWork(w) == job[w].todo \union DOMAIN job[w].views
               \union (IF job[w].at = "compute" THEN {job[w].repo} ELSE {})

\* A repository without cached teams, which no member event would find, has yet
\* to be found by the event that names it, is waiting for the attempt in hand, or
\* was left out.
NoneIsForgotten ==
  \A r \in Repos : repoTeams[r] = Nil =>
    \/ r \in missed \/ NamedAhead(r, Synced)
    \/ \E w \in Workers : Working(w) /\ r \in job[w].todo /\ r \in Row(w).repos

\* Roles that differ from GitHub are awaited by an event or in work for one.
DifferencesAreAwaited ==
  \A r \in Repos \ missed :
    \/ applied[r] = Truth(r) \/ Awaited(r)
    \/ \E w \in Workers : Working(w) /\ r \in InWork(w) /\ Concerns(job[w].event, r)

\* A view in work is GitHub's answer, or another event about it is to come.
WorkIsCurrent ==
  \A w \in Workers :
    /\ job[w].sync
    /\ ~Working(w) => DOMAIN job[w].views = {}
    /\ \A r \in DOMAIN job[w].views :
         repoTeams[r] # Nil /\ (job[w].views[r] = Truth(r) \/ Awaited(r))
    /\ job[w].at = "compute" =>
         /\ repoTeams[job[w].repo] # Nil
         /\ \/ job[w].view \union {<<t, members[t]>> : t \in job[w].teams}
                 = Truth(job[w].repo)
            \/ Awaited(job[w].repo)

MembersNameNoRepos ==
  \A e \in Events : event[e].kind = "members" => event[e].repos = {}

OnItsWay ==
  /\ setting = "on"
  /\ TeamsAreCached /\ MembersAreCached /\ NoneIsForgotten
  /\ DifferencesAreAwaited /\ WorkIsCurrent

ConvergenceInvariant == MembersNameNoRepos /\ (spent.switch = 0 => OnItsWay)

LEMMA AheadHere ==
  ASSUME NEW w \in Workers, \A v \in Workers : v = w, NEW e, NEW places
  PROVE  /\ Ahead(e, places) <=>
              /\ event[e].status \notin {"none", "done"}
              /\ ~(job[w].event = e /\ job[w].at \in places)
         /\ Ahead(e, places)' <=>
              /\ event'[e].status \notin {"none", "done"}
              /\ ~(job'[w].event = e /\ job'[w].at \in places)
BY DEF Ahead

\* A step that computes nothing and takes no event forward keeps every reason.
LEMMA NothingTakenForward ==
  ASSUME NEW w \in Workers, \A v \in Workers : v = w, QueueInvariant, OnItsWay,
         UNCHANGED <<github, setting, caches, applied, missed>>,
         \A e \in Events : /\ event'[e].kind = event[e].kind
                           /\ event'[e].team = event[e].team
                           /\ event'[e].repos = event[e].repos,
         \A e \in Events, places \in Stages :
           Ahead(e, places) => Ahead(e, places)',
         \A e \in Events :
           Working(w) /\ job[w].event = e => Ahead(e, Synced)',
         job'[w].sync, ~Working(w)', DOMAIN job'[w].views = {}
  PROVE  OnItsWay'
<1>1. /\ grants' = grants /\ members' = members /\ setting' = setting
      /\ repoTeams' = repoTeams /\ teamUsers' = teamUsers
      /\ applied' = applied /\ missed' = missed
  BY DEF github, caches
<1>2. /\ \A places \in Stages, r \in Repos :
           NamedAhead(r, places) => NamedAhead(r, places)'
      /\ \A places \in Stages, t \in Teams :
           ChangeAhead(t, places) => ChangeAhead(t, places)'
  BY DEF NamedAhead, ChangeAhead
<1>3. {Synced, Matched, Invalidated} \subseteq Stages
  BY DEF Stages
<1>4. /\ \A r : Truth(r)' = Truth(r)
      /\ \A e \in Events : \A r : Concerns(e, r)' <=> Concerns(e, r)
  BY <1>1 DEF Truth, Concerns
<1>5. \A r : Awaited(r) => Awaited(r)'
  BY <1>3, <1>4 DEF Awaited
<1>6. Working(w) => job[w].event \in Events
  BY DEF QueueInvariant, HeldIsProcessing, Working
<1>7. TeamsAreCached' /\ MembersAreCached'
  BY <1>1, <1>2, <1>3 DEF OnItsWay, TeamsAreCached, MembersAreCached
<1>8. NoneIsForgotten'
  <2> SUFFICES ASSUME NEW r \in Repos, repoTeams[r] = Nil
               PROVE  r \in missed \/ NamedAhead(r, Synced)'
    BY <1>1 DEF NoneIsForgotten
  <2>1. CASE r \in missed \/ NamedAhead(r, Synced)
    BY <1>2, <1>3, <2>1
  <2>2. CASE Working(w) /\ r \in job[w].todo /\ r \in Row(w).repos
    BY <1>6, <2>2 DEF NamedAhead, Row
  <2> QED
    BY <2>1, <2>2 DEF OnItsWay, NoneIsForgotten
<1>9. DifferencesAreAwaited'
  <2> SUFFICES ASSUME NEW r \in Repos \ missed
               PROVE  applied[r] = Truth(r) \/ Awaited(r)'
    BY <1>1, <1>4 DEF DifferencesAreAwaited
  <2>1. CASE Working(w) /\ r \in InWork(w) /\ Concerns(job[w].event, r)
    BY <1>4, <1>6, <2>1 DEF Awaited
  <2> QED
    BY <1>5, <2>1 DEF OnItsWay, DifferencesAreAwaited
<1>10. WorkIsCurrent'
  BY DEF WorkIsCurrent, Working
<1> QED
  BY <1>1, <1>7, <1>8, <1>9, <1>10 DEF OnItsWay

\* What GitHub changes is awaited by the webhook it sends.
LEMMA ChangesAreAwaited ==
  ASSUME QueueInvariant, OnItsWay, job' = job,
         UNCHANGED <<setting, caches, applied, missed>>,
         \A e \in Events : event[e].status # "none" =>
                             /\ event'[e].kind = event[e].kind
                             /\ event'[e].team = event[e].team
                             /\ event'[e].repos = event[e].repos,
         \A e \in Events, places \in Stages :
           Ahead(e, places) => Ahead(e, places)',
         \A r \in Repos : \/ grants'[r] = grants[r]
                          \/ \A places \in Stages : NamedAhead(r, places)',
         \A t \in Teams : \/ members'[t] = members[t]
                          \/ \A places \in Stages : ChangeAhead(t, places)'
  PROVE  OnItsWay'
<1>1. /\ setting' = setting /\ repoTeams' = repoTeams /\ teamUsers' = teamUsers
      /\ applied' = applied /\ missed' = missed /\ grants \in [Repos -> SUBSET Teams]
      /\ HeldIsProcessing /\ TypeOK
  BY DEF caches, QueueInvariant, TypeOK
<1>2. /\ \A places \in Stages, r \in Repos :
           NamedAhead(r, places) => NamedAhead(r, places)'
      /\ \A places \in Stages, t \in Teams :
           ChangeAhead(t, places) => ChangeAhead(t, places)'
  BY DEF NamedAhead, ChangeAhead, Ahead
<1>3. {Synced, Matched, Invalidated} \subseteq Stages
  BY DEF Stages
<1>4. \A r \in Repos : grants'[r] = grants[r] \/ Awaited(r)'
  BY <1>3 DEF NamedAhead, Awaited, Concerns
<1>5. \A r \in Repos :
        \/ grants'[r] = grants[r] /\ \A t \in grants[r] : members'[t] = members[t]
        \/ Awaited(r)'
  <2> SUFFICES ASSUME NEW r \in Repos, grants'[r] = grants[r],
                      NEW t \in grants[r], members'[t] # members[t]
               PROVE  Awaited(r)'
    BY <1>4
  <2>1. t \in Teams
    BY <1>1
  <2>2. ChangeAhead(t, Synced)'
    BY <1>3, <2>1
  <2> QED
    BY <2>2 DEF ChangeAhead, Awaited, Concerns
<1>6. ASSUME NEW r \in Repos, Awaited(r) PROVE Awaited(r)'
  <2>1. PICK e \in Events : Ahead(e, Synced) /\ Concerns(e, r)
    BY <1>6 DEF Awaited
  <2>2. grants'[r] = grants[r] => Concerns(e, r)'
    BY <2>1 DEF Concerns, Ahead
  <2> QED
    BY <1>3, <1>4, <2>1, <2>2 DEF Awaited
<1>7. \A r \in Repos : Truth(r)' = Truth(r) \/ Awaited(r)'
  BY <1>5 DEF Truth
<1>8. \A v \in Workers : Working(v) =>
        job[v].event \in Events /\ event[job[v].event].status # "none"
  BY <1>1 DEF HeldIsProcessing, Working
<1>9. TeamsAreCached' /\ MembersAreCached'
  BY <1>1, <1>2, <1>3 DEF OnItsWay, TeamsAreCached, MembersAreCached
<1>10. NoneIsForgotten'
  <2> SUFFICES ASSUME NEW r \in Repos, repoTeams[r] = Nil
               PROVE  \/ r \in missed \/ NamedAhead(r, Synced)'
                      \/ \E v \in Workers : (/\ Working(v) /\ r \in job[v].todo
                                             /\ r \in Row(v).repos)'
    BY <1>1 DEF NoneIsForgotten
  <2>1. CASE r \in missed \/ NamedAhead(r, Synced)
    BY <1>2, <1>3, <2>1
  <2>2. ASSUME NEW v \in Workers, Working(v), r \in job[v].todo,
               r \in Row(v).repos
        PROVE  (Working(v) /\ r \in job[v].todo /\ r \in Row(v).repos)'
    BY <1>8, <2>2 DEF Working, Row
  <2> QED
    BY <2>1, <2>2 DEF OnItsWay, NoneIsForgotten
<1>11. DifferencesAreAwaited'
  <2> SUFFICES ASSUME NEW r \in Repos \ missed, ~Awaited(r)'
               PROVE  \/ applied[r] = Truth(r)
                      \/ \E v \in Workers : (/\ Working(v) /\ r \in InWork(v)
                                             /\ Concerns(job[v].event, r))'
    BY <1>1, <1>7 DEF DifferencesAreAwaited
  <2>1. grants'[r] = grants[r] /\ ~Awaited(r)
    BY <1>4, <1>6
  <2>2. ASSUME NEW v \in Workers, Working(v), r \in InWork(v),
               Concerns(job[v].event, r)
        PROVE  (Working(v) /\ r \in InWork(v) /\ Concerns(job[v].event, r))'
    BY <1>8, <2>1, <2>2 DEF Working, InWork, Concerns
  <2> QED
    BY <2>1, <2>2 DEF OnItsWay, DifferencesAreAwaited
<1>12. WorkIsCurrent'
  <2> SUFFICES ASSUME NEW v \in Workers
               PROVE  /\ job[v].sync
                      /\ ~Working(v) => DOMAIN job[v].views = {}
                      /\ \A r \in DOMAIN job[v].views :
                           /\ repoTeams[r] # Nil
                           /\ job[v].views[r] = Truth(r)' \/ Awaited(r)'
                      /\ job[v].at = "compute" =>
                           /\ repoTeams[job[v].repo] # Nil
                           /\ \/ job[v].view \union
                                   {<<t, members'[t]>> : t \in job[v].teams}
                                   = Truth(job[v].repo)'
                              \/ Awaited(job[v].repo)'
    BY <1>1 DEF WorkIsCurrent, Working
  <2>1. DOMAIN job[v].views \subseteq Repos /\ job[v].teams \subseteq Teams
    BY <1>1, JobFields
  <2>2. ASSUME job[v].at = "compute"
        PROVE  \/ job[v].view \union {<<t, members'[t]>> : t \in job[v].teams}
                    = Truth(job[v].repo)'
               \/ Awaited(job[v].repo)'
    <3> DEFINE r == job[v].repo
    <3>1. r \in Repos
      BY <2>2 DEF QueueInvariant, ComputesRepo
    <3>2. CASE Awaited(r)
      BY <1>6, <3>1, <3>2
    <3>3. CASE job[v].view \union {<<t, members[t]>> : t \in job[v].teams}
                 = Truth(r)
      <4> SUFFICES ASSUME ~Awaited(r)'
                   PROVE  job[v].view \union
                            {<<t, members'[t]>> : t \in job[v].teams} = Truth(r)'
        OBVIOUS
      <4>1. grants'[r] = grants[r] /\ \A t \in grants[r] : members'[t] = members[t]
        BY <1>5, <3>1
      <4>2. Truth(r)' = Truth(r)
        BY <1>7, <3>1
      <4>3. \A t \in job[v].teams : t \in grants[r]
        <5> SUFFICES ASSUME NEW t \in job[v].teams PROVE t \in grants[r]
          OBVIOUS
        <5>1. <<t, members[t]>> \in Truth(r)
          BY <3>3
        <5> QED
          BY <5>1 DEF Truth
      <4>4. {<<t, members'[t]>> : t \in job[v].teams}
              = {<<t, members[t]>> : t \in job[v].teams}
        BY <4>1, <4>3
      <4> QED
        BY <3>3, <4>2, <4>4
    <3> QED
      BY <2>2, <3>2, <3>3 DEF OnItsWay, WorkIsCurrent
  <2>3. ASSUME NEW r \in DOMAIN job[v].views
        PROVE  repoTeams[r] # Nil /\ (job[v].views[r] = Truth(r)' \/ Awaited(r)')
    BY <1>6, <1>7, <2>1, <2>3 DEF OnItsWay, WorkIsCurrent
  <2> QED
    BY <2>2, <2>3 DEF OnItsWay, WorkIsCurrent
<1> QED
  BY <1>1, <1>9, <1>10, <1>11, <1>12 DEF OnItsWay

LEMMA NotYetTaken ==
  ASSUME NEW e \in Events, HeldIsProcessing, job' = job,
         event[e].status # "processing",
         event'[e].status \notin {"none", "done"}
  PROVE  \A places \in Stages : Ahead(e, places)'
BY DEF HeldIsProcessing, Ahead, Stages, Invalidated, Matched, Synced

LEMMA SendEffect ==
  ASSUME QueueInvariant, NEW e \in Events, NEW kind, NEW t, NEW rs,
         Send(e, kind, t, rs)
  PROVE  /\ event[e].status = "none" /\ job' = job
         /\ event'[e].kind = kind /\ event'[e].team = t /\ event'[e].repos = rs
         /\ \A f \in Events \ {e} : event'[f] = event[f]
         /\ \A places \in Stages : Ahead(e, places)'
         /\ \A f \in Events, places \in Stages :
              Ahead(f, places) => Ahead(f, places)'
         /\ UNCHANGED <<setting, caches, applied, missed, spent>>
<1>1. /\ event[e].status = "none" /\ job' = job
      /\ event'[e].kind = kind /\ event'[e].team = t /\ event'[e].repos = rs
      /\ event'[e].status = "sent"
      /\ \A f \in Events \ {e} : event'[f] = event[f]
      /\ UNCHANGED <<setting, caches, applied, missed, spent>>
  BY DEF Send, Unsent, QueueInvariant, TypeOK, handlers
<1>2. \A places \in Stages : Ahead(e, places)'
  BY <1>1, NotYetTaken DEF QueueInvariant
<1>3. \A f \in Events \ {e}, places \in Stages :
        Ahead(f, places) => Ahead(f, places)'
  BY <1>1 DEF Ahead
<1> QED
  BY <1>1, <1>2, <1>3

\* A step that leaves events, handlers and GitHub alone.
LEMMA NothingHappens ==
  ASSUME ConvergenceInvariant, event' = event, job' = job,
         UNCHANGED <<github, setting, caches, applied, missed, spent>>
  PROVE  ConvergenceInvariant'
BY DEF ConvergenceInvariant, MembersNameNoRepos, OnItsWay, TeamsAreCached,
       MembersAreCached, NoneIsForgotten, DifferencesAreAwaited, WorkIsCurrent,
       NamedAhead, ChangeAhead, Awaited, Ahead, Concerns, Working, InWork, Row,
       Truth, github, caches

LEMMA EnvironmentKeepsReasons ==
  ASSUME QueueInvariant, ConvergenceInvariant, Environment
  PROVE  ConvergenceInvariant'
<1>0. TypeOK /\ HeldIsProcessing /\ MembersNameNoRepos
  BY DEF QueueInvariant, ConvergenceInvariant
<1>a. ASSUME NEW e \in Events, NEW kind, NEW t, NEW rs, Send(e, kind, t, rs),
             kind = "members" => rs = {},
             \A r \in Repos : \/ grants'[r] = grants[r]
                              \/ \A places \in Stages : NamedAhead(r, places)',
             \A u \in Teams : \/ members'[u] = members[u]
                              \/ \A places \in Stages : ChangeAhead(u, places)'
      PROVE  ConvergenceInvariant'
  <2>1. /\ event[e].status = "none" /\ job' = job
        /\ event'[e].kind = kind /\ event'[e].repos = rs
        /\ \A f \in Events \ {e} : event'[f] = event[f]
        /\ \A f \in Events, places \in Stages :
             Ahead(f, places) => Ahead(f, places)'
        /\ UNCHANGED <<setting, caches, applied, missed, spent>>
    BY <1>a, SendEffect
  <2>2. MembersNameNoRepos'
    BY <1>0, <1>a, <2>1 DEF MembersNameNoRepos
  <2>3. OnItsWay => OnItsWay'
    BY <1>a, <2>1, ChangesAreAwaited
  <2> QED
    BY <2>1, <2>2, <2>3 DEF ConvergenceInvariant
<1>1. ASSUME NEW e \in Events, NEW t \in Teams, ChangeMembers(e, t)
      PROVE  ConvergenceInvariant'
  <2>1. Send(e, "members", t, {}) /\ grants' = grants
        /\ members' = [members EXCEPT ![t] = @ + 1]
    BY <1>1 DEF ChangeMembers
  <2>2. \A places \in Stages : ChangeAhead(t, places)'
    BY <2>1, SendEffect DEF ChangeAhead
  <2>3. \A u \in Teams \ {t} : members'[u] = members[u]
    BY <1>0, <2>1 DEF TypeOK
  <2> QED
    BY <1>a, <2>1, <2>2, <2>3
<1>2. ASSUME NEW e \in Events, NEW t \in Teams, NEW r \in Repos,
             ChangeGrant(e, t, r)
      PROVE  ConvergenceInvariant'
  <2>1. Send(e, "grant", t, {r}) /\ members' = members
        /\ \A q \in Repos \ {r} : grants'[q] = grants[q]
    BY <1>0, <1>2 DEF ChangeGrant, TypeOK
  <2>2. \A places \in Stages : NamedAhead(r, places)'
    BY <2>1, SendEffect DEF NamedAhead
  <2> QED
    BY <1>a, <2>1, <2>2
<1>3. ASSUME NEW e \in Events, NEW rs, ChangeInstallation(e, rs)
      PROVE  ConvergenceInvariant'
  <2>1. Send(e, "install", Nil, rs) /\ grants' = grants /\ members' = members
    BY <1>3 DEF ChangeInstallation, github
  <2> QED
    BY <1>a, <2>1
<1>4. ASSUME NEW e \in Events, Receive(e) PROVE ConvergenceInvariant'
  <2>1. /\ event[e].status = "sent" /\ event'[e].status = "queued"
        /\ event'[e].kind = event[e].kind /\ event'[e].team = event[e].team
        /\ event'[e].repos = event[e].repos
        /\ \A f \in Events \ {e} : event'[f] = event[f]
        /\ UNCHANGED <<github, setting, caches, applied, job, missed, spent>>
    BY <1>0, <1>4 DEF Receive, Insertable, TypeOK, EventRows, handlers
  <2>2. \A f \in Events, places \in Stages :
          Ahead(f, places) => Ahead(f, places)'
    <3>1. \A places \in Stages : Ahead(e, places)'
      BY <1>0, <2>1, NotYetTaken
    <3>2. \A f \in Events \ {e}, places \in Stages :
            Ahead(f, places) => Ahead(f, places)'
      BY <2>1 DEF Ahead
    <3> QED
      BY <3>1, <3>2
  <2>3. MembersNameNoRepos'
    BY <1>0, <2>1 DEF MembersNameNoRepos
  <2>4. grants' = grants /\ members' = members
    BY <2>1 DEF github
  <2>5. \A f \in Events : /\ event'[f].kind = event[f].kind
                          /\ event'[f].team = event[f].team
                          /\ event'[f].repos = event[f].repos
    BY <2>1
  <2>6. OnItsWay => OnItsWay'
    BY <2>1, <2>2, <2>4, <2>5, ChangesAreAwaited
  <2> QED
    BY <2>1, <2>3, <2>6 DEF ConvergenceInvariant
<1>5. CASE SwitchSetting
  <2>1. spent'.switch # 0
    BY <1>0, <1>5 DEF SwitchSetting, Spend, TypeOK
  <2>2. event' = event
    BY <1>5 DEF SwitchSetting
  <2>3. MembersNameNoRepos'
    BY <1>0, <2>2 DEF MembersNameNoRepos
  <2> QED
    BY <2>1, <2>3 DEF ConvergenceInvariant
<1>6. ASSUME NEW w \in Workers, NEW r \in Repos, WindowPasses(w, r)
      PROVE  ConvergenceInvariant'
  BY <1>6, NothingHappens DEF WindowPasses
<1> QED
  BY <1>1, <1>2, <1>3, <1>4, <1>5, <1>6 DEF Environment

LEMMA ReasonsInit == Init => ConvergenceInvariant
<1> SUFFICES ASSUME Init PROVE ConvergenceInvariant
  OBVIOUS
<1>1. MembersNameNoRepos
  BY DEF Init, Unsent, MembersNameNoRepos
<1>2. \A w \in Workers : /\ job[w].at = "idle" /\ job[w].sync
                         /\ DOMAIN job[w].views = {}
  BY DEF Init, NoJob
<1>3. \A r \in Repos : repoTeams[r] = grants[r] /\ grants[r] # Nil
                       /\ applied[r] = Truth(r)
  BY NilAssumption DEF Init
<1>4. \A t \in Teams : teamUsers[t] \in {Nil, members[t]}
  BY DEF Init
<1>5. WorkIsCurrent
  BY <1>2 DEF WorkIsCurrent
<1>6. setting = "on"
  BY DEF Init
<1> QED
  BY <1>1, <1>3, <1>4, <1>5, <1>6
  DEF ConvergenceInvariant, OnItsWay, TeamsAreCached, MembersAreCached,
      NoneIsForgotten, DifferencesAreAwaited

\* A step after which the instance has nothing behind it.
LEMMA BackAtTheStart ==
  ASSUME NEW w \in Workers, \A v \in Workers : v = w,
         QueueInvariant, ConvergenceInvariant,
         UNCHANGED <<github, setting, caches, applied, missed>>,
         spent'.switch = spent.switch,
         \A e \in Events : /\ event'[e].kind = event[e].kind
                           /\ event'[e].team = event[e].team
                           /\ event'[e].repos = event[e].repos,
         \A e \in Events : event[e].status \notin {"none", "done"} =>
           \/ event'[e].status \notin {"none", "done"}
           \/ job[w].event = e /\ job[w].at = "success",
         job'[w].at \notin Invalidated,
         OnItsWay => job'[w].sync /\ DOMAIN job'[w].views = {}
  PROVE  ConvergenceInvariant'
<1>1. ASSUME NEW e \in Events, NEW places \in Stages, Ahead(e, places)
      PROVE  Ahead(e, places)'
  <2>1. "success" \in places /\ places \subseteq Invalidated
    BY DEF Stages, Invalidated, Matched, Synced
  <2>2. event[e].status \notin {"none", "done"}
        /\ ~(job[w].event = e /\ job[w].at \in places)
    BY <1>1, AheadHere
  <2> QED
    BY <2>1, <2>2, AheadHere
<1>2. ASSUME NEW e \in Events, Working(w), job[w].event = e
      PROVE  Ahead(e, Synced)'
  <2>1. event[e].status = "processing" /\ job[w].at # "success"
    BY <1>2 DEF QueueInvariant, HeldIsProcessing, Working
  <2>2. event'[e].status \notin {"none", "done"}
    BY <2>1
  <2>3. job'[w].at \notin Synced
    BY DEF Invalidated, Matched
  <2> QED
    BY <2>2, <2>3, AheadHere
<1>3. ~Working(w)'
  BY DEF Working, Invalidated, Matched, Synced
<1>4. MembersNameNoRepos'
  BY DEF ConvergenceInvariant, MembersNameNoRepos
<1>5. OnItsWay => OnItsWay'
  BY <1>1, <1>2, <1>3, NothingTakenForward
<1> QED
  BY <1>4, <1>5 DEF ConvergenceInvariant

LEMMA TicksKeepReasons ==
  ASSUME NEW w \in Workers, \A v \in Workers : v = w,
         QueueInvariant, ConvergenceInvariant,
         \/ ReadBatch(w) \/ SkipEvent(w) \/ Claim(w) \/ FinishBatch(w)
         \/ MarkDone(w) \/ MarkFailed(w) \/ QueueUpdateThrows(w) \/ Crash(w)
         \/ AttemptThrows(w)
  PROVE  ConvergenceInvariant'
<1>0. TypeOK /\ HeldIsProcessing /\ IsJob(job[w])
  BY JobFields DEF QueueInvariant
<1>a. Invalidated = {"members", "affected", "sync", "compute", "audit", "success"}
  BY DEF Invalidated, Matched, Synced
<1>b. OnItsWay => job[w].sync /\ (~Working(w) => DOMAIN job[w].views = {})
  BY DEF OnItsWay, WorkIsCurrent
<1>c. DOMAIN NoJob.views = {} /\ NoJob.sync /\ NoJob.at = "idle"
  BY DEF NoJob
<1>1. UNCHANGED <<github, setting, caches, applied, missed>>
  BY DEF ReadBatch, SkipEvent, Claim, FinishBatch, MarkDone, MarkFailed, Settle,
         QueueUpdateThrows, Crash, EndTick, AttemptThrows, world
<1>2. spent'.switch = spent.switch
  <2>1. CASE QueueUpdateThrows(w) \/ Crash(w)
    BY <1>0, <2>1 DEF QueueUpdateThrows, Crash, Spend, TypeOK
  <2>2. CASE AttemptThrows(w)
    BY <1>0, <2>2 DEF AttemptThrows, Spend, TypeOK
  <2>3. CASE UNCHANGED spent
    BY <2>3
  <2> QED
    BY <2>1, <2>2, <2>3
    DEF ReadBatch, SkipEvent, Claim, FinishBatch, MarkDone, MarkFailed, Settle
<1>3. CASE ReadBatch(w) \/ SkipEvent(w)
  <2>1. /\ event' = event /\ job'[w].at = "batch" /\ job'[w].sync = job[w].sync
        /\ job'[w].views = job[w].views /\ ~Working(w)
    BY <1>0, <1>3 DEF ReadBatch, SkipEvent, TypeOK, IsJob, Job, Working
  <2> QED
    BY <1>1, <1>2, <1>a, <1>b, <2>1, BackAtTheStart
<1>4. CASE Claim(w)
  <2>1. PICK e \in batch[w] :
          /\ Claimable(e)
          /\ event' = [event EXCEPT ![e].status = "processing",
                                    ![e].claims = @ + 1]
          /\ StartAttempt(w, e, 1, {})
    BY <1>4, Zenon DEF Claim
  <2>2. e \in Events
    BY <1>0, <2>1 DEF TypeOK
  <2>3. \A f \in Events : /\ event'[f].kind = event[f].kind
                          /\ event'[f].team = event[f].team
                          /\ event'[f].repos = event[f].repos
                          /\ event'[f].status \in {event[f].status, "processing"}
    BY <1>0, <2>1, <2>2 DEF TypeOK, EventRows
  <2>4. job'[w].at = "start" /\ job'[w].sync /\ job'[w].views = NoJob.views
    BY <1>0, <2>1 DEF StartAttempt, NoJob, TypeOK
  <2> QED
    BY <1>1, <1>2, <1>a, <1>c, <2>3, <2>4, BackAtTheStart
<1>5. CASE FinishBatch(w) \/ QueueUpdateThrows(w) \/ Crash(w)
  <2>1. event' = event /\ job'[w] = NoJob
    BY <1>0, <1>5 DEF FinishBatch, QueueUpdateThrows, Crash, EndTick, TypeOK
  <2> QED
    BY <1>1, <1>2, <1>a, <1>c, <2>1, BackAtTheStart
<1>6. CASE MarkDone(w) \/ MarkFailed(w)
  <2>1. PICK status \in Final :
          Settle(w, status) /\ (status = "done" => job[w].at = "success")
    BY <1>6 DEF MarkDone, MarkFailed, Final
  <2>2. job[w].event \in Events
    BY <1>0, <1>6 DEF HeldIsProcessing, MarkDone, MarkFailed
  <2> DEFINE e == job[w].event
  <2>a. event' = [event EXCEPT ![e].status = status]
    BY <2>1 DEF Settle
  <2>b. event'[e] = [event[e] EXCEPT !.status = status]
        /\ \A f \in Events \ {e} : event'[f] = event[f]
    BY <1>0, <2>2, <2>a DEF TypeOK
  <2>c. event[e] \in EventRows
    BY <1>0, <2>2 DEF TypeOK
  <2>d. /\ event'[e].kind = event[e].kind /\ event'[e].team = event[e].team
        /\ event'[e].repos = event[e].repos /\ event'[e].status = status
    BY <2>b, <2>c DEF EventRows
  <2> HIDE DEF e
  <2>3. \A f \in Events : /\ event'[f].kind = event[f].kind
                          /\ event'[f].team = event[f].team
                          /\ event'[f].repos = event[f].repos
                          /\ event'[f].status = IF f = e
                                                THEN status ELSE event[f].status
    BY <2>b, <2>d
  <2>4. job'[w].at = "batch" /\ job'[w].sync /\ job'[w].views = NoJob.views
    BY <1>0, <2>1 DEF Settle, NoJob, TypeOK
  <2> QED
    <3>1. \A f \in Events : event[f].status \notin {"none", "done"} =>
            \/ event'[f].status \notin {"none", "done"}
            \/ job[w].event = f /\ job[w].at = "success"
      BY <2>1, <2>3 DEF Final, e
    <3>2. job'[w].at \notin Invalidated /\ job'[w].sync /\ DOMAIN job'[w].views = {}
      BY <1>a, <1>c, <2>4
    <3>3. \A f \in Events : /\ event'[f].kind = event[f].kind
                            /\ event'[f].team = event[f].team
                            /\ event'[f].repos = event[f].repos
      BY <2>3
    <3> QED
      BY <1>1, <1>2, <3>1, <3>2, <3>3, BackAtTheStart
<1>7. CASE AttemptThrows(w)
  <2>1. event' = event
    BY <1>7 DEF AttemptThrows
  <2>2. /\ job'[w].at \in {"start", "failure"} /\ job'[w].sync
        /\ job'[w].views = NoJob.views
    BY <1>0, <1>7, ThrowEffect
  <2> QED
    BY <1>1, <1>2, <1>a, <1>c, <2>1, <2>2, BackAtTheStart
<1> QED
  BY <1>3, <1>4, <1>5, <1>6, <1>7

\* The steps of an attempt one by one, while the workspace's settings stay on.
LEMMA SettingsStayOn ==
  ASSUME NEW w \in Workers, OnItsWay
  PROVE  ~IgnoreEvent(w) /\ ~NoRecompute(w)
BY DEF OnItsWay, WorkIsCurrent, IgnoreEvent, NoRecompute

LEMMA RecordKeepsReasons ==
  ASSUME NEW w \in Workers, \A v \in Workers : v = w, QueueInvariant, OnItsWay,
         RecordRecompute(w)
  PROVE  OnItsWay'
<1>0. TypeOK /\ IsJob(job[w])
  BY JobFields DEF QueueInvariant
<1>1. /\ job[w].at = "audit" /\ job'[w].at = "success" /\ event' = event
      /\ job'[w].event = job[w].event /\ job'[w].sync = job[w].sync
      /\ job'[w].views = job[w].views
      /\ UNCHANGED <<github, setting, caches, applied, missed>>
  BY <1>0 DEF RecordRecompute, Goto, TypeOK, IsJob, Job, world
<1>2. job[w].sync /\ DOMAIN job[w].views = {} /\ ~Working(w) /\ ~Working(w)'
  BY <1>1 DEF OnItsWay, WorkIsCurrent, Working
<1>3. ASSUME NEW e \in Events, NEW places \in Stages, Ahead(e, places)
      PROVE  Ahead(e, places)'
  <2>1. "audit" \in places
    BY DEF Stages, Invalidated, Matched, Synced
  <2> QED
    BY <1>1, <1>3, <2>1, AheadHere
<1> QED
  BY <1>1, <1>2, <1>3, NothingTakenForward

LEMMA InvalidateReposKeepsReasons ==
  ASSUME NEW w \in Workers, \A v \in Workers : v = w, QueueInvariant, OnItsWay,
         InvalidateRepoTeams(w)
  PROVE  OnItsWay'
<1>0. TypeOK /\ IsJob(job[w]) /\ HeldIsProcessing
  BY JobFields DEF QueueInvariant
<1>a. PICK e \in Events : e = job[w].event /\ event[e].status = "processing"
  BY <1>0 DEF InvalidateRepoTeams, HeldIsProcessing
<1>1. /\ job[w].at = "start" /\ event' = event /\ job'[w].event = job[w].event
      /\ job'[w].at = IF event[e].team = Nil THEN "affected" ELSE "members"
      /\ job'[w].sync = (setting = "on") /\ job'[w].views = job[w].views
      /\ UNCHANGED <<grants, members, setting, teamUsers, applied, missed>>
      /\ repoTeams' = [r \in Repos |-> IF r \in event[e].repos THEN Nil
                                       ELSE repoTeams[r]]
  BY <1>0, <1>a DEF InvalidateRepoTeams, Row, TypeOK, IsJob, Job, world, github
<1>3. "start" \notin Invalidated /\ "members" \notin Matched
      /\ "members" \notin Synced /\ "affected" \notin Synced
      /\ "start" \notin Synced /\ "start" \notin Matched
  BY DEF Invalidated, Matched, Synced
<1>4. \A places : \A f \in Events \ {e} : Ahead(f, places)' <=> Ahead(f, places)
  BY <1>1, <1>a, AheadHere
<1>5. Ahead(e, Synced)' /\ (event[e].team # Nil => Ahead(e, Matched)')
  BY <1>1, <1>a, <1>3, AheadHere
<1>6. \A r \in Repos : NamedAhead(r, Synced) => NamedAhead(r, Synced)'
  BY <1>1, <1>4, <1>5 DEF NamedAhead
<1>7. \A r \in Repos : Awaited(r) => Awaited(r)'
  BY <1>1, <1>4, <1>5 DEF Awaited, Concerns
<1>8. TeamsAreCached'
  <2> SUFFICES ASSUME NEW r \in Repos, r \notin event[e].repos,
                      repoTeams[r] \notin {Nil, grants[r]}
               PROVE  NamedAhead(r, Invalidated)'
    BY <1>1 DEF TeamsAreCached
  <2>1. PICK f \in Events : Ahead(f, Invalidated) /\ r \in event[f].repos
    BY DEF OnItsWay, TeamsAreCached, NamedAhead
  <2> QED
    BY <1>1, <1>4, <2>1 DEF NamedAhead
<1>9. MembersAreCached'
  <2> SUFFICES ASSUME NEW t \in Teams, teamUsers[t] \notin {Nil, members[t]}
               PROVE  ChangeAhead(t, Matched)'
    BY <1>1 DEF MembersAreCached
  <2>1. PICK f \in Events : /\ Ahead(f, Matched)
                            /\ event[f].kind = "members" /\ event[f].team = t
    BY DEF OnItsWay, MembersAreCached, ChangeAhead
  <2>2. t # Nil
    BY NilAssumption
  <2>3. Ahead(f, Matched)'
    BY <1>4, <1>5, <2>1, <2>2
  <2> QED
    BY <1>1, <2>1, <2>3 DEF ChangeAhead
<1>10. NoneIsForgotten'
  <2> SUFFICES ASSUME NEW r \in Repos, repoTeams'[r] = Nil
               PROVE  r \in missed \/ NamedAhead(r, Synced)'
    BY <1>1 DEF NoneIsForgotten
  <2>1. CASE r \in event[e].repos
    BY <1>1, <1>5, <2>1 DEF NamedAhead
  <2>2. CASE r \notin event[e].repos
    <3>1. repoTeams[r] = Nil /\ ~Working(w)
      BY <1>1, <2>2 DEF Working
    <3> QED
      BY <1>6, <3>1 DEF OnItsWay, NoneIsForgotten
  <2> QED
    BY <2>1, <2>2
<1>11. DifferencesAreAwaited'
  <2>1. ~Working(w) /\ \A r : Truth(r)' = Truth(r)
    BY <1>1 DEF Working, Truth
  <2> QED
    BY <1>1, <1>7, <2>1 DEF OnItsWay, DifferencesAreAwaited
<1>12. WorkIsCurrent'
  <2>1. DOMAIN job[w].views = {} /\ setting = "on"
    BY <1>1 DEF OnItsWay, WorkIsCurrent, Working
  <2> QED
    BY <1>1, <2>1 DEF WorkIsCurrent
<1> QED
  BY <1>1, <1>8, <1>9, <1>10, <1>11, <1>12 DEF OnItsWay

LEMMA InvalidateMembersKeepsReasons ==
  ASSUME NEW w \in Workers, \A v \in Workers : v = w, QueueInvariant, OnItsWay,
         InvalidateTeamMembers(w)
  PROVE  OnItsWay'
<1>0. TypeOK /\ IsJob(job[w]) /\ HeldIsProcessing
  BY JobFields DEF QueueInvariant
<1>a. PICK e \in Events : e = job[w].event /\ event[e].status = "processing"
  BY <1>0 DEF InvalidateTeamMembers, HeldIsProcessing
<1>1. /\ job[w].at = "members" /\ event' = event /\ job'[w].event = job[w].event
      /\ job'[w].at = "affected"
      /\ job'[w].sync = job[w].sync /\ job'[w].views = job[w].views
      /\ UNCHANGED <<grants, members, setting, repoTeams, applied, missed>>
      /\ teamUsers' = [teamUsers EXCEPT ![event[e].team] = Nil]
  BY <1>0, <1>a DEF InvalidateTeamMembers, Goto, Row, TypeOK, IsJob, Job, world, github
<1>2. {"members", "affected"} \subseteq Invalidated
      /\ "members" \notin Synced /\ "affected" \notin Synced
  BY DEF Invalidated, Matched, Synced
<1>3. \A f \in Events : /\ Ahead(f, Synced)' <=> Ahead(f, Synced)
                        /\ Ahead(f, Invalidated)' <=> Ahead(f, Invalidated)
                        /\ f # e => (Ahead(f, Matched)' <=> Ahead(f, Matched))
  BY <1>1, <1>2, <1>a, AheadHere
<1>4. \A r \in Repos : /\ NamedAhead(r, Synced) => NamedAhead(r, Synced)'
                       /\ NamedAhead(r, Invalidated) => NamedAhead(r, Invalidated)'
                       /\ Awaited(r) => Awaited(r)'
  BY <1>1, <1>3 DEF NamedAhead, Awaited, Concerns
<1>5. TeamsAreCached'
  BY <1>1, <1>4 DEF OnItsWay, TeamsAreCached
<1>6. MembersAreCached'
  <2> SUFFICES ASSUME NEW t \in Teams, teamUsers'[t] \notin {Nil, members[t]}
               PROVE  ChangeAhead(t, Matched)'
    BY <1>1 DEF MembersAreCached
  <2>1. t # event[e].team /\ teamUsers[t] \notin {Nil, members[t]}
    BY <1>0, <1>1 DEF TypeOK
  <2>2. PICK f \in Events : /\ Ahead(f, Matched)
                            /\ event[f].kind = "members" /\ event[f].team = t
    BY <2>1 DEF OnItsWay, MembersAreCached, ChangeAhead
  <2> QED
    BY <1>1, <1>3, <2>1, <2>2 DEF ChangeAhead
<1>7. ~Working(w) /\ \A r : Truth(r)' = Truth(r)
  BY <1>1 DEF Working, Truth
<1>8. NoneIsForgotten'
  BY <1>1, <1>4, <1>7 DEF OnItsWay, NoneIsForgotten
<1>9. DifferencesAreAwaited'
  BY <1>1, <1>4, <1>7 DEF OnItsWay, DifferencesAreAwaited
<1>10. WorkIsCurrent'
  BY <1>1, <1>7 DEF OnItsWay, WorkIsCurrent
<1> QED
  BY <1>1, <1>5, <1>6, <1>8, <1>9, <1>10 DEF OnItsWay

\* An event that finds its repositories leaves each of them in work, left out, or
\* to another event.
LEMMA DebounceKeepsReasons ==
  ASSUME NEW w \in Workers, \A v \in Workers : v = w, QueueInvariant, OnItsWay,
         MembersNameNoRepos, Debounce(w)
  PROVE  OnItsWay'
<1>0. TypeOK /\ IsJob(job[w]) /\ HeldIsProcessing
  BY JobFields DEF QueueInvariant
<1>a. PICK e \in Events : e = job[w].event /\ event[e].status = "processing"
  BY <1>0 DEF Debounce, HeldIsProcessing
<1>1. PICK affected : affected = Affected(event[e])
  OBVIOUS
<1>2. PICK accepted : accepted = affected \ recent[w]
  OBVIOUS
<1>3. /\ job[w].at = "affected" /\ event' = event /\ job'[w].event = e
      /\ job'[w].at = IF accepted = {} THEN "success" ELSE "sync"
      /\ job'[w].todo = accepted
      /\ job'[w].sync = job[w].sync /\ job'[w].views = job[w].views
      /\ missed' = missed \union (affected \ accepted)
      /\ UNCHANGED <<grants, members, setting, repoTeams, teamUsers, applied>>
  BY <1>0, <1>a, <1>1, <1>2
  DEF Debounce, Row, TypeOK, IsJob, Job, world, github, caches
<1>4. /\ {"affected", "sync", "success"} \subseteq Matched
      /\ {"affected", "sync", "success"} \subseteq Invalidated
  BY DEF Invalidated, Matched, Synced
<1>5. \A f \in Events : /\ Ahead(f, Matched)' <=> Ahead(f, Matched)
                        /\ Ahead(f, Invalidated)' <=> Ahead(f, Invalidated)
                        /\ f # e => (Ahead(f, Synced)' <=> Ahead(f, Synced))
                        /\ Ahead(f, Invalidated) => f # e /\ Ahead(f, Synced)
  <2>1. Synced \subseteq Invalidated
    BY DEF Invalidated, Matched
  <2> QED
    BY <1>3, <1>4, <1>a, <2>1, AheadHere
<1>6. /\ \A r : NamedAhead(r, Invalidated)' <=> NamedAhead(r, Invalidated)
      /\ \A t : ChangeAhead(t, Matched)' <=> ChangeAhead(t, Matched)
      /\ \A r : Truth(r)' = Truth(r)
      /\ \A f \in Events : \A r : Concerns(f, r)' <=> Concerns(f, r)
  BY <1>3, <1>5 DEF NamedAhead, ChangeAhead, Truth, Concerns
<1>7. TeamsAreCached' /\ MembersAreCached'
  BY <1>3, <1>6 DEF OnItsWay, TeamsAreCached, MembersAreCached
<1>8. ~Working(w)
  BY <1>3 DEF Working
<1>9. \A r \in affected :
        r \in missed' \/ (Working(w)' /\ r \in job'[w].todo)
  BY <1>3 DEF Working
<1>10. event[e].kind # "members" => affected = event[e].repos
  BY <1>1 DEF Affected
<1>11. ASSUME NEW r \in Repos, repoTeams[r] = Nil
       PROVE  r \in missed' \/ (r \in event[e].repos /\ r \in affected)
                \/ \E f \in Events : /\ Ahead(f, Synced)' /\ r \in event[f].repos
  <2>1. CASE r \in missed
    BY <1>3, <2>1
  <2>2. CASE NamedAhead(r, Synced)
    <3>1. PICK f \in Events : Ahead(f, Synced) /\ r \in event[f].repos
      BY <2>2 DEF NamedAhead
    <3>2. CASE f = e
      BY <1>10, <3>1, <3>2 DEF MembersNameNoRepos
    <3>3. CASE f # e
      BY <1>5, <3>1, <3>3
    <3> QED
      BY <3>2, <3>3
  <2> QED
    BY <1>8, <1>11, <2>1, <2>2 DEF OnItsWay, NoneIsForgotten
<1>12. NoneIsForgotten'
  <2> SUFFICES ASSUME NEW r \in Repos, repoTeams[r] = Nil
               PROVE  \/ r \in missed' \/ NamedAhead(r, Synced)'
                      \/ Working(w)' /\ r \in job'[w].todo /\ r \in Row(w)'.repos
    BY <1>3 DEF NoneIsForgotten
  <2>1. Row(w)' = event[e]
    BY <1>3 DEF Row
  <2> QED
    BY <1>3, <1>9, <1>11, <2>1 DEF NamedAhead
<1>13. ASSUME NEW r \in Repos, r \notin missed', Concerns(e, r), r \notin affected
       PROVE  Awaited(r)'
  <2>1. /\ event[e].kind = "members" /\ event[e].repos = {}
        /\ event[e].team \in grants[r]
    BY <1>10, <1>13 DEF Concerns, MembersNameNoRepos
  <2>2. repoTeams[r] = Nil \/ event[e].team \notin repoTeams[r]
    BY <1>1, <1>13, <2>1 DEF Affected
  <2>3. CASE repoTeams[r] = Nil
    <3>1. PICK f \in Events : Ahead(f, Synced)' /\ r \in event[f].repos
      BY <1>11, <1>13, <2>1, <2>3
    <3> QED
      BY <1>3, <3>1 DEF Awaited, Concerns
  <2>4. CASE repoTeams[r] # Nil
    <3>1. repoTeams[r] \notin {Nil, grants[r]}
      BY <2>1, <2>2, <2>4
    <3>2. PICK f \in Events : Ahead(f, Invalidated) /\ r \in event[f].repos
      BY <3>1 DEF OnItsWay, TeamsAreCached, NamedAhead
    <3>3. Ahead(f, Synced)'
      BY <1>5, <3>2
    <3> QED
      BY <1>3, <3>2, <3>3 DEF Awaited, Concerns
  <2> QED
    BY <2>3, <2>4
<1>14. DifferencesAreAwaited'
  <2> SUFFICES ASSUME NEW r \in Repos, r \notin missed'
               PROVE  \/ applied[r] = Truth(r) \/ Awaited(r)'
                      \/ /\ Working(w)' /\ r \in InWork(w)'
                         /\ Concerns(job[w].event, r)'
    BY <1>3, <1>6 DEF DifferencesAreAwaited
  <2>1. applied[r] = Truth(r) \/ Awaited(r)
    BY <1>3, <1>8 DEF OnItsWay, DifferencesAreAwaited
  <2>2. CASE Awaited(r)
    <3>1. PICK f \in Events : Ahead(f, Synced) /\ Concerns(f, r)
      BY <2>2 DEF Awaited
    <3>2. CASE f # e
      BY <1>5, <1>6, <3>1, <3>2 DEF Awaited
    <3>3. CASE f = e /\ r \in affected
      <4>1. Working(w)' /\ r \in InWork(w)'
        BY <1>9, <3>3 DEF InWork
      <4>2. Concerns(job[w].event, r)'
        BY <1>3, <3>1, <3>3 DEF Concerns
      <4> QED
        BY <4>1, <4>2
    <3>4. CASE f = e /\ r \notin affected
      BY <1>13, <3>1, <3>4
    <3> QED
      BY <3>2, <3>3, <3>4
  <2> QED
    BY <2>1, <2>2
<1>15. WorkIsCurrent'
  <2>1. job[w].sync /\ DOMAIN job[w].views = {}
    BY <1>8 DEF OnItsWay, WorkIsCurrent
  <2> QED
    BY <1>3, <2>1 DEF WorkIsCurrent
<1> QED
  BY <1>3, <1>7, <1>12, <1>14, <1>15 DEF OnItsWay

\* While the repositories are computed no event comes any further.
LEMMA ComputingKeepsAhead ==
  ASSUME NEW w \in Workers, \A v \in Workers : v = w,
         NEW e, e = job[w].event, job'[w].event = e, event' = event,
         UNCHANGED <<grants, members>>,
         job[w].at \in Synced, job'[w].at \in Synced
  PROVE  /\ \A r : NamedAhead(r, Synced)' <=> NamedAhead(r, Synced)
         /\ \A r : NamedAhead(r, Invalidated)' <=> NamedAhead(r, Invalidated)
         /\ \A r : NamedAhead(r, Invalidated) => Awaited(r)
         /\ \A t : ChangeAhead(t, Matched)' <=> ChangeAhead(t, Matched)
         /\ \A t, r : ChangeAhead(t, Matched) /\ t \in grants[r] => Awaited(r)
         /\ \A r : Awaited(r)' <=> Awaited(r)
         /\ \A r : Truth(r)' = Truth(r)
         /\ \A r : Concerns(job[w].event, r)' <=> Concerns(job[w].event, r)
         /\ Row(w)' = Row(w)
<1>1. Synced \subseteq Matched /\ Matched \subseteq Invalidated
  BY DEF Invalidated, Matched
<1>2. \A f : /\ Ahead(f, Synced)' <=> Ahead(f, Synced)
             /\ Ahead(f, Matched)' <=> Ahead(f, Matched)
             /\ Ahead(f, Invalidated)' <=> Ahead(f, Invalidated)
             /\ Ahead(f, Invalidated) => Ahead(f, Synced)
             /\ Ahead(f, Matched) => Ahead(f, Synced)
  BY <1>1, AheadHere
<1>3. \A f, r : Concerns(f, r)' <=> Concerns(f, r)
  BY DEF Concerns
<1>4. \A r : Concerns(job[w].event, r)' <=> Concerns(job[w].event, r)
  BY DEF Concerns
<1> QED
  BY <1>2, <1>3, <1>4 DEF NamedAhead, ChangeAhead, Awaited, Truth, Concerns, Row

\* What an attempt in the middle of its work has to show.
LEMMA ComputesCurrently ==
  ASSUME NEW w \in Workers, \A v \in Workers : v = w,
         Working(w)', job'[w].sync, NEW r, job'[w].repo = r,
         \A q \in DOMAIN job'[w].views :
           repoTeams'[q] # Nil /\ (job'[w].views[q] = Truth(q)' \/ Awaited(q)'),
         job'[w].at = "compute" =>
           /\ repoTeams'[r] # Nil
           /\ \/ job'[w].view \union {<<t, members'[t]>> : t \in job'[w].teams}
                   = Truth(r)'
              \/ Awaited(r)'
  PROVE  WorkIsCurrent'
<1>1. Truth(job[w].repo)' = Truth(r)' /\ (Awaited(job[w].repo)' <=> Awaited(r)')
  BY DEF Truth, Awaited, Concerns
<1> QED
  BY <1>1 DEF WorkIsCurrent

LEMMA ReadReposKeepsReasons ==
  ASSUME NEW w \in Workers, \A v \in Workers : v = w, QueueInvariant, OnItsWay,
         ReadRepoTeams(w)
  PROVE  OnItsWay'
<1>0. TypeOK /\ IsJob(job[w]) /\ job[w].todo \subseteq Repos
      /\ DOMAIN job[w].views \subseteq Repos
  BY JobFields DEF QueueInvariant
<1>a. PICK e : e = job[w].event
  OBVIOUS
<1>1. PICK r \in job[w].todo : \E teams \in {grants[r], repoTeams[r]} \ {Nil} :
        /\ repoTeams' = [repoTeams EXCEPT ![r] = teams]
        /\ job' = [job EXCEPT ![w].at = "compute", ![w].repo = r,
                              ![w].todo = @ \ {r}, ![w].teams = teams,
                              ![w].view = {}]
  BY Zenon DEF ReadRepoTeams
<1>2. PICK teams \in {grants[r], repoTeams[r]} \ {Nil} :
        /\ repoTeams' = [repoTeams EXCEPT ![r] = teams]
        /\ job' = [job EXCEPT ![w].at = "compute", ![w].repo = r,
                              ![w].todo = @ \ {r}, ![w].teams = teams,
                              ![w].view = {}]
  BY <1>1
<1>3. /\ job'[w].at = "compute" /\ job'[w].repo = r
      /\ job'[w].todo = job[w].todo \ {r} /\ job'[w].teams = teams
      /\ job'[w].view = {} /\ job'[w].views = job[w].views
      /\ job'[w].event = e /\ job'[w].sync = job[w].sync
  BY <1>0, <1>2, <1>a DEF TypeOK, IsJob, Job
<1>4. /\ job[w].at = "sync" /\ event' = event
      /\ UNCHANGED <<grants, members, setting, teamUsers, applied, missed>>
  BY DEF ReadRepoTeams, world, github
<1>5. r \in Repos /\ repoTeams'[r] = teams
      /\ \A q \in Repos \ {r} : repoTeams'[q] = repoTeams[q]
  BY <1>0, <1>2 DEF TypeOK
<1>6. /\ \A q : NamedAhead(q, Synced)' <=> NamedAhead(q, Synced)
      /\ \A q : NamedAhead(q, Invalidated)' <=> NamedAhead(q, Invalidated)
      /\ \A q : NamedAhead(q, Invalidated) => Awaited(q)
      /\ \A t : ChangeAhead(t, Matched)' <=> ChangeAhead(t, Matched)
      /\ \A q : Awaited(q)' <=> Awaited(q)
      /\ \A q : Truth(q)' = Truth(q)
      /\ \A q : Concerns(job[w].event, q)' <=> Concerns(job[w].event, q)
      /\ Row(w)' = Row(w)
  <2>1. job[w].at \in Synced /\ job'[w].at \in Synced
    BY <1>3, <1>4 DEF Synced
  <2> QED
    BY <1>a, <1>3, <1>4, <2>1, ComputingKeepsAhead
<1>7. Working(w) /\ Working(w)'
  BY <1>3, <1>4 DEF Working
<1>8. TeamsAreCached'
  <2> SUFFICES ASSUME NEW q \in Repos
               PROVE  \/ repoTeams'[q] \in {Nil, grants[q]}
                      \/ NamedAhead(q, Invalidated)
    BY <1>4, <1>6 DEF TeamsAreCached
  <2>1. repoTeams'[q] \in {repoTeams[q], grants[q]}
    BY <1>2, <1>5
  <2> QED
    BY <2>1 DEF OnItsWay, TeamsAreCached
<1>9. MembersAreCached'
  BY <1>4, <1>6 DEF OnItsWay, MembersAreCached
<1>10. NoneIsForgotten'
  <2> SUFFICES ASSUME NEW q \in Repos, repoTeams'[q] = Nil
               PROVE  \/ q \in missed \/ NamedAhead(q, Synced)
                      \/ q \in job'[w].todo /\ q \in Row(w).repos
    BY <1>4, <1>6, <1>7 DEF NoneIsForgotten
  <2>1. q # r
    BY <1>2, <1>5
  <2>2. repoTeams[q] = Nil
    BY <1>5, <2>1
  <2> QED
    BY <1>3, <2>1, <2>2 DEF OnItsWay, NoneIsForgotten
<1>11. DifferencesAreAwaited'
  <2>1. InWork(w) \subseteq InWork(w)'
    BY <1>3, <1>4 DEF InWork
  <2> QED
    BY <1>4, <1>6, <1>7, <2>1 DEF OnItsWay, DifferencesAreAwaited
<1>12. \/ {} \union {<<t, members[t]>> : t \in teams} = Truth(r)
       \/ Awaited(r)
  <2>1. CASE teams = grants[r]
    BY <2>1 DEF Truth
  <2>2. CASE teams # grants[r]
    <3>1. repoTeams[r] \notin {Nil, grants[r]}
      BY <1>2, <2>2
    <3> QED
      BY <1>5, <1>6, <3>1 DEF OnItsWay, TeamsAreCached
  <2> QED
    BY <2>1, <2>2
<1>13. \A q \in DOMAIN job[w].views :
         repoTeams'[q] # Nil /\ (job[w].views[q] = Truth(q) \/ Awaited(q))
  <2> SUFFICES ASSUME NEW q \in DOMAIN job[w].views
               PROVE  /\ repoTeams'[q] # Nil
                      /\ job[w].views[q] = Truth(q) \/ Awaited(q)
    OBVIOUS
  <2>1. repoTeams[q] # Nil /\ (job[w].views[q] = Truth(q) \/ Awaited(q))
    BY DEF OnItsWay, WorkIsCurrent
  <2> QED
    BY <1>0, <1>2, <1>5, <2>1
<1>14. WorkIsCurrent'
  <2>1. job[w].sync
    BY DEF OnItsWay, WorkIsCurrent
  <2>2. \/ job'[w].view \union {<<t, members'[t]>> : t \in job'[w].teams} = Truth(r)'
        \/ Awaited(r)'
    BY <1>3, <1>4, <1>6, <1>12
  <2>3. \A q \in DOMAIN job'[w].views :
          repoTeams'[q] # Nil /\ (job'[w].views[q] = Truth(q)' \/ Awaited(q)')
    BY <1>3, <1>6, <1>13
  <2> QED
    BY <1>2, <1>3, <1>5, <1>7, <2>1, <2>2, <2>3, ComputesCurrently
<1> QED
  BY <1>4, <1>8, <1>9, <1>10, <1>11, <1>14 DEF OnItsWay

LEMMA ReadMembersKeepsReasons ==
  ASSUME NEW w \in Workers, \A v \in Workers : v = w, QueueInvariant, OnItsWay,
         ReadTeamMembers(w)
  PROVE  OnItsWay'
<1>0. TypeOK /\ IsJob(job[w]) /\ job[w].teams \subseteq Teams
  BY JobFields DEF QueueInvariant
<1>a. PICK e : e = job[w].event
  OBVIOUS
<1>1. PICK t \in job[w].teams : \E version \in {members[t], teamUsers[t]} \ {Nil} :
        /\ teamUsers' = [teamUsers EXCEPT ![t] = version]
        /\ job' = [job EXCEPT ![w].teams = @ \ {t},
                              ![w].view = @ \union {<<t, version>>}]
  BY Zenon DEF ReadTeamMembers
<1>2. PICK version \in {members[t], teamUsers[t]} \ {Nil} :
        /\ teamUsers' = [teamUsers EXCEPT ![t] = version]
        /\ job' = [job EXCEPT ![w].teams = @ \ {t},
                              ![w].view = @ \union {<<t, version>>}]
  BY <1>1
<1>b. PICK pair : pair = <<t, version>>
  OBVIOUS
<1>3. /\ job'[w].at = job[w].at /\ job'[w].repo = job[w].repo
      /\ job'[w].todo = job[w].todo /\ job'[w].teams = job[w].teams \ {t}
      /\ job'[w].view = job[w].view \union {pair} /\ job'[w].views = job[w].views
      /\ job'[w].event = e /\ job'[w].sync = job[w].sync
  <2>1. job' = [job EXCEPT ![w].teams = @ \ {t}, ![w].view = @ \union {pair}]
    BY <1>2, <1>b
  <2> QED
    BY <1>0, <1>a, <2>1 DEF TypeOK, IsJob, Job
<1>4. /\ job[w].at = "compute" /\ event' = event
      /\ UNCHANGED <<grants, members, setting, repoTeams, applied, missed>>
  BY DEF ReadTeamMembers, world, github
<1>5. t \in Teams /\ teamUsers'[t] = version
      /\ \A u \in Teams \ {t} : teamUsers'[u] = teamUsers[u]
  BY <1>0, <1>2 DEF TypeOK
<1>6. /\ \A q : NamedAhead(q, Synced)' <=> NamedAhead(q, Synced)
      /\ \A q : NamedAhead(q, Invalidated)' <=> NamedAhead(q, Invalidated)
      /\ \A u : ChangeAhead(u, Matched)' <=> ChangeAhead(u, Matched)
      /\ \A u, q : ChangeAhead(u, Matched) /\ u \in grants[q] => Awaited(q)
      /\ \A q : Awaited(q)' <=> Awaited(q)
      /\ \A q : Truth(q)' = Truth(q)
      /\ \A q : Concerns(job[w].event, q)' <=> Concerns(job[w].event, q)
      /\ Row(w)' = Row(w)
  <2>1. job[w].at \in Synced /\ job'[w].at \in Synced
    BY <1>3, <1>4 DEF Synced
  <2> QED
    BY <1>a, <1>3, <1>4, <2>1, ComputingKeepsAhead
<1>7. Working(w) /\ Working(w)' /\ InWork(w)' = InWork(w)
  BY <1>3, <1>4 DEF Working, InWork
<1>8. TeamsAreCached'
  BY <1>4, <1>6 DEF OnItsWay, TeamsAreCached
<1>9. MembersAreCached'
  <2> SUFFICES ASSUME NEW u \in Teams
               PROVE  \/ teamUsers'[u] \in {Nil, members[u]}
                      \/ ChangeAhead(u, Matched)
    BY <1>4, <1>6 DEF MembersAreCached
  <2>1. teamUsers'[u] \in {teamUsers[u], members[u]}
    BY <1>2, <1>5
  <2> QED
    BY <2>1 DEF OnItsWay, MembersAreCached
<1>10. NoneIsForgotten'
  BY <1>3, <1>4, <1>6, <1>7 DEF OnItsWay, NoneIsForgotten
<1>11. DifferencesAreAwaited'
  BY <1>4, <1>6, <1>7 DEF OnItsWay, DifferencesAreAwaited
<1>c. PICK r : r = job[w].repo
  OBVIOUS
<1> DEFINE Rest(teams) == {<<u, members[u]>> : u \in teams}
<1>12. job[w].view \union Rest(job[w].teams) = Truth(r) \/ Awaited(r)
  BY <1>4, <1>c DEF OnItsWay, WorkIsCurrent
<1>13. job'[w].view \union Rest(job'[w].teams) = Truth(r) \/ Awaited(r)
  <2> SUFFICES ASSUME job[w].view \union Rest(job[w].teams) = Truth(r), ~Awaited(r)
               PROVE  job'[w].view \union Rest(job'[w].teams) = Truth(r)
    BY <1>12
  <2>1. <<t, members[t]>> \in Truth(r)
    OBVIOUS
  <2>2. t \in grants[r]
    BY <2>1 DEF Truth
  <2>3. version = members[t]
    <3>1. ~ChangeAhead(t, Matched)
      BY <1>6, <2>2
    <3> QED
      BY <1>2, <1>5, <3>1 DEF OnItsWay, MembersAreCached
  <2>4. Rest(job[w].teams) = {pair} \union Rest(job[w].teams \ {t})
    BY <1>b, <2>3
  <2> HIDE DEF Rest
  <2> QED
    BY <1>3, <2>4
<1>14. WorkIsCurrent'
  <2>1. /\ job[w].sync /\ repoTeams[r] # Nil
        /\ \A q \in DOMAIN job[w].views :
             repoTeams[q] # Nil /\ (job[w].views[q] = Truth(q) \/ Awaited(q))
    BY <1>4, <1>c DEF OnItsWay, WorkIsCurrent
  <2>2. \/ job'[w].view \union {<<u, members'[u]>> : u \in job'[w].teams} = Truth(r)'
        \/ Awaited(r)'
    BY <1>4, <1>6, <1>13
  <2>3. \A q \in DOMAIN job'[w].views :
          repoTeams'[q] # Nil /\ (job'[w].views[q] = Truth(q)' \/ Awaited(q)')
    BY <1>3, <1>4, <1>6, <2>1
  <2> QED
    BY <1>3, <1>4, <1>7, <1>c, <2>1, <2>2, <2>3, ComputesCurrently
<1> QED
  BY <1>4, <1>8, <1>9, <1>10, <1>11, <1>14 DEF OnItsWay

LEMMA FinishKeepsReasons ==
  ASSUME NEW w \in Workers, \A v \in Workers : v = w, QueueInvariant, OnItsWay,
         FinishRepo(w)
  PROVE  OnItsWay'
<1>0. TypeOK /\ IsJob(job[w])
  BY JobFields DEF QueueInvariant
<1>a. PICK e : e = job[w].event
  OBVIOUS
<1>b. PICK r : r = job[w].repo
  OBVIOUS
<1>c. PICK done : done = job[w].views
  OBVIOUS
<1>d. PICK views : views = [q \in DOMAIN done \union {r} |->
                              IF q = r THEN job[w].view ELSE done[q]]
  OBVIOUS
<1>1. /\ job'[w].at = "sync" /\ job'[w].todo = job[w].todo
      /\ job'[w].views = views /\ job'[w].event = e
      /\ job'[w].sync = job[w].sync
      /\ job[w].at = "compute" /\ job[w].teams = {} /\ event' = event
      /\ UNCHANGED <<grants, members, setting, repoTeams, teamUsers, applied, missed>>
  BY <1>0, <1>a, <1>b, <1>c, <1>d
  DEF FinishRepo, TypeOK, IsJob, Job, world, github, caches
<1>2. /\ \A q : NamedAhead(q, Synced)' <=> NamedAhead(q, Synced)
      /\ \A q : NamedAhead(q, Invalidated)' <=> NamedAhead(q, Invalidated)
      /\ \A u : ChangeAhead(u, Matched)' <=> ChangeAhead(u, Matched)
      /\ \A q : Awaited(q)' <=> Awaited(q)
      /\ \A q : Truth(q)' = Truth(q)
      /\ \A q : Concerns(job[w].event, q)' <=> Concerns(job[w].event, q)
      /\ Row(w)' = Row(w)
  <2>1. job[w].at \in Synced /\ job'[w].at \in Synced
    BY <1>1 DEF Synced
  <2> QED
    BY <1>a, <1>1, <2>1, ComputingKeepsAhead
<1>3. DOMAIN views = DOMAIN done \union {r}
      /\ \A q \in DOMAIN views : views[q] = IF q = r THEN job[w].view ELSE done[q]
  BY <1>d
<1>4. Working(w) /\ Working(w)' /\ InWork(w)' = InWork(w)
  BY <1>1, <1>3, <1>b, <1>c DEF Working, InWork
<1>5. TeamsAreCached' /\ MembersAreCached'
  BY <1>1, <1>2 DEF OnItsWay, TeamsAreCached, MembersAreCached
<1>6. NoneIsForgotten'
  BY <1>1, <1>2, <1>4 DEF OnItsWay, NoneIsForgotten
<1>7. DifferencesAreAwaited'
  BY <1>1, <1>2, <1>4 DEF OnItsWay, DifferencesAreAwaited
<1>8. /\ job[w].sync /\ repoTeams[r] # Nil
      /\ \A q \in DOMAIN done :
           repoTeams[q] # Nil /\ (done[q] = Truth(q) \/ Awaited(q))
      /\ job[w].view \union {<<t, members[t]>> : t \in job[w].teams} = Truth(r)
           \/ Awaited(r)
  BY <1>1, <1>b, <1>c DEF OnItsWay, WorkIsCurrent
<1>9. {<<t, members[t]>> : t \in job[w].teams} = {}
  BY <1>1
<1>10. \A q \in DOMAIN views :
         repoTeams'[q] # Nil /\ (views[q] = Truth(q)' \/ Awaited(q)')
  BY <1>1, <1>2, <1>3, <1>8, <1>9
<1>11. WorkIsCurrent'
  BY <1>1, <1>4, <1>8, <1>10, ComputesCurrently
<1> QED
  BY <1>1, <1>5, <1>6, <1>7, <1>11 DEF OnItsWay

LEMMA SkipKeepsReasons ==
  ASSUME NEW w \in Workers, \A v \in Workers : v = w, QueueInvariant, OnItsWay,
         SkipRepo(w)
  PROVE  OnItsWay'
<1>0. TypeOK /\ IsJob(job[w])
  BY JobFields DEF QueueInvariant
<1>a. PICK e : e = job[w].event
  OBVIOUS
<1>1. PICK r \in Repos :
        /\ \/ job[w].at = "sync" /\ r \in job[w].todo
           \/ job[w].at = "compute" /\ r = job[w].repo
        /\ missed' = missed \union {r}
        /\ job' = [job EXCEPT ![w].at = "sync", ![w].todo = @ \ {r},
                     ![w].repo = Nil, ![w].teams = {}, ![w].view = {}]
  BY Zenon DEF SkipRepo
<1>2. /\ job'[w].at = "sync" /\ job'[w].todo = job[w].todo \ {r}
      /\ job'[w].views = job[w].views /\ job'[w].event = e
      /\ job'[w].sync = job[w].sync
  BY <1>0, <1>1, <1>a DEF TypeOK, IsJob, Job
<1>3. /\ event' = event
      /\ UNCHANGED <<grants, members, setting, repoTeams, teamUsers, applied>>
  BY DEF SkipRepo, world, github, caches
<1>4. /\ \A q : NamedAhead(q, Synced)' <=> NamedAhead(q, Synced)
      /\ \A q : NamedAhead(q, Invalidated)' <=> NamedAhead(q, Invalidated)
      /\ \A u : ChangeAhead(u, Matched)' <=> ChangeAhead(u, Matched)
      /\ \A q : Awaited(q)' <=> Awaited(q)
      /\ \A q : Truth(q)' = Truth(q)
      /\ \A q : Concerns(job[w].event, q)' <=> Concerns(job[w].event, q)
      /\ Row(w)' = Row(w)
  <2>1. job[w].at \in Synced /\ job'[w].at \in Synced
    BY <1>1, <1>2 DEF Synced
  <2> QED
    BY <1>a, <1>2, <1>3, <2>1, ComputingKeepsAhead
<1>5. Working(w) /\ Working(w)' /\ InWork(w) \subseteq InWork(w)' \union {r}
  BY <1>1, <1>2 DEF Working, InWork
<1>6. TeamsAreCached' /\ MembersAreCached'
  BY <1>3, <1>4 DEF OnItsWay, TeamsAreCached, MembersAreCached
<1>7. NoneIsForgotten'
  BY <1>1, <1>2, <1>3, <1>4, <1>5 DEF OnItsWay, NoneIsForgotten
<1>8. DifferencesAreAwaited'
  BY <1>1, <1>3, <1>4, <1>5 DEF OnItsWay, DifferencesAreAwaited
<1>9. WorkIsCurrent'
  <2>1. /\ job[w].sync
        /\ \A q \in DOMAIN job[w].views :
             repoTeams[q] # Nil /\ (job[w].views[q] = Truth(q) \/ Awaited(q))
    BY DEF OnItsWay, WorkIsCurrent
  <2>2. \A q \in DOMAIN job'[w].views :
          repoTeams'[q] # Nil /\ (job'[w].views[q] = Truth(q)' \/ Awaited(q)')
    BY <1>2, <1>3, <1>4, <2>1
  <2> QED
    BY <1>2, <1>5, <2>1, <2>2, ComputesCurrently
<1> QED
  BY <1>3, <1>6, <1>7, <1>8, <1>9 DEF OnItsWay

LEMMA ApplyKeepsReasons ==
  ASSUME NEW w \in Workers, \A v \in Workers : v = w, QueueInvariant, OnItsWay,
         Apply(w)
  PROVE  OnItsWay'
<1>0. TypeOK /\ IsJob(job[w])
  BY JobFields DEF QueueInvariant
<1>a. PICK e : e = job[w].event
  OBVIOUS
<1>b. PICK views : views = job[w].views
  OBVIOUS
<1>1. /\ job[w].at = "sync" /\ job[w].todo = {}
      /\ applied' = [r \in Repos |-> IF r \in DOMAIN views THEN views[r]
                                     ELSE applied[r]]
      /\ missed' = missed \ DOMAIN views /\ event' = event
      /\ UNCHANGED <<grants, members, setting, repoTeams, teamUsers>>
  BY <1>b DEF Apply, world, github, caches
<1>2. /\ job'[w].at = "audit" /\ job'[w].views = NoJob.views
      /\ job'[w].event = e /\ job'[w].sync = job[w].sync
  BY <1>0, <1>a DEF Apply, TypeOK, IsJob, Job
<1>3. /\ \A q : NamedAhead(q, Synced)' <=> NamedAhead(q, Synced)
      /\ \A q : NamedAhead(q, Invalidated)' <=> NamedAhead(q, Invalidated)
      /\ \A u : ChangeAhead(u, Matched)' <=> ChangeAhead(u, Matched)
      /\ \A q : Awaited(q)' <=> Awaited(q)
      /\ \A q : Truth(q)' = Truth(q)
  <2>1. job[w].at \in Synced /\ job'[w].at \in Synced
    BY <1>1, <1>2 DEF Synced
  <2> QED
    BY <1>a, <1>1, <1>2, <2>1, ComputingKeepsAhead
<1>4. /\ job[w].sync
      /\ \A q \in DOMAIN views :
           repoTeams[q] # Nil /\ (views[q] = Truth(q) \/ Awaited(q))
  BY <1>b DEF OnItsWay, WorkIsCurrent
<1>5. TeamsAreCached' /\ MembersAreCached'
  BY <1>1, <1>3 DEF OnItsWay, TeamsAreCached, MembersAreCached
<1>6. NoneIsForgotten'
  <2> SUFFICES ASSUME NEW r \in Repos, repoTeams[r] = Nil
               PROVE  r \in missed' \/ NamedAhead(r, Synced)
    BY <1>1, <1>3 DEF NoneIsForgotten
  <2>1. r \in missed \/ NamedAhead(r, Synced)
    BY <1>1 DEF OnItsWay, NoneIsForgotten
  <2> QED
    BY <1>1, <1>4, <2>1
<1>7. DifferencesAreAwaited'
  <2> SUFFICES ASSUME NEW r \in Repos, r \notin missed'
               PROVE  applied'[r] = Truth(r) \/ Awaited(r)
    BY <1>3 DEF DifferencesAreAwaited
  <2>1. CASE r \in DOMAIN views
    BY <1>1, <1>4, <2>1
  <2>2. CASE r \notin DOMAIN views
    <3>1. r \notin missed /\ applied'[r] = applied[r]
      BY <1>1, <2>2
    <3>2. r \notin InWork(w)
      BY <1>1, <1>b, <2>2 DEF InWork
    <3> QED
      BY <3>1, <3>2 DEF OnItsWay, DifferencesAreAwaited
  <2> QED
    BY <2>1, <2>2
<1>8. WorkIsCurrent'
  <2>1. DOMAIN job'[w].views = {}
    BY <1>2 DEF NoJob
  <2> QED
    BY <1>2, <1>4, <2>1 DEF WorkIsCurrent
<1> QED
  BY <1>1, <1>5, <1>6, <1>7, <1>8 DEF OnItsWay

LEMMA ReasonsStep ==
  ASSUME \A v, w \in Workers : v = w
  PROVE  QueueInvariant /\ ConvergenceInvariant /\ [Next]_vars
           => ConvergenceInvariant'
<1> SUFFICES ASSUME QueueInvariant, ConvergenceInvariant, [Next]_vars
             PROVE  ConvergenceInvariant'
  OBVIOUS
<1>1. ASSUME NEW w \in Workers, Attempt(w), ~AttemptThrows(w)
      PROVE  ConvergenceInvariant'
  <2>1. \A v \in Workers : v = w
    OBVIOUS
  <2>2. event' = event
    BY <1>1, AttemptKeepsEvent
  <2>3. spent'.switch = spent.switch
    <3>1. CASE SkipRepo(w)
      BY <3>1 DEF SkipRepo, Spend, QueueInvariant, TypeOK
    <3>2. CASE ~SkipRepo(w)
      BY <1>1, <3>2
      DEF Attempt, IgnoreEvent, InvalidateRepoTeams, InvalidateTeamMembers,
          NoRecompute, Debounce, ReadRepoTeams, ReadTeamMembers, FinishRepo, Apply,
          RecordRecompute
    <3> QED
      BY <3>1, <3>2
  <2>4. MembersNameNoRepos /\ MembersNameNoRepos'
    BY <2>2 DEF ConvergenceInvariant, MembersNameNoRepos
  <2>5. OnItsWay => OnItsWay'
    BY <1>1, <2>1, <2>4, SettingsStayOn, RecordKeepsReasons,
       InvalidateReposKeepsReasons, InvalidateMembersKeepsReasons,
       DebounceKeepsReasons, ReadReposKeepsReasons, ReadMembersKeepsReasons,
       FinishKeepsReasons, SkipKeepsReasons, ApplyKeepsReasons DEF Attempt
  <2> QED
    BY <2>3, <2>4, <2>5 DEF ConvergenceInvariant
<1>2. ASSUME NEW w \in Workers,
             \/ ReadBatch(w) \/ SkipEvent(w) \/ Claim(w) \/ FinishBatch(w)
             \/ MarkDone(w) \/ MarkFailed(w) \/ QueueUpdateThrows(w) \/ Crash(w)
             \/ AttemptThrows(w)
      PROVE  ConvergenceInvariant'
  BY <1>2, TicksKeepReasons
<1>3. CASE Environment
  BY <1>3, EnvironmentKeepsReasons
<1>4. CASE UNCHANGED vars
  BY <1>4, NothingHappens DEF vars
<1> QED
  BY <1>1, <1>2, <1>3, <1>4 DEF Next, Process

\* With one instance whose workspace's settings stay on, once nothing is on its
\* way or in hand and every event was processed, the roles of every repository
\* agree with GitHub, but for those whose last recompute the debounce or a failed
\* repository left out; whichever events overtook each other, whichever cached
\* rows were used and wherever attempts threw and started over.
THEOREM OneInstanceConverges ==
  ASSUME \A v, w \in Workers : v = w
  PROVE  Spec => []ConvergesUnlessMissed
<1>1. QueueInvariant /\ ConvergenceInvariant /\ [Next]_vars
        => ConvergenceInvariant'
  BY ReasonsStep
<1>2. ConvergenceInvariant => ConvergesUnlessMissed
  <2> SUFFICES ASSUME OnItsWay, Settled, NEW r \in Repos \ missed
               PROVE  applied[r] = Truth(r)
    BY DEF ConvergenceInvariant, ConvergesUnlessMissed
  <2>1. ~Awaited(r)
    BY DEF Settled, Awaited, Ahead
  <2>2. \A w \in Workers : ~Working(w)
    BY DEF Settled, Working
  <2> QED
    BY <2>1, <2>2 DEF OnItsWay, DifferencesAreAwaited
<1> QED
  BY ReasonsInit, <1>1, <1>2, QueueInvariantHolds, PTL DEF Spec
=============================================================================
