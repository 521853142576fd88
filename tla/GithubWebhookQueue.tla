-------------------------- MODULE GithubWebhookQueue --------------------------
(***************************************************************************)
(* The GitHub webhook queue of memory-core and the partial permission      *)
(* recompute its events drive (github-webhook-helpers.ts,                  *)
(* github-webhook-queue-processor.ts, github-webhook-partial-recompute.ts, *)
(* github-permission-compute-helpers.ts).                                  *)
(*                                                                         *)
(* GitHub's own state is which teams a repository grants access to, and a  *)
(* version of each team's member list.  A change sends one webhook, which  *)
(* may arrive late, out of order and more than once.  An event deletes     *)
(* cached copies of that state and recomputes the affected repositories,   *)
(* unless an in-process debounce (8 s per repository, stamped before the   *)
(* work) swallows them.                                                    *)
(*                                                                         *)
(* Left open: the order in which a batch is taken, time (a debounce window *)
(* passes and a cache row expires at any moment), the users and roles a    *)
(* view of a repository turns into, and what an event does that touches no *)
(* permission cache (renames, unlinked workspaces, team mappings).         *)
(***************************************************************************)
EXTENDS Integers, FiniteSets

CONSTANTS
  Teams, Repos,  \* on GitHub
  Events,        \* delivery ids
  Workers,       \* server instances
  BatchSize,     \* events one tick reads (20 in http-server.ts)
  MaxAttempts,   \* attempts per claimed event (3 in the code)
  Nil,           \* no cache row, no event, no team
  MaxThrows,     \* bound: attempts that throw
  MaxRepoErrors, \* bound: repositories a sync fails to compute
  MaxFaults,     \* bound: crashes and failed queue updates
  MaxSwitches    \* bound: changes of the workspace's settings

ASSUME BatchAssumption == BatchSize \in Nat \ {0}
ASSUME AttemptAssumption == MaxAttempts \in Nat \ {0}
ASSUME BudgetAssumption ==
  {MaxThrows, MaxRepoErrors, MaxFaults, MaxSwitches} \subseteq Nat
ASSUME NilAssumption ==
  /\ Nil \notin Teams \union Events \union Nat
  /\ \A teams \in SUBSET Teams : teams # Nil

VARIABLES
  grants,    \* GitHub: the teams with access to each repository
  members,   \* GitHub: the version of each team's member list
  event,     \* webhooks on their way, and github_webhook_events
  setting,   \* "on"; "off": webhooks disabled; "caches": recompute disabled
  repoTeams, \* github_repo_teams_cache
  teamUsers, \* github_team_members_cache
  applied,   \* per repository: the view its project's roles were set from
  recent,    \* per instance: the repositories whose debounce window is open
  batch,     \* per instance: the events read and not come to yet
  job,       \* per instance: the event in hand
  missed,    \* history: repositories whose recompute was left out
  spent      \* how much of each budget is used

github == <<grants, members>>
caches == <<repoTeams, teamUsers>>
vars == <<github, event, setting, caches, applied, recent, batch, job, missed,
          spent>>

Final == {"done", "failed"}
Unsent == [status |-> "none", kind |-> "none", team |-> Nil, repos |-> {},
           claims |-> 0]

\* What a view of a repository says: who is in which of its teams.
Views == SUBSET (Teams \X Nat)

\* What GitHub would answer about r now.
Truth(r) == {<<t, members[t]>> : t \in grants[r]}

\* A handler between two events.  sync is the recompute setting as the attempt
\* read it; todo are the repositories to compute, repo, teams and view the one
\* being computed, views the finished ones; owed is history: the repositories
\* an attempt accepted and none has applied.
NoJob == [at |-> "idle", event |-> Nil, attempt |-> 0, sync |-> TRUE,
          todo |-> {}, repo |-> Nil, teams |-> {}, view |-> {},
          views |-> [r \in {} |-> {}], owed |-> {}]

\* Where an attempt may throw, and where a handler may stand at all.
Attempting == {"start", "members", "affected", "sync", "compute", "audit"}
Places == {"idle", "batch", "success", "failure"} \union Attempting

Handles(w, e) == job[w].event = e /\ job[w].at \notin {"idle", "batch"}

Limit == [throw |-> MaxThrows, repo |-> MaxRepoErrors, fault |-> MaxFaults,
          switch |-> MaxSwitches]

Spend(what) ==
  /\ spent[what] < Limit[what]
  /\ spent' = [spent EXCEPT ![what] = @ + 1]

EventRows == [status: {"none", "sent", "queued", "processing"} \union Final,
              kind: {"none", "members", "grant", "install"},
              team: Teams \union {Nil}, repos: SUBSET Repos, claims: Nat]

Job(views) == [at: Places, event: Events \union {Nil},
               attempt: 0 .. MaxAttempts, sync: BOOLEAN, todo: SUBSET Repos,
               repo: Repos \union {Nil}, teams: SUBSET Teams, view: Views,
               views: views, owed: SUBSET Repos]

TypeOK ==
  /\ grants \in [Repos -> SUBSET Teams]
  /\ members \in [Teams -> Nat]
  /\ event \in [Events -> EventRows]
  /\ setting \in {"on", "off", "caches"}
  /\ repoTeams \in [Repos -> {Nil} \union SUBSET Teams]
  /\ teamUsers \in [Teams -> Nat \union {Nil}]
  /\ applied \in [Repos -> Views]
  /\ recent \in [Workers -> SUBSET Repos]
  /\ batch \in [Workers -> SUBSET Events]
  /\ DOMAIN job = Workers
  /\ \A w \in Workers : \E rs \in SUBSET Repos : job[w] \in Job([rs -> Views])
  /\ missed \subseteq Repos
  /\ spent \in [{"throw", "repo", "fault", "switch"} -> Nat]

\* A full permission sync has just run.
Init ==
  /\ grants \in [Repos -> SUBSET Teams]
  /\ members = [t \in Teams |-> 0]
  /\ event = [e \in Events |-> Unsent]
  /\ setting = "on"
  /\ repoTeams = grants
  /\ teamUsers = [t \in Teams |->
                    IF \E r \in Repos : t \in grants[r] THEN 0 ELSE Nil]
  /\ applied = [r \in Repos |-> Truth(r)]
  /\ recent = [w \in Workers |-> {}]
  /\ batch = [w \in Workers |-> {}]
  /\ job = [w \in Workers |-> NoJob]
  /\ missed = {}
  /\ spent = [what \in {"throw", "repo", "fault", "switch"} |-> 0]

-----------------------------------------------------------------------------
(* GitHub, the webhook endpoint, the workspace's settings and the clock.   *)

handlers == <<recent, batch, job, missed>>

\* GitHub sends webhook e about a change of its state.
Send(e, kind, t, rs) ==
  /\ event[e] = Unsent
  /\ event' = [event EXCEPT ![e] = [status |-> "sent", kind |-> kind,
                                    team |-> t, repos |-> rs, claims |-> 0]]
  /\ UNCHANGED <<setting, caches, applied, handlers, spent>>

\* A membership or team event.
ChangeMembers(e, t) ==
  /\ Send(e, "members", t, {})
  /\ members' = [members EXCEPT ![t] = @ + 1]
  /\ UNCHANGED grants

\* A repository event (team added or removed), team_add or team_remove.
ChangeGrant(e, t, r) ==
  /\ Send(e, "grant", t, {r})
  /\ grants' = [grants EXCEPT ![r] = IF t \in @ THEN @ \ {t} ELSE @ \union {t}]
  /\ UNCHANGED members

\* An installation_repositories event: the app gains or loses repositories.
ChangeInstallation(e, rs) ==
  /\ Send(e, "install", Nil, rs)
  /\ UNCHANGED github

\* Mutant: without the unique delivery id a redelivery is a new event.
InsertableAgain(e) == event[e].status # "none"

\* No row has this delivery id yet: create does not end in P2002.
Insertable(e) == event[e].status = "sent"

\* The endpoint stores a delivery; a redelivery of a stored one changes nothing.
Receive(e) ==
  /\ Insertable(e)
  /\ event' = [event EXCEPT ![e].status = "queued"]
  /\ UNCHANGED <<github, setting, caches, applied, handlers, spent>>

SwitchSetting ==
  /\ Spend("switch")
  /\ \E s \in {"on", "off", "caches"} \ {setting} : setting' = s
  /\ UNCHANGED <<github, event, caches, applied, handlers>>

\* Eight seconds have passed since instance w stamped r.
WindowPasses(w, r) ==
  /\ r \in recent[w]
  /\ recent' = [recent EXCEPT ![w] = @ \ {r}]
  /\ UNCHANGED <<github, event, setting, caches, applied, batch, job, missed,
                 spent>>

-----------------------------------------------------------------------------
(* A tick of instance w: findMany, then claim, process and settle each row. *)

world == <<github, setting>>

\* Mutant: findMany without its condition on status.
StoredEvents == {e \in Events : event[e].status \notin {"none", "sent"}}

QueuedEvents == {e \in Events : event[e].status = "queued"}

Batches(rows) ==
  IF Cardinality(rows) <= BatchSize
  THEN {rows}
  ELSE {b \in SUBSET rows : Cardinality(b) = BatchSize}

ReadBatch(w) ==
  /\ job[w].at = "idle"
  /\ QueuedEvents # {}
  /\ \E b \in Batches(QueuedEvents) : batch' = [batch EXCEPT ![w] = b]
  /\ job' = [job EXCEPT ![w].at = "batch"]
  /\ UNCHANGED <<world, event, caches, applied, recent, missed, spent>>

\* Mutant: the claim by id alone.
ClaimableById(e) == event[e].status # "none"

\* The guard of the claim's updateMany.
Claimable(e) == event[e].status = "queued"

\* Attempt n at event e begins.
StartAttempt(w, e, n, owed) ==
  job' = [job EXCEPT ![w] = [NoJob EXCEPT !.at = "start", !.event = e,
                                          !.attempt = n, !.owed = owed]]

Claim(w) ==
  /\ job[w].at = "batch"
  /\ \E e \in batch[w] :
        /\ Claimable(e)
        /\ event' = [event EXCEPT ![e].status = "processing",
                                  ![e].claims = @ + 1]
        /\ batch' = [batch EXCEPT ![w] = @ \ {e}]
        /\ StartAttempt(w, e, 1, {})
  /\ UNCHANGED <<world, caches, applied, recent, missed, spent>>

\* The claim changed no row.
SkipEvent(w) ==
  /\ job[w].at = "batch"
  /\ \E e \in batch[w] :
        /\ ~Claimable(e)
        /\ batch' = [batch EXCEPT ![w] = @ \ {e}]
  /\ UNCHANGED <<world, event, caches, applied, recent, job, missed, spent>>

\* The handler's event gets its last status; the loop goes on.
Settle(w, status) ==
  /\ event' = [event EXCEPT ![job[w].event].status = status]
  /\ job' = [job EXCEPT ![w] = [NoJob EXCEPT !.at = "batch"]]
  /\ UNCHANGED <<world, caches, applied, recent, batch, missed, spent>>

MarkDone(w) == job[w].at = "success" /\ Settle(w, "done")

\* Mutant: an event whose attempts are spent is not updated.
FailureForgotten(w) == job[w].at = "failure" /\ Settle(w, "processing")

MarkFailed(w) == job[w].at = "failure" /\ Settle(w, "failed")

\* The tick is over.
EndTick(w) ==
  /\ batch' = [batch EXCEPT ![w] = {}]
  /\ job' = [job EXCEPT ![w] = NoJob]
  /\ UNCHANGED <<world, event, caches, applied, missed>>

FinishBatch(w) ==
  /\ job[w].at = "batch"
  /\ batch[w] = {}
  /\ EndTick(w)
  /\ UNCHANGED <<recent, spent>>

\* A claim or a last update throws: nothing catches it below the timer.
QueueUpdateThrows(w) ==
  /\ job[w].at \in {"batch", "success", "failure"}
  /\ Spend("fault")
  /\ EndTick(w)
  /\ UNCHANGED recent

\* The process dies, and with it the debounce map.
Crash(w) ==
  /\ job[w].at # "idle"
  /\ Spend("fault")
  /\ recent' = [recent EXCEPT ![w] = {}]
  /\ EndTick(w)

-----------------------------------------------------------------------------
(* One attempt: processSingleGithubWebhookEvent.                           *)

Row(w) == event[job[w].event]

Goto(w, place) == job' = [job EXCEPT ![w].at = place]

\* Webhooks are disabled: the event counts as processed.
IgnoreEvent(w) ==
  /\ job[w].at = "start"
  /\ setting = "off"
  /\ Goto(w, "success")
  /\ UNCHANGED <<world, event, caches, applied, recent, batch, missed, spent>>

\* invalidateRepoTeamsCache for the event's repositories, if it names any.
InvalidateRepoTeams(w) ==
  /\ job[w].at = "start"
  /\ setting # "off"
  /\ repoTeams' = [r \in Repos |->
                     IF r \in Row(w).repos THEN Nil ELSE repoTeams[r]]
  /\ job' = [job EXCEPT ![w].sync = setting = "on",
                        ![w].at = IF Row(w).team = Nil THEN "affected"
                                                       ELSE "members"]
  /\ UNCHANGED <<world, event, teamUsers, applied, recent, batch, missed, spent>>

\* Mutant: a team's cached members survive its event.
TeamMembersKept(w) ==
  /\ job[w].at = "members"
  /\ Goto(w, "affected")
  /\ UNCHANGED <<world, event, caches, applied, recent, batch, missed, spent>>

\* invalidateTeamMembersCache for the event's team.
InvalidateTeamMembers(w) ==
  /\ job[w].at = "members"
  /\ teamUsers' = [teamUsers EXCEPT ![Row(w).team] = Nil]
  /\ Goto(w, "affected")
  /\ UNCHANGED <<world, event, repoTeams, applied, recent, batch, missed, spent>>

\* The repositories an event is about; for a team event those whose cached
\* teams name it.
Affected(ev) ==
  IF ev.kind = "members"
  THEN {r \in Repos : repoTeams[r] # Nil /\ ev.team \in repoTeams[r]}
  ELSE ev.repos

\* Recompute is disabled for the workspace: the caches are all there was to do.
NoRecompute(w) ==
  /\ job[w].at = "affected"
  /\ ~job[w].sync
  /\ Goto(w, "success")
  /\ UNCHANGED <<world, event, caches, applied, recent, batch, missed, spent>>

\* applyRepoDebounce: the accepted repositories are stamped, the others left
\* out.  (Finding the affected ones and stamping them is one step: only this
\* instance touches its stamps.)
Debounce(w) ==
  LET affected == Affected(Row(w))
      accepted == affected \ recent[w]
  IN  /\ job[w].at = "affected"
      /\ job[w].sync
      /\ recent' = [recent EXCEPT ![w] = @ \union accepted]
      /\ missed' = missed \union (affected \ accepted)
      /\ job' = [job EXCEPT ![w].at = IF accepted = {} THEN "success" ELSE "sync",
                            ![w].todo = accepted,
                            ![w].owed = @ \union accepted]
      /\ UNCHANGED <<world, event, caches, applied, batch, spent>>

\* getRepoTeamsCached for the next repository: a fresh cache row, or GitHub's
\* answer, which is stored.
ReadRepoTeams(w) ==
  /\ job[w].at = "sync"
  /\ \E r \in job[w].todo :
     \E teams \in {grants[r], repoTeams[r]} \ {Nil} :
        /\ repoTeams' = [repoTeams EXCEPT ![r] = teams]
        /\ job' = [job EXCEPT ![w].at = "compute", ![w].repo = r,
                              ![w].todo = @ \ {r}, ![w].teams = teams,
                              ![w].view = {}]
  /\ UNCHANGED <<world, event, teamUsers, applied, recent, batch, missed, spent>>

\* Mutant: GitHub's answer is used and not stored.
MembersNotStored(w) ==
  /\ job[w].at = "compute"
  /\ \E t \in job[w].teams :
     \E version \in {members[t], teamUsers[t]} \ {Nil} :
        job' = [job EXCEPT ![w].teams = @ \ {t},
                           ![w].view = @ \union {<<t, version>>}]
  /\ UNCHANGED <<world, event, caches, applied, recent, batch, missed, spent>>

\* getTeamMembersCached for the next of its teams.
ReadTeamMembers(w) ==
  /\ job[w].at = "compute"
  /\ \E t \in job[w].teams :
     \E version \in {members[t], teamUsers[t]} \ {Nil} :
        /\ teamUsers' = [teamUsers EXCEPT ![t] = version]
        /\ job' = [job EXCEPT ![w].teams = @ \ {t},
                              ![w].view = @ \union {<<t, version>>}]
  /\ UNCHANGED <<world, event, repoTeams, applied, recent, batch, missed, spent>>

\* The repository's view is complete.
FinishRepo(w) ==
  LET done == job[w].views
      r == job[w].repo
  IN  /\ job[w].at = "compute"
      /\ job[w].teams = {}
      /\ job' = [job EXCEPT ![w].at = "sync", ![w].repo = Nil, ![w].view = {},
                   ![w].views = [q \in DOMAIN done \union {r} |->
                                   IF q = r THEN job[w].view ELSE done[q]]]
      /\ UNCHANGED <<world, event, caches, applied, recent, batch, missed, spent>>

\* Computing one repository throws: the sync notes it and leaves it out.
SkipRepo(w) ==
  /\ \E r \in Repos :
        /\ \/ job[w].at = "sync" /\ r \in job[w].todo
           \/ job[w].at = "compute" /\ r = job[w].repo
        /\ missed' = missed \union {r}
        /\ job' = [job EXCEPT ![w].at = "sync", ![w].todo = @ \ {r},
                     ![w].repo = Nil, ![w].teams = {}, ![w].view = {}]
  /\ Spend("repo")
  /\ UNCHANGED <<world, event, caches, applied, recent, batch>>

\* The sync's transaction: the roles of all computed repositories.
Apply(w) ==
  LET done == DOMAIN job[w].views
  IN  /\ job[w].at = "sync"
      /\ job[w].todo = {}
      /\ applied' = [r \in Repos |->
                       IF r \in done THEN job[w].views[r] ELSE applied[r]]
      /\ missed' = missed \ done
      /\ job' = [job EXCEPT ![w].at = "audit", ![w].owed = @ \ done,
                            ![w].views = NoJob.views]
      /\ UNCHANGED <<world, event, caches, recent, batch, spent>>

RecordRecompute(w) ==
  /\ job[w].at = "audit"
  /\ Goto(w, "success")
  /\ UNCHANGED <<world, event, caches, applied, recent, batch, missed, spent>>

\* Mutant: the loop's bound is off by one.
RetriesLeftLate(w) == job[w].attempt <= MaxAttempts

RetriesLeft(w) == job[w].attempt < MaxAttempts

\* Anything in the attempt throws: the next one starts over at once.
AttemptThrows(w) ==
  /\ job[w].at \in Attempting
  /\ Spend("throw")
  /\ IF RetriesLeft(w)
     THEN StartAttempt(w, job[w].event, job[w].attempt + 1, job[w].owed)
     ELSE job' = [job EXCEPT ![w] = [NoJob EXCEPT !.at = "failure",
                    !.event = job[w].event, !.attempt = MaxAttempts]]
  /\ UNCHANGED <<world, event, caches, applied, recent, batch, missed>>

Attempt(w) ==
  \/ IgnoreEvent(w)
  \/ InvalidateRepoTeams(w) \/ InvalidateTeamMembers(w)
  \/ NoRecompute(w) \/ Debounce(w)
  \/ ReadRepoTeams(w) \/ ReadTeamMembers(w) \/ FinishRepo(w) \/ SkipRepo(w)
  \/ Apply(w) \/ RecordRecompute(w)
  \/ AttemptThrows(w)

Process(w) ==
  \/ ReadBatch(w) \/ Claim(w) \/ SkipEvent(w) \/ FinishBatch(w)
  \/ Attempt(w)
  \/ MarkDone(w) \/ MarkFailed(w)

Environment ==
  \/ \E e \in Events, t \in Teams :
       \/ ChangeMembers(e, t)
       \/ \E r \in Repos : ChangeGrant(e, t, r)
  \/ \E e \in Events, rs \in (SUBSET Repos) \ {{}} : ChangeInstallation(e, rs)
  \/ \E e \in Events : Receive(e)
  \/ SwitchSetting
  \/ \E w \in Workers, r \in Repos : WindowPasses(w, r)

Next ==
  \/ Environment
  \/ \E w \in Workers : Process(w) \/ QueueUpdateThrows(w) \/ Crash(w)

Spec == Init /\ [][Next]_vars

\* Every instance's timer keeps firing and its handler keeps running.
Fairness == \A w \in Workers : WF_vars(Process(w))

FairSpec == Spec /\ Fairness
-----------------------------------------------------------------------------
(* What the queue promises.                                                *)

\* A delivery is processed once: whatever redeliveries arrive and whichever
\* instances read it, its row is claimed at most once (unique delivery_id,
\* schema.prisma; the claim's condition on status, :196-208).
ClaimedAtMostOnce == \A e \in Events : event[e].claims <= 1

\* An event in hand is in processing, and in one instance's hands only.
SingleHandler ==
  \A v, w \in Workers, e \in Events :
    Handles(v, e) /\ Handles(w, e) => v = w /\ event[e].status = "processing"

\* A row is left in processing for good, which no code ever takes up again,
\* only by a crash or a failed queue update, one row each.
AbandonedOnlyByFaults ==
  Cardinality({e \in Events : /\ event[e].status = "processing"
                              /\ \A w \in Workers : ~Handles(w, e)})
    <= spent.fault

\* done and failed are final: no redelivery, stale batch or slow handler
\* reopens an event.
FinalIsFinal ==
  [][\A e \in Events :
       event[e].status \in Final => event'[e] = event[e]]_vars

\* Nothing is on its way and nothing in hand, and every event was processed.
Settled ==
  /\ \A e \in Events : event[e].status \in {"none", "done"}
  /\ \A w \in Workers : job[w].at = "idle"

\* github-partial-recompute.md: the affected repositories are recomputed.  Once
\* all webhooks are processed every project's roles agree with GitHub, except
\* where the debounce or a failed repository left the last recompute out.
\* Holds for one instance whose workspace's settings stay on.
ConvergesUnlessMissed ==
  Settled /\ spent.switch = 0 =>
    \A r \in Repos \ missed : applied[r] = Truth(r)

\* Roles are never set back to an older member list of a team than the one they
\* were last set from, though caches expire and are refilled at any moment.
\* Holds for one instance.
RolesNeverGoBack ==
  [][\A r \in Repos : applied'[r] # applied[r] =>
       \A old \in applied[r], new \in applied'[r] :
         old[1] = new[1] => old[2] <= new[2]]_vars

\* github-webhooks.md: every stored event is processed or fails, it never stays
\* queued or in processing (without crashes and failed queue updates).
EventSettles ==
  \A e \in Events :
    event[e].status = "queued" ~> event[e].status \in Final

\* github-partial-recompute.md:77, "failed events retry up to 3 attempts": an
\* event counts as processed only when what its attempts set out to recompute
\* has been recomputed.
SuccessOwesNothing ==
  \A w \in Workers : job[w].at = "success" => job[w].owed = {}
=============================================================================
