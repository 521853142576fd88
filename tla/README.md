# Claustrum in TLA+

A formal model of Claustrum (`src/`), its server and the runtime of its local
adapter: TLA+ modules of the concurrent parts, TLC configurations that check them on small instances, and
TLAPS proofs of their main safety properties for every value of the constants.

`memory-core` is a REST service over PostgreSQL. It may run as several
processes (two run during every rolling restart); they share nothing but the
database. Each process starts the same timers (`http-server.ts:311-430`), each
with a *running* flag of its own. What can go wrong lies there: batches read in
one statement and worked through in later ones, claims, retries, crashes
between two statements, caches and debounces that outlive what they stand for. The
request handlers race as well: a handler is a sequence of statements, most of
them outside a transaction. `mcp-adapter` runs on a user's machine, several
processes over one home directory.

Contents: [inventory](#inventory), [modules](#modules), [runs](#runs),
[fairness](#fairness), [proofs](#proofs), [divergences](#divergences),
[limits](#not-modelled), [what is left](#what-is-left).

## Inventory

| Component | State | Operations | Interacts with | Hard behaviour | What makes it correct |
|---|---|---|---|---|---|
| Audit delivery queue (`audit-sink-helpers.ts`, `audit-sink-core.ts`, `audit-sink-management.ts`) | `audit_delivery_queue` (status, attempts, next_attempt_at), `audit_sinks` | enqueue per audit log, tick: read batch / claim / POST / settle, sink create, update, delete | audit log (producer, cascade delete), timer, receivers | batch is a snapshot; compare-and-set claim, but settling by id alone; crash or failed statement between the two; two instances | one send at a time, delivered only after 2xx, terminal rows final, retry policy and backoff kept, every row settles |
| Audit log and retention (`audit-helpers.ts`, `audit-retention-helpers.ts`) | `audit_logs`, archive | record, enqueue (fire and forget), daily archive and delete | all writers; delivery queue | deletes rows whose deliveries are in flight; one failing workspace restarts the day's sweep | nothing deleted before its retention, no delivery for a deleted log |
| GitHub webhook queue (`github-webhook-helpers.ts`, `github-webhook-queue-processor.ts`) | `github_webhook_events` | receive (unique delivery id), tick: read / claim / up to 3 attempts / done or failed | GitHub, timer, settings, caches, permission sync | redelivery, reordering, retries at once, crash after the claim | processed at most once, final, never lost except by a fault |
| Partial permission recompute (`github-webhook-partial-recompute.ts`, `github-permission-compute-helpers.ts`) | teams and members cache rows (TTL 15 min), debounce map in memory | invalidate, find affected, debounce, cached reads, compute, apply | webhook queue, GitHub API, `project_members` | stale caches, leading-edge debounce stamped before the work, one repository failing | after all webhooks the roles agree with GitHub; never back to older members |
| Permission sync, team mapping, OIDC sign-on (`github-permission-sync-helpers.ts`, `github-team-mapping-sync-helpers.ts`, `oidc-login.ts`) | `workspace_members`, `project_members` | dry run, sync in a transaction, sign-on row by row | GitHub, the provider, each other, the member endpoints | decide from a snapshot, write minutes later; three writers and people over one table; a failed team counts as empty | no role without a source, owners protected, syncs converge |
| Detections (`detection-helpers.ts`) | rules, detections, audit rows | sweep, evaluate, create, notify | audit log (reads and writes) | check-then-create without unique index; rules ordered by update time | one detection per rule, group and time bucket; every rule evaluated |
| Decision extraction (`decision-extraction-helpers.ts`) | raw events, memories | batch per commit: read unprocessed, classify, store, mark | git events, LLM | batches overlap; store then mark; metadata written back stale; newest first | a mark never hides a decision; one decision per commit; no event left without a batch |
| API keys, invitations (`api-key-domain.ts`, `invite-domain.ts`) | keys, one-time tokens, invites | create, revoke, reset, one-time view, accept | auth | concurrent resets, views, accepts; a failure between two statements | a link shows its key once; a reset reaches all older keys; no key lost |
| Active work (`active-work-recompute.ts`, `active-work-helpers.ts`) | active work rows, timeline | recompute (nightly, on request): read, infer, write back, sweep; confirm, close, reopen | raw events, memories, settings | writes back a status read earlier; row and timeline in two statements; unique titles | only evidence and people change a status; the timeline tells it; quiet work is closed |
| Raw imports (`import-raw-helpers-*.ts`) | imports, staged rows | upload, parse, commit | memories | commit is check-then-act | committed once |
| MCP adapter runtime (`mcp-adapter/src/runtime`) | home directory: versions, `current` link, lock file, `state.json` | update check, download, install, switch, login | several adapter processes, file system | lock without expiry, files shared without merging, crash in a copy | always a version to start; updates go on |
| Settings, rules, search, bundles, project resolution, HTTP layer, UI, docs, scripts | single rows or none | reads, single-row writes, text | all | little | mostly input validation and ranking |

`PROJECT.json` lists them with their sources, and every hazard with the line
where it bites and the properties that would catch it going wrong.

## Modules

    DeliveryLedger            what administrators may rely on (abstract)
      ^ implemented by
    AuditDelivery             the audit delivery queue and its workers
      MCAuditDelivery         instances for TLC
      AuditDelivery_proofs    theorems

    GithubWebhookQueue        webhook queue and partial recompute
      MCGithubWebhookQueue    instances for TLC
      GithubWebhookQueue_proofs  theorems

    AccessSync                writers of the two member tables
    Credentials               keys, one-time links, invitations, passwords
    DecisionExtraction        from commits to decision memories
    McpRuntime                adapter processes sharing a home directory
    ActiveWork                rows inferred, swept and decided about
      (each with its MC module and its _proofs)

The modules meet where the components do. `GithubWebhookQueue` ends in `Apply`, a
permission sync, which `AccessSync` opens up; an accepted invitation is a request in
`Credentials` and a write of roles in `AccessSync`. They are kept apart because no
property relates the state of two of them.

### AuditDelivery

| Variable | Code |
|---|---|
| `sink` | `audit_sinks`: enabled (`on`/`off`) and `retry_policy.max_attempts`; `new` and `gone` before and after its life; `had`, history: every `max_attempts` it was stored with |
| `log` | `audit_logs`, and whether the enqueue started by `recordAuditEntry` is over |
| `queue` | rows of `audit_delivery_queue`, by their unique key `<<sink, log>>` |
| `pc`, `batch`, `cur` | a worker's place in `processAuditDeliveryQueueHandler`, the rows of its `findMany` still to come, the row in hand *as it was read* |
| `tries`, `acked`, `spent` | history and budgets |

One action per statement that another process can interleave with: `ReadBatch`
(`findMany` with its sinks), `Claim` / `SkipRow` (`updateMany` where status is
queued), `PostAccepted` / `PostFailed`, `MarkDelivered` and its failure, which
the `catch` turns into a failed attempt, `MarkFailedOrRetry`, and the ways a
tick ends: batch done, an exception, a crash. The administrators' and the
retention sweep's deletes cascade to rows that may be in flight.

Abstractions: time is one flag per row, *due*, so the backoff may be any length
and a batch any selection of `BatchSize` due rows; an enqueue selects any subset
of the existing sinks (the event and target filters are data); a batch read is
one step (the code's query with its `include` is two statements, closely
spaced); a failed database statement is one that was not applied.

`DeliveryLedger` states the promise of `siem-integration.md`: a delivery is
opened at most once, sent by one sender at a time, delivered only after an
answer, and never leaves *delivered* or *failed* except by removal. The
refinement (`LedgerState`) maps absent rows to *none* or *removed* by the fate of
their sink and log.

### GithubWebhookQueue

GitHub is part of the model: `grants` (which teams have a repository) and
`members` (the version of each team's member list). Every change sends one
webhook; a webhook not received yet is `sent`, and may be received at any later
time, in any order; `Receive` of a stored delivery does nothing, as the unique
`delivery_id` makes it. `repoTeams`
and `teamUsers` are the cache tables, `applied` is, per repository, the view of
GitHub from which its project's roles were last set, `recent` the debounce map of
each process, `job` the handler between two statements.

One attempt is `InvalidateRepoTeams`, `InvalidateTeamMembers`, `Debounce`, then for
each accepted repository `ReadRepoTeams`, one `ReadTeamMembers` per team and
`FinishRepo` (or `SkipRepo`), then `Apply`, the sync's transaction, and
`RecordRecompute`. Any of them may throw (`AttemptThrows`), which starts the next
attempt at once; only a process crash (`Crash`) or a failed queue update
(`QueueUpdateThrows`) ends the tick.

Abstractions: a debounce window passes and a cache row expires at any moment (so
the properties do not depend on 8 s or 15 minutes); the roles computed from a view are
left out, two equal views give equal roles; a cached read with its fetch and
store is one step; settings are read where the code reads them, at the start of
an attempt; in the team mapping call only the possibility of its throwing is
kept; `add_and_remove` mode.

### AccessSync

| Variable | Code |
|---|---|
| `role` | `workspace_members` and `project_members` as ranks; the workspace is a target beside the projects, 0 is no row |
| `job` | a permission sync, team mapping sync or sign-on in progress: its mode, what it read (`had`), the calls that failed, the projects to come |
| `world` | what GitHub, the provider and the settings say, fixed in a behaviour |
| `stale`, `granted`, `edits`, `faults` | rows others wrote since a job read them; the highest role people gave; budgets |

A sync is a read and a later commit (`PermissionStart` / `PermissionCommit`; the team
sync twice, workspace then projects), for `update` throws when a row is gone and
`upsert` does not. A sign-on reads and writes row by row
(`OidcMapped`, `OidcAutoProvision`, `OidcUnmapped`, then the projects).
`PermissionDecision` and `TeamDecision` are the code's decisions about one row; they differ
(an upgrade of a protected row, `add_only`), which the properties keep. People act
through the member endpoints.

Abstractions: one workspace, one repository per project, fixed sources; who may call
an endpoint; the dry run and the audit rows.

### Credentials

| Variable | Code |
|---|---|
| `key`, `link` | `api_keys`, and `api_key_one_time_tokens`, one for a key |
| `invite`, `password`, `setup` | `invitation_tokens`, `users.password_hash` (whose request set it), `must_change_password` |
| `req` | a request between two statements: what it is about, the rows its statement found or locked, the user row as it read it |
| `sent`, `seen`, `since`, `faults` | secrets given to somebody; what was committed while a request ran; budget |

Reset and accept are transactions at READ COMMITTED: an `updateMany` first finds its rows
(`ResetFind`), then waits for those another transaction wrote and keeps the ones
that still match (`ResetLock`); what they wrote is visible at `ResetCommit` and
`AcceptCommit`. The one-time view is a read and a compare-and-set (`ViewLink`,
`ConsumeLink`). Any statement may fail (`Fail`).

Abstractions: secrets, hashes, labels and who may call what. The answer that carries a
secret is part of a request's last step.

### DecisionExtraction

| Variable | Code |
|---|---|
| `captured`, `aged` | `raw_events`, numbered as they come; those older than `decisionBackfillDays` |
| `processed` | `metadata.decision_extraction_processed` |
| `memories` | decision memories made from an event |
| `batch` | the batch each commit started (`setTimeout`): its place, the events to come, the one in hand |
| `enabled`, `hybrid` | the two settings |
| `troubles`, `dismissed`, `shared`, `broken` | what kept a batch from progress; events without a decision; events two batches had at once; decisions stored and not marked |

One action per statement. Every write of the metadata spreads the copy the batch read, so a
write that does not mark an event takes the mark away (`WriteBack`). A thrown
error is written to the event and the batch goes on (`Throw`); a failure outside
the loop's `try`, or a process that dies, ends the batch (`Die`).

Abstractions: the model's answer is any of three; hybrid scores are any order; clients
do not send the `decision_extraction_*` keys in a commit's metadata.

### McpRuntime

| Variable | Code |
|---|---|
| `dir` | `adapter/versions/v*`: absent, partly copied, complete |
| `current`, `next` | the links `adapter/current` and `current.next` |
| `lock`, `state` | `update.lock`; `state.json`: etag, a check less than a minute ago, the API key |
| `proc` | where each process is, its own version, the one it switches to, the state it read |
| `raced`, `cut`, `refused`, `highest`, `abandoned` | the causes the properties name |

A step is one file operation: `rm`, `symlink` and `rename` of `switchCurrentSymlink`
are `Unlink`, `Symlink`, `Rename` (and `RemoveCurrent`, `RenameAgain` of its `catch`), which a
starting process and an update check may do at once. The check runs beside the bridge,
so a process may end (`ReadKey`, no key) while its check holds the lock. `Kill` may
come at any step, and a file operation may fail: a check logs it and gives the lock back, a start ends, and in
`Acquire` one `catch` for opening, writing and closing the lock also takes a lock that was made and
could not be written. `Publish` is a release on GitHub.

Abstractions: POSIX files, where a rename fails only because its source is gone or a directory is in its way (after any
other failure the code goes on as after that one, `updater.ts:240`, `install.ts:64`); the stable channel; the launcher script, manifests and the
bridge's traffic. Two processes with the same version copy into one directory only one
after the other, because the second finds the directory there.

### ActiveWork

| Variable | Code |
|---|---|
| `row`, `said` | `active_work` by title; the status the latest entry of `active_work_events` tells |
| `signal`, `day` | the day of the latest commit or memory behind each candidate; the date |
| `autoClose` | `activeWorkAutoCloseEnabled` |
| `listed` | the nightly run takes the project: `enableActivityAutoLog` is not off, and the project is among the 1000 it reads |
| `hand` | a recompute or request in progress: what it has read and not written yet (`todo`), the entry it is about to write |
| `contested`, `unlogged`, `troubles` | rows written while somebody else had them in hand, or by somebody who failed before the entry; budget |

A recompute is started by the nightly run (`Nightly`), which skips the workspaces that log no
activity, or by a request (`Requested`), which takes the project it names. `Read` is its three queries, after which each row is written back
from what was read (`Update`, `Create`), whatever happened to it since. Then
`ReadOpen` reads the open rows again and the sweep closes, marks or clears them (`CloseRow`,
`SetStale`). A title is unique, but existing rows are looked up by the title in lower case:
two candidates may write one row, or the second of two creates is refused, which ends the recompute
before its sweep (`CreateRefused`). `Decide` is a maintainer's request. Every entry of the
timeline is a statement of its own (`Record`).

Abstractions: the candidates are any set of those with evidence in the window (scores, the
threshold, the ten best); the three queries are one step; entries about staleness and
audit rows.

## Runs

| Run | Instance | Properties | Shows |
|---|---|---|---|
| `audit_two_instances` | 1 sink, 2 logs, 2 processes, one each of crash, database error, admin request | `TypeOK`, `SingleFlight`, `StrandedOnlyByFaults`, `DeliveredWasAcked`, `ImplementsLedger` | the claim keeps rows single-flight and final though every other update is by id alone; a fault strands at most one row |
| `audit_one_instance` | 1 sink, 2 logs, batch of 1, policies 2 and 3, two admin requests, one error, one crash | `AttemptsWereMade`, `TriesWithinPolicy`, `BackoffRespected`, `SettlesUnlessStranded` | with one process a row is tried no more often than its own sink ever asked for, the backoff holds and every row settles unless stranded |
| `audit_crash` | 1 row, one crash | `EveryRowSettles` violated | see divergences |
| `audit_overlap` | 1 row, two processes, no fault | `TriesWithinPolicy` violated | see divergences |
| `github_two_instances` | 1 repository, 1 team, 2 webhooks, 2 processes, 2 throws, 1 fault | `TypeOK`, `ClaimedAtMostOnce`, `SingleHandler`, `AbandonedOnlyByFaults` | redelivery and competing processes never process an event twice |
| `github_convergence` | 1 repository, 2 teams, 2 webhooks in any order, 1 process, batches of 1, 2 throws, one failing repository, one settings change | `ConvergesUnlessMissed`, `RolesNeverGoBack`, `EventSettles` | no event stays queued or in processing, and then roles agree with GitHub, unless the debounce swallowed the last recompute |
| `github_retry` | 1 webhook, one throw | `SuccessOwesNothing` violated | see divergences |
| `access` | 1 user, 1 project, 2 teams, 2 groups, 5 worlds, 2 jobs at once, 1 change by people, 1 fault | `TypeOK`, `AccessIsJustified`, `ProtectionHolds`, `SyncReachesItsSource`, `FailedCallsTakeLittle`, `TokensGoToMembers`, `TablesComeToRest` | the writers of the member tables only disturb each other through stale readings, and rest unless the sources contradict each other |
| `credentials` | 2 requests; 3 keys of a user, 2 of two users, or 2 invitations; 1 fault | `TypeOK`, `LostHasACause`, `ShownOnce`, `ResetReachesOldKeys`, `ChosenPasswordsStay`, `TakenTwiceByOverlap` | links are single-use; an active key that nobody can ever use cost a failure, unless its link expired unused; what a reset or an accept misses is what overlapped it |
| `decisions` | 3 commits, batches of 2, 2 troubles | `TypeOK`, `MarkedIsDone`, `DuplicatesHaveACause`, `BacklogIsExplained` | no decision is hidden by a mark; duplicates and leftovers have the named causes only |
| `adapters` | 2 processes, 3 starts, 3 releases, 1 kill | `TypeOK`, `LauncherWorks`, `UpdatesGoOn` | the launcher works and updates go on, but for the named causes |
| `active_work` | 3 candidates, 2 titles of one key, 2 recomputes, 1 maintainer, 3 days, 2 troubles | `TypeOK`, `TimelineTells`, `PeopleAndEvidenceDecide`, `QuietWorkIsClosed` | recomputes overrule people and evidence only where writers of a row overlap; quiet work is closed where the nightly run takes the project |

**Bounds.** Two processes are all that a race of claims needs; a third adds only
symmetric copies, and the proofs do not depend on the number. Two rows let a
batch outlive its snapshot and let an exception drop the rest of it. Policies of
2 and 3 give a first try, a retry and the last try. One fault of each kind meets
every statement; `StrandedOnlyByFaults` and `AbandonedOnlyByFaults` count them, so
one is enough to see one row lost and no more. Two webhooks over two teams
give a grant and a change of members, or two changes of one list, in all orders, which is
where caches and events disagree; with two throws and two attempts an event may also fail. `MaxAttempts` is 2 in the larger
`github` runs (3 in `github_retry`): the loop treats all attempts but the last
alike. Symmetry is used in safety runs only.

`access`: no decision about one user reads another's rows, so one user is enough; the
five worlds are sources that agree, that only add, that say nothing, and two in
which they contradict each other; two jobs give every overlap. `credentials` is the sum of
three families of initial states (`MCSpec`), because keys and users' rows meet only in
"the user exists": two resets against three keys, with links and revocation; two users;
two invitations with accepts, resets of passwords and setup. `decisions`: at most two
batches run at once and the settings change before the second commit (`MCNext`); three
commits let a batch overlap another and leave one event behind. `adapters`: three releases
are one to run, one to refuse or miss, and one to go on with; three starts include one
by the launcher after a switch, or a logout. `active_work` is a sum too (`MCNext`): while no
statement failed, two may be at work at once over one candidate; or one works after the other
over three candidates, two with one title and one whose title differs in case. Evidence counts
for one day, rows become stale after one and are closed after two, so three days see all of it.
It begins with auto-close on or the project listed, but not both; the other is switched on some day or never.

`CHECK_DEADLOCK FALSE` is set in all runs: with the budgets and the finite sets of
logs and webhooks used up, an idle system has nothing left to do.

**Mutants.** Each property of a passing run is checked against a mutant of the
model, an operator beside the definition it changes (claim by id alone, retries
off by one, cached members not deleted, a disabled sink's row passed over, ...).

## Fairness

`FairSpec` assumes weak fairness of each process's `Process(w)`: its timer fires
every 3 s and its running flag falls in `finally`, so a process that can take a
step takes one. `AuditDelivery` adds that a queued row's `next_attempt_at` passes.
A POST or GitHub request
has no timeout of its own in the code, so this also takes the runtime to give up a
request that is never answered (Node's `fetch` does, after minutes); until then one
receiver holds up all rows of that process, which the model does not measure. Nothing obliges users, administrators, GitHub, errors or
crashes to act, and the fairness does not say which branch a process takes:
a receiver may fail for ever, a retried row still ends in *failed*.

`AccessSync!TablesComeToRest` needs no fairness, only that again and again no job is running
(`[]<>Quiet`): sign-ons that overlap without end can hand on for ever an OWNER role each
read before another, with an older reading, lowered it.

`ActiveWork` assumes that the nightly run comes again and again (the hourly timer tries
until one run of the day succeeded, `http-server.ts:403-424`) and that a recompute that runs goes on; in the
run the timer is that of `j1`. Fairness is of `Nightly`, not of requests, and `Nightly` needs `listed`: the run
skips a workspace whose `enableActivityAutoLog` is off even when its auto-close is on
(`active-work-recompute.ts:380`), and of each workspace it takes 1000 projects in no stated order
(`:385-388`). `QuietWorkIsClosed` promises nothing for the others. A project's recompute comes after those of
the projects before it, each of which ends with a refused create at most once for each new title.

The other modules state safety only: nothing in the code obliges a client to come
back, and a batch or an update is only started by the next commit or start.

## Proofs

The proof modules are parametric: any sets of sinks, logs, teams,
repositories, events and processes, finite or not (unless an `ASSUME` says so), and any budgets. They assume only
the named `ASSUME`s: batch sizes, attempts and policies are positive, budgets
natural, and `Nil` is none of the values it stands beside.

`AuditDelivery_proofs`. The updates that settle a row name it by id alone, so
`SingleFlight` is not inductive: nothing in it says that a row in hand is not claimable.
`ClaimInvariant` adds that it is *sending* or removed (`ClaimedIsSending`), that a removed
row cannot come back (`RowsHaveParents`, `SnapshotsAreEnqueued`: its enqueue is
over), and an account of the answers seen (`AnswersAccounted`).
From it follow `OneSendAtATime`, `DeliveredRowsWereAcked`,
`TerminalFinal` (proved only, like `ClaimInvariant` and `FinalEventsStayFinal` below: no run repeats them), and `QueueImplementsLedger`: each step of the queue is a step of
the ledger or a stutter.
- `FailedRowsSpentTheirAttempts`, for any number of processes: `AttemptsCounted` says that neither
  a snapshot nor the row in hand counts more attempts than were made. That is what keeps the
  blind write of the attempt number from counting up, though it may count down. `PoliciesRecorded` ties
  the policy it is compared with to the row's own sink: what a live sink has, and what a worker
  read, is among what that sink was stored with.
- `OnlyFaultsStrandRows`: `Stranded` grows only in a crash or a failed statement, then by the row in
  hand. `Rows` may be infinite, so that it stays finite is part of the invariant (`StrandedIsBounded`).
- `OneInstanceKeepsThePolicy` and `OneInstanceWaitsForTheBackoff` assume a single process
  (`audit_overlap` shows that the first needs it). The properties alone are not inductive, because the claim
  and the settling update take attempts and policy from the snapshot; `BatchesAreFresh` says that
  every row left in a batch is still queued and due with the attempts read, or removed, and
  that no row is in a batch twice.

`GithubWebhookQueue_proofs`.
- `QueueInvariant`: an event in hand is stored and in *processing*, in one process's
  hands; its claims are 0 before and 1 since. A type invariant alone is not
  inductive: `Debounce` needs to know that there is an event in hand. It gives
  `TypeCorrect`, `NoEventIsClaimedTwice`, `OneHandlerAtATime` and
  `FinalEventsStayFinal`.
- `EventsAreAbandonedOnlyByFaults`: the set of events in *processing* without a
  handler grows only in a crash or failed update, then by the one in hand;
  the set is finite though `Events` may not be.
- `OneInstanceNeverGoesBack` assumes a single process. `VersionInvariant`: every version in a
  finished or unfinished view, or applied, is at most the cached row's, if there is one, and
  at most GitHub's; so whatever the next read returns is no older. With two
  processes the transaction of one may overtake a view held by the other.
- `OneInstanceConverges` assumes a single process as well, and no change of the settings (a recompute that
  the settings suppress is not made up for). `ConvergenceInvariant`
  accounts for every difference between `applied` and GitHub: the repository was missed, an event not yet past
  the matching of repositories concerns it (`Awaited`), or it is in the work of the current handler
  (`DifferencesAreAwaited`). To keep that through a step, cached rows must be GitHub's
  unless the change's own event is still to invalidate them (`TeamsAreCached`,
  `MembersAreCached`), a repository without a cached row must be found all the same (`NoneIsForgotten`: an
  event about members finds its repositories by the cached rows, so one whose row is
  gone would be passed over), and views in work must be GitHub's or awaited
  (`WorkIsCurrent`), also where a throw starts the handler over.

`AccessSync_proofs`. A plan never exceeds its source, and a row a job writes back was
justified when it read it; justification never shrinks, since `granted` only
grows. That is the inductive invariant of `AccessJustified`. For `OwnersAreProtected` it must
also say that a row a job read and nobody changed since (`stale`) is still as read,
or changed by the job itself. `SessionsAreMembers` follows from the same, and so does
`SyncsReachTheirSource`: an undisturbed job commits a plan made from rows that are still there.
`FailedCallsCostLittle` compares the role wanted with and without the calls that failed: if they
differ, a mapping of a team that was not asked about makes the difference.

`Credentials_proofs`. `ShownOnce` rests on the compare-and-set: a request about to answer with
a secret is the one that made the link used. `ResetsReachOldKeys` follows the two phases of
`updateMany`: a key active at the commit was found and locked, or committed since the reset
began. `LostKeysHaveACause` maps each lost key whose link did not just expire unused to a failure, a cardinality argument over
the finite set of keys. `PasswordsStay` and `InvitesTakenOnce` use `since`.

`DecisionExtraction_proofs`. An event in a batch's hands past `CreateMemory` has its memory;
while no two batches share an event and none broke off before its mark, an unmarked
event has no memory but in its batch's hands. `OneDecisionPerCommit` and `MarksStay` follow.
`BacklogHasAReason` is not inductive as the run checks it: a batch that is at work may have done its share.
`BacklogIsAccounted` counts the batches not yet started, one promise for a running batch all of
whose events are open, and the troubles: a batch that starts while another runs counts
one, and a batch without a promise has closed an event.
`MarksAreKept` is proved only, no run checks it.

`McpRuntime_proofs`. `IInv` says of each process what it knows wherever it is (`Fits`: its target
is there, its etag was refused or linked), of the links that they lead to versions that
are there, and that without a race only one process is between `rm` and `rename`, with its own link
in `current.next`. `LauncherStarts` and `UpdatesContinue` are its corollaries.

`ActiveWork_proofs`. What a recompute holds was read long before it is written; `Handwork` says that
all the same every task still `Fits` its row, unless the row is contested: a write of
anybody else would have made it so, and tasks of one hand about one row agree. `DecisionsStand`
follows. `Told` adds that an entry in hand tells what its row has become, and that without one the last
entry does: an update without entry changes no status, because it still fits. That is
`TimelineFollowsRows`.

**Only model-checked:** `SettlesUnlessStranded`, `EventSettles`, `TablesComeToRest` and
`QuietWorkIsClosed`, which are liveness properties and so beyond the proof system. Every other property of a passing
run is stated by a theorem. What the three violation runs refute has no proof, of course:
`TriesWithinPolicy` is proved for one process and violated with two.

## Divergences

- `audit_crash`: `siem-integration.md` describes delivery as success, or backoff and at last
  `failed`. A process that dies between the claim and the settling update leaves
  the row in *sending*, which no query selects again.
- `audit_overlap`: the attempt count is written from the snapshot read before the claim,
  so a second process with an older batch tries a row more often than
  `max_attempts`, and before its backoff has passed.
- `github_retry`: the debounce is stamped before the work, and the retry follows
  within its window: an event whose first attempt throws after the stamp is
  *done* with nothing recomputed, where `github-partial-recompute.md:77`
  promises retries.


Others need no run of their own; the passing properties carry them as named exceptions.

- Roles: `role-resolution-spec.md` takes the highest of manual, GitHub and OIDC roles.
  The code keeps one row, and the last writer wins: a sign-on writes the mapped role over a
  higher one even in `add_only`. With auto-provisioning and `add_and_remove` a sign-on
  adds the member that the next one removes (`Contested`).
- Keys: `api-keys-and-security.md:37` says a reset revokes all active keys of the user; two
  resets at once leave both new keys active (`ResetReachesOldKeys`). `onboarding.md:55` says
  invitation tokens are one-time; two accepts at once both set the password
  (`TakenTwiceByOverlap`).
- Decisions: `decision-extraction.md:68` says an event without an answer is "retried later". It is
  retried only when another commit comes, and while it is among the newest events of
  the scan; overlapping batches store a decision twice and take marks away
  (`DuplicatesHaveACause`, `MarksAreKept`).
- Adapter: `authentication-strategy.md:21` keeps the API key in `state.json`. Every update check writes
  the file back without it, and the next start without a key in its environment
  exits while its check may hold the lock, which then stays for ever, as does a lock that was made and
  could not be written (`lock.ts:10-20`; `UpdatesGoOn`, `abandoned`). `mcp-adapter-architecture.md:44` swaps the link atomically; two switches at once
  share `current.next`, and `current` can be missing (`LauncherWorks`, `raced`). A release whose
  checksum did not match is not looked at again, and a process of an older version that starts
  late links itself (`UpdatesGoOn`).
- Active work: `active-work-stale.md:26` says confirmed items are preserved from auto-close. A row confirmed
  while a sweep has it in hand is closed, and one confirmed while a recompute has it in hand is
  inferred again (`PeopleAndEvidenceDecide`, `contested`). A row closed by hand is reopened by the
  next recompute as long as there is evidence. `active-work-stale.md:31` lists the nightly recompute
  without condition; with activity logging off, or beyond 1000 projects, it passes the project over, and a quiet row
  stays open for ever though auto-close is on (`QuietWorkIsClosed`, `listed`). With fewer than 14 days for staleness or auto-close
  a row whose evidence is older than that goes to and fro in every recompute.

The passing properties state what the code does keep around all these: at most one
row per fault, one process, roles right except where a recompute was missed, a
disturbance only where requests, batches or switches overlapped.

## Not modelled

Text, ranking and parsing (search, context bundles, rules, import parsing,
project resolution), the admin UI and docs site, and protocol exchanges through
libraries (OIDC, GitHub tokens) have no interleaving a model would add to. They are
most of the repository's lines, so the modules stand for a small share of them.

Parts of modelled components left out:
- Audit: filters that choose sinks, the test delivery, CSV export, archiving, the lost update of a
  sink's settings. A database statement whose reply is lost after it was committed.
- GitHub: repository renames, the repository link sync of installation events,
  signature checks, `add_only` mode of the recompute. Fetch and store of
  a cache row are one step, hence the convergence run has one process.
- Access: the dry run, status queries, edits of mappings and providers, sources that change while the
  tables do.
- Credentials: looking a key up, its own expiry, login, deletion of users.
- Decisions: checkout events, keyword policies and their edits, confirming a decision; a raised
  `decisionBackfillDays`, which brings aged events back into the scan.
- Adapter: the beta channel, Windows junctions, the bridge's requests and retries.
- Active work: scores and titles, the listings, edits of the days for staleness and auto-close, a failing project that keeps the nightly
  run from those after it for an hour.

Detections (check-then-create without a unique index; rules taken by update time, so that
beyond `batchSize` of them the oldest are never evaluated), raw imports (a commit that never looks at the
record's status) and the retention timer (the day is set only after every workspace succeeded) are single
check-then-act steps; `PROJECT.json` lists detections and imports as hazards without a property.

## What is left

In the order of their worth: two-step cache reads with two processes in
`GithubWebhookQueue`, and three webhooks in its convergence run; detections and imports as one module of
check-then-act jobs; the enqueue's reads and the retention sweep; `AccessSync` with sources that change.
Proofs: an abstract specification for the webhook queue and for the credentials' tables, as
`DeliveryLedger` is for audit; the steps of the liveness arguments that are invariants (what a stranded or
settled row can still do); `ConvergesUnlessMissed` again, once cache reads take two steps.

## Running

    tlc -workers 2 -config AuditDelivery_two.cfg MCAuditDelivery.tla
    tlc -workers 2 -config GithubWebhookQueue_two.cfg MCGithubWebhookQueue.tla
    tlc -workers 2 -config AccessSync.cfg MCAccessSync.tla
    tlc -workers 2 -config Credentials.cfg MCCredentials.tla
    tlc -workers 2 -config DecisionExtraction.cfg MCDecisionExtraction.tla
    tlc -workers 2 -config McpRuntime.cfg MCMcpRuntime.tla
    tlc -workers 2 -config GithubWebhookQueue_one.cfg MCGithubWebhookQueue.tla
    tlc -workers 2 -config ActiveWork.cfg MCActiveWork.tla
    for m in AuditDelivery GithubWebhookQueue AccessSync Credentials DecisionExtraction \
        McpRuntime ActiveWork
    do tlapm ${m}_proofs.tla; done
