---------------------------- MODULE AuditDelivery ----------------------------
(***************************************************************************)
(* The durable audit delivery queue of memory-core and the workers that    *)
(* drain it (helpers/audit-sink-helpers.ts, processAuditDeliveryQueue).    *)
(*                                                                         *)
(* A row of audit_delivery_queue is named by its unique key                *)
(* <<sink, audit log>>.  Every server instance runs one worker: a timer    *)
(* with an in-process "running" flag that reads a batch of due rows        *)
(* together with their sinks, then claims, posts and settles them one by   *)
(* one.  Instances share nothing but the database; the claim is a          *)
(* compare-and-set on the row's status, the rest of the batch is a         *)
(* snapshot that other actors may have overtaken.                          *)
(*                                                                         *)
(* Time is abstracted to "the row's next_attempt_at has passed" (due): the *)
(* delays of the backoff, and the oldest-first order in which a batch is   *)
(* taken, are left open.  A database error is a statement that was not     *)
(* applied; errors, crashes and admin requests are bounded by budgets.     *)
(***************************************************************************)
EXTENDS Integers, FiniteSets

CONSTANTS
  Sinks,        \* audit sink ids
  Logs,         \* audit log ids
  Workers,      \* server instances
  BatchSize,    \* rows one tick reads (50 in http-server.ts)
  Policies,     \* values of retry_policy.max_attempts (1..20 in the code)
  NoRow,        \* no current row
  MaxAdmin,     \* bound: sink creations, updates and deletions
  MaxDbErrors,  \* bound: failed database statements
  MaxCrashes    \* bound: instance crashes

ASSUME BatchAssumption == BatchSize \in Nat \ {0}
ASSUME PolicyAssumption == Policies \subseteq (Nat \ {0})
ASSUME BudgetAssumption == {MaxAdmin, MaxDbErrors, MaxCrashes} \subseteq Nat

VARIABLES
  sink,    \* audit_sinks; had is history: the max_attempts it was stored with
  log,     \* audit_logs, and how far the log's enqueue has come
  queue,   \* audit_delivery_queue
  pc,      \* where each worker's tick is
  batch,   \* the rows each worker read and has not come to yet
  cur,     \* the row each worker is working on, as it was read
  tries,   \* history: claims of each row
  acked,   \* history: 2xx answers seen for each row
  spent    \* how much of each budget is used

vars == <<sink, log, queue, pc, batch, cur, tries, acked, spent>>

Rows == Sinks \X Logs
Terminal == {"delivered", "failed"}
Statuses == {"absent", "queued", "sending"} \union Terminal
Absent == [status |-> "absent", attempts |-> 0, due |-> FALSE]

\* What findMany returns of a row: its attempt count and its sink's settings.
Snapshots ==
  [row: Rows, attempts: Nat, enabled: BOOLEAN, max: Policies]

Limit == [admin |-> MaxAdmin, db |-> MaxDbErrors, crash |-> MaxCrashes]

Spend(what) ==
  /\ spent[what] < Limit[what]
  /\ spent' = [spent EXCEPT ![what] = @ + 1]

Exists(s) == sink[s].state \in {"on", "off"}

\* ON DELETE CASCADE: the queue without the rows in gone.
Cascade(gone) == [r \in Rows |-> IF r \in gone THEN Absent ELSE queue[r]]

\* A worker has claimed its current row and has not settled it.
InFlight(w) == pc[w] \in {"claimed", "acked", "nacked"}

TypeOK ==
  /\ sink \in [Sinks -> [state: {"new", "on", "off", "gone"}, max: Policies,
                         had: SUBSET Policies]]
  /\ log \in [Logs -> {"new", "recorded", "settled", "deleted"}]
  /\ queue \in [Rows -> [status: Statuses, attempts: Nat, due: BOOLEAN]]
  /\ pc \in [Workers -> {"idle", "batch", "claimed", "acked", "nacked"}]
  /\ batch \in [Workers -> SUBSET Snapshots]
  /\ cur \in [Workers -> Snapshots \union {NoRow}]
  /\ tries \in [Rows -> Nat]
  /\ acked \in [Rows -> Nat]
  /\ spent \in [{"admin", "db", "crash"} -> Nat]
  /\ \A w \in Workers : InFlight(w) => cur[w] \in Snapshots

Init ==
  /\ \E state \in [Sinks -> {"new", "on"}], max \in [Sinks -> Policies] :
        sink = [s \in Sinks |-> [state |-> state[s], max |-> max[s],
                                had |-> IF state[s] = "on" THEN {max[s]} ELSE {}]]
  /\ log = [l \in Logs |-> "new"]
  /\ queue = [r \in Rows |-> Absent]
  /\ pc = [w \in Workers |-> "idle"]
  /\ batch = [w \in Workers |-> {}]
  /\ cur = [w \in Workers |-> NoRow]
  /\ tries = [r \in Rows |-> 0]
  /\ acked = [r \in Rows |-> 0]
  /\ spent = [what \in {"admin", "db", "crash"} |-> 0]

-----------------------------------------------------------------------------
(* The producers: sink administration, audit logs and their retention.     *)

workerVars == <<pc, batch, cur, tries, acked>>

\* The sink is stored, new or again.
Store(s, state, max) ==
  sink' = [sink EXCEPT ![s] =
             [state |-> state, max |-> max, had |-> sink[s].had \union {max}]]

CreateSink(s) ==
  /\ sink[s].state = "new"
  /\ Spend("admin")
  /\ \E state \in {"on", "off"}, max \in Policies : Store(s, state, max)
  /\ UNCHANGED <<log, queue, workerVars>>

\* Mutant: the policy is stored without normalizeRetryPolicy's clamp.
UpdateSinkUnclamped(s) ==
  /\ Exists(s)
  /\ Spend("admin")
  /\ sink' = [sink EXCEPT ![s].max = 0]
  /\ UNCHANGED <<log, queue, workerVars>>

\* The endpoint, secret and filter it may also change are not in the model.
UpdateSink(s) ==
  /\ Exists(s)
  /\ Spend("admin")
  /\ \E state \in {"on", "off"}, max \in Policies : Store(s, state, max)
  /\ UNCHANGED <<log, queue, workerVars>>

DeleteSink(s) ==
  /\ Exists(s)
  /\ Spend("admin")
  /\ sink' = [sink EXCEPT ![s].state = "gone"]
  /\ queue' = Cascade({s} \X Logs)
  /\ UNCHANGED <<log, workerVars>>

\* recordAuditEntry: the audit_logs row, with the enqueue still to run.
RecordAudit(l) ==
  /\ log[l] = "new"
  /\ log' = [log EXCEPT ![l] = "recorded"]
  /\ UNCHANGED <<sink, queue, workerVars, spent>>

\* The createMany of the log's enqueue, one row per selected sink.  selected
\* is empty when no sink matched, and when the fire-and-forget enqueue failed.
Enqueue(l) ==
  /\ log[l] = "recorded"
  /\ log' = [log EXCEPT ![l] = "settled"]
  /\ \E selected \in SUBSET {s \in Sinks : Exists(s)} :
        queue' = [r \in Rows |->
                    IF r \in selected \X {l} /\ queue[r].status = "absent"
                    THEN [status |-> "queued", attempts |-> 0, due |-> TRUE]
                    ELSE queue[r]]
  /\ UNCHANGED <<sink, workerVars, spent>>

\* The retention sweep deletes an old log and with it the log's deliveries.
DeleteLog(l) ==
  /\ log[l] \in {"recorded", "settled"}
  /\ log' = [log EXCEPT ![l] = "deleted"]
  /\ queue' = Cascade(Sinks \X {l})
  /\ UNCHANGED <<sink, workerVars, spent>>

\* The clock passes the row's next_attempt_at.
BecomeDue(r) ==
  /\ queue[r].status = "queued"
  /\ ~queue[r].due
  /\ queue' = [queue EXCEPT ![r].due = TRUE]
  /\ UNCHANGED <<sink, log, workerVars, spent>>

-----------------------------------------------------------------------------
(* The worker of instance w.                                               *)

dataVars == <<sink, log>>

\* What a worker reads of a queued row.
Snapshot(r) ==
  [row |-> r, attempts |-> queue[r].attempts,
   enabled |-> sink[r[1]].state = "on", max |-> sink[r[1]].max]

\* Mutant: findMany without its next_attempt_at condition.
DueRowsAnyTime == {r \in Rows : queue[r].status = "queued"}

\* Mutant: findMany passes over the rows of disabled sinks.
DueRowsOfEnabledSinks ==
  {r \in Rows : /\ queue[r].status = "queued" /\ queue[r].due
                /\ sink[r[1]].state = "on"}

DueRows == {r \in Rows : queue[r].status = "queued" /\ queue[r].due}

\* The rows a tick may take: all the due ones, or BatchSize of them.
Batches(due) ==
  IF Cardinality(due) <= BatchSize
  THEN {due}
  ELSE {b \in SUBSET due : Cardinality(b) = BatchSize}

\* A tick of the timer with the running flag down: findMany.
ReadBatch(w) ==
  /\ pc[w] = "idle"
  /\ DueRows # {}
  /\ \E rows \in Batches(DueRows) :
        batch' = [batch EXCEPT ![w] = {Snapshot(r) : r \in rows}]
  /\ pc' = [pc EXCEPT ![w] = "batch"]
  /\ UNCHANGED <<dataVars, queue, cur, tries, acked, spent>>

\* Mutant: the claim by id alone.
ClaimableById(r) == queue[r].status # "absent"

\* The guard of the claim's updateMany.
Claimable(r) == queue[r].status = "queued"

\* The claim succeeds: status goes from queued to sending.
Claim(w) ==
  /\ pc[w] = "batch"
  /\ \E snap \in batch[w] :
        /\ Claimable(snap.row)
        /\ queue' = [queue EXCEPT ![snap.row] =
                       [@ EXCEPT !.status = "sending", !.due = FALSE]]
        /\ cur' = [cur EXCEPT ![w] = snap]
        /\ batch' = [batch EXCEPT ![w] = @ \ {snap}]
        /\ tries' = [tries EXCEPT ![snap.row] = @ + 1]
  /\ pc' = [pc EXCEPT ![w] = "claimed"]
  /\ UNCHANGED <<dataVars, acked, spent>>

\* The claim changed no row: another worker was first, or the row is gone.
SkipRow(w) ==
  /\ pc[w] = "batch"
  /\ \E snap \in batch[w] :
        /\ ~Claimable(snap.row)
        /\ batch' = [batch EXCEPT ![w] = @ \ {snap}]
  /\ UNCHANGED <<dataVars, queue, pc, cur, tries, acked, spent>>

\* An answer with a 2xx status; a sink read as disabled is not posted to.
PostAccepted(w) ==
  /\ pc[w] = "claimed"
  /\ cur[w].enabled
  /\ pc' = [pc EXCEPT ![w] = "acked"]
  /\ acked' = [acked EXCEPT ![cur[w].row] = @ + 1]
  /\ UNCHANGED <<dataVars, queue, batch, cur, tries, spent>>

\* Mutant: the status of the answer is not looked at.
PostFailedUnnoticed(w) ==
  /\ pc[w] = "claimed"
  /\ pc' = [pc EXCEPT ![w] = "acked"]
  /\ UNCHANGED <<dataVars, queue, batch, cur, tries, acked, spent>>

\* The sink was disabled, the POST failed, or its answer was not 2xx.
PostFailed(w) ==
  /\ pc[w] = "claimed"
  /\ pc' = [pc EXCEPT ![w] = "nacked"]
  /\ UNCHANGED <<dataVars, queue, batch, cur, tries, acked, spent>>

\* The update of worker w's row to rec, by id alone; the loop goes on.
SettleRow(w, rec) ==
  /\ queue' = [queue EXCEPT ![cur[w].row] = rec]
  /\ pc' = [pc EXCEPT ![w] = "batch"]
  /\ cur' = [cur EXCEPT ![w] = NoRow]
  /\ UNCHANGED <<dataVars, batch, tries, acked, spent>>

RowGone(w) == queue[cur[w].row].status = "absent"

MarkDelivered(w) ==
  /\ pc[w] = "acked"
  /\ ~RowGone(w)
  /\ SettleRow(w, [status |-> "delivered", attempts |-> cur[w].attempts + 1,
                   due |-> FALSE])

\* The delivered-update throws (row gone, or a database error): its catch
\* block treats the attempt as failed.
MarkDeliveredThrows(w) ==
  /\ pc[w] = "acked"
  /\ \/ RowGone(w) /\ UNCHANGED spent
     \/ ~RowGone(w) /\ Spend("db")
  /\ pc' = [pc EXCEPT ![w] = "nacked"]
  /\ UNCHANGED <<dataVars, queue, batch, cur, tries, acked>>

\* Mutants: one attempt too few, one too many.
ExhaustedEarly(snap) == snap.attempts + 2 >= snap.max
ExhaustedLate(snap) == snap.attempts >= snap.max

IsExhausted(snap) == snap.attempts + 1 >= snap.max

\* Mutant: the row of a disabled sink is passed over without an update.
FailureOfDisabledForgotten(w) ==
  /\ pc[w] = "nacked"
  /\ ~RowGone(w)
  /\ SettleRow(w, IF cur[w].enabled
                  THEN [status |-> IF IsExhausted(cur[w]) THEN "failed"
                                                          ELSE "queued",
                        attempts |-> cur[w].attempts + 1, due |-> FALSE]
                  ELSE queue[cur[w].row])

MarkFailedOrRetry(w) ==
  /\ pc[w] = "nacked"
  /\ ~RowGone(w)
  /\ SettleRow(w,
       [status |-> IF IsExhausted(cur[w]) THEN "failed" ELSE "queued",
        attempts |-> cur[w].attempts + 1, due |-> FALSE])

\* The tick ends: the running flag drops and what was read is forgotten.
EndTick(w) ==
  /\ pc' = [pc EXCEPT ![w] = "idle"]
  /\ batch' = [batch EXCEPT ![w] = {}]
  /\ cur' = [cur EXCEPT ![w] = NoRow]
  /\ UNCHANGED <<dataVars, queue, tries, acked>>

FinishBatch(w) ==
  /\ pc[w] = "batch"
  /\ batch[w] = {}
  /\ EndTick(w)
  /\ UNCHANGED spent

\* The update inside the catch block throws: the rest of the batch is left.
AbortRowGone(w) ==
  /\ pc[w] = "nacked"
  /\ RowGone(w)
  /\ EndTick(w)
  /\ UNCHANGED spent

AbortDbError(w) ==
  /\ pc[w] = "nacked" \/ (pc[w] = "batch" /\ batch[w] # {})
  /\ Spend("db")
  /\ EndTick(w)

\* The process dies; the restarted one begins with the flag down.
Crash(w) ==
  /\ pc[w] # "idle"
  /\ Spend("crash")
  /\ EndTick(w)

Process(w) ==
  \/ ReadBatch(w)
  \/ Claim(w) \/ SkipRow(w)
  \/ PostAccepted(w) \/ PostFailed(w)
  \/ MarkDelivered(w) \/ MarkDeliveredThrows(w)
  \/ MarkFailedOrRetry(w)
  \/ FinishBatch(w) \/ AbortRowGone(w) \/ AbortDbError(w)

Produce ==
  \/ \E s \in Sinks : CreateSink(s) \/ UpdateSink(s) \/ DeleteSink(s)
  \/ \E l \in Logs : RecordAudit(l) \/ Enqueue(l) \/ DeleteLog(l)

Next ==
  \/ Produce
  \/ \E r \in Rows : BecomeDue(r)
  \/ \E w \in Workers : Process(w) \/ Crash(w)

Spec == Init /\ [][Next]_vars

\* The clock advances and every instance's timer keeps firing.  Producers,
\* administrators, errors and crashes are not obliged to act.
Fairness ==
  /\ \A r \in Rows : WF_vars(BecomeDue(r))
  /\ \A w \in Workers : WF_vars(Process(w))

FairSpec == Spec /\ Fairness
-----------------------------------------------------------------------------
(* What the queue promises.                                                *)

\* One send at a time: no two instances ever hold the same row's claim, whatever
\* stale batches they work from (the claim's compare-and-set, :138-149).
SingleFlight ==
  \A v, w \in Workers :
    InFlight(v) /\ InFlight(w) /\ cur[v].row = cur[w].row => v = w

\* The row's sink or its audit log is gone for good.
RemovedRow(r) == sink[r[1]].state = "gone" \/ log[r[2]] = "deleted"

\* A row lives only while its sink and its log do, and only once the enqueue of
\* its log is over.
RowsHaveParents ==
  \A r \in Rows :
    queue[r].status # "absent" => Exists(r[1]) /\ log[r[2]] = "settled"

\* What a worker holds was read from the queue, so its enqueue is over.
SnapshotsAreEnqueued ==
  \A w \in Workers :
    /\ \A snap \in batch[w] : log[snap.row[2]] \in {"settled", "deleted"}
    /\ InFlight(w) => log[cur[w].row[2]] \in {"settled", "deleted"}

\* A row an instance is working on is still marked sending, or was removed
\* under it; so the updates by id alone (:180, :193) overwrite no one's work.
ClaimedIsSending ==
  \A w \in Workers :
    InFlight(w) => \/ queue[cur[w].row].status = "sending"
                   \/ RemovedRow(cur[w].row)

\* The answers seen for a row, against its status and the database errors.
AnswersAccounted ==
  /\ \A r \in Rows :
       /\ acked[r] <= spent.db + 1
       /\ queue[r].status = "queued" => acked[r] <= spent.db
       /\ queue[r].status = "delivered" => acked[r] >= 1
       /\ queue[r].status = "absent" /\ ~RemovedRow(r) => acked[r] = 0
  /\ \A w \in Workers :
       /\ pc[w] = "claimed" => acked[cur[w].row] <= spent.db
       /\ pc[w] = "nacked" /\ ~RowGone(w) => acked[cur[w].row] <= spent.db
       /\ pc[w] = "acked" => acked[cur[w].row] >= 1

\* The inductive invariant of the claim protocol: with the parts above it
\* implies SingleFlight, and keeps every update by id alone harmless.
ClaimInvariant ==
  /\ TypeOK
  /\ RowsHaveParents
  /\ SnapshotsAreEnqueued
  /\ ClaimedIsSending
  /\ SingleFlight
  /\ AnswersAccounted

\* The rows marked sending that no instance is working on.
Stranded ==
  {r \in Rows : /\ queue[r].status = "sending"
                /\ \A w \in Workers : InFlight(w) => cur[w].row # r}

\* A row is left in sending for good only by a crash or by a database error in
\* the catch block, and each of these strands at most one row.
StrandedOnlyByFaults == Cardinality(Stranded) <= spent.crash + spent.db

\* delivered means a receiver answered 2xx; and it answered 2xx twice only if
\* writing "delivered" failed in between (the catch block requeues, :189-201).
DeliveredWasAcked ==
  \A r \in Rows :
    /\ queue[r].status = "delivered" => acked[r] >= 1
    /\ acked[r] <= 1 + spent.db

\* The attempt count written from a snapshot (:153) never exceeds the claims
\* really made, so a row fails only after as many as some max_attempts its sink
\* had asked for.
AttemptsWereMade ==
  \A r \in Rows :
    /\ queue[r].attempts <= tries[r]
    /\ queue[r].status = "failed" => \E max \in sink[r[1]].had : tries[r] >= max

\* A row is tried no more often than the largest max_attempts its sink had.
\* Holds for one instance; a second one retries from a stale count.
TriesWithinPolicy ==
  \A r \in Rows : tries[r] = 0 \/ \E max \in sink[r[1]].had : tries[r] <= max

\* delivered and failed are final: such a row changes no more, it can only be
\* deleted with its sink or its log.
TerminalIsFinal ==
  [][\A r \in Rows :
       queue[r].status \in Terminal => queue'[r] \in {queue[r], Absent}]_vars

\* A row that was retried is not claimed again before its backoff has passed
\* (findMany's next_attempt_at <= now).  Holds for one instance.
BackoffRespected ==
  [][\A r \in Rows :
       tries'[r] # tries[r] => queue[r].due]_vars

\* What is left of the next property under faults: a queued row leaves the queue
\* some day, unless a fault strands it.
SettlesUnlessStranded ==
  \A r \in Rows :
    queue[r].status = "queued"
      ~> \/ queue[r].status \in Terminal \union {"absent"}
         \/ r \in Stranded

\* siem-integration.md: success makes a row delivered, failure leads to backoff
\* and then to failed; every queued row leaves the queue some day.
EveryRowSettles ==
  \A r \in Rows :
    queue[r].status = "queued"
      ~> queue[r].status \in Terminal \union {"absent"}

\* The detailed queue implements the ledger: a row that was never inserted is
\* none, a row deleted with its sink or its log is removed.
LedgerState ==
  [r \in Rows |->
     CASE queue[r].status = "queued" -> "open"
       [] queue[r].status # "absent" /\ queue[r].status # "queued" ->
            queue[r].status
       [] OTHER -> IF RemovedRow(r) THEN "removed" ELSE "none"]

Ledger == INSTANCE DeliveryLedger
            WITH Deliveries <- Rows, state <- LedgerState, answers <- acked

ImplementsLedger == Ledger!LedgerSpec
=============================================================================
