------------------------- MODULE AuditDelivery_proofs -------------------------
(***************************************************************************)
(* Proofs about AuditDelivery for every set of sinks, logs and instances,  *)
(* every batch size, policy and budget.                                    *)
(***************************************************************************)
EXTENDS AuditDelivery, FiniteSetTheorems, TLAPS

LEMMA EndTickTypeOK ==
  ASSUME NEW w \in Workers, TypeOK, EndTick(w),
         spent' \in [{"admin", "db", "crash"} -> Nat]
  PROVE  TypeOK'
BY DEF TypeOK, EndTick, dataVars, InFlight, Snapshots

LEMMA SpendTypeOK ==
  ASSUME NEW what \in {"admin", "db", "crash"}, TypeOK, Spend(what)
  PROVE  spent' \in [{"admin", "db", "crash"} -> Nat]
BY DEF TypeOK, Spend

LEMMA CascadeTypeOK ==
  ASSUME NEW gone, TypeOK
  PROVE  Cascade(gone) \in [Rows -> [status: Statuses, attempts: Nat, due: BOOLEAN]]
BY DEF TypeOK, Cascade, Absent, Statuses

LEMMA SettleTypeOK ==
  ASSUME NEW w \in Workers, TypeOK, InFlight(w),
         NEW rec \in [status: Statuses, attempts: Nat, due: BOOLEAN],
         SettleRow(w, rec)
  PROVE  TypeOK'
BY DEF TypeOK, SettleRow, dataVars, InFlight, Snapshots

LEMMA TypeStep == TypeOK /\ [Next]_vars => TypeOK'
<1> SUFFICES ASSUME TypeOK, [Next]_vars PROVE TypeOK'
  OBVIOUS
<1>1. ASSUME NEW s \in Sinks, CreateSink(s) \/ UpdateSink(s) PROVE TypeOK'
  <2>1. spent' \in [{"admin", "db", "crash"} -> Nat]
    BY <1>1, SpendTypeOK DEF CreateSink, UpdateSink
  <2>2. PICK state \in {"on", "off"}, max \in Policies :
          Store(s, state, max)
    BY <1>1, ZenonT(30) DEF CreateSink, UpdateSink
  <2>3. sink' \in [Sinks -> [state: {"new", "on", "off", "gone"}, max: Policies,
                             had: SUBSET Policies]]
    BY <2>2 DEF TypeOK, Store
  <2> QED
    BY <1>1, <2>3, <2>1, <2>2 DEF CreateSink, UpdateSink, TypeOK, workerVars, InFlight
<1>2. ASSUME NEW s \in Sinks, DeleteSink(s) PROVE TypeOK'
  <2>1. spent' \in [{"admin", "db", "crash"} -> Nat]
    BY <1>2, SpendTypeOK DEF DeleteSink
  <2>2. sink' \in [Sinks -> [state: {"new", "on", "off", "gone"}, max: Policies,
                             had: SUBSET Policies]]
    BY <1>2 DEF DeleteSink, TypeOK
  <2> QED
    BY <1>2, <2>1, <2>2, CascadeTypeOK DEF DeleteSink, TypeOK, workerVars, InFlight
<1>3. ASSUME NEW l \in Logs, RecordAudit(l) PROVE TypeOK'
  BY <1>3 DEF RecordAudit, TypeOK, workerVars, InFlight
<1>4. ASSUME NEW l \in Logs, Enqueue(l) PROVE TypeOK'
  <2>1. queue' \in [Rows -> [status: Statuses, attempts: Nat, due: BOOLEAN]]
    BY <1>4 DEF Enqueue, TypeOK, Statuses
  <2> QED
    BY <1>4, <2>1 DEF Enqueue, TypeOK, workerVars, InFlight
<1>5. ASSUME NEW l \in Logs, DeleteLog(l) PROVE TypeOK'
  BY <1>5, CascadeTypeOK DEF DeleteLog, TypeOK, workerVars, InFlight
<1>6. ASSUME NEW r \in Rows, BecomeDue(r) PROVE TypeOK'
  BY <1>6 DEF BecomeDue, TypeOK, workerVars, InFlight
<1>7. ASSUME NEW w \in Workers, ReadBatch(w) PROVE TypeOK'
  <2>1. \A r \in Rows : Snapshot(r) \in Snapshots
    BY DEF TypeOK, Snapshot, Snapshots, Rows
  <2>2. \A rows \in Batches(DueRows) : rows \subseteq Rows
    BY DEF Batches, DueRows
  <2>3. batch' \in [Workers -> SUBSET Snapshots]
    BY <1>7, <2>1, <2>2 DEF ReadBatch, TypeOK
  <2> QED
    BY <1>7, <2>3 DEF ReadBatch, TypeOK, dataVars, InFlight
<1>8. ASSUME NEW w \in Workers, Claim(w) PROVE TypeOK'
  <2>1. PICK snap \in batch[w] :
          /\ Claimable(snap.row)
          /\ queue' = [queue EXCEPT ![snap.row] =
                       [@ EXCEPT !.status = "sending", !.due = FALSE]]
          /\ cur' = [cur EXCEPT ![w] = snap]
          /\ batch' = [batch EXCEPT ![w] = @ \ {snap}]
          /\ tries' = [tries EXCEPT ![snap.row] = @ + 1]
    BY <1>8 DEF Claim
  <2>2. snap \in Snapshots /\ snap.row \in Rows
    BY <2>1 DEF TypeOK, Snapshots
  <2>3. queue' \in [Rows -> [status: Statuses, attempts: Nat, due: BOOLEAN]]
    <3>1. queue[snap.row] \in [status: Statuses, attempts: Nat, due: BOOLEAN]
      BY <2>2 DEF TypeOK
    <3>2. [queue[snap.row] EXCEPT !.status = "sending", !.due = FALSE]
            \in [status: Statuses, attempts: Nat, due: BOOLEAN]
      BY <3>1 DEF Statuses
    <3> QED
      BY <2>1, <2>2, <3>2 DEF TypeOK
  <2>4. batch' \in [Workers -> SUBSET Snapshots] /\ tries' \in [Rows -> Nat]
    BY <2>1, <2>2 DEF TypeOK
  <2> QED
    BY <1>8, <2>1, <2>2, <2>3, <2>4 DEF Claim, TypeOK, dataVars, InFlight
<1>9. ASSUME NEW w \in Workers, SkipRow(w) PROVE TypeOK'
  <2>1. batch' \in [Workers -> SUBSET Snapshots]
    BY <1>9 DEF SkipRow, TypeOK
  <2> QED
    BY <1>9, <2>1 DEF SkipRow, TypeOK, dataVars, InFlight
<1>10. ASSUME NEW w \in Workers, PostAccepted(w) \/ PostFailed(w)
       PROVE  TypeOK'
  <2>1. cur[w] \in Snapshots /\ cur[w].row \in Rows
    BY <1>10 DEF PostAccepted, PostFailed, TypeOK, InFlight, Snapshots
  <2> QED
    BY <1>10, <2>1 DEF PostAccepted, PostFailed, TypeOK, dataVars, InFlight
<1>11. ASSUME NEW w \in Workers, MarkDelivered(w) PROVE TypeOK'
  <2>1. InFlight(w) /\ cur[w] \in Snapshots
    BY <1>11 DEF MarkDelivered, InFlight, TypeOK
  <2>2. [status |-> "delivered", attempts |-> cur[w].attempts + 1, due |-> FALSE]
          \in [status: Statuses, attempts: Nat, due: BOOLEAN]
    BY <2>1 DEF Snapshots, Statuses, Terminal
  <2> QED
    BY <1>11, <2>1, <2>2, SettleTypeOK DEF MarkDelivered
<1>12. ASSUME NEW w \in Workers, MarkDeliveredThrows(w) PROVE TypeOK'
  <2>1. spent' \in [{"admin", "db", "crash"} -> Nat]
    BY <1>12, SpendTypeOK DEF MarkDeliveredThrows, TypeOK
  <2> QED
    BY <1>12, <2>1 DEF MarkDeliveredThrows, TypeOK, dataVars, InFlight
<1>13. ASSUME NEW w \in Workers, MarkFailedOrRetry(w) PROVE TypeOK'
  <2>1. InFlight(w) /\ cur[w] \in Snapshots
    BY <1>13 DEF MarkFailedOrRetry, InFlight, TypeOK
  <2>2. [status |-> IF IsExhausted(cur[w]) THEN "failed" ELSE "queued",
         attempts |-> cur[w].attempts + 1, due |-> FALSE]
          \in [status: Statuses, attempts: Nat, due: BOOLEAN]
    BY <2>1 DEF Snapshots, Statuses, Terminal
  <2> QED
    BY <1>13, <2>1, <2>2, SettleTypeOK DEF MarkFailedOrRetry
<1>14. ASSUME NEW w \in Workers, FinishBatch(w) \/ AbortRowGone(w)
       PROVE  TypeOK'
  <2>1. EndTick(w) /\ spent' \in [{"admin", "db", "crash"} -> Nat]
    BY <1>14 DEF FinishBatch, AbortRowGone, TypeOK
  <2> QED
    BY <2>1, EndTickTypeOK
<1>15. ASSUME NEW w \in Workers, AbortDbError(w) \/ Crash(w) PROVE TypeOK'
  <2>1. EndTick(w) /\ spent' \in [{"admin", "db", "crash"} -> Nat]
    BY <1>15, SpendTypeOK DEF AbortDbError, Crash
  <2> QED
    BY <2>1, EndTickTypeOK
<1>16. CASE UNCHANGED vars
  BY <1>16 DEF vars, TypeOK, InFlight
<1> QED
  BY <1>1, <1>2, <1>3, <1>4, <1>5, <1>6, <1>7, <1>8, <1>9, <1>10, <1>11,
     <1>12, <1>13, <1>14, <1>15, <1>16 DEF Next, Produce, Process

\* Every variable keeps its type, whatever the producers, the workers and the
\* faults do.
THEOREM TypeCorrect == Spec => []TypeOK
<1>1. Init => TypeOK
  BY DEF Init, TypeOK, Absent, Statuses, InFlight
<1> QED
  BY <1>1, TypeStep, PTL DEF Spec

-----------------------------------------------------------------------------
(* The claim invariant: one lemma per kind of step.                        *)

LEMMA RowParts ==
  /\ \A r \in Rows : r[1] \in Sinks /\ r[2] \in Logs
  /\ \A snap \in Snapshots : snap.row \in Rows
BY DEF Rows, Snapshots

LEMMA CurRow ==
  ASSUME TypeOK, NEW w \in Workers, InFlight(w)
  PROVE  /\ cur[w] \in Snapshots
         /\ cur[w].row \in Rows
         /\ cur[w].row[1] \in Sinks
         /\ cur[w].row[2] \in Logs
BY RowParts DEF TypeOK

\* A step that leaves the queue, the logs and the answers alone, lets no sink
\* come back or go, and starts no work on a row.
LEMMA SinkWrite ==
  ASSUME ClaimInvariant, TypeOK', NEW s \in Sinks, CreateSink(s) \/ UpdateSink(s)
  PROVE  ClaimInvariant'
<1>1. PICK state \in {"on", "off"}, max \in Policies :
        sink' = [sink EXCEPT ![s] =
                   [state |-> state, max |-> max, had |-> sink[s].had \union {max}]]
  BY ZenonT(30) DEF CreateSink, UpdateSink, Store
<1>2. /\ UNCHANGED <<log, queue, pc, batch, cur, tries, acked>>
      /\ sink[s].state # "gone"
      /\ spent'.db = spent.db
  BY DEF CreateSink, UpdateSink, Exists, workerVars, Spend, ClaimInvariant, TypeOK
<1>3. \A t \in Sinks : /\ Exists(t) => Exists(t)'
                       /\ sink'[t].state = "gone" <=> sink[t].state = "gone"
  BY <1>1, <1>2 DEF Exists, ClaimInvariant, TypeOK
<1>4. \A r \in Rows : RemovedRow(r)' <=> RemovedRow(r)
  BY <1>2, <1>3, RowParts DEF RemovedRow
<1>5. RowsHaveParents'
  BY <1>2, <1>3, RowParts DEF RowsHaveParents, ClaimInvariant
<1>6. SnapshotsAreEnqueued' /\ SingleFlight'
  BY <1>2 DEF SnapshotsAreEnqueued, SingleFlight, ClaimInvariant, InFlight
<1>7. ClaimedIsSending'
  BY <1>2, <1>4, CurRow DEF ClaimedIsSending, ClaimInvariant, InFlight
<1>8. AnswersAccounted'
  BY <1>2, <1>4 DEF AnswersAccounted, ClaimInvariant, RowGone
<1> QED
  BY <1>5, <1>6, <1>7, <1>8 DEF ClaimInvariant

LEMMA Deletion ==
  ASSUME ClaimInvariant, TypeOK',
         \/ \E s \in Sinks : DeleteSink(s)
         \/ \E l \in Logs : DeleteLog(l)
  PROVE  ClaimInvariant'
<1>1. /\ UNCHANGED <<pc, batch, cur, tries, acked>>
      /\ spent'.db = spent.db
  BY DEF DeleteSink, DeleteLog, workerVars, Spend, ClaimInvariant, TypeOK
<1>2. \A l \in Logs : /\ log'[l] # log[l] => log'[l] = "deleted"
                      /\ log[l] = "deleted" => log'[l] = "deleted"
  BY DEF DeleteSink, DeleteLog, ClaimInvariant, TypeOK
<1>3. \A s \in Sinks : /\ sink'[s].state # sink[s].state => sink'[s].state = "gone"
                       /\ sink[s].state = "gone" => sink'[s].state = "gone"
  BY DEF DeleteSink, DeleteLog, ClaimInvariant, TypeOK
<1>4. \A r \in Rows : /\ RemovedRow(r) => RemovedRow(r)'
                      /\ RemovedRow(r)' /\ ~RemovedRow(r) => queue'[r] = Absent
                      /\ queue'[r] = queue[r] \/ (queue'[r] = Absent /\ RemovedRow(r)')
  <2>1. ASSUME NEW s \in Sinks, DeleteSink(s), NEW r \in Rows
        PROVE  /\ RemovedRow(r) => RemovedRow(r)'
               /\ RemovedRow(r)' /\ ~RemovedRow(r) => queue'[r] = Absent
               /\ queue'[r] = queue[r] \/ (queue'[r] = Absent /\ RemovedRow(r)')
    <3>1. r = <<r[1], r[2]>> /\ r[1] \in Sinks /\ r[2] \in Logs
      BY DEF Rows
    <3>2. queue'[r] = IF r[1] = s THEN Absent ELSE queue[r]
      BY <2>1, <3>1 DEF DeleteSink, Cascade
    <3> QED
      BY <2>1, <3>1, <3>2 DEF DeleteSink, RemovedRow, ClaimInvariant, TypeOK
  <2>2. ASSUME NEW l \in Logs, DeleteLog(l), NEW r \in Rows
        PROVE  /\ RemovedRow(r) => RemovedRow(r)'
               /\ RemovedRow(r)' /\ ~RemovedRow(r) => queue'[r] = Absent
               /\ queue'[r] = queue[r] \/ (queue'[r] = Absent /\ RemovedRow(r)')
    <3>1. r = <<r[1], r[2]>> /\ r[1] \in Sinks /\ r[2] \in Logs
      BY DEF Rows
    <3>2. queue'[r] = IF r[2] = l THEN Absent ELSE queue[r]
      BY <2>2, <3>1 DEF DeleteLog, Cascade
    <3> QED
      BY <2>2, <3>1, <3>2 DEF DeleteLog, RemovedRow, ClaimInvariant, TypeOK
  <2> QED
    BY <2>1, <2>2
<1>5. RowsHaveParents'
  <2> SUFFICES ASSUME NEW r \in Rows, queue'[r].status # "absent"
               PROVE  Exists(r[1])' /\ log'[r[2]] = "settled"
    BY DEF RowsHaveParents
  <2>1. queue'[r] = queue[r] /\ ~RemovedRow(r)'
    BY <1>4 DEF Absent, RowsHaveParents, ClaimInvariant, Exists, RemovedRow
  <2> QED
    BY <2>1, <1>2, <1>3, RowParts DEF RowsHaveParents, ClaimInvariant, Exists, RemovedRow
<1>6. SnapshotsAreEnqueued'
  <2>1. \A w \in Workers : \A snap \in batch[w] : snap.row[2] \in Logs
    BY RowParts DEF ClaimInvariant, TypeOK
  <2> QED
    BY <1>1, <1>2, <2>1, CurRow DEF SnapshotsAreEnqueued, ClaimInvariant, InFlight
<1>7. ClaimedIsSending'
  BY <1>1, <1>4, CurRow DEF ClaimedIsSending, ClaimInvariant, InFlight
<1>8. SingleFlight'
  BY <1>1 DEF SingleFlight, ClaimInvariant, InFlight
<1>9. AnswersAccounted'
  BY <1>1, <1>4, CurRow DEF AnswersAccounted, ClaimInvariant, RowGone, Absent, InFlight
<1> QED
  BY <1>5, <1>6, <1>7, <1>8, <1>9 DEF ClaimInvariant

LEMMA EnqueueStep ==
  ASSUME ClaimInvariant, TypeOK', NEW l \in Logs, RecordAudit(l) \/ Enqueue(l)
  PROVE  ClaimInvariant'
<1>1. UNCHANGED <<sink, pc, batch, cur, tries, acked, spent>>
  BY DEF RecordAudit, Enqueue, workerVars
<1>2. \A k \in Logs : log'[k] = log[k] \/ (k = l /\ log[k] \in {"new", "recorded"}
                                                 /\ log'[k] \in {"recorded", "settled"})
  BY DEF RecordAudit, Enqueue, ClaimInvariant, TypeOK
<1>3. \A r \in Rows :
        \/ queue'[r] = queue[r]
        \/ /\ queue[r].status = "absent" /\ queue'[r].status = "queued"
           /\ Exists(r[1]) /\ r[2] = l /\ log[l] = "recorded" /\ log'[l] = "settled"
  BY RowParts DEF RecordAudit, Enqueue, ClaimInvariant, TypeOK
<1>4. \A r \in Rows : RemovedRow(r)' <=> RemovedRow(r)
  BY <1>1, <1>2, RowParts DEF RemovedRow
<1>5. RowsHaveParents'
  BY <1>1, <1>2, <1>3, RowParts DEF RowsHaveParents, ClaimInvariant, Exists
<1>6. SnapshotsAreEnqueued'
  <2>1. \A w \in Workers : \A snap \in batch[w] : snap.row[2] \in Logs
    BY RowParts DEF ClaimInvariant, TypeOK
  <2> QED
    BY <1>1, <1>2, <2>1, CurRow DEF SnapshotsAreEnqueued, ClaimInvariant, InFlight
<1>7. \A w \in Workers : InFlight(w) => queue'[cur[w].row] = queue[cur[w].row]
  BY <1>3, CurRow DEF SnapshotsAreEnqueued, ClaimInvariant
<1>8. ClaimedIsSending' /\ SingleFlight'
  BY <1>1, <1>4, <1>7, CurRow DEF ClaimedIsSending, SingleFlight, ClaimInvariant, InFlight
<1>9. AnswersAccounted'
  BY <1>1, <1>3, <1>4, <1>7
     DEF AnswersAccounted, ClaimInvariant, RowGone, InFlight, RemovedRow, Exists, TypeOK
<1> QED
  BY <1>5, <1>6, <1>8, <1>9 DEF ClaimInvariant

LEMMA DueStep ==
  ASSUME ClaimInvariant, TypeOK', NEW r \in Rows, BecomeDue(r)
  PROVE  ClaimInvariant'
<1>1. /\ UNCHANGED <<sink, log, pc, batch, cur, tries, acked, spent>>
      /\ \A q \in Rows : queue'[q].status = queue[q].status
  BY DEF BecomeDue, workerVars, ClaimInvariant, TypeOK
<1>2. RowsHaveParents' /\ SnapshotsAreEnqueued' /\ SingleFlight'
  BY <1>1 DEF RowsHaveParents, SnapshotsAreEnqueued, SingleFlight,
              ClaimInvariant, InFlight, Exists
<1>3. ClaimedIsSending' /\ AnswersAccounted'
  BY <1>1, CurRow DEF ClaimedIsSending, AnswersAccounted, ClaimInvariant,
                      InFlight, RowGone, RemovedRow
<1> QED
  BY <1>2, <1>3 DEF ClaimInvariant

LEMMA ReadStep ==
  ASSUME ClaimInvariant, TypeOK', NEW w \in Workers, ReadBatch(w)
  PROVE  ClaimInvariant'
<1>1. UNCHANGED <<sink, log, queue, cur, tries, acked, spent>>
  BY DEF ReadBatch, dataVars
<1>2. \A v \in Workers : /\ InFlight(v)' => InFlight(v) /\ pc'[v] = pc[v]
                         /\ pc'[v] \in {"claimed", "acked", "nacked"} => pc'[v] = pc[v]
  BY DEF ReadBatch, InFlight, ClaimInvariant, TypeOK
<1>3. \A v \in Workers : \A snap \in batch'[v] : log[snap.row[2]] \in {"settled", "deleted"}
  <2>1. PICK rows \in Batches(DueRows) :
          batch' = [batch EXCEPT ![w] = {Snapshot(r) : r \in rows}]
    BY DEF ReadBatch
  <2>2. \A r \in rows : log[Snapshot(r).row[2]] = "settled"
    BY <2>1 DEF Batches, DueRows, Snapshot, RowsHaveParents, ClaimInvariant
  <2> QED
    BY <2>1, <2>2 DEF SnapshotsAreEnqueued, ClaimInvariant, TypeOK
<1>4. SnapshotsAreEnqueued' /\ SingleFlight'
  BY <1>1, <1>2, <1>3 DEF SnapshotsAreEnqueued, SingleFlight, ClaimInvariant
<1>5. RowsHaveParents' /\ ClaimedIsSending'
  BY <1>1, <1>2 DEF RowsHaveParents, ClaimedIsSending, ClaimInvariant, Exists, RemovedRow
<1>6. AnswersAccounted'
  BY <1>1, <1>2 DEF AnswersAccounted, ClaimInvariant, RowGone, RemovedRow
<1> QED
  BY <1>4, <1>5, <1>6 DEF ClaimInvariant

LEMMA ClaimStep ==
  ASSUME ClaimInvariant, TypeOK', NEW w \in Workers, Claim(w)
  PROVE  ClaimInvariant'
<1>1. PICK snap \in batch[w] :
        /\ Claimable(snap.row)
        /\ queue' = [queue EXCEPT ![snap.row] =
                       [@ EXCEPT !.status = "sending", !.due = FALSE]]
        /\ cur' = [cur EXCEPT ![w] = snap]
        /\ batch' = [batch EXCEPT ![w] = @ \ {snap}]
        /\ tries' = [tries EXCEPT ![snap.row] = @ + 1]
  BY DEF Claim
<1> DEFINE row == snap.row
<1>2. snap \in Snapshots /\ row \in Rows
  BY <1>1, RowParts DEF ClaimInvariant, TypeOK
<1>3. UNCHANGED <<sink, log, acked, spent>>
  BY DEF Claim, dataVars
<1>4. /\ queue[row].status = "queued" /\ queue'[row].status = "sending"
      /\ \A r \in Rows : r # row => queue'[r] = queue[r]
  BY <1>1, <1>2 DEF Claimable, ClaimInvariant, TypeOK
<1>5. /\ pc[w] = "batch" /\ pc'[w] = "claimed" /\ cur'[w] = snap
      /\ \A v \in Workers : v # w => pc'[v] = pc[v] /\ cur'[v] = cur[v]
  BY <1>1 DEF Claim, ClaimInvariant, TypeOK
<1>6. \A v \in Workers : InFlight(v) => cur[v].row \in Rows /\ cur[v].row # row
  BY <1>4, CurRow DEF ClaimedIsSending, RowsHaveParents, RemovedRow, Exists, ClaimInvariant
<1>7. RowsHaveParents'
  BY <1>3, <1>4 DEF RowsHaveParents, ClaimInvariant, Exists
<1>8. SnapshotsAreEnqueued'
  BY <1>1, <1>3, <1>5 DEF SnapshotsAreEnqueued, ClaimInvariant, InFlight, TypeOK
<1>9. ClaimedIsSending'
  BY <1>3, <1>4, <1>5, <1>6 DEF ClaimedIsSending, ClaimInvariant, InFlight, RemovedRow
<1>10. SingleFlight'
  BY <1>5, <1>6 DEF SingleFlight, ClaimInvariant, InFlight
<1>11. AnswersAccounted'
  BY <1>2, <1>3, <1>4, <1>5, <1>6
     DEF AnswersAccounted, ClaimInvariant, InFlight, RowGone, RemovedRow
<1> QED
  BY <1>7, <1>8, <1>9, <1>10, <1>11 DEF ClaimInvariant

LEMMA PostStep ==
  ASSUME ClaimInvariant, TypeOK', NEW w \in Workers, PostAccepted(w) \/ PostFailed(w)
  PROVE  ClaimInvariant'
<1>1. UNCHANGED <<sink, log, queue, batch, cur, spent>>
  BY DEF PostAccepted, PostFailed, dataVars
<1>2. /\ InFlight(w) /\ pc[w] = "claimed" /\ pc'[w] \in {"acked", "nacked"}
      /\ \A v \in Workers : v # w => pc'[v] = pc[v]
      /\ \A v \in Workers : InFlight(v)' <=> InFlight(v)
  BY DEF PostAccepted, PostFailed, InFlight, ClaimInvariant, TypeOK
<1>3. /\ \A r \in Rows : r # cur[w].row => acked'[r] = acked[r]
      /\ pc'[w] = "acked" => acked'[cur[w].row] = acked[cur[w].row] + 1
      /\ pc'[w] = "nacked" => acked'[cur[w].row] = acked[cur[w].row]
      /\ cur[w].row \in Rows
  BY <1>2, CurRow DEF PostAccepted, PostFailed, ClaimInvariant, TypeOK
<1>4. \A v \in Workers : InFlight(v) /\ v # w => cur[v].row \in Rows \ {cur[w].row}
  BY <1>2, CurRow DEF SingleFlight, ClaimInvariant
<1>5. RowsHaveParents' /\ SnapshotsAreEnqueued' /\ ClaimedIsSending' /\ SingleFlight'
  BY <1>1, <1>2 DEF RowsHaveParents, SnapshotsAreEnqueued, ClaimedIsSending,
                    SingleFlight, ClaimInvariant, Exists, RemovedRow
<1>6. /\ acked[cur[w].row] <= spent.db
      /\ spent.db \in Nat /\ acked \in [Rows -> Nat]
      /\ queue[cur[w].row].status = "sending" \/ RemovedRow(cur[w].row)
      /\ RemovedRow(cur[w].row) => queue[cur[w].row].status = "absent"
  BY <1>2, <1>3 DEF AnswersAccounted, ClaimedIsSending, RowsHaveParents,
                    ClaimInvariant, TypeOK, RemovedRow, Exists
<1>7. AnswersAccounted'
  <2>1. ASSUME NEW r \in Rows
        PROVE  /\ acked'[r] <= spent'.db + 1
               /\ queue'[r].status = "queued" => acked'[r] <= spent'.db
               /\ queue'[r].status = "delivered" => acked'[r] >= 1
               /\ queue'[r].status = "absent" /\ ~RemovedRow(r)' => acked'[r] = 0
    BY <1>1, <1>2, <1>3, <1>6 DEF AnswersAccounted, ClaimInvariant, RemovedRow
  <2>2. ASSUME NEW v \in Workers
        PROVE  /\ pc'[v] = "claimed" => acked'[cur'[v].row] <= spent'.db
               /\ pc'[v] = "nacked" /\ ~RowGone(v)' => acked'[cur'[v].row] <= spent'.db
               /\ pc'[v] = "acked" => acked'[cur'[v].row] >= 1
    BY <1>1, <1>2, <1>3, <1>4, <1>6
       DEF AnswersAccounted, ClaimInvariant, RowGone, InFlight
  <2> QED
    BY <2>1, <2>2 DEF AnswersAccounted
<1> QED
  BY <1>5, <1>7 DEF ClaimInvariant

\* The row a worker settles is its own, still sending and not removed.
LEMMA SettledRow ==
  ASSUME ClaimInvariant, NEW w \in Workers, InFlight(w), ~RowGone(w)
  PROVE  /\ queue[cur[w].row].status = "sending"
         /\ cur[w].row \in Rows
         /\ ~RemovedRow(cur[w].row)
         /\ \A v \in Workers : InFlight(v) /\ v # w => cur[v].row # cur[w].row
BY CurRow DEF ClaimedIsSending, RowsHaveParents, SingleFlight, RowGone,
              RemovedRow, Exists, ClaimInvariant

LEMMA SettleStep ==
  ASSUME ClaimInvariant, TypeOK', NEW w \in Workers,
         MarkDelivered(w) \/ MarkFailedOrRetry(w)
  PROVE  ClaimInvariant'
<1> DEFINE row == cur[w].row
<1>1. InFlight(w) /\ ~RowGone(w)
  BY DEF MarkDelivered, MarkFailedOrRetry, InFlight
<1>2. PICK rec \in [status: Statuses, attempts: Nat, due: BOOLEAN] :
        /\ SettleRow(w, rec)
        /\ \/ pc[w] = "acked" /\ rec.status = "delivered"
           \/ pc[w] = "nacked" /\ rec.status \in {"queued", "failed"}
  <2>1. CASE MarkDelivered(w)
    <3>1. [status |-> "delivered", attempts |-> cur[w].attempts + 1, due |-> FALSE]
            \in [status: Statuses, attempts: Nat, due: BOOLEAN]
      BY <1>1, CurRow DEF ClaimInvariant, Snapshots, Statuses, Terminal
    <3> QED
      BY <2>1, <3>1 DEF MarkDelivered
  <2>2. CASE MarkFailedOrRetry(w)
    <3> DEFINE outcome == IF IsExhausted(cur[w]) THEN "failed" ELSE "queued"
    <3>1. [status |-> outcome, attempts |-> cur[w].attempts + 1, due |-> FALSE]
            \in [status: Statuses, attempts: Nat, due: BOOLEAN]
      BY <1>1, CurRow DEF ClaimInvariant, Snapshots, Statuses, Terminal
    <3> QED
      BY <2>2, <3>1 DEF MarkFailedOrRetry
  <2> QED
    BY <2>1, <2>2
<1>3. /\ UNCHANGED <<sink, log, batch, acked, spent>>
      /\ queue'[row] = rec
      /\ \A r \in Rows : r # row => queue'[r] = queue[r]
      /\ pc'[w] = "batch"
      /\ \A v \in Workers : v # w => pc'[v] = pc[v] /\ cur'[v] = cur[v]
  BY <1>1, <1>2, SettledRow DEF SettleRow, dataVars, ClaimInvariant, TypeOK
<1>4. /\ queue[row].status = "sending" /\ row \in Rows /\ ~RemovedRow(row)
      /\ \A v \in Workers : InFlight(v)' =>
           InFlight(v) /\ v # w /\ cur[v].row \in Rows /\ cur[v].row # row
  BY <1>1, <1>3, SettledRow, CurRow DEF InFlight, ClaimInvariant
<1>5. RowsHaveParents'
  BY <1>3, <1>4 DEF RowsHaveParents, ClaimInvariant, Exists
<1>6. SnapshotsAreEnqueued' /\ SingleFlight'
  BY <1>3, <1>4 DEF SnapshotsAreEnqueued, SingleFlight, ClaimInvariant
<1>7. ClaimedIsSending'
  BY <1>3, <1>4 DEF ClaimedIsSending, ClaimInvariant, RemovedRow
<1>8. /\ rec.status \in {"queued", "failed"} => acked[row] <= spent.db
      /\ rec.status = "delivered" => acked[row] >= 1
      /\ rec.status # "absent"
  BY <1>1, <1>2 DEF AnswersAccounted, ClaimInvariant
<1>9. AnswersAccounted'
  <2>1. ASSUME NEW r \in Rows
        PROVE  /\ acked'[r] <= spent'.db + 1
               /\ queue'[r].status = "queued" => acked'[r] <= spent'.db
               /\ queue'[r].status = "delivered" => acked'[r] >= 1
               /\ queue'[r].status = "absent" /\ ~RemovedRow(r)' => acked'[r] = 0
    BY <1>3, <1>4, <1>8 DEF AnswersAccounted, ClaimInvariant, RemovedRow
  <2>2. ASSUME NEW v \in Workers
        PROVE  /\ pc'[v] = "claimed" => acked'[cur'[v].row] <= spent'.db
               /\ pc'[v] = "nacked" /\ ~RowGone(v)' => acked'[cur'[v].row] <= spent'.db
               /\ pc'[v] = "acked" => acked'[cur'[v].row] >= 1
    BY <1>3, <1>4 DEF AnswersAccounted, ClaimInvariant, RowGone, InFlight
  <2> QED
    BY <2>1, <2>2 DEF AnswersAccounted
<1> QED
  BY <1>5, <1>6, <1>7, <1>9 DEF ClaimInvariant

LEMMA ThrowStep ==
  ASSUME ClaimInvariant, TypeOK', NEW w \in Workers, MarkDeliveredThrows(w)
  PROVE  ClaimInvariant'
<1>1. /\ UNCHANGED <<sink, log, queue, batch, cur, acked>>
      /\ pc[w] = "acked" /\ pc'[w] = "nacked"
      /\ \A v \in Workers : v # w => pc'[v] = pc[v]
      /\ \A v \in Workers : InFlight(v)' <=> InFlight(v)
  BY DEF MarkDeliveredThrows, dataVars, InFlight, ClaimInvariant, TypeOK
<1>2. /\ spent.db \in Nat /\ spent'.db \in Nat /\ spent.db <= spent'.db
      /\ ~RowGone(w) => spent'.db = spent.db + 1
      /\ acked \in [Rows -> Nat]
  BY DEF MarkDeliveredThrows, Spend, ClaimInvariant, TypeOK
<1>3. RowsHaveParents' /\ SnapshotsAreEnqueued' /\ ClaimedIsSending' /\ SingleFlight'
  BY <1>1 DEF RowsHaveParents, SnapshotsAreEnqueued, ClaimedIsSending,
              SingleFlight, ClaimInvariant, Exists, RemovedRow
<1>4. \A v \in Workers : InFlight(v) => cur[v].row \in Rows
  BY CurRow DEF ClaimInvariant
<1>5. AnswersAccounted'
  <2>1. \A r \in Rows :
          /\ acked'[r] <= spent'.db + 1
          /\ queue'[r].status = "queued" => acked'[r] <= spent'.db
          /\ queue'[r].status = "delivered" => acked'[r] >= 1
          /\ queue'[r].status = "absent" /\ ~RemovedRow(r)' => acked'[r] = 0
    BY <1>1, <1>2 DEF AnswersAccounted, ClaimInvariant, RemovedRow
  <2>2. ASSUME NEW v \in Workers
        PROVE  /\ pc'[v] = "claimed" => acked'[cur'[v].row] <= spent'.db
               /\ pc'[v] = "nacked" /\ ~RowGone(v)' => acked'[cur'[v].row] <= spent'.db
               /\ pc'[v] = "acked" => acked'[cur'[v].row] >= 1
    BY <1>1, <1>2, <1>4 DEF AnswersAccounted, ClaimInvariant, RowGone, InFlight
  <2> QED
    BY <2>1, <2>2 DEF AnswersAccounted
<1> QED
  BY <1>3, <1>5 DEF ClaimInvariant

\* The steps that only drop rows from what a worker holds.
LEMMA DropStep ==
  ASSUME ClaimInvariant, TypeOK', NEW w \in Workers,
         \/ SkipRow(w) \/ FinishBatch(w) \/ AbortRowGone(w)
         \/ AbortDbError(w) \/ Crash(w)
  PROVE  ClaimInvariant'
<1>1. /\ UNCHANGED <<sink, log, queue, acked>>
      /\ \A v \in Workers : batch'[v] \subseteq batch[v]
      /\ \A v \in Workers : pc'[v] \in {"claimed", "acked", "nacked"} =>
           pc'[v] = pc[v] /\ cur'[v] = cur[v]
  <2>1. CASE SkipRow(w)
    BY <2>1 DEF SkipRow, dataVars, ClaimInvariant, TypeOK
  <2>2. CASE EndTick(w)
    BY <2>2 DEF EndTick, dataVars, ClaimInvariant, TypeOK
  <2> QED
    BY <2>1, <2>2 DEF FinishBatch, AbortRowGone, AbortDbError, Crash
<1>2. spent.db \in Nat /\ spent'.db \in Nat /\ spent.db <= spent'.db
      /\ acked \in [Rows -> Nat]
  BY DEF SkipRow, FinishBatch, AbortRowGone, AbortDbError, Crash, Spend,
         ClaimInvariant, TypeOK
<1>3. \A v \in Workers : InFlight(v)' => InFlight(v) /\ cur'[v] = cur[v]
  BY <1>1 DEF InFlight
<1>4. RowsHaveParents' /\ SnapshotsAreEnqueued' /\ ClaimedIsSending' /\ SingleFlight'
  BY <1>1, <1>3 DEF RowsHaveParents, SnapshotsAreEnqueued, ClaimedIsSending,
                    SingleFlight, ClaimInvariant, Exists, RemovedRow
<1>5. \A v \in Workers : InFlight(v) => cur[v].row \in Rows
  BY CurRow DEF ClaimInvariant
<1>6. AnswersAccounted'
  <2>1. \A r \in Rows :
          /\ acked'[r] <= spent'.db + 1
          /\ queue'[r].status = "queued" => acked'[r] <= spent'.db
          /\ queue'[r].status = "delivered" => acked'[r] >= 1
          /\ queue'[r].status = "absent" /\ ~RemovedRow(r)' => acked'[r] = 0
    BY <1>1, <1>2 DEF AnswersAccounted, ClaimInvariant, RemovedRow
  <2>2. ASSUME NEW v \in Workers
        PROVE  /\ pc'[v] = "claimed" => acked'[cur'[v].row] <= spent'.db
               /\ pc'[v] = "nacked" /\ ~RowGone(v)' => acked'[cur'[v].row] <= spent'.db
               /\ pc'[v] = "acked" => acked'[cur'[v].row] >= 1
    BY <1>1, <1>2, <1>5 DEF AnswersAccounted, ClaimInvariant, RowGone, InFlight
  <2> QED
    BY <2>1, <2>2 DEF AnswersAccounted
<1> QED
  BY <1>4, <1>6 DEF ClaimInvariant

LEMMA AtFirst ==
  Init => \A r \in Rows : queue[r] = Absent /\ ~RemovedRow(r) /\ acked[r] = 0
<1> SUFFICES ASSUME Init, NEW r \in Rows
             PROVE  queue[r] = Absent /\ ~RemovedRow(r) /\ acked[r] = 0
  OBVIOUS
<1>1. r[1] \in Sinks /\ r[2] \in Logs
  BY RowParts
<1>2. sink[r[1]].state # "gone"
  <2>1. PICK state \in [Sinks -> {"new", "on"}], max \in [Sinks -> Policies] :
          sink = [s \in Sinks |-> [state |-> state[s], max |-> max[s],
                                   had |-> IF state[s] = "on" THEN {max[s]} ELSE {}]]
    BY DEF Init
  <2>2. state[r[1]] \in {"new", "on"}
    BY <1>1
  <2> QED
    BY <1>1, <2>1, <2>2
<1> QED
  BY <1>1, <1>2 DEF Init, RemovedRow

LEMMA ClaimInvariantInit == Init => ClaimInvariant
<1> SUFFICES ASSUME Init PROVE ClaimInvariant
  OBVIOUS
<1>1. TypeOK
  BY DEF Init, TypeOK, Absent, Statuses, InFlight
<1>2. \A w \in Workers : pc[w] = "idle" /\ ~InFlight(w) /\ batch[w] = {}
  BY DEF Init, InFlight
<1>3. RowsHaveParents /\ SnapshotsAreEnqueued /\ ClaimedIsSending /\ SingleFlight
  BY <1>2, AtFirst DEF RowsHaveParents, SnapshotsAreEnqueued, ClaimedIsSending,
     SingleFlight, Absent
<1>4. AnswersAccounted
  BY <1>1, <1>2, AtFirst DEF AnswersAccounted, Absent, TypeOK
<1> QED
  BY <1>1, <1>3, <1>4 DEF ClaimInvariant

LEMMA ClaimInvariantStep == ClaimInvariant /\ [Next]_vars => ClaimInvariant'
<1> SUFFICES ASSUME ClaimInvariant, [Next]_vars PROVE ClaimInvariant'
  OBVIOUS
<1>1. TypeOK'
  BY TypeStep DEF ClaimInvariant
<1>2. CASE Produce
  BY <1>1, <1>2, SinkWrite, Deletion, EnqueueStep DEF Produce
<1>3. CASE \E r \in Rows : BecomeDue(r)
  BY <1>1, <1>3, DueStep
<1>4. CASE \E w \in Workers : Process(w) \/ Crash(w)
  BY <1>1, <1>4, ReadStep, ClaimStep, PostStep, SettleStep, ThrowStep, DropStep
     DEF Process
<1>5. CASE UNCHANGED vars
  BY <1>1, <1>5 DEF vars, ClaimInvariant, RowsHaveParents, SnapshotsAreEnqueued,
     ClaimedIsSending, SingleFlight, AnswersAccounted, InFlight, RowGone,
     Exists, RemovedRow
<1> QED
  BY <1>2, <1>3, <1>4, <1>5 DEF Next

\* The inductive invariant of the claim protocol holds for any number of
\* instances, with crashes, database errors and deletions at any point.
THEOREM ClaimInvariantHolds == Spec => []ClaimInvariant
BY ClaimInvariantInit, ClaimInvariantStep, PTL DEF Spec

\* No two instances ever work on the same row at once.
THEOREM OneSendAtATime == Spec => []SingleFlight
BY ClaimInvariantHolds, PTL DEF ClaimInvariant

\* A delivered row was answered 2xx, and at most one answer more than there
\* were database errors was ever drawn from a receiver.
THEOREM DeliveredRowsWereAcked == Spec => []DeliveredWasAcked
<1>1. ClaimInvariant => DeliveredWasAcked
  BY DEF ClaimInvariant, AnswersAccounted, DeliveredWasAcked, TypeOK
<1> QED
  BY <1>1, ClaimInvariantHolds, PTL

LEMMA TerminalStep ==
  ClaimInvariant /\ [Next]_vars =>
    \A r \in Rows : queue[r].status \in Terminal => queue'[r] \in {queue[r], Absent}
<1> SUFFICES ASSUME ClaimInvariant, [Next]_vars, NEW r \in Rows,
                    queue[r].status \in Terminal, queue'[r] # queue[r]
             PROVE  queue'[r] = Absent
  OBVIOUS
<1> USE DEF Terminal
<1>1. queue \in [Rows -> [status: Statuses, attempts: Nat, due: BOOLEAN]]
  BY DEF ClaimInvariant, TypeOK
<1>2. ~\E l \in Logs : Enqueue(l)
  BY <1>1 DEF Enqueue
<1>3. ~\E q \in Rows : BecomeDue(q)
  BY <1>1 DEF BecomeDue
<1>4. ASSUME NEW w \in Workers PROVE ~Claim(w)
  <2> SUFFICES ASSUME Claim(w) PROVE FALSE
    OBVIOUS
  <2>1. PICK snap \in batch[w] :
          /\ Claimable(snap.row)
          /\ queue' = [queue EXCEPT ![snap.row] =
                       [@ EXCEPT !.status = "sending", !.due = FALSE]]
    BY DEF Claim
  <2>2. snap.row # r
    BY <2>1 DEF Claimable
  <2> QED
    BY <1>1, <2>1, <2>2
<1>5. ASSUME NEW w \in Workers PROVE ~(MarkDelivered(w) \/ MarkFailedOrRetry(w))
  <2> SUFFICES ASSUME MarkDelivered(w) \/ MarkFailedOrRetry(w) PROVE FALSE
    OBVIOUS
  <2>1. InFlight(w) /\ ~RowGone(w)
    BY DEF MarkDelivered, MarkFailedOrRetry, InFlight
  <2>2. cur[w].row # r
    BY <2>1, SettledRow
  <2> QED
    BY <1>1, <2>2 DEF MarkDelivered, MarkFailedOrRetry, SettleRow
<1>6. \/ \E s \in Sinks : DeleteSink(s)
      \/ \E l \in Logs : DeleteLog(l)
  <2>1. CASE Produce
    BY <1>2, <2>1 DEF Produce, CreateSink, UpdateSink, RecordAudit
  <2>2. CASE \E w \in Workers : Process(w) \/ Crash(w)
    BY <1>4, <1>5, <2>2 DEF Process, ReadBatch, SkipRow, PostAccepted, PostFailed,
       MarkDeliveredThrows, FinishBatch, AbortRowGone, AbortDbError, Crash, EndTick
  <2>3. CASE UNCHANGED vars
    BY <2>3 DEF vars
  <2> QED
    BY <1>3, <2>1, <2>2, <2>3 DEF Next
<1> QED
  BY <1>6 DEF DeleteSink, DeleteLog, Cascade

\* delivered and failed are final under every interleaving of instances,
\* administrators, retention, errors and crashes.
THEOREM TerminalFinal == Spec => TerminalIsFinal
<1>1. ClaimInvariant /\ [Next]_vars =>
        [\A r \in Rows : queue[r].status \in Terminal =>
                           queue'[r] \in {queue[r], Absent}]_vars
  BY TerminalStep
<1> QED
  BY <1>1, ClaimInvariantHolds, PTL DEF Spec, TerminalIsFinal

-----------------------------------------------------------------------------
(* The queue implements the ledger.                                        *)

LEMMA LedgerValue ==
  ASSUME ClaimInvariant, NEW r \in Rows
  PROVE  /\ RemovedRow(r) <=> LedgerState[r] = "removed"
         /\ ~RemovedRow(r) /\ queue[r].status = "absent" <=> LedgerState[r] = "none"
         /\ queue[r].status = "queued" <=> LedgerState[r] = "open"
         /\ \A st \in {"sending", "delivered", "failed"} :
              queue[r].status = st <=> LedgerState[r] = st
         /\ LedgerState[r] \in Ledger!States
BY DEF ClaimInvariant, TypeOK, Statuses, Terminal, RowsHaveParents, RemovedRow,
       Exists, LedgerState, Ledger!States

\* Sinks and audit logs never come back.
LEMMA RemovedIsStable ==
  ASSUME ClaimInvariant, [Next]_vars, NEW r \in Rows, RemovedRow(r)
  PROVE  RemovedRow(r)'
<1>1. r[1] \in Sinks /\ r[2] \in Logs
  BY RowParts
<1>2. CASE \E s \in Sinks : CreateSink(s) \/ UpdateSink(s)
  <2>1. PICK s \in Sinks : CreateSink(s) \/ UpdateSink(s)
    BY <1>2
  <2>2. s # r[1] \/ log[r[2]] = "deleted"
    BY <2>1 DEF CreateSink, UpdateSink, RemovedRow, Exists
  <2>3. PICK state \in {"on", "off"}, max \in Policies : Store(s, state, max)
    BY <2>1, ZenonT(30) DEF CreateSink, UpdateSink
  <2> QED
    BY <1>1, <2>1, <2>2, <2>3
       DEF Store, CreateSink, UpdateSink, RemovedRow, ClaimInvariant, TypeOK
<1>3. CASE Produce /\ ~\E s \in Sinks : CreateSink(s) \/ UpdateSink(s)
  BY <1>1, <1>3 DEF Produce, DeleteSink, RecordAudit, Enqueue, DeleteLog,
     RemovedRow, Exists, ClaimInvariant, TypeOK
<1>4. CASE \E q \in Rows : BecomeDue(q)
  BY <1>4 DEF BecomeDue, RemovedRow
<1>5. CASE \E w \in Workers : Process(w) \/ Crash(w)
  BY <1>5 DEF Process, Crash, ReadBatch, Claim, SkipRow, PostAccepted, PostFailed,
     MarkDelivered, MarkDeliveredThrows, MarkFailedOrRetry, FinishBatch,
     AbortRowGone, AbortDbError, SettleRow, EndTick, dataVars, RemovedRow
<1>6. CASE UNCHANGED vars
  BY <1>6 DEF vars, RemovedRow
<1> QED
  BY <1>2, <1>3, <1>4, <1>5, <1>6 DEF Next

\* A row whose status and answers stay keeps its ledger entry, unless it is
\* removed.
LEMMA UntouchedRow ==
  ASSUME ClaimInvariant, [Next]_vars, NEW r \in Rows,
         queue'[r].status = queue[r].status, acked'[r] = acked[r]
  PROVE  Ledger!Stays(r) \/ Ledger!Removed(r)
<1>1. ClaimInvariant'
  BY ClaimInvariantStep
<1>2. CASE RemovedRow(r)'
  BY <1>1, <1>2 DEF LedgerState, ClaimInvariant, RowsHaveParents, RemovedRow,
                    Exists, Ledger!Removed
<1>3. CASE ~RemovedRow(r)'
  <2>1. ~RemovedRow(r)
    BY <1>3, RemovedIsStable
  <2> QED
    BY <1>3, <2>1 DEF LedgerState, Ledger!Stays
<1> QED
  BY <1>2, <1>3

LEMMA ClaimedLedger ==
  ASSUME ClaimInvariant, [Next]_vars, NEW w \in Workers, Claim(w), NEW r \in Rows
  PROVE  Ledger!Stays(r) \/ Ledger!Removed(r) \/ Ledger!Moves(r)
<1>1. PICK snap \in batch[w] :
        /\ Claimable(snap.row)
        /\ queue' = [queue EXCEPT ![snap.row] =
                       [@ EXCEPT !.status = "sending", !.due = FALSE]]
  BY DEF Claim
<1>2. UNCHANGED acked
  BY DEF Claim
<1>3. CASE snap.row = r
  <2>1. queue[r].status = "queued" /\ queue'[r].status = "sending"
    BY <1>1, <1>3 DEF Claimable, ClaimInvariant, TypeOK
  <2>2. LedgerState[r] = "open" /\ LedgerState'[r] = "sending"
    BY <2>1 DEF LedgerState
  <2> QED
    BY <1>2, <2>2 DEF Ledger!Moves, Ledger!Lifecycle
<1>4. CASE snap.row # r
  BY <1>1, <1>2, <1>4, UntouchedRow DEF ClaimInvariant, TypeOK
<1> QED
  BY <1>3, <1>4

LEMMA PostedLedger ==
  ASSUME ClaimInvariant, [Next]_vars, NEW w \in Workers, PostAccepted(w),
         NEW r \in Rows
  PROVE  Ledger!Stays(r) \/ Ledger!Removed(r) \/ Ledger!Answered(r)
<1>1. InFlight(w) /\ UNCHANGED <<sink, log, queue>>
  BY DEF PostAccepted, InFlight, dataVars
<1>2. CASE cur[w].row = r
  <2>1. acked'[r] = acked[r] + 1
    BY <1>2 DEF PostAccepted, ClaimInvariant, TypeOK
  <2>2. queue[r].status = "sending" \/ RemovedRow(r)
    BY <1>1, <1>2 DEF ClaimedIsSending, ClaimInvariant
  <2>3. LedgerState[r] \in {"sending", "removed"} /\ LedgerState'[r] = LedgerState[r]
    BY <1>1, <2>2, LedgerValue DEF LedgerState, RemovedRow
  <2> QED
    BY <2>1, <2>3 DEF Ledger!Answered
<1>3. CASE cur[w].row # r
  BY <1>1, <1>3, UntouchedRow DEF PostAccepted, ClaimInvariant, TypeOK
<1> QED
  BY <1>2, <1>3

LEMMA SettledLedger ==
  ASSUME ClaimInvariant, [Next]_vars, NEW w \in Workers,
         MarkDelivered(w) \/ MarkFailedOrRetry(w), NEW r \in Rows
  PROVE  Ledger!Stays(r) \/ Ledger!Removed(r) \/ Ledger!Moves(r)
<1>1. InFlight(w) /\ ~RowGone(w) /\ UNCHANGED acked
  BY DEF MarkDelivered, MarkFailedOrRetry, InFlight, SettleRow
<1>2. CASE cur[w].row = r
  <2>1. queue[r].status = "sending"
    BY <1>1, <1>2, SettledRow
  <2>2. \/ queue'[r].status = "delivered" /\ pc[w] = "acked"
        \/ queue'[r].status \in {"queued", "failed"}
    BY <1>2 DEF MarkDelivered, MarkFailedOrRetry, SettleRow, ClaimInvariant, TypeOK
  <2>3. queue'[r].status = "delivered" => acked[r] > 0
    BY <1>2, <2>2 DEF AnswersAccounted, ClaimInvariant, TypeOK
  <2>4. /\ LedgerState[r] = "sending"
        /\ LedgerState'[r] \in {"open", "delivered", "failed"}
        /\ LedgerState'[r] = "delivered" => acked[r] > 0
    BY <2>1, <2>2, <2>3 DEF LedgerState
  <2> QED
    BY <1>1, <2>4 DEF Ledger!Moves, Ledger!Lifecycle
<1>3. CASE cur[w].row # r
  BY <1>1, <1>3, UntouchedRow
     DEF MarkDelivered, MarkFailedOrRetry, SettleRow, ClaimInvariant, TypeOK
<1> QED
  BY <1>2, <1>3

LEMMA EnqueuedLedger ==
  ASSUME ClaimInvariant, [Next]_vars, NEW l \in Logs, Enqueue(l), NEW r \in Rows
  PROVE  Ledger!Stays(r) \/ Ledger!Removed(r) \/ Ledger!Moves(r)
<1>1. UNCHANGED <<sink, acked>> /\ log[l] = "recorded"
      /\ log' = [log EXCEPT ![l] = "settled"]
  BY DEF Enqueue, workerVars
<1>2. \/ queue'[r] = queue[r]
      \/ /\ queue[r].status = "absent" /\ queue'[r].status = "queued"
         /\ Exists(r[1]) /\ r[2] = l
  BY RowParts DEF Enqueue, ClaimInvariant, TypeOK
<1>3. CASE queue'[r] = queue[r]
  BY <1>1, <1>3, UntouchedRow
<1>4. CASE queue'[r] # queue[r]
  <2>1. LedgerState[r] = "none" /\ LedgerState'[r] = "open"
    BY <1>1, <1>2, <1>4 DEF LedgerState, RemovedRow, Exists
  <2> QED
    BY <1>1, <2>1 DEF Ledger!Moves, Ledger!Lifecycle
<1> QED
  BY <1>3, <1>4

LEMMA DeletedLedger ==
  ASSUME ClaimInvariant, [Next]_vars, NEW r \in Rows,
         \/ \E s \in Sinks : DeleteSink(s)
         \/ \E l \in Logs : DeleteLog(l)
  PROVE  Ledger!Stays(r) \/ Ledger!Removed(r)
<1>1. UNCHANGED acked
  BY DEF DeleteSink, DeleteLog, workerVars
<1>2. queue'[r] = queue[r] \/ (queue'[r] = Absent /\ RemovedRow(r)')
  <2>1. r = <<r[1], r[2]>> /\ r[1] \in Sinks /\ r[2] \in Logs
    BY DEF Rows
  <2>2. ASSUME NEW s \in Sinks, DeleteSink(s)
        PROVE  queue'[r] = queue[r] \/ (queue'[r] = Absent /\ RemovedRow(r)')
    BY <2>1, <2>2 DEF DeleteSink, Cascade, RemovedRow, ClaimInvariant, TypeOK
  <2>3. ASSUME NEW l \in Logs, DeleteLog(l)
        PROVE  queue'[r] = queue[r] \/ (queue'[r] = Absent /\ RemovedRow(r)')
    BY <2>1, <2>3 DEF DeleteLog, Cascade, RemovedRow, ClaimInvariant, TypeOK
  <2> QED
    BY <2>2, <2>3
<1>3. CASE queue'[r] = queue[r]
  BY <1>1, <1>3, UntouchedRow
<1>4. CASE queue'[r] = Absent /\ RemovedRow(r)'
  BY <1>1, <1>4 DEF LedgerState, Absent, Ledger!Removed
<1> QED
  BY <1>2, <1>3, <1>4

LEMMA LedgerStep ==
  ClaimInvariant /\ [Next]_vars => [Ledger!LedgerNext]_<<LedgerState, acked>>
<1> SUFFICES ASSUME ClaimInvariant, [Next]_vars PROVE Ledger!LedgerNext
  OBVIOUS
<1>1. ClaimInvariant'
  BY ClaimInvariantStep
<1>2. /\ LedgerState' \in [Rows -> Ledger!States]
      /\ acked' \in [Rows -> Nat]
  BY <1>1 DEF LedgerState, ClaimInvariant, TypeOK, Statuses, Terminal, Ledger!States
<1>3. ASSUME NEW r \in Rows
      PROVE  Ledger!Stays(r) \/ Ledger!Answered(r) \/ Ledger!Moves(r) \/ Ledger!Removed(r)
  <2>1. CASE queue'[r].status = queue[r].status /\ acked'[r] = acked[r]
    BY <2>1, UntouchedRow
  <2>2. CASE Produce
    BY <2>1, <2>2, EnqueuedLedger, DeletedLedger
       DEF Produce, CreateSink, UpdateSink, RecordAudit, workerVars
  <2>3. CASE \E q \in Rows : BecomeDue(q)
    <3>1. queue'[r].status = queue[r].status /\ acked'[r] = acked[r]
      BY <2>3 DEF BecomeDue, workerVars, ClaimInvariant, TypeOK
    <3> QED
      BY <2>1, <3>1
  <2>4. CASE \E w \in Workers : Process(w) \/ Crash(w)
    BY <2>1, <2>4, ClaimedLedger, PostedLedger, SettledLedger
       DEF Process, Crash, ReadBatch, SkipRow, PostFailed, MarkDeliveredThrows,
           FinishBatch, AbortRowGone, AbortDbError, EndTick
  <2>5. CASE UNCHANGED vars
    BY <2>1, <2>5 DEF vars
  <2> QED
    BY <2>2, <2>3, <2>4, <2>5 DEF Next
<1> QED
  BY <1>2, <1>3 DEF Ledger!LedgerNext

\* The workers, their stale batches, the deletions, errors and crashes together
\* implement the ledger: opened once, delivered only after an answer, closed
\* rows stay closed, removed rows never return.
THEOREM QueueImplementsLedger == Spec => ImplementsLedger
<1>1. Init => Ledger!LedgerInit
  <2> SUFFICES ASSUME Init PROVE Ledger!LedgerInit
    OBVIOUS
  <2>1. acked = [r \in Rows |-> 0]
    BY DEF Init
  <2>2. \A r \in Rows : queue[r] = Absent /\ ~RemovedRow(r)
    BY AtFirst
  <2> QED
    BY <2>1, <2>2 DEF Ledger!LedgerInit, LedgerState, Absent
<1> QED
  BY <1>1, LedgerStep, ClaimInvariantHolds, PTL
     DEF Spec, ImplementsLedger, Ledger!LedgerSpec

-----------------------------------------------------------------------------
(* What each kind of step does to the rows, their counts and the workers.  *)
(* The proofs about attempts and strandings below use these facts in place *)
(* of the actions.                                                         *)

\* The steps outside the workers: a row stays, is removed for good, is
\* inserted, or becomes due.
RowPassive(r) ==
  \/ queue'[r] = queue[r]
  \/ queue'[r] = Absent /\ RemovedRow(r)'
  \/ /\ queue[r].status = "absent" /\ ~RemovedRow(r)
     /\ queue'[r] = [status |-> "queued", attempts |-> 0, due |-> TRUE]
  \/ /\ queue[r].status = "queued" /\ queue'[r].status = "queued"
     /\ queue'[r].attempts = queue[r].attempts /\ queue'[r].due

LEMMA PassiveEffect ==
  ASSUME ClaimInvariant, Produce \/ \E q \in Rows : BecomeDue(q)
  PROVE  /\ UNCHANGED <<pc, batch, cur, tries>>
         /\ spent'.db = spent.db /\ spent'.crash = spent.crash
         /\ \A r \in Rows : RowPassive(r)
<1>1. CASE \E s \in Sinks : CreateSink(s) \/ UpdateSink(s)
  BY <1>1 DEF CreateSink, UpdateSink, workerVars, Spend, ClaimInvariant, TypeOK,
     RowPassive
<1>2. ASSUME NEW s \in Sinks, DeleteSink(s), NEW r \in Rows PROVE RowPassive(r)
  <2>1. r = <<r[1], r[2]>> /\ r[1] \in Sinks /\ r[2] \in Logs
    BY DEF Rows
  <2>2. queue'[r] = IF r[1] = s THEN Absent ELSE queue[r]
    BY <1>2, <2>1 DEF DeleteSink, Cascade
  <2>3. r[1] = s => RemovedRow(r)'
    BY <1>2, <2>1 DEF DeleteSink, RemovedRow, ClaimInvariant, TypeOK
  <2> QED
    BY <2>2, <2>3 DEF RowPassive
<1>3. ASSUME NEW l \in Logs, DeleteLog(l), NEW r \in Rows PROVE RowPassive(r)
  <2>1. r = <<r[1], r[2]>> /\ r[1] \in Sinks /\ r[2] \in Logs
    BY DEF Rows
  <2>2. queue'[r] = IF r[2] = l THEN Absent ELSE queue[r]
    BY <1>3, <2>1 DEF DeleteLog, Cascade
  <2>3. r[2] = l => RemovedRow(r)'
    BY <1>3, <2>1 DEF DeleteLog, RemovedRow, ClaimInvariant, TypeOK
  <2> QED
    BY <2>2, <2>3 DEF RowPassive
<1>4. ASSUME NEW l \in Logs, RecordAudit(l) \/ Enqueue(l), NEW r \in Rows
      PROVE  RowPassive(r)
  <2>1. CASE RecordAudit(l)
    BY <2>1 DEF RecordAudit, RowPassive
  <2>2. CASE Enqueue(l) /\ queue'[r] # queue[r]
    <3>1. /\ queue[r].status = "absent" /\ r[2] = l /\ Exists(r[1])
          /\ queue'[r] = [status |-> "queued", attempts |-> 0, due |-> TRUE]
      BY <2>2, RowParts DEF Enqueue
    <3>2. ~RemovedRow(r)
      BY <2>2, <3>1 DEF Enqueue, RemovedRow, Exists
    <3> QED
      BY <3>1, <3>2 DEF RowPassive
  <2> QED
    BY <1>4, <2>1, <2>2 DEF RowPassive
<1>5. ASSUME NEW q \in Rows, BecomeDue(q), NEW r \in Rows PROVE RowPassive(r)
  BY <1>5 DEF BecomeDue, RowPassive, ClaimInvariant, TypeOK
<1>6. CASE \/ \E s \in Sinks : DeleteSink(s)
           \/ \E l \in Logs : RecordAudit(l) \/ Enqueue(l) \/ DeleteLog(l)
           \/ \E q \in Rows : BecomeDue(q)
  <2>1. UNCHANGED <<pc, batch, cur, tries>> /\ spent'.db = spent.db
        /\ spent'.crash = spent.crash
    BY <1>6 DEF DeleteSink, RecordAudit, Enqueue, DeleteLog, BecomeDue, workerVars,
       Spend, ClaimInvariant, TypeOK
  <2> QED
    BY <1>2, <1>3, <1>4, <1>5, <1>6, <2>1
<1> QED
  BY <1>1, <1>6 DEF Produce

\* findMany: the batch holds one snapshot per row, of a queued and due row.
LEMMA ReadEffect ==
  ASSUME ClaimInvariant, NEW w \in Workers, ReadBatch(w)
  PROVE  /\ UNCHANGED <<sink, log, queue, cur, tries, spent>>
         /\ \A v \in Workers : InFlight(v)' <=> InFlight(v)
         /\ \A v \in Workers : v # w => batch'[v] = batch[v]
         /\ ~InFlight(w)
         /\ \A snap \in batch'[w] :
              /\ snap \in Snapshots
              /\ queue[snap.row].status = "queued" /\ queue[snap.row].due
              /\ snap.attempts = queue[snap.row].attempts
              /\ snap = Snapshot(snap.row)
<1>1. /\ UNCHANGED <<sink, log, queue, cur, tries, spent>>
      /\ \A v \in Workers : InFlight(v)' <=> InFlight(v)
      /\ ~InFlight(w)
  BY DEF ReadBatch, dataVars, InFlight, ClaimInvariant, TypeOK
<1>2. PICK rows \in Batches(DueRows) :
        batch' = [batch EXCEPT ![w] = {Snapshot(r) : r \in rows}]
  BY DEF ReadBatch
<1>3. /\ \A v \in Workers : v # w => batch'[v] = batch[v]
      /\ batch'[w] = {Snapshot(r) : r \in rows}
  BY <1>2 DEF ClaimInvariant, TypeOK
<1>4. \A r \in rows : r \in Rows /\ queue[r].status = "queued" /\ queue[r].due
  BY <1>2 DEF Batches, DueRows
<1>5. \A r \in rows : /\ Snapshot(r) \in Snapshots
                      /\ Snapshot(r).row = r
                      /\ Snapshot(r).attempts = queue[r].attempts
  BY <1>4 DEF Snapshot, Snapshots, ClaimInvariant, TypeOK, Rows
<1> QED
  BY <1>1, <1>3, <1>4, <1>5

\* The claim: one queued row goes to sending, is counted, and leaves the batch.
LEMMA ClaimEffect ==
  ASSUME ClaimInvariant, NEW w \in Workers, Claim(w)
  PROVE  \E snap \in batch[w] :
           /\ snap \in Snapshots /\ snap.row \in Rows
           /\ queue[snap.row].status = "queued"
           /\ queue'[snap.row].status = "sending"
           /\ queue'[snap.row].attempts = queue[snap.row].attempts
           /\ tries'[snap.row] = tries[snap.row] + 1
           /\ \A r \in Rows : r # snap.row => queue'[r] = queue[r]
                                              /\ tries'[r] = tries[r]
           /\ cur'[w] = snap /\ batch'[w] = batch[w] \ {snap}
           /\ InFlight(w)' /\ ~InFlight(w)
           /\ \A v \in Workers : v # w => /\ InFlight(v)' <=> InFlight(v)
                                          /\ cur'[v] = cur[v]
                                          /\ batch'[v] = batch[v]
           /\ UNCHANGED <<sink, log, spent>>
<1>1. PICK snap \in batch[w] :
        /\ Claimable(snap.row)
        /\ queue' = [queue EXCEPT ![snap.row] =
                       [@ EXCEPT !.status = "sending", !.due = FALSE]]
        /\ cur' = [cur EXCEPT ![w] = snap]
        /\ batch' = [batch EXCEPT ![w] = @ \ {snap}]
        /\ tries' = [tries EXCEPT ![snap.row] = @ + 1]
  BY DEF Claim
<1>2. snap \in Snapshots /\ snap.row \in Rows
  BY <1>1, RowParts DEF ClaimInvariant, TypeOK
<1>3. /\ queue[snap.row].status = "queued"
      /\ queue'[snap.row].status = "sending"
      /\ queue'[snap.row].attempts = queue[snap.row].attempts
      /\ \A r \in Rows : r # snap.row => queue'[r] = queue[r]
  BY <1>1, <1>2 DEF Claimable, ClaimInvariant, TypeOK
<1>4. /\ tries'[snap.row] = tries[snap.row] + 1
      /\ \A r \in Rows : r # snap.row => tries'[r] = tries[r]
      /\ cur'[w] = snap /\ batch'[w] = batch[w] \ {snap}
      /\ \A v \in Workers : v # w => cur'[v] = cur[v] /\ batch'[v] = batch[v]
  BY <1>1, <1>2 DEF ClaimInvariant, TypeOK
<1>5. /\ InFlight(w)' /\ ~InFlight(w)
      /\ \A v \in Workers : v # w => (InFlight(v)' <=> InFlight(v))
      /\ UNCHANGED <<sink, log, spent>>
  BY DEF Claim, InFlight, ClaimInvariant, TypeOK, dataVars
<1> QED
  BY <1>1, <1>2, <1>3, <1>4, <1>5

\* The posts and the delivered-update that throws leave rows, batches and
\* claims as they are.
LEMMA PostEffect ==
  ASSUME ClaimInvariant, NEW w \in Workers,
         PostAccepted(w) \/ PostFailed(w) \/ MarkDeliveredThrows(w)
  PROVE  /\ UNCHANGED <<sink, log, queue, batch, cur, tries>>
         /\ \A v \in Workers : InFlight(v)' <=> InFlight(v)
         /\ spent'.crash = spent.crash /\ spent'.db >= spent.db
BY DEF PostAccepted, PostFailed, MarkDeliveredThrows, InFlight, dataVars, Spend,
       ClaimInvariant, TypeOK

\* The settling update: the worker's row goes to delivered, queued or failed,
\* with the attempt of its snapshot counted.
LEMMA SettleEffect ==
  ASSUME ClaimInvariant, NEW w \in Workers, MarkDelivered(w) \/ MarkFailedOrRetry(w)
  PROVE  LET row == cur[w].row IN
         /\ InFlight(w) /\ ~InFlight(w)' /\ row \in Rows
         /\ queue[row].status = "sending" /\ ~RemovedRow(row)
         /\ queue'[row].attempts = cur[w].attempts + 1
         /\ \/ queue'[row].status = "delivered"
            \/ queue'[row].status = "queued" /\ cur[w].attempts + 1 < cur[w].max
            \/ queue'[row].status = "failed" /\ cur[w].attempts + 1 >= cur[w].max
         /\ \A r \in Rows : r # row => queue'[r] = queue[r]
         /\ \A v \in Workers : v # w => /\ InFlight(v)' <=> InFlight(v)
                                        /\ cur'[v] = cur[v]
         /\ UNCHANGED <<sink, log, batch, tries, spent>>
<1> DEFINE row == cur[w].row
<1>1. InFlight(w) /\ ~RowGone(w)
  BY DEF MarkDelivered, MarkFailedOrRetry, InFlight
<1>2. /\ row \in Rows /\ queue[row].status = "sending" /\ ~RemovedRow(row)
      /\ cur[w].attempts \in Nat /\ cur[w].max \in Nat
  BY <1>1, SettledRow, CurRow, PolicyAssumption DEF ClaimInvariant, Snapshots
<1>3. PICK rec \in [status: {"delivered", "queued", "failed"}, attempts: Nat, due: BOOLEAN] :
        /\ SettleRow(w, rec)
        /\ rec.attempts = cur[w].attempts + 1
        /\ \/ rec.status = "delivered"
           \/ rec.status = "queued" /\ cur[w].attempts + 1 < cur[w].max
           \/ rec.status = "failed" /\ cur[w].attempts + 1 >= cur[w].max
  <2> DEFINE Outcome(st) ==
        [status |-> st, attempts |-> cur[w].attempts + 1, due |-> FALSE]
  <2>0. \A st \in {"delivered", "queued", "failed"} :
          Outcome(st) \in [status: {"delivered", "queued", "failed"}, attempts: Nat, due: BOOLEAN]
    BY <1>2
  <2>1. CASE MarkDelivered(w)
    <3>1. SettleRow(w, Outcome("delivered"))
      BY <2>1 DEF MarkDelivered
    <3> QED
      BY <2>0, <3>1
  <2>2. CASE MarkFailedOrRetry(w) /\ IsExhausted(cur[w])
    <3>1. SettleRow(w, Outcome("failed"))
      BY <2>2 DEF MarkFailedOrRetry
    <3> QED
      BY <2>0, <2>2, <3>1 DEF IsExhausted
  <2>3. CASE MarkFailedOrRetry(w) /\ ~IsExhausted(cur[w])
    <3>1. SettleRow(w, Outcome("queued"))
      BY <2>3 DEF MarkFailedOrRetry
    <3>2. cur[w].attempts + 1 < cur[w].max
      BY <1>2, <2>3 DEF IsExhausted
    <3> QED
      BY <2>0, <3>1, <3>2
  <2> QED
    BY <2>1, <2>2, <2>3
<1>4. /\ queue'[row] = rec
      /\ \A r \in Rows : r # row => queue'[r] = queue[r]
      /\ ~InFlight(w)'
      /\ \A v \in Workers : v # w => (InFlight(v)' <=> InFlight(v)) /\ cur'[v] = cur[v]
      /\ UNCHANGED <<sink, log, batch, tries, spent>>
  BY <1>2, <1>3 DEF SettleRow, InFlight, dataVars, ClaimInvariant, TypeOK
<1> QED
  BY <1>1, <1>2, <1>3, <1>4

\* The steps that drop rows from what a worker holds.  A worker that lets go of
\* a row still marked sending has met a fault.
LEMMA DropEffect ==
  ASSUME ClaimInvariant, NEW w \in Workers,
         \/ SkipRow(w) \/ FinishBatch(w) \/ AbortRowGone(w)
         \/ AbortDbError(w) \/ Crash(w)
  PROVE  /\ UNCHANGED <<sink, log, queue, tries>>
         /\ \A v \in Workers : batch'[v] \subseteq batch[v]
         /\ \A v \in Workers : InFlight(v)' => InFlight(v) /\ cur'[v] = cur[v]
         /\ \A v \in Workers : v # w => (InFlight(v)' <=> InFlight(v))
         /\ spent'.crash >= spent.crash /\ spent'.db >= spent.db
         /\ \/ spent'.crash + spent'.db = spent.crash + spent.db + 1
            \/ InFlight(w) => InFlight(w)' \/ queue[cur[w].row].status = "absent"
<1>1. CASE SkipRow(w)
  BY <1>1 DEF SkipRow, dataVars, InFlight, ClaimInvariant, TypeOK
<1>2. CASE EndTick(w)
  <2>1. /\ UNCHANGED <<sink, log, queue, tries>>
        /\ \A v \in Workers : batch'[v] \subseteq batch[v]
        /\ \A v \in Workers : InFlight(v)' => InFlight(v) /\ cur'[v] = cur[v]
        /\ \A v \in Workers : v # w => (InFlight(v)' <=> InFlight(v))
    BY <1>2 DEF EndTick, dataVars, InFlight, ClaimInvariant, TypeOK
  <2>2. CASE FinishBatch(w) \/ AbortRowGone(w)
    BY <2>1, <2>2 DEF FinishBatch, AbortRowGone, InFlight, RowGone, ClaimInvariant, TypeOK
  <2>3. CASE AbortDbError(w) \/ Crash(w)
    BY <2>1, <2>3 DEF AbortDbError, Crash, Spend, ClaimInvariant, TypeOK
  <2> QED
    BY <1>1, <2>2, <2>3
<1> QED
  BY <1>1, <1>2 DEF FinishBatch, AbortRowGone, AbortDbError, Crash

-----------------------------------------------------------------------------
(* The policies a sink was stored with, and the ones the workers hold.     *)

\* A live sink's max_attempts is among those it was stored with, and so is the
\* one that a worker read, however long ago.
PoliciesRecorded ==
  /\ \A s \in Sinks : Exists(s) => sink[s].max \in sink[s].had
  /\ \A w \in Workers :
       /\ \A snap \in batch[w] : snap.max \in sink[snap.row[1]].had
       /\ InFlight(w) => cur[w].max \in sink[cur[w].row[1]].had

LEMMA RecordsGrow ==
  ASSUME ClaimInvariant, [Next]_vars, NEW s \in Sinks
  PROVE  /\ sink[s].had \subseteq sink'[s].had
         /\ sink'[s].had \subseteq Policies
         /\ (Exists(s) => sink[s].max \in sink[s].had) =>
              (Exists(s)' => sink'[s].max \in sink'[s].had)
<1>0. TypeOK /\ TypeOK'
  BY TypeStep DEF ClaimInvariant
<1>1. ASSUME NEW t \in Sinks, CreateSink(t) \/ UpdateSink(t)
      PROVE  /\ sink[s].had \subseteq sink'[s].had
             /\ sink'[s] = sink[s] \/ sink'[s].max \in sink'[s].had
  <2>1. PICK state \in {"on", "off"}, max \in Policies :
          sink' = [sink EXCEPT ![t] =
                     [state |-> state, max |-> max, had |-> sink[t].had \union {max}]]
    BY <1>1, ZenonT(30) DEF CreateSink, UpdateSink, Store
  <2> QED
    BY <1>0, <2>1 DEF TypeOK
<1>2. ASSUME NEW t \in Sinks, DeleteSink(t)
      PROVE  /\ sink'[s].had = sink[s].had
             /\ sink'[s] = sink[s] \/ ~Exists(s)'
  BY <1>0, <1>2 DEF DeleteSink, TypeOK, Exists
<1>3. CASE UNCHANGED sink
  BY <1>0, <1>3 DEF TypeOK, Exists
<1>4. \/ \E t \in Sinks : CreateSink(t) \/ UpdateSink(t) \/ DeleteSink(t)
      \/ UNCHANGED sink
  BY PassiveEffect, ReadEffect, ClaimEffect, PostEffect, SettleEffect, DropEffect
     DEF Next, Process, Produce, RecordAudit, Enqueue, DeleteLog, BecomeDue, vars
<1> QED
  BY <1>0, <1>1, <1>2, <1>3, <1>4 DEF TypeOK, Exists

LEMMA RecordsStep ==
  ClaimInvariant /\ PoliciesRecorded /\ [Next]_vars => PoliciesRecorded'
<1> SUFFICES ASSUME ClaimInvariant, PoliciesRecorded, [Next]_vars
             PROVE  PoliciesRecorded'
  OBVIOUS
<1>1. /\ \A s \in Sinks : sink[s].had \subseteq sink'[s].had
      /\ \A s \in Sinks : Exists(s)' => sink'[s].max \in sink'[s].had
  BY RecordsGrow DEF PoliciesRecorded
<1>2. /\ \A w \in Workers : \A snap \in batch[w] : snap.row[1] \in Sinks
      /\ \A w \in Workers : InFlight(w) => cur[w].row[1] \in Sinks
  BY RowParts, CurRow DEF ClaimInvariant, TypeOK
<1>3. ASSUME \A w \in Workers : batch'[w] \subseteq batch[w],
             \A w \in Workers : InFlight(w)' => \/ cur'[w] \in batch[w]
                                                \/ InFlight(w) /\ cur'[w] = cur[w]
      PROVE  PoliciesRecorded'
  BY <1>1, <1>2, <1>3 DEF PoliciesRecorded
<1>4. ASSUME NEW w \in Workers, ReadBatch(w) PROVE PoliciesRecorded'
  <2>1. /\ UNCHANGED <<sink, cur>>
        /\ \A v \in Workers : InFlight(v)' <=> InFlight(v)
        /\ \A v \in Workers : v # w => batch'[v] = batch[v]
        /\ \A snap \in batch'[w] : /\ snap \in Snapshots
                                   /\ queue[snap.row].status = "queued"
                                   /\ snap = Snapshot(snap.row)
    BY <1>4, ReadEffect
  <2>2. \A snap \in batch'[w] : snap.max \in sink[snap.row[1]].had
    <3> TAKE snap \in batch'[w]
    <3>1. snap.row \in Rows /\ snap.row[1] \in Sinks
      BY <2>1, RowParts
    <3>2. Exists(snap.row[1])
      BY <2>1, <3>1 DEF ClaimInvariant, RowsHaveParents
    <3>3. snap.max = sink[snap.row[1]].max
      BY <2>1 DEF Snapshot
    <3> QED
      BY <3>1, <3>2, <3>3 DEF PoliciesRecorded
  <2> QED
    BY <1>1, <2>1, <2>2 DEF PoliciesRecorded
<1>5. ASSUME NEW w \in Workers, Claim(w) PROVE PoliciesRecorded'
  <2>1. PICK snap \in batch[w] :
          /\ cur'[w] = snap /\ batch'[w] = batch[w] \ {snap}
          /\ \A v \in Workers : v # w => /\ InFlight(v)' <=> InFlight(v)
                                         /\ cur'[v] = cur[v]
                                         /\ batch'[v] = batch[v]
    BY <1>5, ClaimEffect
  <2> QED
    BY <1>3, <2>1
<1>6. CASE Produce \/ \E q \in Rows : BecomeDue(q)
  BY <1>3, <1>6, PassiveEffect DEF InFlight
<1>7. CASE \E w \in Workers :
             \/ PostAccepted(w) \/ PostFailed(w) \/ MarkDeliveredThrows(w)
             \/ MarkDelivered(w) \/ MarkFailedOrRetry(w)
  BY <1>3, <1>7, PostEffect, SettleEffect
<1>8. CASE \E w \in Workers :
             \/ SkipRow(w) \/ FinishBatch(w) \/ AbortRowGone(w)
             \/ AbortDbError(w) \/ Crash(w)
  BY <1>3, <1>8, DropEffect
<1>9. CASE UNCHANGED vars
  BY <1>3, <1>9 DEF vars, InFlight
<1> QED
  BY <1>4, <1>5, <1>6, <1>7, <1>8, <1>9 DEF Next, Process

LEMMA RecordsHold == Spec => []PoliciesRecorded
<1>1. Init => PoliciesRecorded
  BY DEF Init, PoliciesRecorded, Exists, InFlight
<1> QED
  BY <1>1, RecordsStep, ClaimInvariantHolds, PTL DEF Spec

-----------------------------------------------------------------------------
(* Attempts: the count a row shows never exceeds the claims really made.   *)

\* With the counts that the workers' snapshots carry: a claim is counted before
\* its attempt number is written, and claims are never uncounted.
AttemptsCounted ==
  /\ AttemptsWereMade
  /\ \A w \in Workers :
       /\ \A snap \in batch[w] : snap.attempts <= tries[snap.row]
       /\ InFlight(w) => cur[w].attempts + 1 <= tries[cur[w].row]

LEMMA AttemptsStep ==
  ASSUME ClaimInvariant, PoliciesRecorded, AttemptsCounted, [Next]_vars
  PROVE  AttemptsCounted'
<1> USE DEF AttemptsCounted, AttemptsWereMade
<1>1. /\ tries \in [Rows -> Nat]
      /\ \A r \in Rows : queue[r].attempts \in Nat
      /\ \A w \in Workers : \A snap \in batch[w] :
           snap \in Snapshots /\ snap.row \in Rows /\ snap.attempts \in Nat
      /\ \A w \in Workers : InFlight(w) =>
           /\ cur[w].row \in Rows /\ cur[w].attempts \in Nat
           /\ cur[w].max \in Policies /\ cur[w].max \in Nat
  <2>1. \A snap \in Snapshots : /\ snap.row \in Rows /\ snap.attempts \in Nat
                                /\ snap.max \in Policies /\ snap.max \in Nat
    BY PolicyAssumption DEF Snapshots
  <2>2. TypeOK
    BY DEF ClaimInvariant
  <2> QED
    BY <2>1, <2>2 DEF TypeOK
<1>0. \A r \in Rows : sink[r[1]].had \subseteq sink'[r[1]].had
  BY RowParts, RecordsGrow
<1>2. CASE Produce \/ \E q \in Rows : BecomeDue(q)
  <2>1. /\ UNCHANGED <<pc, batch, cur, tries>>
        /\ \A r \in Rows : RowPassive(r)
    BY <1>2, PassiveEffect
  <2>2. \A r \in Rows : /\ queue'[r].attempts <= tries[r]
                        /\ queue'[r].status = "failed" => queue[r].status = "failed"
    BY <1>1, <2>1 DEF RowPassive, Absent
  <2> QED
    BY <1>0, <2>1, <2>2 DEF InFlight
<1>3. ASSUME NEW w \in Workers, ReadBatch(w) PROVE AttemptsCounted'
  <2>1. /\ UNCHANGED <<queue, cur, tries>>
        /\ \A v \in Workers : InFlight(v)' <=> InFlight(v)
        /\ \A v \in Workers : v # w => batch'[v] = batch[v]
        /\ \A snap \in batch'[w] :
             snap \in Snapshots /\ snap.attempts = queue[snap.row].attempts
    BY <1>3, ReadEffect
  <2>2. \A snap \in batch'[w] : snap.attempts <= tries[snap.row]
    BY <2>1, RowParts
  <2> QED
    BY <1>0, <2>1, <2>2
<1>4. ASSUME NEW w \in Workers, Claim(w) PROVE AttemptsCounted'
  <2>1. PICK snap \in batch[w] :
          /\ snap.row \in Rows
          /\ queue'[snap.row].status = "sending"
          /\ queue'[snap.row].attempts = queue[snap.row].attempts
          /\ tries'[snap.row] = tries[snap.row] + 1
          /\ \A r \in Rows : r # snap.row => queue'[r] = queue[r]
                                             /\ tries'[r] = tries[r]
          /\ cur'[w] = snap /\ batch'[w] = batch[w] \ {snap}
          /\ \A v \in Workers : v # w => /\ InFlight(v)' <=> InFlight(v)
                                         /\ cur'[v] = cur[v]
                                         /\ batch'[v] = batch[v]
    BY <1>4, ClaimEffect
  <2>2. \A r \in Rows : tries[r] \in Nat /\ tries'[r] \in Nat /\ tries[r] <= tries'[r]
    BY <1>1, <2>1
  <2>3. \A r \in Rows :
          /\ queue'[r].attempts <= tries'[r]
          /\ queue'[r].status = "failed" => \E max \in sink'[r[1]].had : tries'[r] >= max
    BY <1>1, <1>0, <2>1, <2>2
  <2>4. \A v \in Workers : \A s \in batch'[v] : s.attempts <= tries'[s.row]
    BY <1>1, <2>1, <2>2
  <2>5. \A v \in Workers : InFlight(v)' => cur'[v].attempts + 1 <= tries'[cur'[v].row]
    BY <1>1, <2>1, <2>2
  <2> QED
    BY <2>3, <2>4, <2>5
<1>5. ASSUME NEW w \in Workers,
             PostAccepted(w) \/ PostFailed(w) \/ MarkDeliveredThrows(w)
      PROVE  AttemptsCounted'
  BY <1>5, <1>0, PostEffect
<1>6. ASSUME NEW w \in Workers, MarkDelivered(w) \/ MarkFailedOrRetry(w)
      PROVE  AttemptsCounted'
  <2> DEFINE row == cur[w].row
  <2>1. /\ InFlight(w) /\ ~InFlight(w)' /\ row \in Rows
        /\ queue'[row].attempts = cur[w].attempts + 1
        /\ queue'[row].status = "failed" => cur[w].attempts + 1 >= cur[w].max
        /\ \A r \in Rows : r # row => queue'[r] = queue[r]
        /\ \A v \in Workers : v # w => (InFlight(v)' <=> InFlight(v)) /\ cur'[v] = cur[v]
        /\ UNCHANGED <<batch, tries>>
    BY <1>6, SettleEffect
  <2>2. /\ queue'[row].attempts <= tries'[row]
        /\ queue'[row].status = "failed" => tries'[row] >= cur[w].max
        /\ cur[w].max \in sink'[row[1]].had
    <3>1. cur[w].max \in sink[row[1]].had
      BY <2>1 DEF PoliciesRecorded
    <3>2. tries'[row] = tries[row] /\ cur[w].attempts + 1 <= tries[row]
      BY <2>1
    <3>3. cur[w].max \in sink'[row[1]].had
      BY <1>0, <2>1, <3>1
    <3>4. /\ tries[row] \in Nat /\ cur[w].attempts \in Nat /\ cur[w].max \in Nat
          /\ queue'[row].attempts = cur[w].attempts + 1
          /\ queue'[row].status = "failed" => cur[w].attempts + 1 >= cur[w].max
      BY <1>1, <2>1
    <3> HIDE DEF row
    <3> QED
      BY <3>2, <3>3, <3>4
  <2>3. \A r \in Rows :
          /\ queue'[r].attempts <= tries'[r]
          /\ queue'[r].status = "failed" => \E max \in sink'[r[1]].had : tries'[r] >= max
    BY <1>1, <1>0, <2>1, <2>2
  <2> QED
    BY <2>1, <2>3
<1>7. ASSUME NEW w \in Workers,
             \/ SkipRow(w) \/ FinishBatch(w) \/ AbortRowGone(w)
             \/ AbortDbError(w) \/ Crash(w)
      PROVE  AttemptsCounted'
  <2>1. /\ UNCHANGED <<queue, tries>>
        /\ \A v \in Workers : batch'[v] \subseteq batch[v]
        /\ \A v \in Workers : InFlight(v)' => InFlight(v) /\ cur'[v] = cur[v]
    BY <1>7, DropEffect
  <2> QED
    BY <1>0, <2>1
<1>8. CASE UNCHANGED vars
  BY <1>8 DEF vars, InFlight
<1> QED
  BY <1>2, <1>3, <1>4, <1>5, <1>6, <1>7, <1>8 DEF Next, Process

\* No row shows more attempts than were made, and none is failed before some
\* max_attempts of its sink was spent, however stale the batches of however
\* many instances are.
THEOREM FailedRowsSpentTheirAttempts == Spec => []AttemptsWereMade
<1>1. Init => AttemptsCounted
  BY DEF Init, AttemptsCounted, AttemptsWereMade, Absent, InFlight
<1>2. ClaimInvariant /\ PoliciesRecorded /\ AttemptsCounted /\ [Next]_vars
        => AttemptsCounted'
  BY AttemptsStep
<1>3. AttemptsCounted => AttemptsWereMade
  BY DEF AttemptsCounted
<1> QED
  BY <1>1, <1>2, <1>3, ClaimInvariantHolds, RecordsHold, PTL DEF Spec

-----------------------------------------------------------------------------
(* Rows left in sending with no worker.                                    *)

StrandedIsBounded == IsFiniteSet(Stranded) /\ StrandedOnlyByFaults

\* A step strands no row, or it is a fault and strands one.
LEMMA StrandedStep ==
  ASSUME ClaimInvariant, [Next]_vars
  PROVE  LET faults == spent.crash + spent.db IN
         \/ Stranded' \subseteq Stranded /\ faults' >= faults
         \/ \E r : Stranded' \subseteq Stranded \union {r} /\ faults' = faults + 1
<1> DEFINE faults == spent.crash + spent.db
<1>1. /\ spent.crash \in Nat /\ spent.db \in Nat
      /\ \A w \in Workers : InFlight(w) => cur[w].row \in Rows
  BY CurRow DEF ClaimInvariant, TypeOK
<1>2. CASE Produce \/ \E q \in Rows : BecomeDue(q)
  <2>1. /\ UNCHANGED <<pc, cur>> /\ faults' = faults
        /\ \A r \in Rows : RowPassive(r)
    BY <1>2, PassiveEffect
  <2>2. \A r \in Rows : queue'[r].status = "sending" => queue[r].status = "sending"
    BY <2>1 DEF RowPassive, Absent
  <2>3. \A w \in Workers : (InFlight(w)' <=> InFlight(w)) /\ cur'[w] = cur[w]
    BY <2>1 DEF InFlight
  <2> QED
    BY <1>1, <2>1, <2>2, <2>3 DEF Stranded
<1>3. ASSUME NEW w \in Workers, ReadBatch(w)
      PROVE  Stranded' \subseteq Stranded /\ faults' = faults
  <2>1. /\ UNCHANGED <<queue, cur, spent>>
        /\ \A v \in Workers : InFlight(v)' <=> InFlight(v)
    BY <1>3, ReadEffect
  <2> QED
    BY <2>1 DEF Stranded
<1>4. ASSUME NEW w \in Workers, Claim(w)
      PROVE  Stranded' \subseteq Stranded /\ faults' = faults
  <2>1. PICK snap \in batch[w] :
          /\ \A r \in Rows : r # snap.row => queue'[r] = queue[r]
          /\ cur'[w] = snap /\ InFlight(w)' /\ ~InFlight(w)
          /\ \A v \in Workers : v # w => /\ InFlight(v)' <=> InFlight(v)
                                         /\ cur'[v] = cur[v]
          /\ UNCHANGED spent
    BY <1>4, ClaimEffect
  <2> QED
    BY <2>1 DEF Stranded
<1>5. ASSUME NEW w \in Workers,
             PostAccepted(w) \/ PostFailed(w) \/ MarkDeliveredThrows(w)
      PROVE  Stranded' \subseteq Stranded /\ faults' >= faults
  <2>1. /\ UNCHANGED <<queue, cur>>
        /\ \A v \in Workers : InFlight(v)' <=> InFlight(v)
        /\ spent'.crash = spent.crash /\ spent'.db >= spent.db
    BY <1>5, PostEffect
  <2>2. spent'.db \in Nat
    BY TypeStep DEF ClaimInvariant, TypeOK
  <2> QED
    BY <1>1, <2>1, <2>2 DEF Stranded
<1>6. ASSUME NEW w \in Workers, MarkDelivered(w) \/ MarkFailedOrRetry(w)
      PROVE  Stranded' \subseteq Stranded /\ faults' = faults
  <2>1. /\ queue'[cur[w].row].status # "sending"
        /\ \A r \in Rows : r # cur[w].row => queue'[r] = queue[r]
        /\ \A v \in Workers : v # w => (InFlight(v)' <=> InFlight(v)) /\ cur'[v] = cur[v]
        /\ UNCHANGED spent
    BY <1>6, SettleEffect
  <2> QED
    BY <2>1 DEF Stranded
<1>7. ASSUME NEW w \in Workers,
             \/ SkipRow(w) \/ FinishBatch(w) \/ AbortRowGone(w)
             \/ AbortDbError(w) \/ Crash(w)
      PROVE  \/ Stranded' \subseteq Stranded /\ faults' >= faults
             \/ Stranded' \subseteq Stranded \union {cur[w].row} /\ faults' = faults + 1
  <2>1. /\ UNCHANGED queue
        /\ \A v \in Workers : InFlight(v)' => InFlight(v) /\ cur'[v] = cur[v]
        /\ \A v \in Workers : v # w => (InFlight(v)' <=> InFlight(v))
        /\ spent'.crash >= spent.crash /\ spent'.db >= spent.db
        /\ \/ faults' = faults + 1
           \/ InFlight(w) => InFlight(w)' \/ queue[cur[w].row].status = "absent"
    BY <1>7, DropEffect
  <2>2. spent'.db \in Nat /\ spent'.crash \in Nat
    BY TypeStep DEF ClaimInvariant, TypeOK
  <2>3. Stranded' \subseteq Stranded \union {cur[w].row}
    BY <2>1 DEF Stranded
  <2>4. CASE InFlight(w) => InFlight(w)' \/ queue[cur[w].row].status = "absent"
    BY <1>1, <2>1, <2>2, <2>4 DEF Stranded
  <2> QED
    BY <2>1, <2>3, <2>4
<1>8. CASE UNCHANGED vars
  BY <1>1, <1>8 DEF vars, Stranded, InFlight
<1> QED
  BY <1>1, <1>2, <1>3, <1>4, <1>5, <1>6, <1>7, <1>8 DEF Next, Process

\* Deliveries stuck in sending are paid for by crashes and failed statements,
\* one each: no race between instances, stale batch or deletion strands a row.
THEOREM OnlyFaultsStrandRows == Spec => []StrandedOnlyByFaults
<1>1. Init => StrandedIsBounded
  <2> SUFFICES ASSUME Init PROVE StrandedIsBounded
    OBVIOUS
  <2>1. Stranded = {} /\ spent.crash = 0 /\ spent.db = 0
    BY DEF Init, Stranded, Absent
  <2> QED
    BY <2>1, FS_EmptySet DEF StrandedIsBounded, StrandedOnlyByFaults
<1>2. ClaimInvariant /\ StrandedIsBounded /\ [Next]_vars => StrandedIsBounded'
  <2> SUFFICES ASSUME ClaimInvariant, StrandedIsBounded, [Next]_vars
               PROVE  StrandedIsBounded'
    OBVIOUS
  <2> DEFINE faults == spent.crash + spent.db
  <2>1. /\ faults \in Nat /\ faults' \in Nat
        /\ IsFiniteSet(Stranded) /\ Cardinality(Stranded) \in Nat
        /\ Cardinality(Stranded) <= faults
    BY TypeStep, FS_CardinalityType
       DEF ClaimInvariant, TypeOK, StrandedIsBounded, StrandedOnlyByFaults
  <2>2. CASE Stranded' \subseteq Stranded /\ faults' >= faults
    <3>1. IsFiniteSet(Stranded') /\ Cardinality(Stranded') <= Cardinality(Stranded)
      BY <2>1, <2>2, FS_Subset
    <3>2. Cardinality(Stranded') \in Nat
      BY <3>1, FS_CardinalityType
    <3> QED
      BY <2>1, <2>2, <3>1, <3>2 DEF StrandedIsBounded, StrandedOnlyByFaults
  <2>3. ASSUME NEW r, Stranded' \subseteq Stranded \union {r}, faults' = faults + 1
        PROVE  StrandedIsBounded'
    <3>1. PICK more : more = Stranded \union {r}
      OBVIOUS
    <3>2. IsFiniteSet(more) /\ Cardinality(more) <= Cardinality(Stranded) + 1
      <4>1. /\ IsFiniteSet(Stranded \union {r})
            /\ Cardinality(Stranded \union {r})
                 = IF r \in Stranded THEN Cardinality(Stranded) ELSE Cardinality(Stranded) + 1
        BY <2>1, FS_AddElement
      <4> QED
        BY <2>1, <3>1, <4>1
    <3>3. IsFiniteSet(Stranded') /\ Cardinality(Stranded') <= Cardinality(more)
      BY <2>3, <3>1, <3>2, FS_Subset
    <3>4. Cardinality(Stranded') \in Nat /\ Cardinality(more) \in Nat
      BY <3>2, <3>3, FS_CardinalityType
    <3> QED
      BY <2>1, <2>3, <3>2, <3>3, <3>4 DEF StrandedIsBounded, StrandedOnlyByFaults
  <2> QED
    BY <2>2, <2>3, StrandedStep
<1>3. StrandedIsBounded => StrandedOnlyByFaults
  BY DEF StrandedIsBounded
<1> QED
  BY <1>1, <1>2, <1>3, ClaimInvariantHolds, PTL DEF Spec

-----------------------------------------------------------------------------
(* One instance: the retry policy and the backoff.                         *)

\* A queued row shows exactly the attempts made and has one left; a row not yet
\* inserted was never tried.
RowsAreCounted ==
  \A r \in Rows :
    /\ tries[r] = 0 \/ \E max \in sink[r[1]].had : tries[r] <= max
    /\ queue[r].status = "queued" =>
         /\ tries[r] = queue[r].attempts
         /\ \E max \in sink[r[1]].had : tries[r] < max
    /\ queue[r].status = "absent" /\ ~RemovedRow(r) => tries[r] = 0

\* Nothing but the worker itself overtakes its batch: each row in it is still
\* queued and due with the count that was read, or was removed; it is in the
\* batch once, and not the row in hand.
BatchesAreFresh ==
  \A w \in Workers :
    /\ \A snap \in batch[w] :
         /\ \/ /\ queue[snap.row].status = "queued"
               /\ queue[snap.row].due
               /\ queue[snap.row].attempts = snap.attempts
            \/ RemovedRow(snap.row)
         /\ \A other \in batch[w] : other.row = snap.row => other = snap
         /\ InFlight(w) => cur[w].row # snap.row
    /\ InFlight(w) => tries[cur[w].row] = cur[w].attempts + 1

PolicyKept == RowsAreCounted /\ BatchesAreFresh

LEMMA PolicyStep ==
  ASSUME \A v, w \in Workers : v = w,
         ClaimInvariant, PoliciesRecorded, PolicyKept, [Next]_vars
  PROVE  PolicyKept'
<1> USE DEF PolicyKept
<1>1. /\ tries \in [Rows -> Nat]
      /\ \A r \in Rows : queue[r].attempts \in Nat
      /\ \A w \in Workers : \A snap \in batch[w] :
           snap \in Snapshots /\ snap.row \in Rows /\ snap.attempts \in Nat
      /\ \A w \in Workers : InFlight(w) =>
           /\ cur[w].row \in Rows /\ cur[w].attempts \in Nat
           /\ cur[w].max \in Policies /\ cur[w].max \in Nat
  <2>1. \A snap \in Snapshots : /\ snap.row \in Rows /\ snap.attempts \in Nat
                                /\ snap.max \in Policies /\ snap.max \in Nat
    BY PolicyAssumption DEF Snapshots
  <2>2. TypeOK
    BY DEF ClaimInvariant
  <2> QED
    BY <2>1, <2>2 DEF TypeOK
<1>2. \A max \in Policies : max \in Nat /\ 0 < max
  BY PolicyAssumption
<1>3. \A r \in Rows : RemovedRow(r) => RemovedRow(r)'
  BY RemovedIsStable
<1>4. \A r \in Rows : RemovedRow(r) => queue[r].status = "absent"
  BY DEF ClaimInvariant, RowsHaveParents, RemovedRow, Exists
<1>0. \A r \in Rows : /\ sink[r[1]].had \subseteq sink'[r[1]].had
                     /\ sink'[r[1]].had \subseteq Policies
  BY RowParts, RecordsGrow
<1>5. ASSUME UNCHANGED <<sink, log, queue, tries>>,
             \A v \in Workers : batch'[v] \subseteq batch[v],
             \A v \in Workers : InFlight(v)' => InFlight(v) /\ cur'[v] = cur[v]
      PROVE  PolicyKept'
  BY <1>5 DEF RowsAreCounted, BatchesAreFresh, RemovedRow
<1>6. CASE Produce \/ \E q \in Rows : BecomeDue(q)
  <2>1. /\ UNCHANGED <<pc, batch, cur, tries>>
        /\ \A r \in Rows : RowPassive(r)
    BY <1>6, PassiveEffect
  <2>2. \A r \in Rows : queue'[r].status # "absent" =>
                          \E max \in sink'[r[1]].had : 0 < max
    <3>1. ClaimInvariant' /\ PoliciesRecorded'
      BY ClaimInvariantStep, RecordsStep
    <3>2. \A r \in Rows : queue'[r].status # "absent" =>
                            sink'[r[1]].max \in sink'[r[1]].had
      BY <3>1, RowParts DEF ClaimInvariant, RowsHaveParents, PoliciesRecorded
    <3> QED
      BY <1>2, <1>0, <3>2
  <2>3. RowsAreCounted'
    BY <1>3, <1>0, <2>1, <2>2 DEF RowsAreCounted, RowPassive, Absent
  <2>4. \A w \in Workers : (InFlight(w)' <=> InFlight(w)) /\ cur'[w] = cur[w]
    BY <2>1 DEF InFlight
  <2>5. \A w \in Workers : \A snap \in batch[w] :
          \/ /\ queue'[snap.row].status = "queued"
             /\ queue'[snap.row].due
             /\ queue'[snap.row].attempts = snap.attempts
          \/ RemovedRow(snap.row)'
    BY <1>1, <1>3, <2>1 DEF BatchesAreFresh, RowPassive
  <2>6. BatchesAreFresh'
    BY <2>1, <2>4, <2>5 DEF BatchesAreFresh
  <2> QED
    BY <2>3, <2>6
<1>7. ASSUME NEW w \in Workers, ReadBatch(w) PROVE PolicyKept'
  <2>1. /\ UNCHANGED <<sink, log, queue, cur, tries>>
        /\ \A v \in Workers : InFlight(v)' <=> InFlight(v)
        /\ ~InFlight(w)
        /\ \A snap \in batch'[w] :
             /\ snap \in Snapshots
             /\ queue[snap.row].status = "queued" /\ queue[snap.row].due
             /\ snap.attempts = queue[snap.row].attempts
             /\ snap = Snapshot(snap.row)
    BY <1>7, ReadEffect
  <2>2. RowsAreCounted'
    BY <2>1 DEF RowsAreCounted, RemovedRow
  <2>3. \A v \in Workers : v = w
    BY <1>7
  <2>4. BatchesAreFresh'
    BY <2>1, <2>3 DEF BatchesAreFresh
  <2> QED
    BY <2>2, <2>4
<1>8. ASSUME NEW w \in Workers, Claim(w) PROVE PolicyKept'
  <2>1. PICK snap \in batch[w] :
          /\ snap.row \in Rows
          /\ queue[snap.row].status = "queued"
          /\ queue'[snap.row].status = "sending"
          /\ tries'[snap.row] = tries[snap.row] + 1
          /\ \A r \in Rows : r # snap.row => queue'[r] = queue[r]
                                             /\ tries'[r] = tries[r]
          /\ cur'[w] = snap /\ batch'[w] = batch[w] \ {snap}
          /\ InFlight(w)' /\ ~InFlight(w)
          /\ UNCHANGED <<sink, log>>
    BY <1>8, ClaimEffect
  <2>2. \A v \in Workers : v = w
    BY <1>8
  <2>3. /\ queue[snap.row].attempts = snap.attempts
        /\ tries[snap.row] = snap.attempts
        /\ \E max \in sink'[snap.row[1]].had : tries[snap.row] < max
    BY <1>4, <2>1 DEF BatchesAreFresh, RowsAreCounted
  <2>4. \E max \in sink'[snap.row[1]].had : tries'[snap.row] <= max
    BY <1>1, <1>2, <1>0, <2>1, <2>3
  <2>5. RowsAreCounted'
    BY <2>1, <2>4 DEF RowsAreCounted, RemovedRow
  <2>6. \A s \in batch'[w] : s \in batch[w] /\ s.row # snap.row /\ s.row \in Rows
    BY <1>1, <2>1 DEF BatchesAreFresh
  <2>7. BatchesAreFresh'
    BY <2>1, <2>2, <2>3, <2>6 DEF BatchesAreFresh, RemovedRow
  <2> QED
    BY <2>5, <2>7
<1>9. ASSUME NEW w \in Workers,
             PostAccepted(w) \/ PostFailed(w) \/ MarkDeliveredThrows(w)
      PROVE  PolicyKept'
  BY <1>5, <1>9, PostEffect
<1>10. ASSUME NEW w \in Workers, MarkDelivered(w) \/ MarkFailedOrRetry(w)
       PROVE  PolicyKept'
  <2> DEFINE row == cur[w].row
  <2>1. /\ InFlight(w) /\ ~InFlight(w)' /\ row \in Rows
        /\ queue'[row].attempts = cur[w].attempts + 1
        /\ queue'[row].status \in {"delivered", "queued", "failed"}
        /\ queue'[row].status = "queued" => cur[w].attempts + 1 < cur[w].max
        /\ \A r \in Rows : r # row => queue'[r] = queue[r]
        /\ UNCHANGED <<sink, log, batch, tries>>
    BY <1>10, SettleEffect
  <2>2. \A v \in Workers : v = w
    BY <1>10
  <2>3. /\ tries[row] = cur[w].attempts + 1
        /\ \A s \in batch[w] : s.row # row
        /\ cur[w].max \in sink[row[1]].had
    BY <2>1 DEF BatchesAreFresh, PoliciesRecorded
  <2>4. RowsAreCounted'
    BY <1>1, <2>1, <2>3 DEF RowsAreCounted, RemovedRow
  <2>5. BatchesAreFresh'
    BY <1>1, <2>1, <2>2, <2>3 DEF BatchesAreFresh, RemovedRow
  <2> QED
    BY <2>4, <2>5
<1>11. ASSUME NEW w \in Workers,
              \/ SkipRow(w) \/ FinishBatch(w) \/ AbortRowGone(w)
              \/ AbortDbError(w) \/ Crash(w)
       PROVE  PolicyKept'
  BY <1>5, <1>11, DropEffect
<1>12. CASE UNCHANGED vars
  BY <1>5, <1>12 DEF vars, InFlight
<1> QED
  BY <1>6, <1>7, <1>8, <1>9, <1>10, <1>11, <1>12 DEF Next, Process

LEMMA PolicyInit == Init => PolicyKept
<1> SUFFICES ASSUME Init PROVE PolicyKept
  OBVIOUS
<1>1. \A r \in Rows : tries[r] = 0 /\ queue[r].status = "absent"
  BY DEF Init, Absent
<1>2. RowsAreCounted
  BY <1>1 DEF RowsAreCounted
<1> QED
  BY <1>2 DEF Init, PolicyKept, BatchesAreFresh, InFlight

LEMMA PolicyHolds ==
  ASSUME \A v, w \in Workers : v = w
  PROVE  Spec => []PolicyKept
<1>1. ClaimInvariant /\ PoliciesRecorded /\ PolicyKept /\ [Next]_vars => PolicyKept'
  BY PolicyStep
<1> QED
  BY <1>1, PolicyInit, ClaimInvariantHolds, RecordsHold, PTL DEF Spec

\* With one instance no row is tried more often than the largest max_attempts
\* its sink was stored with, whatever the administrators, crashes and failed statements do.
THEOREM OneInstanceKeepsThePolicy ==
  ASSUME \A v, w \in Workers : v = w
  PROVE  Spec => []TriesWithinPolicy
<1>1. PolicyKept => TriesWithinPolicy
  BY DEF PolicyKept, RowsAreCounted, TriesWithinPolicy
<1> QED
  BY <1>1, PolicyHolds, PTL

\* With one instance no row is claimed before its backoff has passed.
THEOREM OneInstanceWaitsForTheBackoff ==
  ASSUME \A v, w \in Workers : v = w
  PROVE  Spec => BackoffRespected
<1>1. ClaimInvariant /\ PolicyKept /\ [Next]_vars =>
        [\A r \in Rows : tries'[r] # tries[r] => queue[r].due]_vars
  <2> SUFFICES ASSUME ClaimInvariant, PolicyKept, [Next]_vars,
                      NEW r \in Rows, tries'[r] # tries[r]
               PROVE  queue[r].due
    OBVIOUS
  <2>1. PICK w \in Workers : Claim(w)
    BY PassiveEffect, ReadEffect, PostEffect, SettleEffect, DropEffect
       DEF Next, Process, vars
  <2>2. PICK snap \in batch[w] :
          /\ snap.row \in Rows
          /\ queue[snap.row].status = "queued"
          /\ \A q \in Rows : q # snap.row => tries'[q] = tries[q]
    BY <2>1, ClaimEffect
  <2>3. ~RemovedRow(snap.row)
    BY <2>2 DEF ClaimInvariant, RowsHaveParents, RemovedRow, Exists
  <2> QED
    BY <2>2, <2>3 DEF PolicyKept, BatchesAreFresh
<1> QED
  BY <1>1, PolicyHolds, ClaimInvariantHolds, PTL DEF Spec, BackoffRespected
=============================================================================
