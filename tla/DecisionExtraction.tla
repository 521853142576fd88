------------------------- MODULE DecisionExtraction -------------------------
(***************************************************************************)
(* From commits to decision memories: captureRawEventHandler stores a raw  *)
(* event and starts a batch of its own; a batch reads the newest events,   *)
(* asks a model about those not yet processed, stores a decision memory    *)
(* and marks the event in its metadata (git-events-helpers.ts,             *)
(* decision-extraction-helpers.ts).                                        *)
(*                                                                         *)
(* Nothing serializes the batches: those of several commits, and of        *)
(* several instances, run at once over one table, one statement at a time. *)
(* The metadata is written back as the batch read it, so every write that  *)
(* does not mark an event takes the mark away.                             *)
(*                                                                         *)
(* Abstracted: one workspace; commits and merges only (no batch reads a    *)
(* checkout); the keyword scores of the hybrid mode (any order); how the   *)
(* model's providers are tried, and the text, status and confidence of a   *)
(* decision; settings that raise decisionBackfillDays (aged events would   *)
(* come back into the scan).                                               *)
(***************************************************************************)
EXTENDS Naturals, FiniteSets

CONSTANTS
  MaxEvents,   \* bound: commits
  BatchSize,   \* decisionBatchSize
  ScanLimit,   \* min(8 * decisionBatchSize, MAX_SCAN_LIMIT)
  MaxTroubles  \* bound: answers that are missing, statements that fail

ASSUME DecisionAssumption ==
  /\ MaxEvents \in Nat /\ MaxTroubles \in Nat
  /\ BatchSize \in Nat \ {0} /\ ScanLimit \in Nat \ {0}

VARIABLES
  captured,  \* raw events stored so far, numbered as they come
  aged,      \* those of them older than decisionBackfillDays
  processed, \* metadata.decision_extraction_processed
  memories,  \* decision memories made from an event
  batch,     \* the batch each event has started
  enabled,   \* enableDecisionExtraction
  hybrid,    \* decisionExtractionMode is hybrid_priority
  troubles,  \* history: what kept a batch from making progress
  dismissed, \* history: events the model found no decision in
  shared,    \* history: events two batches had in hand at once
  broken     \* history: events whose decision was stored and not marked

table == <<captured, aged, processed, memories>>
settings == <<enabled, hybrid>>
history == <<dismissed, shared, broken>>
vars == <<table, batch, settings, troubles, history>>

Events == 1..MaxEvents
Nil == 0
Places == {"idle", "queued", "config", "note", "next", "unanswered", "dismiss",
           "create", "mark", "catch"}
Batch == [at : Places, todo : SUBSET Events, event : Events \union {Nil}]
NoBatch == [at |-> "idle", todo |-> {}, event |-> Nil]

\* A batch in each place of the code has what it needs there.
WellFormed(r, b) ==
  /\ r \in Batch
  /\ r.at # "idle" => b <= captured
  /\ r.at \in {"idle", "queued"} => r.todo = {}
  /\ r.at \in {"note", "config", "next"} => r.todo # {}
  /\ r.event # Nil <=> r.at \in {"unanswered", "dismiss", "create", "mark", "catch"}
  /\ r.event \notin r.todo
  /\ \A e \in r.todo \union {r.event} : e <= captured

TypeOK ==
  /\ captured \in 0..MaxEvents /\ aged \in 0..captured
  /\ processed \in [Events -> BOOLEAN] /\ memories \in [Events -> Nat]
  /\ batch \in [Events -> Batch] /\ \A b \in Events : WellFormed(batch[b], b)
  /\ enabled \in BOOLEAN /\ hybrid \in BOOLEAN
  /\ troubles \in Nat
  /\ dismissed \subseteq Events /\ shared \subseteq Events /\ broken \subseteq Events

Holds(b, e) == e \in batch[b].todo \/ e = batch[b].event
Running(b) == batch[b].at \notin {"idle", "queued"}

\* What a batch reads: the newest events, but none past the backfill days.
Scanned == {e \in Events : aged < e /\ e <= captured /\ captured < e + ScanLimit}
Unprocessed == {e \in Scanned : ~processed[e]}

-----------------------------------------------------------------------------
(* Commits.                                                                *)

\* The audit row, the integrations and the activity memory come before the batch
\* is started; when one of them fails, the event stays without one.
Capture ==
  /\ captured < MaxEvents
  /\ captured' = captured + 1
  /\ \/ /\ enabled
        /\ batch' = [batch EXCEPT ![captured + 1].at = "queued"]
        /\ UNCHANGED troubles
     \/ /\ ~enabled \/ troubles < MaxTroubles
        /\ troubles' = troubles + 1
        /\ UNCHANGED batch
  /\ UNCHANGED <<aged, processed, memories, settings, history>>

Age ==
  /\ aged < captured
  /\ aged' = aged + 1
  /\ UNCHANGED <<captured, processed, memories, batch, settings, troubles, history>>

ChangeSettings ==
  /\ enabled' \in BOOLEAN /\ hybrid' \in BOOLEAN
  /\ UNCHANGED <<table, batch, troubles, history>>

-----------------------------------------------------------------------------
(* A batch.                                                                *)

\* Mutant: the batch is cut off before the processed ones are left out.
FirstOfScanned(S) ==
  \E T \in SUBSET Scanned :
    /\ \A e \in Scanned \ T, f \in T : e < f
    /\ Cardinality(T) = (IF Cardinality(Scanned) < BatchSize
                         THEN Cardinality(Scanned) ELSE BatchSize)
    /\ S = T \intersect Unprocessed

\* candidates.slice(0, decisionBatchSize): the newest, or those of highest score.
Chosen(S) ==
  /\ S \subseteq Unprocessed
  /\ Cardinality(S) <= BatchSize
  /\ S = Unprocessed \/ Cardinality(S) = BatchSize
  /\ hybrid \/ \A e \in Unprocessed \ S, f \in S : e < f

\* Mutant: what other batches have processed is taken again.
ReadProcessed(b) ==
  /\ batch[b].at = "queued" /\ enabled /\ Scanned # {}
  /\ batch' = [batch EXCEPT ![b].at = "config", ![b].todo = Scanned]
  /\ shared' = shared \union {e \in Scanned : \E c \in Events \ {b} : Holds(c, e)}
  /\ troubles' = IF \E c \in Events \ {b} : Running(c) THEN troubles + 1 ELSE troubles
  /\ UNCHANGED <<table, settings, dismissed, broken>>

\* Mutant: a batch that finds nothing goes on.
ReadAnyway(b) ==
  /\ batch[b].at = "queued" /\ enabled
  /\ \E S \in SUBSET Unprocessed :
       /\ Chosen(S)
       /\ batch' = [batch EXCEPT ![b] = [NoBatch EXCEPT !.at = "config", !.todo = S]]
       /\ shared' = shared \union {e \in S : \E c \in Events \ {b} : Holds(c, e)}
  /\ troubles' = IF \E c \in Events \ {b} : Running(c) THEN troubles + 1 ELSE troubles
  /\ UNCHANGED <<table, settings, dismissed, broken>>

Read(b) ==
  /\ batch[b].at = "queued" /\ enabled
  /\ \E S \in SUBSET Unprocessed :
       /\ Chosen(S)
       /\ batch' = [batch EXCEPT ![b] =
            IF S = {} THEN NoBatch ELSE [NoBatch EXCEPT !.at = "config", !.todo = S]]
       /\ shared' = shared \union {e \in S : \E c \in Events \ {b} : Holds(c, e)}
  /\ troubles' = IF \E c \in Events \ {b} : Running(c) THEN troubles + 1 ELSE troubles
  /\ UNCHANGED <<table, settings, dismissed, broken>>

\* The extraction was switched off meanwhile.
ReadDisabled(b) ==
  /\ batch[b].at = "queued" /\ ~enabled
  /\ batch' = [batch EXCEPT ![b] = NoBatch]
  /\ troubles' = troubles + 1
  /\ UNCHANGED <<table, settings, history>>

GetConfig(b) ==
  /\ batch[b].at = "config"
  /\ \/ batch' = [batch EXCEPT ![b].at = "next"]
     \/ troubles < MaxTroubles /\ batch' = [batch EXCEPT ![b].at = "note"]
  /\ UNCHANGED <<table, settings, troubles, history>>

\* markBatchAttemptWithoutLlm, all events at once.
NoteAttempt(b, e) ==
  LET rest == batch[b].todo \ {e} IN
  /\ batch[b].at = "note" /\ e \in batch[b].todo
  /\ batch' = [batch EXCEPT ![b] =
       IF rest = {} THEN NoBatch ELSE [@ EXCEPT !.todo = rest]]
  /\ processed' = [processed EXCEPT ![e] = FALSE]
  /\ troubles' = troubles + 1
  /\ UNCHANGED <<captured, aged, memories, settings, history>>

\* The model answers that it is a decision, that it is not, or nothing of use. The
\* newest event of the batch comes first, or in hybrid mode that of highest score:
\* any order.
Classify(b, e) ==
  /\ batch[b].at = "next" /\ e \in batch[b].todo
  /\ \E answer \in {"create", "dismiss", "unanswered"} :
       /\ answer = "unanswered" => troubles < MaxTroubles
       /\ batch' = [batch EXCEPT ![b] =
            [at |-> answer, todo |-> @.todo \ {e}, event |-> e]]
  /\ UNCHANGED <<table, settings, troubles, history>>

\* Write the event's metadata, as it was read but for the mark, and go on.
WriteBack(b, mark) ==
  /\ processed' = [processed EXCEPT ![batch[b].event] = mark]
  /\ batch' = [batch EXCEPT ![b] =
       IF @.todo = {} THEN NoBatch ELSE [@ EXCEPT !.at = "next", !.event = Nil]]
  /\ UNCHANGED <<captured, aged, memories, settings>>

\* No valid response, or an error that was caught.
WriteUnanswered(b) ==
  /\ batch[b].at \in {"unanswered", "catch"}
  /\ WriteBack(b, FALSE)
  /\ troubles' = troubles + 1
  /\ UNCHANGED history

WriteDismissed(b) ==
  /\ batch[b].at = "dismiss"
  /\ WriteBack(b, TRUE)
  /\ dismissed' = dismissed \union {batch[b].event}
  /\ UNCHANGED <<troubles, shared, broken>>

\* Mutant: the event is marked before its memory is stored.
MarkFirst(b) ==
  /\ batch[b].at = "create"
  /\ processed' = [processed EXCEPT ![batch[b].event] = TRUE]
  /\ batch' = [batch EXCEPT ![b].at = "mark"]
  /\ UNCHANGED <<captured, aged, memories, settings, troubles, history>>

CreateMemory(b) ==
  /\ batch[b].at = "create"
  /\ memories' = [memories EXCEPT ![batch[b].event] = @ + 1]
  /\ batch' = [batch EXCEPT ![b].at = "mark"]
  /\ UNCHANGED <<captured, aged, processed, settings, troubles, history>>

MarkProcessed(b) ==
  /\ batch[b].at = "mark"
  /\ WriteBack(b, TRUE)
  /\ UNCHANGED <<troubles, history>>

Breaks(b) ==
  broken' = IF batch[b].at = "mark" THEN broken \union {batch[b].event} ELSE broken

\* A statement of processEventWithLlm fails, or computing the embedding does.
Throw(b) ==
  /\ batch[b].at \in {"unanswered", "dismiss", "create", "mark"}
  /\ troubles < MaxTroubles
  /\ batch' = [batch EXCEPT ![b].at = "catch"]
  /\ Breaks(b)
  /\ UNCHANGED <<table, settings, troubles, dismissed, shared>>

\* A statement outside it fails, or the process dies: the batch is gone.
Die(b) ==
  /\ batch[b].at # "idle" /\ troubles < MaxTroubles
  /\ batch' = [batch EXCEPT ![b] = NoBatch]
  /\ troubles' = troubles + 1
  /\ Breaks(b)
  /\ UNCHANGED <<table, settings, dismissed, shared>>

-----------------------------------------------------------------------------
Init ==
  /\ captured = 0 /\ aged = 0
  /\ processed = [e \in Events |-> FALSE] /\ memories = [e \in Events |-> 0]
  /\ batch = [b \in Events |-> NoBatch]
  /\ enabled \in BOOLEAN /\ hybrid \in BOOLEAN
  /\ troubles = 0 /\ dismissed = {} /\ shared = {} /\ broken = {}

BatchStep(b) ==
  \/ Read(b) \/ ReadDisabled(b) \/ GetConfig(b)
  \/ \E e \in Events : NoteAttempt(b, e) \/ Classify(b, e)
  \/ WriteUnanswered(b) \/ WriteDismissed(b) \/ CreateMemory(b) \/ MarkProcessed(b)
  \/ Throw(b)

Next ==
  \/ Capture \/ Age \/ ChangeSettings
  \/ \E b \in Events : BatchStep(b) \/ Die(b)

Spec == Init /\ [][Next]_vars

-----------------------------------------------------------------------------
(* Properties.                                                             *)

\* A mark never hides a decision: what is processed has its memory, or the model
\* found no decision in it.
MarkedIsDone ==
  \A e \in Events : processed[e] => memories[e] > 0 \/ e \in dismissed

\* A commit gets a second decision only after two batches had it in hand at once,
\* or its decision was stored and the batch failed before it was marked.
DuplicatesHaveACause ==
  \A e \in Events : memories[e] > 1 => e \in shared \union broken

\* What waits in the scanned part of the table is no more than the batches still to
\* come or running, and what has gone wrong: a commit without a batch, a batch that
\* died or overlapped another, an event left without an answer.
BacklogIsExplained ==
  Cardinality(Unprocessed)
    <= Cardinality({b \in Events : batch[b].at # "idle"}) + troubles

\* A mark is taken away only from an event that two batches had in hand at once.
MarksAreKept ==
  [][\A e \in Events : processed[e] /\ ~processed'[e] => e \in shared]_vars
=============================================================================
