--------------------- MODULE DecisionExtraction_proofs ---------------------
(***************************************************************************)
(* What holds of the extraction batches for any number of commits, any     *)
(* batch size and any scan limit: marks tell the truth, only an overlap    *)
(* takes one away, and only an overlap or a failure after the decision was *)
(* stored makes a second decision of one commit; no more events stay open  *)
(* than batches and troubles account for.                                  *)
(***************************************************************************)
EXTENDS DecisionExtraction, FiniteSetTheorems, TLAPS

\* An event in one batch's hands only is not marked, and nothing else has it.
HeldIsOpen ==
  \A e \in Events \ shared : \A b \in Events : Holds(b, e) =>
    /\ ~processed[e]
    /\ \A c \in Events : Holds(c, e) => c = b

\* A batch about to mark an event has stored its decision.
MarkIsReady ==
  \A b \in Events : batch[b].at = "mark" => memories[batch[b].event] > 0

\* The one decision of an event is marked, or about to be.
StoredIsMarked ==
  \A e \in Events \ (shared \union broken) :
    /\ memories[e] <= 1
    /\ memories[e] = 1 =>
         processed[e] \/ \E b \in Events : batch[b].at = "mark" /\ batch[b].event = e

IInv == TypeOK /\ HeldIsOpen /\ MarkIsReady /\ StoredIsMarked /\ MarkedIsDone

USE DecisionAssumption DEF Events, Nil

LEMMA ChosenAreOpen ==
  ASSUME NEW S, Chosen(S)
  PROVE  \A e \in S : e \in Events /\ e <= captured /\ ~processed[e]
BY DEF Chosen, Unprocessed, Scanned

LEMMA InitOK == Init => IInv
<1> SUFFICES ASSUME Init PROVE IInv
  OBVIOUS
<1>1. TypeOK
  BY DEF Init, TypeOK, WellFormed, NoBatch, Batch, Places
<1>2. HeldIsOpen /\ MarkIsReady /\ StoredIsMarked /\ MarkedIsDone
  BY DEF Init, HeldIsOpen, MarkIsReady, StoredIsMarked, MarkedIsDone, Holds, NoBatch
<1> QED
  BY <1>1, <1>2 DEF IInv

-----------------------------------------------------------------------------
(* Types.                                                                  *)

\* Writing one batch that is well-formed keeps all of them so.
LEMMA OneBatch ==
  ASSUME TypeOK, NEW b \in Events, NEW r, WellFormed(r, b),
         batch' = [batch EXCEPT ![b] = r], UNCHANGED captured
  PROVE  batch' \in [Events -> Batch] /\ \A c \in Events : WellFormed(batch[c], c)'
BY DEF TypeOK, WellFormed

LEMMA NoBatchFits == ASSUME TypeOK, NEW b \in Events PROVE WellFormed(NoBatch, b)
<1>1. captured \in Nat /\ 0 <= captured
  BY DEF TypeOK
<1>2. NoBatch \in Batch
  BY DEF NoBatch, Batch, Places
<1> QED
  BY <1>1, <1>2 DEF WellFormed, NoBatch

LEMMA WriteBackType ==
  ASSUME TypeOK, NEW b \in Events, NEW mark \in BOOLEAN, WriteBack(b, mark),
         batch[b].event \in Events
  PROVE  /\ processed' \in [Events -> BOOLEAN]
         /\ batch' \in [Events -> Batch] /\ \A c \in Events : WellFormed(batch[c], c)'
<1> DEFINE r == IF batch[b].todo = {} THEN NoBatch
                ELSE [batch[b] EXCEPT !.at = "next", !.event = Nil]
<1>0. WellFormed(batch[b], b) /\ captured \in Nat
  BY DEF TypeOK
<1>1. WellFormed(r, b)
  <2>1. CASE batch[b].todo = {}
    BY <2>1, NoBatchFits
  <2>2. CASE batch[b].todo # {}
    <3>1. /\ r \in Batch /\ r.at = "next" /\ r.todo = batch[b].todo /\ r.event = Nil
      BY <1>0, <2>2 DEF WellFormed, Batch, Places
    <3>2. Nil \notin batch[b].todo
      BY <1>0 DEF WellFormed, Batch
    <3>3. b <= captured /\ \A e \in batch[b].todo \union {Nil} : e <= captured
      BY <1>0 DEF WellFormed, Batch
    <3> HIDE DEF r
    <3> QED
      BY <2>2, <3>1, <3>2, <3>3 DEF WellFormed
  <2> QED
    BY <2>1, <2>2
<1>2. batch' = [batch EXCEPT ![b] = r] /\ UNCHANGED captured
  BY DEF WriteBack
<1> HIDE DEF r
<1>3. processed' \in [Events -> BOOLEAN]
  BY DEF WriteBack, TypeOK
<1> QED
  BY <1>1, <1>2, <1>3, OneBatch

\* Moving a batch to another place of the same kind.
LEMMA Moved ==
  ASSUME TypeOK, NEW b \in Events, NEW p \in Places,
         \/ batch[b].at \in {"config"} /\ p \in {"next", "note"}
         \/ /\ batch[b].at \in {"unanswered", "dismiss", "create", "mark"}
            /\ p \in {"mark", "catch"},
         batch' = [batch EXCEPT ![b].at = p], UNCHANGED captured
  PROVE  batch' \in [Events -> Batch] /\ \A c \in Events : WellFormed(batch[c], c)'
<1> DEFINE r == [batch[b] EXCEPT !.at = p]
<1>0. WellFormed(batch[b], b) /\ captured \in Nat
  BY DEF TypeOK
<1>1. /\ r \in Batch /\ r.at = p /\ r.todo = batch[b].todo /\ r.event = batch[b].event
  BY <1>0 DEF WellFormed, Batch
<1>2. batch' = [batch EXCEPT ![b] = r]
  BY DEF TypeOK
<1> HIDE DEF r
<1>3. WellFormed(r, b)
  BY <1>0, <1>1 DEF WellFormed
<1> QED
  BY <1>2, <1>3, OneBatch

LEMMA CaptureType == ASSUME TypeOK, Capture PROVE TypeOK'
<1>0. PICK n \in Events : n = captured + 1
  BY DEF TypeOK, Capture
<1>1. n \in Events /\ captured \in Nat /\ captured' = n
  BY <1>0 DEF TypeOK, Capture
<1>2. ~(n <= captured)
  BY <1>0, <1>1
<1>3. batch[n].at = "idle" /\ batch[n] \in Batch /\ batch[n].todo = {} /\ batch[n].event = Nil
  BY <1>1, <1>2 DEF TypeOK, WellFormed
<1>4. \A c \in Events : WellFormed(batch[c], c) => WellFormed(batch[c], c)' \/ batch'[c] # batch[c]
  BY <1>0, <1>1 DEF WellFormed, TypeOK, Batch
<1>5. batch' \in [Events -> Batch] /\ \A c \in Events : WellFormed(batch[c], c)'
  <2>1. CASE UNCHANGED batch
    BY <2>1, <1>4 DEF TypeOK
  <2>2. CASE batch' = [batch EXCEPT ![n].at = "queued"]
    <3>0. /\ batch'[n].at = "queued" /\ batch'[n].todo = {} /\ batch'[n].event = Nil
          /\ batch'[n] \in Batch
      BY <2>2, <1>1, <1>3 DEF TypeOK, Batch, Places
    <3>1. WellFormed(batch[n], n)'
      BY <3>0, <1>1 DEF WellFormed
    <3>2. \A c \in Events \ {n} : batch'[c] = batch[c] /\ WellFormed(batch[c], c)'
      BY <2>2, <1>1, <1>4 DEF TypeOK
    <3>3. batch' \in [Events -> Batch]
      BY <2>2, <1>1, <1>3 DEF TypeOK, Batch, Places
    <3> QED
      BY <3>1, <3>2, <3>3
  <2> QED
    BY <2>1, <2>2, <1>0 DEF Capture
<1>6. captured' \in 0..MaxEvents /\ aged' \in 0..captured'
  BY <1>0, <1>1 DEF TypeOK, Capture
<1>7. troubles' \in Nat
  BY DEF TypeOK, Capture
<1> QED
  BY <1>5, <1>6, <1>7 DEF TypeOK, Capture, settings, history

LEMMA BatchType ==
  ASSUME TypeOK, NEW b \in Events, BatchStep(b) \/ Die(b)
  PROVE  TypeOK'
<1> SUFFICES /\ batch' \in [Events -> Batch] /\ \A c \in Events : WellFormed(batch[c], c)'
             /\ processed' \in [Events -> BOOLEAN] /\ memories' \in [Events -> Nat]
             /\ dismissed' \subseteq Events /\ shared' \subseteq Events /\ broken' \subseteq Events
  <2>1. troubles' = troubles \/ troubles' = troubles + 1
    BY DEF BatchStep, Read, ReadDisabled, GetConfig, NoteAttempt, Classify,
       WriteUnanswered, WriteDismissed, CreateMemory, MarkProcessed, Throw, Die, settings, history
  <2>2. UNCHANGED <<captured, aged, enabled, hybrid>>
    BY DEF BatchStep, Read, ReadDisabled, GetConfig, NoteAttempt, Classify, WriteBack,
       WriteUnanswered, WriteDismissed, CreateMemory, MarkProcessed, Throw, Die, table, settings
  <2> QED
    BY <2>1, <2>2 DEF TypeOK
<1> USE DEF table, settings, history
<1>0. batch[b] \in Batch /\ WellFormed(batch[b], b)
  BY DEF TypeOK
<1>1. CASE Read(b)
  <2>1. PICK S \in SUBSET Unprocessed :
          /\ Chosen(S)
          /\ batch' = [batch EXCEPT ![b] =
               IF S = {} THEN NoBatch ELSE [NoBatch EXCEPT !.at = "config", !.todo = S]]
          /\ shared' = shared \union {e \in S : \E c \in Events \ {b} : Holds(c, e)}
    BY <1>1 DEF Read
  <2> DEFINE r == IF S = {} THEN NoBatch ELSE [NoBatch EXCEPT !.at = "config", !.todo = S]
  <2>2. \A e \in S : e \in Events /\ e <= captured
    BY <2>1, ChosenAreOpen
  <2>3. b <= captured
    BY <1>0, <1>1 DEF WellFormed, Read
  <2>4. WellFormed(r, b)
    <3>1. CASE S = {}
      BY <3>1, NoBatchFits
    <3>2. CASE S # {}
      <4>1. /\ r.at = "config" /\ r.todo = S /\ r.event = Nil
            /\ r \in Batch
        BY <3>2, <2>2 DEF NoBatch, Batch, Places
      <4>2. captured \in Nat
        BY DEF TypeOK
      <4> HIDE DEF r
      <4> QED
        BY <3>2, <2>2, <2>3, <4>1, <4>2 DEF WellFormed
    <3> QED
      BY <3>1, <3>2
  <2>5. batch' = [batch EXCEPT ![b] = r] /\ UNCHANGED captured
    BY <2>1, <1>1 DEF Read
  <2> HIDE DEF r
  <2>6. batch' \in [Events -> Batch] /\ \A c \in Events : WellFormed(batch[c], c)'
    BY <2>4, <2>5, OneBatch
  <2> QED
    BY <1>1, <2>1, <2>2, <2>6 DEF TypeOK, Read
<1>2. CASE ReadDisabled(b)
  BY <1>2, NoBatchFits, OneBatch DEF ReadDisabled, TypeOK
<1>3. CASE GetConfig(b)
  BY <1>3, Moved DEF GetConfig, TypeOK, Places
<1>4. ASSUME NEW e \in Events, NoteAttempt(b, e)
      PROVE  /\ batch' \in [Events -> Batch] /\ \A c \in Events : WellFormed(batch[c], c)'
             /\ processed' \in [Events -> BOOLEAN]
  <2> DEFINE rest == batch[b].todo \ {e}
             r == IF rest = {} THEN NoBatch ELSE [batch[b] EXCEPT !.todo = rest]
  <2>1. WellFormed(r, b)
    BY <1>0, <1>4, NoBatchFits DEF NoteAttempt, WellFormed, Batch, Places
  <2>2. batch' = [batch EXCEPT ![b] = r] /\ UNCHANGED captured
    BY <1>4 DEF NoteAttempt
  <2>3. processed' \in [Events -> BOOLEAN]
    BY <1>4 DEF NoteAttempt, TypeOK
  <2> HIDE DEF r
  <2> QED
    BY <2>1, <2>2, <2>3, OneBatch
<1>5. ASSUME NEW e \in Events, Classify(b, e)
      PROVE  batch' \in [Events -> Batch] /\ \A c \in Events : WellFormed(batch[c], c)'
  <2>1. PICK answer \in {"create", "dismiss", "unanswered"} :
          batch' = [batch EXCEPT ![b] = [at |-> answer, todo |-> @.todo \ {e}, event |-> e]]
    BY <1>5 DEF Classify
  <2> DEFINE r == [at |-> answer, todo |-> batch[b].todo \ {e}, event |-> e]
  <2>2. WellFormed(r, b)
    BY <1>0, <1>5 DEF Classify, WellFormed, Batch, Places
  <2>3. batch' = [batch EXCEPT ![b] = r]
    BY <2>1 DEF TypeOK
  <2> HIDE DEF r
  <2> QED
    BY <2>2, <2>3, <1>5, OneBatch DEF Classify
<1>6. CASE WriteUnanswered(b)
  <2>1. batch[b].event \in Events
    BY <1>0, <1>6 DEF WriteUnanswered, WellFormed, Batch
  <2> QED
    BY <1>6, <2>1, WriteBackType DEF WriteUnanswered, TypeOK, WriteBack
<1>7. CASE WriteDismissed(b)
  <2>1. batch[b].event \in Events
    BY <1>0, <1>7 DEF WriteDismissed, WellFormed, Batch
  <2> QED
    BY <1>7, <2>1, WriteBackType DEF WriteDismissed, TypeOK, WriteBack
<1>8. CASE CreateMemory(b)
  <2>0. batch[b].event \in Events
    BY <1>0, <1>8 DEF CreateMemory, WellFormed, Batch
  <2>1. memories' \in [Events -> Nat]
    BY <1>8, <2>0 DEF CreateMemory, TypeOK
  <2> QED
    BY <1>8, <2>1, Moved DEF CreateMemory, TypeOK, Places
<1>9. CASE MarkProcessed(b)
  <2>1. batch[b].event \in Events
    BY <1>0, <1>9 DEF MarkProcessed, WellFormed, Batch
  <2> QED
    BY <1>9, <2>1, WriteBackType DEF MarkProcessed, TypeOK, WriteBack
<1>10. ASSUME Breaks(b) PROVE broken' \subseteq Events
  BY <1>0, <1>10 DEF Breaks, TypeOK, WellFormed, Batch
<1>11. CASE Throw(b)
  BY <1>10, <1>11, Moved DEF Throw, TypeOK, Places
<1>12. CASE Die(b)
  BY <1>10, <1>12, NoBatchFits, OneBatch DEF Die, TypeOK
<1> QED
  BY <1>1, <1>2, <1>3, <1>4, <1>5, <1>6, <1>7, <1>8, <1>9, <1>11, <1>12
     DEF BatchStep, NoteAttempt, Classify, TypeOK

LEMMA StepType == ASSUME TypeOK, [Next]_vars PROVE TypeOK'
<1>1. CASE Capture
  BY <1>1, CaptureType
<1>2. CASE Age
  BY <1>2 DEF Age, TypeOK, WellFormed, settings, history
<1>3. CASE ChangeSettings
  BY <1>3 DEF ChangeSettings, TypeOK, WellFormed, table, history
<1>4. ASSUME NEW b \in Events, BatchStep(b) \/ Die(b) PROVE TypeOK'
  BY <1>4, BatchType
<1>5. CASE UNCHANGED vars
  BY <1>5 DEF TypeOK, WellFormed, vars, table, settings, history
<1> QED
  BY <1>1, <1>2, <1>3, <1>4, <1>5 DEF Next

-----------------------------------------------------------------------------
(* What a batch does to one event.                                         *)

\* What has happened so far is kept.
Kept ==
  /\ shared \subseteq shared' /\ broken \subseteq broken' /\ dismissed \subseteq dismissed'
  /\ \A e \in Events : memories'[e] >= memories[e]

\* An event is taken in hand by a read only, which finds it unmarked and knows
\* who else has it.
Takes(b, e) ==
  Holds(b, e)' /\ ~Holds(b, e) =>
    /\ ~processed[e] /\ ~processed'[e]
    /\ (\E c \in Events \ {b} : Holds(c, e)) => e \in shared'

\* An event is marked, unmarked and given a decision by one that has it in hand.
Writes(b, e) ==
  /\ processed'[e] /\ ~processed[e] =>
       /\ Holds(b, e) /\ ~Holds(b, e)'
       /\ memories'[e] > 0 \/ e \in dismissed'
  /\ processed[e] /\ ~processed'[e] => Holds(b, e)
  /\ memories'[e] # memories[e] =>
       /\ batch[b].at = "create" /\ batch[b].event = e /\ memories'[e] = memories[e] + 1
       /\ batch'[b].at = "mark" /\ batch'[b].event = e

\* A batch comes to the mark by storing a decision, and leaves it by marking the
\* event or by breaking off.
Marks(b, e) ==
  /\ batch'[b].at = "mark" /\ batch'[b].event = e =>
       batch[b] = batch'[b] \/ memories'[e] = memories[e] + 1
  /\ batch[b].at = "mark" /\ batch[b].event = e =>
       batch'[b] = batch[b] \/ processed'[e] \/ e \in broken'

LEMMA StepOfOne ==
  ASSUME TypeOK, NEW b \in Events, BatchStep(b) \/ Die(b)
  PROVE  \A c \in Events \ {b} : batch'[c] = batch[c]
BY DEF TypeOK, BatchStep, Read, ReadDisabled, GetConfig, NoteAttempt, Classify, WriteBack,
   WriteUnanswered, WriteDismissed, CreateMemory, MarkProcessed, Throw, Die, table

LEMMA StepEffect ==
  ASSUME TypeOK, MarkIsReady, NEW b \in Events, BatchStep(b) \/ Die(b)
  PROVE  Kept /\ \A e \in Events : Takes(b, e) /\ Writes(b, e) /\ Marks(b, e)
<1> USE DEF table, settings, history
<1>0. /\ batch \in [Events -> Batch] /\ batch[b] \in Batch /\ WellFormed(batch[b], b)
      /\ memories \in [Events -> Nat] /\ processed \in [Events -> BOOLEAN]
  BY DEF TypeOK
<1> DEFINE Goal == Kept /\ \A e \in Events : Takes(b, e) /\ Writes(b, e) /\ Marks(b, e)
<1>1. CASE Read(b)
  <2>1. PICK S \in SUBSET Unprocessed :
          /\ Chosen(S)
          /\ batch' = [batch EXCEPT ![b] =
               IF S = {} THEN NoBatch ELSE [NoBatch EXCEPT !.at = "config", !.todo = S]]
          /\ shared' = shared \union {e \in S : \E c \in Events \ {b} : Holds(c, e)}
    BY <1>1 DEF Read
  <2>2. /\ batch'[b].at \in {"idle", "config"} /\ batch'[b].todo = S /\ batch'[b].event = Nil
        /\ batch[b].at = "queued"
    BY <1>0, <1>1, <2>1 DEF NoBatch, Read
  <2>3. UNCHANGED <<processed, memories, dismissed, broken>>
    BY <1>1 DEF Read
  <2>4. \A e \in Events : Holds(b, e)' => ~processed[e] /\ e \in S
    BY <2>1, <2>2, ChosenAreOpen DEF Holds
  <2>5. Kept
    BY <2>1, <2>3, <1>0 DEF Kept
  <2>6. \A e \in Events : Takes(b, e)
    BY <2>1, <2>3, <2>4 DEF Takes
  <2>7. \A e \in Events : Writes(b, e) /\ Marks(b, e)
    BY <2>2, <2>3 DEF Writes, Marks
  <2> QED
    BY <2>5, <2>6, <2>7
<1>2. CASE ReadDisabled(b) \/ Die(b)
  <2>1. UNCHANGED <<processed, memories, dismissed, shared>>
    BY <1>2 DEF ReadDisabled, Die
  <2>2. batch'[b] = NoBatch /\ broken \subseteq broken'
    BY <1>2, <1>0 DEF ReadDisabled, Die, Breaks
  <2>3. batch[b].at = "mark" => batch[b].event \in broken'
    BY <1>2 DEF ReadDisabled, Die, Breaks
  <2>4. batch'[b].at = "idle" /\ batch'[b].todo = {} /\ batch'[b].event = Nil
    BY <2>2 DEF NoBatch
  <2>5. Kept
    BY <2>1, <2>2, <1>0 DEF Kept
  <2> QED
    BY <2>1, <2>3, <2>4, <2>5 DEF Takes, Writes, Marks, Holds
<1>3. CASE GetConfig(b)
  <2>1. UNCHANGED <<processed, memories, history>>
    BY <1>3 DEF GetConfig
  <2>2. /\ batch[b].at = "config" /\ batch'[b].at \in {"next", "note"}
        /\ batch'[b].todo = batch[b].todo /\ batch'[b].event = batch[b].event
    BY <1>3, <1>0 DEF GetConfig, Batch
  <2> QED
    BY <2>1, <2>2, <1>0 DEF Kept, Takes, Writes, Marks, Holds
<1>4. ASSUME NEW f \in Events, NoteAttempt(b, f) PROVE Goal
  <2>1. UNCHANGED <<memories, history>> /\ processed' = [processed EXCEPT ![f] = FALSE]
    BY <1>4 DEF NoteAttempt
  <2>2. /\ batch[b].at = "note" /\ f \in batch[b].todo /\ batch[b].event = Nil
        /\ batch'[b].at \in {"note", "idle"}
        /\ batch'[b].todo \subseteq batch[b].todo /\ batch'[b].event = Nil
    BY <1>4, <1>0 DEF NoteAttempt, Batch, WellFormed, NoBatch
  <2> QED
    BY <2>1, <2>2, <1>0 DEF Kept, Takes, Writes, Marks, Holds
<1>5. ASSUME NEW f \in Events, Classify(b, f) PROVE Goal
  <2>1. UNCHANGED <<processed, memories, history>>
    BY <1>5 DEF Classify
  <2>2. /\ batch[b].at = "next" /\ f \in batch[b].todo
        /\ batch'[b].at \in {"create", "dismiss", "unanswered"}
        /\ batch'[b].todo \subseteq batch[b].todo /\ batch'[b].event = f
    BY <1>5, <1>0 DEF Classify
  <2> QED
    BY <2>1, <2>2, <1>0 DEF Kept, Takes, Writes, Marks, Holds
<1>6. ASSUME NEW mark \in BOOLEAN, WriteBack(b, mark), UNCHANGED <<shared, broken>>,
             batch[b].at \in {"unanswered", "catch", "dismiss", "mark"},
             batch[b].at = "mark" => mark,
             dismissed' = dismissed \/ dismissed' = dismissed \union {batch[b].event},
             mark => memories[batch[b].event] > 0 \/ batch[b].event \in dismissed'
      PROVE  Goal
  <2>1. batch[b].event \in Events /\ batch[b].event \notin batch[b].todo
    BY <1>0, <1>6 DEF WellFormed, Batch
  <2>2. /\ batch'[b].at \in {"idle", "next"}
        /\ batch'[b].todo = batch[b].todo /\ batch'[b].event = Nil
    BY <1>6, <1>0 DEF WriteBack, NoBatch, Batch
  <2>3. UNCHANGED memories /\ processed' = [processed EXCEPT ![batch[b].event] = mark]
    BY <1>6 DEF WriteBack
  <2>4. Kept
    BY <2>3, <1>6, <1>0 DEF Kept
  <2>5. \A e \in Events : Takes(b, e)
    BY <2>2 DEF Takes, Holds
  <2>6. \A e \in Events : Marks(b, e)
    BY <2>1, <2>2, <2>3, <1>6, <1>0 DEF Marks
  <2>7. ASSUME NEW e \in Events PROVE Writes(b, e)
    <3>1. e # batch[b].event => processed'[e] = processed[e]
      BY <2>1, <2>3, <1>0
    <3>2. e = batch[b].event => processed'[e] = mark /\ Holds(b, e) /\ ~Holds(b, e)'
      BY <2>1, <2>2, <2>3, <1>0 DEF Holds
    <3> QED
      BY <2>3, <3>1, <3>2, <1>6 DEF Writes
  <2> QED
    BY <2>4, <2>5, <2>6, <2>7
<1>7. CASE WriteUnanswered(b)
  BY <1>6, <1>7 DEF WriteUnanswered
<1>8. CASE WriteDismissed(b)
  BY <1>6, <1>8 DEF WriteDismissed
<1>9. CASE MarkProcessed(b)
  BY <1>6, <1>9 DEF MarkProcessed, MarkIsReady
<1>10. CASE CreateMemory(b)
  <2>1. batch[b].event \in Events
    BY <1>0, <1>10 DEF CreateMemory, WellFormed, Batch
  <2>2. /\ UNCHANGED <<processed, history>> /\ batch[b].at = "create"
        /\ memories' = [memories EXCEPT ![batch[b].event] = @ + 1]
    BY <1>10 DEF CreateMemory
  <2>3. /\ batch'[b].at = "mark" /\ batch'[b].todo = batch[b].todo
        /\ batch'[b].event = batch[b].event
    BY <1>10, <1>0 DEF CreateMemory, Batch
  <2> QED
    BY <2>1, <2>2, <2>3, <1>0 DEF Kept, Takes, Writes, Marks, Holds
<1>11. CASE Throw(b)
  <2>1. UNCHANGED <<processed, memories, dismissed, shared>>
    BY <1>11 DEF Throw
  <2>2. /\ batch'[b].at = "catch" /\ batch'[b].todo = batch[b].todo
        /\ batch'[b].event = batch[b].event
    BY <1>11, <1>0 DEF Throw, Batch
  <2>3. broken \subseteq broken' /\ (batch[b].at = "mark" => batch[b].event \in broken')
    BY <1>11 DEF Throw, Breaks
  <2> QED
    BY <2>1, <2>2, <2>3, <1>0 DEF Kept, Takes, Writes, Marks, Holds
<1> QED
  BY <1>1, <1>2, <1>3, <1>4, <1>5, <1>7, <1>8, <1>9, <1>10, <1>11 DEF BatchStep

-----------------------------------------------------------------------------
(* The inductive invariant.                                                *)

LEMMA BatchKeeps ==
  ASSUME IInv, TypeOK', NEW b \in Events, BatchStep(b) \/ Die(b)
  PROVE  HeldIsOpen' /\ MarkIsReady' /\ StoredIsMarked' /\ MarkedIsDone'
<1>0. TypeOK /\ HeldIsOpen /\ MarkIsReady /\ StoredIsMarked /\ MarkedIsDone
  BY DEF IInv
<1>1. \A c \in Events \ {b} : batch'[c] = batch[c]
  BY <1>0, StepOfOne
<1>2. Kept /\ \A e \in Events : Takes(b, e) /\ Writes(b, e) /\ Marks(b, e)
  BY <1>0, StepEffect
<1>3. memories \in [Events -> Nat] /\ memories' \in [Events -> Nat]
  BY <1>0 DEF TypeOK
<1>4. \A c \in Events \ {b}, e \in Events : Holds(c, e)' <=> Holds(c, e)
  BY <1>1 DEF Holds
<1>5. ASSUME NEW e \in Events \ shared', NEW c \in Events, Holds(c, e)'
      PROVE  ~processed'[e] /\ \A d \in Events : Holds(d, e)' => d = c
  <2>0. e \notin shared
    BY <1>2, <1>5 DEF Kept
  <2>1. CASE c = b
    <3>1. CASE Holds(b, e)
      BY <1>0, <1>2, <1>4, <1>5, <2>0, <2>1, <3>1 DEF HeldIsOpen, Writes
    <3>2. CASE ~Holds(b, e)
      BY <1>2, <1>4, <1>5, <2>1, <3>2 DEF Takes
    <3> QED
      BY <3>1, <3>2
  <2>2. CASE c # b
    <3>1. Holds(c, e) /\ ~processed[e] /\ ~Holds(b, e)
      BY <1>0, <1>4, <1>5, <2>0, <2>2 DEF HeldIsOpen
    <3>2. ~processed'[e] /\ ~Holds(b, e)'
      BY <1>2, <1>5, <2>2, <3>1 DEF Writes, Takes
    <3> QED
      BY <1>0, <1>4, <2>0, <3>1, <3>2 DEF HeldIsOpen
  <2> QED
    BY <2>1, <2>2
<1>6. HeldIsOpen'
  BY <1>5 DEF HeldIsOpen
<1>7. MarkIsReady'
  <2> SUFFICES ASSUME NEW c \in Events, batch'[c].at = "mark"
               PROVE  memories'[batch'[c].event] > 0
    BY DEF MarkIsReady
  <2>1. batch'[c].event \in Events
    BY DEF TypeOK, WellFormed, Batch
  <2>2. memories'[batch'[c].event] >= memories[batch'[c].event]
    BY <1>2, <2>1 DEF Kept
  <2>3. CASE batch'[c] = batch[c]
    BY <1>0, <1>3, <2>1, <2>2, <2>3 DEF MarkIsReady
  <2>4. CASE c = b /\ batch'[b] # batch[b]
    BY <1>2, <1>3, <2>1, <2>4 DEF Marks
  <2> QED
    BY <1>1, <2>3, <2>4
<1>8. StoredIsMarked'
  <2> SUFFICES ASSUME NEW e \in Events \ (shared' \union broken')
               PROVE  /\ memories'[e] <= 1
                      /\ memories'[e] = 1 => \/ processed'[e]
                                             \/ \E c \in Events : /\ batch'[c].at = "mark"
                                                                  /\ batch'[c].event = e
    BY DEF StoredIsMarked
  <2>0. e \notin shared /\ e \notin broken
    BY <1>2 DEF Kept
  <2>1. CASE memories'[e] # memories[e]
    <3>1. /\ batch[b].at = "create" /\ batch[b].event = e /\ memories'[e] = memories[e] + 1
          /\ batch'[b].at = "mark" /\ batch'[b].event = e
      BY <1>2, <2>1 DEF Writes
    <3>2. Holds(b, e)
      BY <3>1 DEF Holds
    <3>3. \A c \in Events : batch[c].at = "mark" => batch[c].event # e
      BY <1>0, <2>0, <3>1, <3>2 DEF HeldIsOpen, Holds
    <3>4. ~processed[e]
      BY <1>0, <2>0, <3>2 DEF HeldIsOpen
    <3>5. memories[e] \in Nat /\ memories[e] <= 1 /\ memories[e] # 1
      BY <1>0, <1>3, <2>0, <3>3, <3>4 DEF StoredIsMarked
    <3>6. memories[e] = 0
      BY <3>5
    <3> QED
      BY <3>1, <3>6
  <2>2. CASE memories'[e] = memories[e] /\ memories[e] = 1
    <3>1. CASE processed[e]
      BY <1>0, <1>2, <2>0, <2>2, <3>1 DEF Writes, HeldIsOpen
    <3>2. CASE \E c \in Events : batch[c].at = "mark" /\ batch[c].event = e
      BY <1>1, <1>2, <2>2, <3>2 DEF Marks
    <3> QED
      BY <1>0, <2>0, <2>2, <3>1, <3>2 DEF StoredIsMarked
  <2> QED
    BY <1>0, <1>3, <2>0, <2>1, <2>2 DEF StoredIsMarked
<1>9. MarkedIsDone'
  BY <1>0, <1>2, <1>3 DEF MarkedIsDone, Writes, Kept
<1> QED
  BY <1>6, <1>7, <1>8, <1>9

LEMMA OthersKeep ==
  ASSUME IInv, Capture \/ Age \/ ChangeSettings \/ UNCHANGED vars
  PROVE  /\ HeldIsOpen' /\ MarkIsReady' /\ StoredIsMarked' /\ MarkedIsDone'
         /\ UNCHANGED processed
<1>1. UNCHANGED <<processed, memories, shared, broken, dismissed>>
  BY DEF Capture, Age, ChangeSettings, vars, table, history
<1>2. \A c \in Events : /\ batch'[c].todo = batch[c].todo /\ batch'[c].event = batch[c].event
                        /\ batch'[c].at = "mark" <=> batch[c].at = "mark"
  <2>1. CASE UNCHANGED batch
    BY <2>1
  <2>2. CASE Capture /\ ~UNCHANGED batch
    <3>1. PICK n \in Events : n = captured + 1 /\ batch' = [batch EXCEPT ![n].at = "queued"]
      BY <2>2 DEF Capture, IInv, TypeOK
    <3>2. batch[n].at = "idle"
      BY <3>1 DEF IInv, TypeOK, WellFormed
    <3> QED
      BY <3>1, <3>2 DEF IInv, TypeOK, Batch
  <2> QED
    BY <2>1, <2>2 DEF Age, ChangeSettings, vars
<1>3. HeldIsOpen'
  BY <1>1, <1>2 DEF IInv, HeldIsOpen, Holds
<1>4. MarkIsReady' /\ StoredIsMarked' /\ MarkedIsDone'
  BY <1>1, <1>2 DEF IInv, MarkIsReady, StoredIsMarked, MarkedIsDone
<1> QED
  BY <1>1, <1>3, <1>4

LEMMA StepOK == ASSUME IInv, [Next]_vars PROVE IInv'
<1>1. TypeOK'
  BY StepType DEF IInv
<1>2. CASE \E b \in Events : BatchStep(b) \/ Die(b)
  BY <1>1, <1>2, BatchKeeps DEF IInv
<1>3. CASE Capture \/ Age \/ ChangeSettings \/ UNCHANGED vars
  BY <1>1, <1>3, OthersKeep DEF IInv
<1> QED
  BY <1>2, <1>3 DEF Next

LEMMA Invariance == Spec => []IInv
<1>1. IInv /\ [Next]_vars => IInv'
  BY StepOK
<1> QED
  BY <1>1, InitOK, PTL DEF Spec

-----------------------------------------------------------------------------
(* Theorems.                                                               *)

\* Events, batches and decisions keep their types, and a batch has in hand what its
\* place in the code needs.
THEOREM TypeCorrect == Spec => []TypeOK
<1>1. IInv => TypeOK
  BY DEF IInv
<1> QED
  BY <1>1, Invariance, PTL

\* The mark in an event's metadata tells the truth, whatever batches interleave and
\* fail: the decision is stored, or there was none.
THEOREM MarksTellTheTruth == Spec => []MarkedIsDone
<1>1. IInv => MarkedIsDone
  BY DEF IInv
<1> QED
  BY <1>1, Invariance, PTL

\* A second decision of one commit takes two batches at once, or a failure between
\* storing the decision and marking the event.
THEOREM OneDecisionPerCommit == Spec => []DuplicatesHaveACause
<1>1. IInv => DuplicatesHaveACause
  <2> SUFFICES ASSUME IInv, NEW e \in Events, memories[e] > 1
               PROVE  e \in shared \union broken
    BY DEF DuplicatesHaveACause
  <2>1. memories[e] \in Nat
    BY DEF IInv, TypeOK
  <2> QED
    BY <2>1 DEF IInv, StoredIsMarked
<1> QED
  BY <1>1, Invariance, PTL

\* No step takes the mark from an event that only one batch had in hand.
THEOREM MarksStay == Spec => MarksAreKept
<1>1. ASSUME IInv, [Next]_vars
      PROVE  [\A e \in Events : processed[e] /\ ~processed'[e] => e \in shared]_vars
  <2>1. CASE \E b \in Events : BatchStep(b) \/ Die(b)
    <3>1. PICK b \in Events : BatchStep(b) \/ Die(b)
      BY <2>1
    <3>2. \A e \in Events : Writes(b, e)
      BY <1>1, <3>1, StepEffect DEF IInv
    <3> QED
      BY <1>1, <3>2 DEF IInv, HeldIsOpen, Writes
  <2>2. CASE Capture \/ Age \/ ChangeSettings \/ UNCHANGED vars
    BY <1>1, <2>2, OthersKeep
  <2> QED
    BY <1>1, <2>1, <2>2 DEF Next
<1> QED
  BY <1>1, Invariance, PTL DEF Spec, MarksAreKept

-----------------------------------------------------------------------------
(* The backlog.                                                            *)

Queued == {b \in Events : batch[b].at = "queued"}

\* A running batch all of whose events still wait: it will bring the backlog down.
Promising ==
  \E b \in Events : Running(b) /\ \A e \in Events : Holds(b, e) => e \in Unprocessed

Promise == IF Promising THEN 1 ELSE 0

\* The property, made inductive: of the running batches only one may still owe
\* something, for each of the others overlapped one when it read, or has already
\* brought the backlog down.
BacklogIsAccounted ==
  Cardinality(Unprocessed) <= Cardinality(Queued) + Promise + troubles

LEMMA Counted ==
  ASSUME NEW S \in SUBSET Events
  PROVE  IsFiniteSet(S) /\ Cardinality(S) \in Nat
<1>1. IsFiniteSet(Events)
  BY FS_Interval
<1> QED
  BY <1>1, FS_Subset, FS_CardinalityType

LEMMA CountedLess ==
  ASSUME NEW S \in SUBSET Events, NEW T \in SUBSET S
  PROVE  Cardinality(T) <= Cardinality(S)
BY Counted, FS_Subset

LEMMA CountedOut ==
  ASSUME NEW S \in SUBSET Events, NEW x \in S, NEW T \in SUBSET (S \ {x})
  PROVE  Cardinality(T) + 1 <= Cardinality(S)
<1>1. IsFiniteSet(S) /\ Cardinality(S) \in Nat
  BY Counted
<1>2. PICK R : R = S \ {x}
  OBVIOUS
<1>3. Cardinality(R) = Cardinality(S) - 1
  BY <1>1, <1>2, FS_RemoveElement
<1>4. R \in SUBSET Events /\ T \in SUBSET R /\ T \in SUBSET Events
  BY <1>2
<1>5. Cardinality(T) <= Cardinality(R) /\ Cardinality(T) \in Nat
  BY <1>4, Counted, CountedLess
<1> QED
  BY <1>1, <1>3, <1>5

LEMMA CountedIn ==
  ASSUME NEW S \in SUBSET Events, NEW x \in Events, NEW T \in SUBSET (S \union {x})
  PROVE  Cardinality(T) <= Cardinality(S) + 1
<1>1. IsFiniteSet(S) /\ Cardinality(S) \in Nat
  BY Counted
<1>2. PICK R : R = S \union {x}
  OBVIOUS
<1>3. /\ IsFiniteSet(S \union {x})
      /\ Cardinality(S \union {x})
           = IF x \in S THEN Cardinality(S) ELSE Cardinality(S) + 1
  BY <1>1, FS_AddElement
<1>4. R \in SUBSET Events /\ T \in SUBSET R /\ T \in SUBSET Events
  BY <1>2
<1>5. Cardinality(T) <= Cardinality(R) /\ Cardinality(T) \in Nat
  BY <1>4, Counted, CountedLess
<1> QED
  BY <1>1, <1>2, <1>3, <1>5

\* The numbers of the invariant, before and after a step.
LEMMA Numbers ==
  ASSUME TypeOK, TypeOK'
  PROVE  /\ Unprocessed \in SUBSET Events /\ Unprocessed' \in SUBSET Events
         /\ Queued \in SUBSET Events /\ Queued' \in SUBSET Events
         /\ Cardinality(Unprocessed) \in Nat /\ Cardinality(Unprocessed') \in Nat
         /\ Cardinality(Queued) \in Nat /\ Cardinality(Queued') \in Nat
         /\ troubles \in Nat /\ troubles' \in Nat
         /\ Promise \in {0, 1} /\ Promise' \in {0, 1}
<1>1. /\ Unprocessed \in SUBSET Events /\ Unprocessed' \in SUBSET Events
      /\ Queued \in SUBSET Events /\ Queued' \in SUBSET Events
  BY DEF Unprocessed, Scanned, Queued
<1> QED
  BY <1>1, Counted DEF TypeOK, Promise

\* A commit: its event may push another out of the scanned part of the table.
LEMMA CaptureAccounted ==
  ASSUME TypeOK, TypeOK', BacklogIsAccounted, Capture
  PROVE  BacklogIsAccounted'
<1>0. PICK n \in Events : n = captured + 1
  BY DEF TypeOK, Capture
<1>1. captured \in Nat /\ captured' = n /\ UNCHANGED <<aged, processed>>
  BY <1>0 DEF TypeOK, Capture
<1>2. batch[n].at = "idle"
  BY <1>0, <1>1 DEF TypeOK, WellFormed
<1>3. Unprocessed' \subseteq Unprocessed \union {n}
  BY <1>0, <1>1 DEF Unprocessed, Scanned
<1>4. \A c \in Events \ {n} : batch'[c] = batch[c]
  BY <1>0 DEF Capture, TypeOK
<1>5. Cardinality(Queued') + troubles' >= Cardinality(Queued) + troubles + 1
  <2>1. Queued \subseteq Queued' /\ n \notin Queued
    BY <1>2, <1>4 DEF Queued
  <2>2. CASE batch' = [batch EXCEPT ![n].at = "queued"] /\ UNCHANGED troubles
    <3>1. n \in Queued' /\ Queued \in SUBSET (Queued' \ {n})
      BY <2>1, <2>2 DEF Queued, TypeOK, Batch
    <3>2. Cardinality(Queued) + 1 <= Cardinality(Queued')
      BY <3>1, CountedOut, Numbers
    <3> QED
      BY <2>2, <3>2, Numbers
  <2>3. CASE troubles' = troubles + 1
    <3>1. Cardinality(Queued) <= Cardinality(Queued')
      BY <2>1, CountedLess, Numbers
    <3> QED
      BY <2>3, <3>1, Numbers
  <2> QED
    BY <1>0, <2>2, <2>3 DEF Capture
<1>6. CASE Promising => Promising'
  <2>1. Cardinality(Unprocessed') <= Cardinality(Unprocessed) + 1
    BY <1>3, CountedIn, Numbers
  <2> QED
    BY <1>5, <1>6, <2>1, Numbers DEF BacklogIsAccounted, Promise
<1>7. CASE Promising /\ ~Promising'
  <2>1. PICK b \in Events : Running(b) /\ \A e \in Events : Holds(b, e) => e \in Unprocessed
    BY <1>7 DEF Promising
  <2>2. b # n /\ Running(b)' /\ \A e \in Events : Holds(b, e)' <=> Holds(b, e)
    BY <1>2, <1>4, <2>1 DEF Running, Holds
  <2>3. PICK e \in Unprocessed : e \notin Unprocessed'
    BY <1>7, <2>1, <2>2 DEF Promising
  <2>4. PICK R : R = Unprocessed \ {e}
    OBVIOUS
  <2>5. R \in SUBSET Events /\ Cardinality(R) + 1 <= Cardinality(Unprocessed)
    BY <2>3, <2>4, CountedOut, Numbers
  <2>6. Cardinality(Unprocessed') <= Cardinality(R) + 1
    BY <1>3, <2>3, <2>4, <2>5, CountedIn
  <2>7. Cardinality(R) \in Nat
    BY <2>5, Counted
  <2> QED
    BY <1>5, <2>5, <2>6, <2>7, Numbers DEF BacklogIsAccounted, Promise
<1> QED
  BY <1>6, <1>7

\* What leaves the backlog without a batch being done pays for a promise it breaks.
LEMMA LeavingAccounted ==
  ASSUME TypeOK, TypeOK', BacklogIsAccounted, Queued' = Queued, troubles' >= troubles,
         Unprocessed' \subseteq Unprocessed,
         Unprocessed' = Unprocessed => (Promising => Promising') \/ troubles' > troubles
  PROVE  BacklogIsAccounted'
<1>1. CASE Unprocessed' = Unprocessed
  BY <1>1, Numbers DEF BacklogIsAccounted, Promise
<1>2. CASE Unprocessed' # Unprocessed
  <2>1. PICK e \in Unprocessed : e \notin Unprocessed'
    BY <1>2
  <2>2. Cardinality(Unprocessed') + 1 <= Cardinality(Unprocessed)
    BY <2>1, CountedOut, Numbers
  <2> QED
    BY <2>2, Numbers DEF BacklogIsAccounted, Promise
<1> QED
  BY <1>1, <1>2

\* A queued batch goes: it has read, or it is lost.
LEMMA DequeueAccounted ==
  ASSUME TypeOK, TypeOK', BacklogIsAccounted, NEW b \in Events,
         batch[b].at = "queued", \A c \in Events \ {b} : batch'[c] = batch[c],
         Unprocessed' = Unprocessed,
         \/ troubles' = troubles + 1
         \/ troubles' = troubles /\ ~Promising /\ Promising'
         \/ troubles' >= troubles /\ Unprocessed = {}
  PROVE  BacklogIsAccounted'
<1>1. Cardinality(Queued) <= Cardinality(Queued') + 1
  <2>1. Queued \subseteq Queued' \union {b}
    BY DEF Queued
  <2> QED
    BY <2>1, CountedIn, Numbers
<1>2. Promising => Promising'
  BY DEF Promising, Running, Holds
<1>3. CASE Unprocessed = {}
  <2>1. Cardinality(Unprocessed') = 0
    BY <1>3, FS_EmptySet
  <2> QED
    BY <2>1, Numbers DEF BacklogIsAccounted
<1>4. CASE troubles' = troubles + 1
  BY <1>1, <1>2, <1>4, Numbers DEF BacklogIsAccounted, Promise
<1>5. CASE troubles' = troubles /\ ~Promising /\ Promising'
  BY <1>1, <1>5, Numbers DEF BacklogIsAccounted, Promise
<1> QED
  BY <1>3, <1>4, <1>5

\* A batch writes an event back without a mark, which may take one away.
LEMMA UnmarkAccounted ==
  ASSUME TypeOK, TypeOK', BacklogIsAccounted, NEW b \in Events, NEW e \in Events,
         Running(b), Holds(b, e), batch'[b].at # "queued",
         \A c \in Events \ {b} : batch'[c] = batch[c],
         UNCHANGED <<captured, aged>>, processed' = [processed EXCEPT ![e] = FALSE],
         troubles' = troubles + 1
  PROVE  BacklogIsAccounted'
<1>1. Queued' = Queued
  BY DEF Queued, Running
<1>2. Unprocessed \subseteq Unprocessed' /\ Unprocessed' \subseteq Unprocessed \union {e}
  BY DEF Unprocessed, Scanned, TypeOK
<1>3. CASE e \in Unprocessed
  BY <1>1, <1>2, <1>3, LeavingAccounted, Numbers
<1>4. CASE e \notin Unprocessed
  <2>1. Promising => Promising'
    BY <1>2, <1>4 DEF Promising, Running, Holds
  <2>2. Cardinality(Unprocessed') <= Cardinality(Unprocessed) + 1
    BY <1>2, CountedIn, Numbers
  <2> QED
    BY <1>1, <2>1, <2>2, Numbers DEF BacklogIsAccounted, Promise
<1> QED
  BY <1>3, <1>4

\* A batch marks an event.
LEMMA MarkAccounted ==
  ASSUME TypeOK, TypeOK', BacklogIsAccounted, NEW b \in Events, NEW e \in Events,
         Running(b), Holds(b, e), batch'[b].at # "queued",
         \A c \in Events \ {b} : batch'[c] = batch[c],
         UNCHANGED <<captured, aged, troubles>>, processed' = [processed EXCEPT ![e] = TRUE]
  PROVE  BacklogIsAccounted'
<1>1. Queued' = Queued
  BY DEF Queued, Running
<1>2. Unprocessed' = Unprocessed \ {e}
  BY DEF Unprocessed, Scanned, TypeOK
<1>3. Unprocessed' = Unprocessed => (Promising => Promising')
  BY <1>2 DEF Promising, Running, Holds
<1> QED
  BY <1>1, <1>2, <1>3, LeavingAccounted, Numbers

\* A batch goes on with the events it holds.
LEMMA HoldingAccounted ==
  ASSUME TypeOK, TypeOK', BacklogIsAccounted, NEW b \in Events,
         Running(b), Running(b)', \A e \in Events : Holds(b, e)' <=> Holds(b, e),
         \A c \in Events \ {b} : batch'[c] = batch[c],
         UNCHANGED <<captured, aged, processed, troubles>>
  PROVE  BacklogIsAccounted'
<1>1. Queued' = Queued
  BY DEF Queued, Running
<1>2. Unprocessed' = Unprocessed
  BY DEF Unprocessed, Scanned
<1>3. Promising => Promising'
  BY <1>2 DEF Promising, Running, Holds
<1> QED
  BY <1>1, <1>2, <1>3, LeavingAccounted, Numbers

LEMMA BatchAccounted ==
  ASSUME TypeOK, TypeOK', BacklogIsAccounted, NEW b \in Events, BatchStep(b) \/ Die(b)
  PROVE  BacklogIsAccounted'
<1> USE DEF table, settings, history
<1>0. /\ batch \in [Events -> Batch] /\ batch[b] \in Batch /\ WellFormed(batch[b], b)
      /\ \A c \in Events \ {b} : batch'[c] = batch[c]
  BY StepOfOne DEF TypeOK
<1>1. CASE Read(b)
  <2>1. PICK S \in SUBSET Unprocessed :
          /\ Chosen(S)
          /\ batch' = [batch EXCEPT ![b] =
               IF S = {} THEN NoBatch ELSE [NoBatch EXCEPT !.at = "config", !.todo = S]]
    BY <1>1 DEF Read
  <2>2. /\ batch[b].at = "queued" /\ UNCHANGED <<captured, aged, processed>>
        /\ troubles' = IF \E c \in Events \ {b} : Running(c) THEN troubles + 1 ELSE troubles
    BY <1>1 DEF Read
  <2>3. Unprocessed' = Unprocessed
    BY <2>2 DEF Unprocessed, Scanned
  <2>4. CASE \E c \in Events \ {b} : Running(c)
    BY <1>0, <2>2, <2>3, <2>4, DequeueAccounted
  <2>5. CASE ~\E c \in Events \ {b} : Running(c)
    <3>1. ~Promising
      BY <2>2, <2>5 DEF Promising, Running
    <3>2. CASE S = {}
      <4>1. Unprocessed = {} \/ Cardinality(S) = BatchSize
        BY <2>1, <3>2 DEF Chosen
      <4>2. Unprocessed = {}
        BY <3>2, <4>1, FS_EmptySet
      <4>3. troubles' = troubles /\ troubles \in Nat
        BY <2>2, <2>5 DEF TypeOK
      <4> QED
        BY <1>0, <2>2, <2>3, <4>2, <4>3, DequeueAccounted
    <3>3. CASE S # {}
      <4>1. batch'[b].at = "config" /\ batch'[b].todo = S /\ batch'[b].event = Nil
        BY <1>0, <2>1, <3>3 DEF NoBatch
      <4>2. Promising'
        BY <2>1, <2>3, <4>1 DEF Promising, Running, Holds
      <4> QED
        BY <1>0, <2>2, <2>3, <2>5, <3>1, <4>2, DequeueAccounted
    <3> QED
      BY <3>2, <3>3
  <2> QED
    BY <2>4, <2>5
<1>2. CASE ReadDisabled(b) \/ Die(b)
  <2>1. /\ troubles' = troubles + 1 /\ UNCHANGED <<captured, aged, processed>>
        /\ batch' = [batch EXCEPT ![b] = NoBatch]
    BY <1>2 DEF ReadDisabled, Die
  <2>2. Unprocessed' = Unprocessed
    BY <2>1 DEF Unprocessed, Scanned
  <2>3. CASE batch[b].at = "queued"
    BY <1>0, <2>1, <2>2, <2>3, DequeueAccounted
  <2>4. CASE batch[b].at # "queued"
    <3>1. Queued' = Queued
      BY <1>0, <2>1, <2>4 DEF Queued, NoBatch
    <3> QED
      BY <2>1, <2>2, <3>1, LeavingAccounted, Numbers
  <2> QED
    BY <2>3, <2>4
<1>3. CASE GetConfig(b)
  <2>1. /\ Running(b) /\ Running(b)' /\ UNCHANGED <<captured, aged, processed, troubles>>
        /\ batch'[b].todo = batch[b].todo /\ batch'[b].event = batch[b].event
    BY <1>0, <1>3 DEF GetConfig, Running, Batch
  <2> QED
    BY <1>0, <2>1, HoldingAccounted DEF Holds
<1>4. ASSUME NEW e \in Events, NoteAttempt(b, e) PROVE BacklogIsAccounted'
  <2>1. /\ Running(b) /\ Holds(b, e) /\ UNCHANGED <<captured, aged>>
        /\ processed' = [processed EXCEPT ![e] = FALSE] /\ troubles' = troubles + 1
    BY <1>4 DEF NoteAttempt, Running, Holds
  <2>2. batch'[b].at # "queued"
    BY <1>0, <1>4 DEF NoteAttempt, NoBatch, Batch
  <2> QED
    BY <1>0, <2>1, <2>2, UnmarkAccounted
<1>5. ASSUME NEW e \in Events, Classify(b, e) PROVE BacklogIsAccounted'
  <2>1. /\ Running(b) /\ Running(b)' /\ UNCHANGED <<captured, aged, processed, troubles>>
        /\ batch'[b].todo = batch[b].todo \ {e} /\ batch'[b].event = e
        /\ e \in batch[b].todo /\ batch[b].event = Nil
    BY <1>0, <1>5 DEF Classify, Running, WellFormed
  <2> QED
    BY <1>0, <2>1, HoldingAccounted DEF Holds
<1>6. ASSUME NEW mark \in BOOLEAN, WriteBack(b, mark)
      PROVE  /\ batch'[b].at # "queued" /\ UNCHANGED <<captured, aged>>
             /\ processed' = [processed EXCEPT ![batch[b].event] = mark]
  BY <1>0, <1>6 DEF WriteBack, NoBatch, Batch
<1>7. ASSUME batch[b].at \in {"unanswered", "catch", "dismiss", "create", "mark"}
      PROVE  batch[b].event \in Events /\ Running(b) /\ Holds(b, batch[b].event)
  BY <1>0, <1>7 DEF WellFormed, Batch, Running, Holds
<1>8. CASE WriteUnanswered(b)
  <2>1. batch[b].at \in {"unanswered", "catch"} /\ WriteBack(b, FALSE) /\ troubles' = troubles + 1
    BY <1>8 DEF WriteUnanswered
  <2> QED
    BY <1>0, <1>6, <1>7, <2>1, UnmarkAccounted
<1>9. CASE WriteDismissed(b) \/ MarkProcessed(b)
  <2>1. batch[b].at \in {"dismiss", "mark"} /\ WriteBack(b, TRUE) /\ UNCHANGED troubles
    BY <1>9 DEF WriteDismissed, MarkProcessed
  <2> QED
    BY <1>0, <1>6, <1>7, <2>1, MarkAccounted
<1>10. CASE CreateMemory(b) \/ Throw(b)
  <2>1. /\ batch[b].at \in {"unanswered", "dismiss", "create", "mark"}
        /\ UNCHANGED <<captured, aged, processed, troubles>>
        /\ batch'[b].at \in {"mark", "catch"}
        /\ batch'[b].todo = batch[b].todo /\ batch'[b].event = batch[b].event
    BY <1>0, <1>10 DEF CreateMemory, Throw, Batch
  <2>2. Running(b) /\ Running(b)'
    BY <2>1 DEF Running
  <2> QED
    BY <1>0, <2>1, <2>2, HoldingAccounted DEF Holds
<1> QED
  BY <1>1, <1>2, <1>3, <1>4, <1>5, <1>8, <1>9, <1>10 DEF BatchStep

LEMMA BacklogStep ==
  ASSUME TypeOK, TypeOK', BacklogIsAccounted, [Next]_vars
  PROVE  BacklogIsAccounted'
<1>1. CASE Age
  <2>1. UNCHANGED <<captured, processed, batch, troubles>> /\ aged' = aged + 1
    BY <1>1 DEF Age
  <2>2. Queued' = Queued
    BY <2>1 DEF Queued
  <2>3. Unprocessed' \subseteq Unprocessed
    BY <2>1 DEF Unprocessed, Scanned, TypeOK
  <2>4. Unprocessed' = Unprocessed => (Promising => Promising')
    BY <2>1 DEF Promising, Running, Holds
  <2> QED
    BY <2>1, <2>2, <2>3, <2>4, LeavingAccounted, Numbers
<1>2. CASE ChangeSettings \/ UNCHANGED vars
  BY <1>2 DEF ChangeSettings, vars, table, history, BacklogIsAccounted, Unprocessed, Scanned,
     Queued, Promise, Promising, Running, Holds
<1>3. CASE \E b \in Events : BatchStep(b) \/ Die(b)
  BY <1>3, BatchAccounted
<1>4. CASE Capture
  BY <1>4, CaptureAccounted
<1> QED
  BY <1>1, <1>2, <1>3, <1>4 DEF Next

\* The backlog in the scanned part of the table is never more than the batches to
\* come or running and what went wrong: no number of overlapping batches, commits
\* that push others out of the scan, or marks taken back loses an event silently.
THEOREM BacklogHasAReason == Spec => []BacklogIsExplained
<1>1. Init => BacklogIsAccounted
  <2> SUFFICES ASSUME Init PROVE BacklogIsAccounted
    OBVIOUS
  <2>1. Unprocessed = {} /\ troubles = 0
    BY DEF Init, Unprocessed, Scanned
  <2>2. Queued \in SUBSET Events
    BY DEF Queued
  <2> QED
    BY <2>1, <2>2, Counted, FS_EmptySet DEF BacklogIsAccounted, Promise
<1>2. TypeOK /\ TypeOK' /\ BacklogIsAccounted /\ [Next]_vars => BacklogIsAccounted'
  BY BacklogStep
<1>3. TypeOK /\ BacklogIsAccounted => BacklogIsExplained
  <2> SUFFICES ASSUME TypeOK, BacklogIsAccounted PROVE BacklogIsExplained
    OBVIOUS
  <2>1. PICK A : A = {b \in Events : batch[b].at # "idle"}
    OBVIOUS
  <2>2. /\ A \in SUBSET Events /\ Queued \in SUBSET A /\ Queued \in SUBSET Events
        /\ Unprocessed \in SUBSET Events
    BY <2>1 DEF Queued, Unprocessed, Scanned
  <2>3. /\ Cardinality(A) \in Nat /\ Cardinality(Queued) \in Nat /\ troubles \in Nat
        /\ Cardinality(Unprocessed) \in Nat /\ Cardinality(Queued) <= Cardinality(A)
    BY <2>2, Counted, CountedLess DEF TypeOK
  <2>4. CASE Promising
    <3>1. PICK b \in Events : Running(b)
      BY <2>4 DEF Promising
    <3>2. b \in A /\ Queued \in SUBSET (A \ {b})
      BY <2>1, <2>2, <3>1 DEF Running, Queued
    <3>3. Cardinality(Queued) + 1 <= Cardinality(A)
      BY <2>2, <3>2, CountedOut
    <3> QED
      BY <2>1, <2>3, <2>4, <3>3 DEF BacklogIsAccounted, BacklogIsExplained, Promise
  <2>5. CASE ~Promising
    BY <2>1, <2>3, <2>5 DEF BacklogIsAccounted, BacklogIsExplained, Promise
  <2> QED
    BY <2>4, <2>5
<1> QED
  BY <1>1, <1>2, <1>3, TypeCorrect, PTL DEF Spec
=============================================================================
