-------------------------- MODULE ActiveWork_proofs --------------------------
(***************************************************************************)
(* What holds of the active work of a project for any number of titles,    *)
(* candidates, recomputes and requests, and any policy: only an overlap    *)
(* overrules people and evidence, and only an overlap or a failure makes   *)
(* the timeline tell another status than the row has.                      *)
(***************************************************************************)
EXTENDS ActiveWork, TLAPS

USE ActiveWorkAssumption

-----------------------------------------------------------------------------
(* Types.                                                                  *)

\* Writing one hand keeps the hands well-formed.
LEMMA OneHand ==
  ASSUME TypeOK, NEW x \in Actors, NEW h, WellFormed(h), Refers(h)',
         hand' = [hand EXCEPT ![x] = h],
         \A t \in Titles : Exists(t) => Exists(t)'
  PROVE  /\ hand' \in [Actors -> Hand]
         /\ \A y \in Actors : WellFormed(hand[y])' /\ Refers(hand[y])'
<1>1. h \in Hand
  BY DEF WellFormed
<1>2. hand' \in [Actors -> Hand] /\ hand'[x] = h
  BY <1>1 DEF TypeOK
<1>3. ASSUME NEW y \in Actors, y # x PROVE WellFormed(hand[y])' /\ Refers(hand[y])'
  <2>1. hand'[y] = hand[y] /\ WellFormed(hand[y]) /\ Refers(hand[y]) /\ hand[y] \in Hand
    BY <1>3 DEF TypeOK
  <2>2. WellFormed(hand[y])'
    BY <2>1 DEF WellFormed
  <2>3. \A k \in hand[y].todo : k.row \in Titles
    BY <2>1 DEF Hand, Task
  <2>4. hand[y].entry # NoEntry => hand[y].entry.row \in Titles
    BY <2>1 DEF Hand, Entry
  <2> QED
    BY <2>1, <2>2, <2>3, <2>4 DEF Refers
<1> QED
  BY <1>2, <1>3 DEF WellFormed

LEMMA IdleFits == WellFormed(Idle) /\ Refers(Idle) /\ Refers(Idle)'
<1>1. Idle \in Hand
  BY DEF Idle, Hand, Days
<1> QED
  BY <1>1 DEF WellFormed, Refers, Idle

\* Going on after a write or an entry, with fewer tasks.
LEMMA OnwardFits ==
  ASSUME TypeOK, NEW x \in Actors, hand[x].at \in {"infer", "sweep", "request"},
         NEW todo \in SUBSET hand[x].todo, NEW entry \in Entry \union {NoEntry},
         hand[x].at = "request" => entry = NoEntry,
         entry # NoEntry => Exists(entry.row)',
         \A t \in Titles : Exists(t) => Exists(t)',
         NEW h, h = Onward(x, todo, entry)
  PROVE  WellFormed(h) /\ Refers(h)'
<1>0. WellFormed(hand[x]) /\ Refers(hand[x]) /\ hand[x] \in Hand
  BY DEF TypeOK
<1>1. CASE todo # {} \/ entry # NoEntry
  <2>0. h = [hand[x] EXCEPT !.todo = todo, !.entry = entry]
    BY <1>1 DEF Onward
  <2>1. /\ h \in Hand /\ h.at = hand[x].at /\ h.todo = todo /\ h.entry = entry
    BY <1>0, <2>0 DEF Hand
  <2>2. hand[x].at # "request"
    BY <1>0, <1>1 DEF WellFormed
  <2>4. \A k \in todo : k.row \in Titles
    BY <1>0 DEF Hand, Task
  <2>5. WellFormed(h)
    BY <2>1, <2>2, <1>0, <1>1 DEF WellFormed
  <2>6. Refers(h)'
    BY <2>1, <2>4, <1>0 DEF Refers
  <2> QED
    BY <2>5, <2>6
<1>2. CASE todo = {} /\ entry = NoEntry /\ hand[x].at = "infer"
  <2>0. h = [hand[x] EXCEPT !.at = "open", !.todo = {}, !.entry = NoEntry]
    BY <1>2 DEF Onward
  <2>1. /\ h \in Hand /\ h.at = "open" /\ h.todo = {} /\ h.entry = NoEntry
    BY <1>0, <2>0 DEF Hand
  <2> QED
    BY <2>1 DEF WellFormed, Refers
<1>3. CASE todo = {} /\ entry = NoEntry /\ hand[x].at # "infer"
  BY <1>3, IdleFits DEF Onward
<1> QED
  BY <1>1, <1>2, <1>3

\* Whoever has a task is inferring or sweeping; a task's row is a title.
LEMMA TaskFacts ==
  ASSUME TypeOK, NEW x \in Actors, NEW k \in hand[x].todo
  PROVE  /\ k \in Task /\ k.row \in Titles /\ k.seen \in Days
         /\ k.status \in Statuses \ {"absent"}
         /\ hand[x].at \in {"infer", "sweep"}
         /\ k.do # "create" => Exists(k.row)
         /\ EntryOf(k) \in Entry /\ EntryOf(k).row = k.row /\ EntryOf(k) # NoEntry
<1>1. hand[x] \in Hand /\ WellFormed(hand[x]) /\ Refers(hand[x])
  BY DEF TypeOK
<1>2. k \in Task
  BY <1>1 DEF Hand
<1>3. k.row \in Titles /\ k.seen \in Days /\ k.status \in Statuses \ {"absent"}
  BY <1>2 DEF Task
<1>4. hand[x].at \in {"infer", "sweep"}
  BY <1>1 DEF WellFormed, Hand
<1>5. EntryOf(k) \in Entry /\ EntryOf(k).row = k.row
  BY <1>3 DEF EntryOf, Entry
<1>6. EntryOf(k) # NoEntry
  BY <1>3, <1>5 DEF NoEntry
<1> QED
  BY <1>1, <1>2, <1>3, <1>4, <1>5, <1>6 DEF Refers

LEMMA ContestType ==
  ASSUME TypeOK, NEW x \in Actors, NEW t \in Titles, Contest(x, t)
  PROVE  contested' \subseteq Titles
BY DEF TypeOK, Contest

LEMMA StartType == ASSUME TypeOK, NEW j \in Jobs, Start(j) PROVE TypeOK'
<1> DEFINE h == [Idle EXCEPT !.at = "read", !.now = day, !.close = autoClose]
<1>0. PICK g : g = h
  OBVIOUS
<1>1. g \in Hand /\ g.at = "read" /\ g.todo = {} /\ g.entry = NoEntry
  BY <1>0 DEF Idle, Hand, TypeOK
<1>2. WellFormed(g) /\ Refers(g)'
  BY <1>1 DEF WellFormed, Refers
<1>3. hand' = [hand EXCEPT ![j] = g] /\ j \in Actors
  BY <1>0 DEF Start, Actors
<1>4. \A t \in Titles : Exists(t) => Exists(t)'
  BY DEF Start, Exists
<1> QED
  BY <1>2, <1>3, <1>4, OneHand DEF Start, TypeOK

\* A candidate's task writes an existing row of its key, or creates its own.
LEMMA InferFacts ==
  ASSUME TypeOK, NEW c \in Candidates, NEW pick \in Picks, NEW k, k = Infer(c, pick)
  PROVE  /\ k \in Task /\ k.do \in {"create", "update"}
         /\ k.do = "update" =>
              /\ Exists(k.row) /\ k.status = NextStatus(row[k.row].status)
              /\ k.news = (k.status # row[k.row].status)
<1> DEFINE t == pick[KeyOf[TitleOf[c]]]
<1>1. TitleOf[c] \in Titles /\ KeyOf[TitleOf[c]] \in Keys /\ signal[c] \in Days
  BY DEF TypeOK
<1>2. t = Nil \/ (t \in Titles /\ Exists(t))
  BY <1>1 DEF Picks
<1>3. CASE t = Nil
  BY <1>1, <1>3 DEF Infer, Task, Statuses
<1>4. CASE t # Nil
  <2>1. t \in Titles /\ Exists(t)
    BY <1>2, <1>4
  <2>2. k = [do |-> "update", row |-> t, status |-> NextStatus(row[t].status),
             seen |-> signal[c], news |-> NextStatus(row[t].status) # row[t].status, by |-> c]
    BY <1>4 DEF Infer
  <2>3. NextStatus(row[t].status) \in Statuses \ {"absent"}
    BY DEF NextStatus, Statuses
  <2>4. (NextStatus(row[t].status) # row[t].status) \in BOOLEAN
    OBVIOUS
  <2> HIDE DEF t
  <2> QED
    BY <1>1, <2>1, <2>2, <2>3, <2>4 DEF Task
<1> QED
  BY <1>3, <1>4

LEMMA ReadType == ASSUME TypeOK, NEW j \in Jobs, Read(j) PROVE TypeOK'
<1>1. PICK S \in SUBSET Recent(hand[j].now), pick \in Picks :
        hand' = [hand EXCEPT ![j].at = IF S = {} THEN "open" ELSE "infer",
                             ![j].todo = {Infer(c, pick) : c \in S}]
  BY DEF Read
<1>2. PICK h : h = [hand[j] EXCEPT !.at = IF S = {} THEN "open" ELSE "infer",
                                   !.todo = {Infer(c, pick) : c \in S}]
  OBVIOUS
<1>3. j \in Actors /\ hand[j] \in Hand /\ hand[j].entry = NoEntry
  BY DEF Actors, TypeOK, WellFormed, Read
<1>4. S \subseteq Candidates
  BY DEF Recent
<1>5. \A k \in {Infer(c, pick) : c \in S} :
        k \in Task /\ k.do \in {"create", "update"} /\ (k.do # "create" => Exists(k.row))
  BY <1>4, InferFacts
<1>6. /\ h \in Hand /\ h.entry = NoEntry /\ h.todo = {Infer(c, pick) : c \in S}
      /\ h.at = IF S = {} THEN "open" ELSE "infer"
  BY <1>2, <1>3, <1>5 DEF Hand
<1>7. S # {} <=> h.todo # {}
  BY <1>6
<1>8. WellFormed(h)
  BY <1>5, <1>6, <1>7 DEF WellFormed
<1>9. Refers(h)'
  BY <1>5, <1>6 DEF Refers, Exists, Read
<1>10. \A t \in Titles : Exists(t) => Exists(t)'
  BY DEF Read, Exists
<1>11. hand' = [hand EXCEPT ![j] = h]
  BY <1>1, <1>2, <1>3 DEF TypeOK
<1> QED
  BY <1>3, <1>8, <1>9, <1>10, <1>11, OneHand DEF Read, TypeOK

\* One row is written by somebody who goes on.
LEMMA WriteType ==
  ASSUME TypeOK, NEW x \in Actors, hand[x].at \in {"infer", "sweep"},
         NEW t \in Titles, NEW r \in Row, r.status # "absent",
         row' = [row EXCEPT ![t] = r],
         NEW todo \in SUBSET hand[x].todo, NEW entry \in Entry \union {NoEntry},
         entry # NoEntry => entry.row = t,
         hand' = [hand EXCEPT ![x] = Onward(x, todo, entry)]
  PROVE  /\ row' \in [Titles -> Row] /\ hand' \in [Actors -> Hand]
         /\ \A y \in Actors : WellFormed(hand[y])' /\ Refers(hand[y])'
<1>1. row' \in [Titles -> Row] /\ row'[t] = r
  BY DEF TypeOK
<1>2. Exists(t)' /\ \A u \in Titles : Exists(u) => Exists(u)'
  BY <1>1 DEF Exists, TypeOK
<1>3. entry # NoEntry => Exists(entry.row)'
  BY <1>2 DEF Exists
<1>4. PICK h : h = Onward(x, todo, entry)
  OBVIOUS
<1>5. WellFormed(h) /\ Refers(h)'
  BY <1>2, <1>3, <1>4, OnwardFits
<1> QED
  BY <1>1, <1>2, <1>4, <1>5, OneHand

LEMMA UpdateType ==
  ASSUME TypeOK, NEW j \in Jobs, NEW k \in hand[j].todo, Update(j, k)
  PROVE  TypeOK'
<1>1. j \in Actors
  BY DEF Actors
<1>2. PICK entry \in {NoEntry, EntryOf(k)} :
        hand' = [hand EXCEPT ![j] = Onward(j, hand[j].todo \ {k}, entry)]
  BY DEF Update
<1>3. PICK r : r = [status |-> k.status, stale |-> FALSE, evidence |-> k.seen]
  OBVIOUS
<1>4. r \in Row /\ r.status # "absent"
  BY <1>1, <1>3, TaskFacts DEF Row
<1>5. row' = [row EXCEPT ![k.row] = r]
  BY <1>3 DEF Update
<1>6. entry \in Entry \union {NoEntry} /\ (entry # NoEntry => entry.row = k.row)
  BY <1>1, <1>2, TaskFacts
<1>8. contested' \subseteq Titles
  BY <1>1, TaskFacts, ContestType DEF Update
<1>20. hand[j].at \in {"infer", "sweep"} /\ k.row \in Titles
  BY <1>1, TaskFacts
<1>21. PICK e : e = entry
  OBVIOUS
<1>22. PICK rest \in SUBSET hand[j].todo : rest = hand[j].todo \ {k}
  OBVIOUS
<1>23. e \in Entry \union {NoEntry} /\ (e # NoEntry => e.row = k.row)
  BY <1>1, <1>21, TaskFacts, <1>6
<1>24. hand' = [hand EXCEPT ![j] = Onward(j, rest, e)]
  BY <1>21, <1>22, <1>2 DEF Update
<1>25.  /\ row' \in [Titles -> Row] /\ hand' \in [Actors -> Hand]
        /\ \A y \in Actors : WellFormed(hand[y])' /\ Refers(hand[y])'
  BY <1>1, <1>4, <1>5, <1>20, <1>22, <1>23, <1>24, WriteType
<1> QED
  BY <1>25, <1>8 DEF Update, TypeOK

LEMMA CreateType ==
  ASSUME TypeOK, NEW j \in Jobs, NEW k \in hand[j].todo, Create(j, k)
  PROVE  TypeOK'
<1>1. j \in Actors
  BY DEF Actors
<1>3. PICK r : r = [status |-> "inferred", stale |-> FALSE, evidence |-> k.seen]
  OBVIOUS
<1>4. r \in Row /\ r.status # "absent"
  BY <1>1, <1>3, TaskFacts DEF Row, Statuses
<1>5. row' = [row EXCEPT ![k.row] = r]
  BY <1>3 DEF Create
<1>8. contested' \subseteq Titles
  BY <1>1, TaskFacts, ContestType DEF Create
<1>20. hand[j].at \in {"infer", "sweep"} /\ k.row \in Titles
  BY <1>1, TaskFacts
<1>21. PICK e : e = EntryOf(k)
  OBVIOUS
<1>22. PICK rest \in SUBSET hand[j].todo : rest = hand[j].todo \ {k}
  OBVIOUS
<1>23. e \in Entry \union {NoEntry} /\ (e # NoEntry => e.row = k.row)
  BY <1>1, <1>21, TaskFacts
<1>24. hand' = [hand EXCEPT ![j] = Onward(j, rest, e)]
  BY <1>21, <1>22 DEF Create
<1>25.  /\ row' \in [Titles -> Row] /\ hand' \in [Actors -> Hand]
        /\ \A y \in Actors : WellFormed(hand[y])' /\ Refers(hand[y])'
  BY <1>1, <1>4, <1>5, <1>20, <1>22, <1>23, <1>24, WriteType
<1> QED
  BY <1>25, <1>8 DEF Create, TypeOK

LEMMA CloseType ==
  ASSUME TypeOK, NEW j \in Jobs, NEW k \in hand[j].todo, CloseRow(j, k)
  PROVE  TypeOK'
<1>1. j \in Actors
  BY DEF Actors
<1>2. k.row \in Titles /\ row[k.row] \in Row
  BY <1>1, TaskFacts DEF TypeOK
<1>3. PICK r : r = [row[k.row] EXCEPT !.status = "closed", !.stale = TRUE]
  OBVIOUS
<1>4. r \in Row /\ r.status # "absent"
  BY <1>2, <1>3 DEF Row, Statuses
<1>5. row' = [row EXCEPT ![k.row] = r]
  BY <1>2, <1>3 DEF CloseRow, TypeOK
<1>8. contested' \subseteq Titles
  BY <1>1, TaskFacts, ContestType DEF CloseRow
<1>20. hand[j].at \in {"infer", "sweep"} /\ k.row \in Titles
  BY <1>1, TaskFacts
<1>21. PICK e : e = EntryOf(k)
  OBVIOUS
<1>22. PICK rest \in SUBSET hand[j].todo : rest = hand[j].todo \ {k}
  OBVIOUS
<1>23. e \in Entry \union {NoEntry} /\ (e # NoEntry => e.row = k.row)
  BY <1>1, <1>21, TaskFacts
<1>24. hand' = [hand EXCEPT ![j] = Onward(j, rest, e)]
  BY <1>21, <1>22 DEF CloseRow
<1>25.  /\ row' \in [Titles -> Row] /\ hand' \in [Actors -> Hand]
        /\ \A y \in Actors : WellFormed(hand[y])' /\ Refers(hand[y])'
  BY <1>1, <1>4, <1>5, <1>20, <1>22, <1>23, <1>24, WriteType
<1> QED
  BY <1>25, <1>8 DEF CloseRow, TypeOK

LEMMA StaleType ==
  ASSUME TypeOK, NEW j \in Jobs, NEW k \in hand[j].todo, SetStale(j, k)
  PROVE  TypeOK'
<1>1. j \in Actors
  BY DEF Actors
<1>2. k.row \in Titles /\ row[k.row] \in Row /\ Exists(k.row)
  BY <1>1, TaskFacts DEF TypeOK, SetStale, At
<1>3. PICK r : r = [row[k.row] EXCEPT !.stale = (k.do = "mark")]
  OBVIOUS
<1>4. r \in Row /\ r.status # "absent"
  BY <1>2, <1>3 DEF Row, Exists
<1>5. row' = [row EXCEPT ![k.row] = r]
  BY <1>2, <1>3 DEF SetStale, TypeOK
<1>20. hand[j].at \in {"infer", "sweep"} /\ k.row \in Titles
  BY <1>1, TaskFacts
<1>21. PICK e : e = NoEntry
  OBVIOUS
<1>22. PICK rest \in SUBSET hand[j].todo : rest = hand[j].todo \ {k}
  OBVIOUS
<1>23. e \in Entry \union {NoEntry} /\ (e # NoEntry => e.row = k.row)
  BY <1>1, <1>21, TaskFacts
<1>24. hand' = [hand EXCEPT ![j] = Onward(j, rest, e)]
  BY <1>21, <1>22 DEF SetStale
<1>25.  /\ row' \in [Titles -> Row] /\ hand' \in [Actors -> Hand]
        /\ \A y \in Actors : WellFormed(hand[y])' /\ Refers(hand[y])'
  BY <1>1, <1>4, <1>5, <1>20, <1>22, <1>23, <1>24, WriteType
<1> QED
  BY <1>25 DEF SetStale, TypeOK

\* Whoever stops leaves no trace in its hand.
LEMMA StopType ==
  ASSUME TypeOK, NEW x \in Actors, hand' = [hand EXCEPT ![x] = Idle], UNCHANGED row
  PROVE  /\ hand' \in [Actors -> Hand]
         /\ \A y \in Actors : WellFormed(hand[y])' /\ Refers(hand[y])'
<1>1. \A t \in Titles : Exists(t) => Exists(t)'
  BY DEF Exists
<1>2. PICK h : h = Idle
  OBVIOUS
<1>3. WellFormed(h) /\ Refers(h)'
  BY <1>2, IdleFits DEF Refers, Idle
<1> QED
  BY <1>1, <1>2, <1>3, OneHand

LEMMA RefusedType ==
  ASSUME TypeOK, NEW j \in Jobs, NEW k \in hand[j].todo, CreateRefused(j, k)
  PROVE  TypeOK'
<1>1. j \in Actors
  BY DEF Actors
<1> QED
  BY <1>1, StopType DEF CreateRefused, TypeOK

LEMMA FailType == ASSUME TypeOK, NEW x \in Actors, Fail(x) PROVE TypeOK'
<1>1. hand[x].entry.row \in Titles \union {Nil}
  BY DEF TypeOK, Hand, Entry, NoEntry
<1>2. unlogged' \subseteq Titles
  BY <1>1 DEF Fail, TypeOK
<1>3. troubles' \in 0..MaxTroubles
  BY DEF Fail, TypeOK
<1> QED
  BY <1>2, <1>3, StopType DEF Fail, TypeOK

\* The sweep's tasks are about rows that exist, one close at most for each.
LEMMA SweepFacts ==
  ASSUME TypeOK, NEW j \in Jobs, NEW k \in ToSweep(j)
  PROVE  /\ k \in Task /\ k.do \in {"close", "mark", "clear"} /\ Exists(k.row)
         /\ k.do = "close" => k.row \in ToClose(j) /\ k = Sweep("close", k.row, "closed")
<1>1. PICK t \in Titles :
        \/ t \in ToClose(j) /\ k = Sweep("close", t, "closed")
        \/ row[t].status \in {"inferred", "confirmed"} /\ k = Sweep("mark", t, row[t].status)
        \/ row[t].status \in {"inferred", "confirmed"} /\ k = Sweep("clear", t, row[t].status)
  BY DEF ToSweep, ToClose
<1>2. 0 \in Days
  BY DEF Days
<1>3. CASE t \in ToClose(j) /\ k = Sweep("close", t, "closed")
  BY <1>2, <1>3 DEF Sweep, Task, Statuses, ToClose, Exists
<1>4. CASE row[t].status \in {"inferred", "confirmed"} /\ k = Sweep("mark", t, row[t].status)
  BY <1>2, <1>4 DEF Sweep, Task, Statuses, Exists
<1>5. CASE row[t].status \in {"inferred", "confirmed"} /\ k = Sweep("clear", t, row[t].status)
  BY <1>2, <1>5 DEF Sweep, Task, Statuses, Exists
<1> QED
  BY <1>1, <1>3, <1>4, <1>5

LEMMA ReadOpenType == ASSUME TypeOK, NEW j \in Jobs, ReadOpen(j) PROVE TypeOK'
<1>1. j \in Actors /\ hand[j] \in Hand /\ hand[j].entry = NoEntry
  BY DEF Actors, TypeOK, WellFormed, ReadOpen
<1>2. CASE ToSweep(j) = {}
  BY <1>1, <1>2, StopType DEF ReadOpen, TypeOK
<1>3. CASE ToSweep(j) # {}
  <2>1. PICK h : h = [hand[j] EXCEPT !.at = "sweep", !.todo = ToSweep(j)]
    OBVIOUS
  <2>2. \A k \in ToSweep(j) : k \in Task /\ k.do \in {"close", "mark", "clear"} /\ Exists(k.row)
    BY SweepFacts
  <2>3. h \in Hand /\ h.at = "sweep" /\ h.todo = ToSweep(j) /\ h.entry = NoEntry
    BY <1>1, <2>1, <2>2 DEF Hand
  <2>4. WellFormed(h)
    BY <1>3, <2>2, <2>3 DEF WellFormed
  <2>5. Refers(h)'
    BY <2>2, <2>3 DEF Refers, Exists, ReadOpen
  <2>6. \A t \in Titles : Exists(t) => Exists(t)'
    BY DEF ReadOpen, Exists
  <2>7. hand' = [hand EXCEPT ![j] = h]
    BY <1>3, <2>1 DEF ReadOpen
  <2> QED
    BY <1>1, <2>4, <2>5, <2>6, <2>7, OneHand DEF ReadOpen, TypeOK
<1> QED
  BY <1>2, <1>3

LEMMA DecideType ==
  ASSUME TypeOK, NEW h \in Clerks, NEW t \in Titles, NEW s \in Statuses \ {"absent"},
         Decide(h, t, s)
  PROVE  TypeOK'
<1>1. h \in Actors /\ row[t] \in Row
  BY DEF Actors, TypeOK
<1>2. PICK r : r = [row[t] EXCEPT !.status = s, !.stale = (s = "closed")]
  OBVIOUS
<1>3. r \in Row /\ r.status = s
  BY <1>1, <1>2 DEF Row
<1>4. row' = [row EXCEPT ![t] = r]
  BY <1>1, <1>2 DEF Decide, TypeOK
<1>5. row' \in [Titles -> Row] /\ \A u \in Titles : Exists(u) => Exists(u)'
  BY <1>3, <1>4 DEF TypeOK, Exists
<1>6. PICK g : g = [Idle EXCEPT !.at = "request", !.entry = [row |-> t, status |-> s]]
  OBVIOUS
<1>7. [row |-> t, status |-> s] \in Entry /\ [row |-> t, status |-> s] # NoEntry
  BY DEF Entry, NoEntry
<1>8. /\ g \in Hand /\ g.at = "request" /\ g.todo = {}
      /\ g.entry = [row |-> t, status |-> s]
  <2>1. 0 \in Days
    BY DEF Days
  <2>2. PICK e \in Entry \union {NoEntry} : e = [row |-> t, status |-> s]
    BY <1>7
  <2>3. g = [Idle EXCEPT !.at = "request", !.entry = e]
    BY <1>6, <2>2
  <2>4. g \in Hand /\ g.at = "request" /\ g.todo = {} /\ g.entry = e
    BY <2>1, <2>3 DEF Idle, Hand
  <2> QED
    BY <2>2, <2>4
<1>9. WellFormed(g)
  BY <1>7, <1>8 DEF WellFormed
<1>10. Refers(g)'
  BY <1>3, <1>4, <1>8 DEF Refers, Exists, TypeOK
<1>11. hand' = [hand EXCEPT ![h] = g]
  BY <1>6 DEF Decide
<1>12. contested' \subseteq Titles
  BY <1>1, ContestType DEF Decide
<1> QED
  BY <1>1, <1>5, <1>9, <1>10, <1>11, <1>12, OneHand DEF Decide, TypeOK

LEMMA RecordType == ASSUME TypeOK, NEW x \in Actors, Record(x) PROVE TypeOK'
<1>1. WellFormed(hand[x]) /\ hand[x] \in Hand
  BY DEF TypeOK
<1>2. hand[x].at \in {"infer", "sweep", "request"}
  BY <1>1 DEF WellFormed, Hand, Record
<1>3. hand[x].entry \in Entry
  BY <1>1 DEF Hand, Record
<1>4. said' \in [Titles -> Statuses]
  BY <1>3 DEF Record, TypeOK, Entry
<1>5. \A t \in Titles : Exists(t) => Exists(t)'
  BY DEF Record, Exists
<1>6. PICK h : h = Onward(x, hand[x].todo, NoEntry)
  OBVIOUS
<1>7. WellFormed(h) /\ Refers(h)'
  BY <1>2, <1>5, <1>6, OnwardFits
<1>8. hand' = [hand EXCEPT ![x] = h]
  BY <1>6 DEF Record
<1> QED
  BY <1>4, <1>5, <1>7, <1>8, OneHand DEF Record, TypeOK

LEMMA OutsideType ==
  ASSUME TypeOK, Tick \/ SetPolicy \/ (\E c \in Candidates : NewEvidence(c)) \/ UNCHANGED vars
  PROVE  TypeOK'
<1>1. UNCHANGED <<row, hand, said, contested, unlogged, troubles>>
  BY DEF Tick, SetPolicy, NewEvidence, vars
<1>2. \A x \in Actors : WellFormed(hand[x])' /\ Refers(hand[x])'
  BY <1>1 DEF TypeOK, WellFormed, Refers, Exists
<1>3. day' \in Days /\ signal' \in [Candidates -> Days] /\ autoClose' \in BOOLEAN
      /\ listed' \in BOOLEAN
  BY DEF TypeOK, Days, Tick, SetPolicy, NewEvidence, vars
<1> QED
  BY <1>1, <1>2, <1>3 DEF TypeOK

LEMMA TypeInit == Init => TypeOK
<1> SUFFICES ASSUME Init PROVE TypeOK
  OBVIOUS
<1>0. 1 \in Days /\ 0 \in Days
  BY DEF Days
<1>1. \A x \in Actors : hand[x] = Idle
  BY DEF Init
<1>2. hand \in [Actors -> Hand] /\ \A x \in Actors : WellFormed(hand[x]) /\ Refers(hand[x])
  BY <1>1, IdleFits DEF Init, WellFormed
<1> QED
  BY <1>0, <1>2 DEF Init, TypeOK, Row, Statuses

LEMMA TypeStep == TypeOK /\ [Next]_vars => TypeOK'
<1> SUFFICES ASSUME TypeOK, [Next]_vars PROVE TypeOK'
  OBVIOUS
<1>1. CASE \E j \in Jobs : Nightly(j) \/ Requested(j) \/ JobStep(j)
  <2>1. PICK j \in Jobs : Start(j) \/ JobStep(j)
    BY <1>1 DEF Nightly, Requested
  <2>2. j \in Actors
    BY DEF Actors
  <2>3. CASE \E k \in hand[j].todo : Write(j, k)
    BY <2>3, UpdateType, CreateType, RefusedType, CloseType, StaleType DEF Write
  <2> QED
    BY <2>1, <2>2, <2>3, StartType, ReadType, ReadOpenType, RecordType DEF JobStep
<1>2. CASE \E h \in Clerks : Record(h)
  BY <1>2, RecordType DEF Actors
<1>3. CASE \E h \in Clerks, t \in Titles, s \in Statuses \ {"absent"} : Decide(h, t, s)
  BY <1>3, DecideType
<1>4. CASE \E x \in Actors : Fail(x)
  BY <1>4, FailType
<1> QED
  BY <1>1, <1>2, <1>3, <1>4, OutsideType DEF Next

\* For any number of recomputes and requests: tasks and entries are about rows that
\* exist, but for a create, and nobody is in the middle of its rows without one.
THEOREM TypeCorrect == Spec => []TypeOK
<1> QED
  BY TypeInit, TypeStep, PTL DEF Spec

-----------------------------------------------------------------------------
(* What a recompute has in hand still fits the rows, or they are contested. *)

\* The tasks of one hand among themselves.
TodoSound(todo) ==
  /\ \A k \in todo :
       /\ k.do = "create" => k.status = "inferred"
       /\ k.do = "update" => k.status \in {"inferred", "confirmed"}
       /\ k.do = "close" => k.status = "closed"
  /\ \A k, l \in todo :
       /\ k.do = "update" /\ l.do = "update" /\ k.row = l.row => k.status = l.status
       /\ k.do = "close" /\ l.do = "close" /\ k.row = l.row => k = l

\* The task k is what a recompute would do about a row r on day d.
Fits(k, r, d) ==
  /\ k.do = "update" => /\ r.status = "confirmed" => k.status = "confirmed"
                        /\ ~k.news => r.status = k.status
  /\ k.do = "close" => r.status = "inferred" /\ d >= r.evidence + CloseDays

Handwork ==
  \A x \in Actors :
    /\ TodoSound(hand[x].todo) /\ hand[x].now <= day
    /\ \A k \in hand[x].todo : k.row \notin contested => Fits(k, row[k.row], day)

\* An entry not written yet tells what the row has become; without one the latest
\* entry does.
Told ==
  \A t \in Titles \ (contested \union unlogged) :
    /\ \A x \in Actors : hand[x].entry.row = t => hand[x].entry.status = row[t].status
    /\ (\A x \in Actors : hand[x].entry.row # t) => said[t] = row[t].status

Inv == TypeOK /\ Handwork /\ Told

\* A hand gets shorter, and no status or date of evidence changes.
LEMMA HandworkKept ==
  ASSUME TypeOK, TypeOK', Handwork, NEW x \in Actors, NEW h,
         hand' = [hand EXCEPT ![x] = h], h.todo \subseteq hand[x].todo, h.now <= day',
         day' >= day, contested \subseteq contested',
         \A t \in Titles : row'[t].status = row[t].status /\ row'[t].evidence = row[t].evidence
  PROVE  Handwork'
<1>1. hand'[x] = h /\ \A y \in Actors : y # x => hand'[y] = hand[y]
  BY DEF TypeOK
<1>2. day \in Nat /\ day' \in Nat /\ CloseDays \in Nat
  BY DEF TypeOK, Days
<1> SUFFICES ASSUME NEW y \in Actors
             PROVE  /\ TodoSound(hand'[y].todo) /\ hand'[y].now <= day'
                    /\ \A k \in hand'[y].todo : k.row \notin contested' => Fits(k, row'[k.row], day')
  BY DEF Handwork
<1>3. hand'[y].todo \subseteq hand[y].todo
  BY <1>1
<1>4. TodoSound(hand'[y].todo)
  BY <1>3 DEF Handwork, TodoSound
<1>5. hand'[y].now <= day'
  <2>1. hand[y].now \in Nat /\ hand[y].now <= day
    BY DEF TypeOK, Hand, Days, Handwork
  <2> QED
    BY <1>1, <1>2, <2>1
<1>6. ASSUME NEW k \in hand'[y].todo, k.row \notin contested' PROVE Fits(k, row'[k.row], day')
  <2>1. k \in hand[y].todo /\ k.row \in Titles
    BY <1>3, TaskFacts
  <2>2. Fits(k, row[k.row], day)
    BY <1>6, <2>1 DEF Handwork
  <2>3. row[k.row].evidence \in Nat
    BY <2>1 DEF TypeOK, Row, Days
  <2> QED
    BY <1>2, <2>1, <2>2, <2>3 DEF Fits
<1> QED
  BY <1>4, <1>5, <1>6

\* x writes t: what others have in hand about it no longer counts.
LEMMA HandworkWritten ==
  ASSUME TypeOK, Handwork, NEW x \in Actors, NEW h, NEW t \in Titles,
         hand' = [hand EXCEPT ![x] = h], h.todo \subseteq hand[x].todo, h.now <= day,
         UNCHANGED day, Contest(x, t),
         \A u \in Titles \ {t} : row'[u] = row[u],
         \A k \in h.todo : k.row = t => Fits(k, row'[t], day)
  PROVE  Handwork'
<1>1. hand'[x] = h /\ \A y \in Actors : y # x => hand'[y] = hand[y]
  BY DEF TypeOK
<1>2. contested \subseteq contested'
  BY DEF Contest
<1> SUFFICES ASSUME NEW y \in Actors
             PROVE  /\ TodoSound(hand'[y].todo) /\ hand'[y].now <= day'
                    /\ \A k \in hand'[y].todo : k.row \notin contested' => Fits(k, row'[k.row], day')
  BY DEF Handwork
<1>3. hand'[y].todo \subseteq hand[y].todo
  BY <1>1
<1>4. TodoSound(hand'[y].todo)
  BY <1>3 DEF Handwork, TodoSound
<1>5. hand'[y].now <= day'
  BY <1>1 DEF Handwork
<1>6. ASSUME NEW k \in hand'[y].todo, k.row \notin contested' PROVE Fits(k, row'[k.row], day')
  <2>1. k \in hand[y].todo /\ k.row \in Titles
    BY <1>3, TaskFacts
  <2>2. Fits(k, row[k.row], day)
    BY <1>2, <1>6, <2>1 DEF Handwork
  <2>3. CASE k.row # t
    BY <2>1, <2>2, <2>3
  <2>4. CASE k.row = t /\ y = x
    BY <1>1, <2>4
  <2>5. CASE k.row = t /\ y # x
    <3>1. Holds(y, t)
      BY <2>1, <2>5 DEF Holds
    <3> QED
      BY <1>6, <2>5, <3>1 DEF Contest
  <2> QED
    BY <2>3, <2>4, <2>5
<1> QED
  BY <1>4, <1>5, <1>6

\* Nobody's entry is added, written or lost.
LEMMA ToldKept ==
  ASSUME TypeOK, Told, NEW x \in Actors, NEW h, hand' = [hand EXCEPT ![x] = h],
         h.entry = hand[x].entry, UNCHANGED <<said, unlogged>>, contested \subseteq contested',
         \A t \in Titles : row'[t].status = row[t].status
  PROVE  Told'
<1>1. \A y \in Actors : hand'[y].entry = hand[y].entry
  BY DEF TypeOK
<1> QED
  BY <1>1 DEF Told

\* x writes t and has its entry in hand, or the status was the same.
LEMMA ToldWritten ==
  ASSUME TypeOK, Told, NEW x \in Actors, NEW h, NEW t \in Titles,
         hand' = [hand EXCEPT ![x] = h], hand[x].entry = NoEntry,
         UNCHANGED <<said, unlogged>>, Contest(x, t),
         \A u \in Titles \ {t} : row'[u] = row[u],
         \/ h.entry.row = t /\ h.entry.status = row'[t].status
         \/ h.entry = NoEntry /\ (t \notin contested' => row'[t].status = row[t].status)
  PROVE  Told'
<1>1. hand'[x] = h /\ \A y \in Actors : y # x => hand'[y] = hand[y]
  BY DEF TypeOK
<1>2. contested \subseteq contested' /\ hand[x].entry.row = Nil /\ Nil \notin Titles
  BY DEF Contest, NoEntry
<1> SUFFICES ASSUME NEW u \in Titles, u \notin contested', u \notin unlogged
             PROVE /\ \A y \in Actors : hand'[y].entry.row = u => hand'[y].entry.status = row'[u].status
                   /\ (\A y \in Actors : hand'[y].entry.row # u) => said[u] = row'[u].status
  BY DEF Told
<1>3. /\ \A y \in Actors : hand[y].entry.row = u => hand[y].entry.status = row[u].status
      /\ (\A y \in Actors : hand[y].entry.row # u) => said[u] = row[u].status
  BY <1>2 DEF Told
<1>4. CASE u # t
  <2>1. row'[u] = row[u] /\ h.entry.row # u /\ hand[x].entry.row # u
    BY <1>2, <1>4 DEF NoEntry
  <2> QED
    BY <1>1, <1>3, <2>1
<1>5. CASE u = t
  <2>1. \A y \in Actors : y # x => hand[y].entry.row # t
    BY <1>5 DEF Contest, Holds
  <2> QED
    BY <1>1, <1>2, <1>3, <1>5, <2>1 DEF NoEntry
<1> QED
  BY <1>4, <1>5

\* Going on keeps the tasks and the entry that are left, and the hour.
LEMMA OnwardParts ==
  ASSUME TypeOK, Handwork, NEW x \in Actors, NEW todo, NEW entry,
         NEW h, h = Onward(x, todo, entry)
  PROVE  h.todo = todo /\ h.entry = entry /\ h.now <= day
<1>1. hand[x] \in Hand /\ hand[x].now <= day /\ 0 <= day
  BY DEF TypeOK, Handwork, Days
<1> QED
  BY <1>1 DEF Onward, Idle, Hand

\* Each step keeps what is in hand and what is told.
LEMMA StartKeeps ==
  ASSUME Inv, TypeOK', NEW j \in Jobs, Start(j)
  PROVE  Handwork' /\ Told'
<1>0. PICK g : g = [Idle EXCEPT !.at = "read", !.now = day, !.close = autoClose]
  OBVIOUS
<1>1. j \in Actors /\ hand' = [hand EXCEPT ![j] = g] /\ day \in Nat
  BY <1>0 DEF Start, Actors, Inv, TypeOK, Days
<1>2. g.todo = {} /\ g.entry = NoEntry /\ g.now = day
  BY <1>0 DEF Idle
<1>3. hand[j].entry = NoEntry
  BY <1>1 DEF Start, Inv, TypeOK, WellFormed
<1>4. /\ UNCHANGED <<day, row, said, contested, unlogged>>
      /\ day' >= day /\ g.now <= day' /\ g.todo \subseteq hand[j].todo
  BY <1>1, <1>2 DEF Start
<1>5. Handwork'
  BY <1>1, <1>4, HandworkKept DEF Inv
<1>6. Told'
  BY <1>1, <1>2, <1>3, <1>4, ToldKept DEF Inv
<1> QED
  BY <1>5, <1>6

\* What a recompute infers fits the rows it has read.
LEMMA ReadSound ==
  ASSUME Inv, NEW S \in SUBSET Candidates, NEW pick \in Picks,
         NEW todo, todo = {Infer(c, pick) : c \in S}
  PROVE  TodoSound(todo) /\ \A k \in todo : Fits(k, row[k.row], day)
<1>1. \A k \in todo :
        /\ k.do \in {"create", "update"}
        /\ k.do = "update" => /\ k.status = NextStatus(row[k.row].status)
                              /\ k.news = (k.status # row[k.row].status)
  BY InferFacts DEF Inv
<1>2. \A k \in todo : k.do = "create" => k.status = "inferred"
  BY DEF Infer
<1>3. \A s : NextStatus(s) \in {"inferred", "confirmed"}
             /\ (s = "confirmed" => NextStatus(s) = "confirmed")
  BY DEF NextStatus
<1>4. TodoSound(todo)
  BY <1>1, <1>2, <1>3 DEF TodoSound
<1>5. \A k \in todo : Fits(k, row[k.row], day)
  BY <1>1, <1>3 DEF Fits
<1> QED
  BY <1>4, <1>5

\* A recompute takes sound tasks that fit in hand.
LEMMA HandworkTaken ==
  ASSUME TypeOK, Handwork, NEW x \in Actors, NEW h, hand' = [hand EXCEPT ![x] = h],
         UNCHANGED <<row, day, contested>>, h.now <= day, TodoSound(h.todo),
         \A k \in h.todo : Fits(k, row[k.row], day)
  PROVE  Handwork'
<1>1. hand'[x] = h /\ \A y \in Actors : y # x => hand'[y] = hand[y]
  BY DEF TypeOK
<1> QED
  BY <1>1 DEF Handwork

LEMMA ReadKeeps ==
  ASSUME Inv, TypeOK', NEW j \in Jobs, Read(j)
  PROVE  Handwork' /\ Told'
<1>1. PICK S \in SUBSET Recent(hand[j].now), pick \in Picks :
        hand' = [hand EXCEPT ![j].at = IF S = {} THEN "open" ELSE "infer",
                             ![j].todo = {Infer(c, pick) : c \in S}]
  BY DEF Read
<1>2. PICK todo : todo = {Infer(c, pick) : c \in S}
  OBVIOUS
<1>3. PICK h : h = [hand[j] EXCEPT !.at = IF S = {} THEN "open" ELSE "infer", !.todo = todo]
  OBVIOUS
<1>4. j \in Actors /\ hand[j] \in Hand /\ hand[j].now <= day
  BY DEF Actors, Inv, TypeOK, Handwork
<1>5. S \in SUBSET Candidates
  BY DEF Recent
<1>6. h.todo = todo /\ h.now = hand[j].now /\ h.entry = hand[j].entry
  BY <1>3, <1>4 DEF Hand
<1>7. hand' = [hand EXCEPT ![j] = h]
  BY <1>1, <1>2, <1>3, <1>4 DEF Inv, TypeOK
<1>8. TodoSound(todo) /\ \A k \in todo : Fits(k, row[k.row], day)
  BY <1>2, <1>5, ReadSound
<1>9. Handwork'
  BY <1>4, <1>6, <1>7, <1>8, HandworkTaken DEF Read, Inv
<1>10. Told'
  BY <1>4, <1>6, <1>7, ToldKept DEF Read, Inv
<1> QED
  BY <1>9, <1>10

LEMMA ReadOpenKeeps ==
  ASSUME Inv, TypeOK', NEW j \in Jobs, ReadOpen(j)
  PROVE  Handwork' /\ Told'
<1>1. PICK todo : todo = ToSweep(j)
  OBVIOUS
<1>2. PICK h : h = IF todo = {} THEN Idle ELSE [hand[j] EXCEPT !.at = "sweep", !.todo = todo]
  OBVIOUS
<1>3. j \in Actors /\ hand[j] \in Hand /\ hand[j].now <= day /\ hand[j].entry = NoEntry
  BY DEF Actors, Inv, TypeOK, Handwork, WellFormed, ReadOpen
<1>4. hand' = [hand EXCEPT ![j] = h]
  BY <1>1, <1>2 DEF ReadOpen
<1>5. 0 <= day /\ day \in Nat /\ hand[j].now \in Nat
  BY <1>3 DEF Inv, TypeOK, Days, Hand
<1>6. h.todo = todo /\ h.now <= day /\ h.entry = hand[j].entry
  BY <1>2, <1>3, <1>5 DEF Hand, Idle
<1>7. TypeOK
  BY DEF Inv
<1>8. \A k \in todo :
        /\ k.do \in {"close", "mark", "clear"}
        /\ k.do = "close" => k.row \in ToClose(j) /\ k = Sweep("close", k.row, "closed")
  BY <1>1, <1>7, SweepFacts
<1>9. \A t \in ToClose(j) : row[t].status = "inferred" /\ day >= row[t].evidence + CloseDays
  <2> SUFFICES ASSUME NEW t \in ToClose(j)
               PROVE row[t].status = "inferred" /\ day >= row[t].evidence + CloseDays
    OBVIOUS
  <2>1. row[t].evidence \in Nat /\ CloseDays \in Nat
    BY <1>7 DEF ToClose, TypeOK, Row, Days
  <2>2. row[t].status = "inferred" /\ hand[j].now >= row[t].evidence + CloseDays
    BY DEF ToClose, Older
  <2> QED
    BY <1>3, <1>5, <2>1, <2>2
<1>10. TodoSound(todo)
  <2>1. \A k \in todo : k.do = "close" => k.status = "closed" /\ k = Sweep("close", k.row, "closed")
    BY <1>8 DEF Sweep
  <2> QED
    BY <1>8, <2>1 DEF TodoSound
<1>11. \A k \in todo : Fits(k, row[k.row], day)
  BY <1>8, <1>9 DEF Fits
<1>12. Handwork'
  BY <1>3, <1>4, <1>6, <1>10, <1>11, HandworkTaken DEF ReadOpen, Inv
<1>13. Told'
  BY <1>3, <1>4, <1>6, ToldKept DEF ReadOpen, Inv
<1> QED
  BY <1>12, <1>13

\* The task that is done fits the row, unless the row is contested; the others of
\* its hand do not concern the row, or agree.
LEMMA TaskSound ==
  ASSUME Inv, NEW x \in Actors, NEW k \in hand[x].todo
  PROVE  /\ k.row \notin contested => Fits(k, row[k.row], day)
         /\ k.do = "create" => k.status = "inferred"
         /\ k.do = "update" => k.status \in {"inferred", "confirmed"}
         /\ k.do = "close" => k.status = "closed"
         /\ \A l \in hand[x].todo : l.row = k.row =>
              /\ k.do = "update" /\ l.do = "update" => l.status = k.status
              /\ k.do = "close" /\ l.do = "close" => l = k
BY DEF Inv, Handwork, TodoSound

LEMMA UpdateKeeps ==
  ASSUME Inv, TypeOK', NEW j \in Jobs, NEW k \in hand[j].todo, Update(j, k)
  PROVE  Handwork' /\ Told'
<1>1. j \in Actors /\ TypeOK /\ Handwork /\ Told
  BY DEF Actors, Inv
<1>2. PICK entry \in {NoEntry, EntryOf(k)} :
        /\ hand' = [hand EXCEPT ![j] = Onward(j, hand[j].todo \ {k}, entry)]
        /\ k.news => entry = EntryOf(k)
  BY DEF Update
<1>3. PICK h : h = Onward(j, hand[j].todo \ {k}, entry)
  OBVIOUS
<1>4. h.todo = hand[j].todo \ {k} /\ h.entry = entry /\ h.now <= day
  BY <1>1, <1>3, OnwardParts
<1>5. PICK t \in Titles : t = k.row
  BY <1>1, TaskFacts
<1>6. PICK r : r = [status |-> k.status, stale |-> FALSE, evidence |-> k.seen]
  OBVIOUS
<1>7. row' = [row EXCEPT ![t] = r] /\ r.status = k.status
  BY <1>5, <1>6 DEF Update
<1>8. row'[t] = r /\ \A u \in Titles \ {t} : row'[u] = row[u]
  BY <1>1, <1>7 DEF TypeOK
<1>9. /\ hand' = [hand EXCEPT ![j] = h] /\ hand[j].entry = NoEntry /\ Contest(j, t)
      /\ UNCHANGED <<day, said, unlogged>> /\ k.do = "update"
  BY <1>2, <1>3, <1>5 DEF Update, At
<1>10. ASSUME NEW l \in h.todo, l.row = t PROVE Fits(l, row'[t], day)
  <2>1. l \in hand[j].todo
    BY <1>4, <1>10
  <2>2. WellFormed(hand[j])
    BY <1>1 DEF TypeOK
  <2>3. l.do \in {"create", "update"}
    BY <1>9, <2>1, <2>2 DEF WellFormed
  <2>4. l.do = "update" => l.status = k.status
    BY <1>1, <1>5, <1>9, <1>10, <2>1, TaskSound
  <2> QED
    BY <1>7, <1>8, <2>3, <2>4 DEF Fits
<1>11. Handwork'
  BY <1>1, <1>4, <1>8, <1>9, <1>10, HandworkWritten
<1>12. CASE entry = EntryOf(k)
  <2>1. h.entry.row = t /\ h.entry.status = row'[t].status
    BY <1>4, <1>5, <1>7, <1>8, <1>12 DEF EntryOf
  <2> QED
    BY <1>1, <1>8, <1>9, <1>11, <2>1, ToldWritten
<1>13. CASE entry = NoEntry /\ entry # EntryOf(k)
  <2>1. ~k.news
    BY <1>2, <1>13
  <2>2. t \notin contested => row'[t].status = row[t].status
    BY <1>1, <1>5, <1>7, <1>8, <1>9, <2>1, TaskSound DEF Fits
  <2>3. contested \subseteq contested'
    BY <1>9 DEF Contest
  <2>4. h.entry = NoEntry /\ (t \notin contested' => row'[t].status = row[t].status)
    BY <1>4, <1>13, <2>2, <2>3
  <2> QED
    BY <1>1, <1>8, <1>9, <1>11, <2>4, ToldWritten
<1> QED
  BY <1>2, <1>11, <1>12, <1>13

LEMMA CreateKeeps ==
  ASSUME Inv, TypeOK', NEW j \in Jobs, NEW k \in hand[j].todo, Create(j, k)
  PROVE  Handwork' /\ Told'
<1>1. j \in Actors /\ TypeOK /\ Handwork /\ Told
  BY DEF Actors, Inv
<1>2. PICK e : e = EntryOf(k)
  OBVIOUS
<1>3. PICK h : h = Onward(j, hand[j].todo \ {k}, e)
  OBVIOUS
<1>4. h.todo = hand[j].todo \ {k} /\ h.entry = e /\ h.now <= day
  BY <1>1, <1>3, OnwardParts
<1>5. PICK t \in Titles : t = k.row
  BY <1>1, TaskFacts
<1>6. PICK r : r = [status |-> "inferred", stale |-> FALSE, evidence |-> k.seen]
  OBVIOUS
<1>7. row' = [row EXCEPT ![t] = r] /\ r.status = "inferred"
  BY <1>5, <1>6 DEF Create
<1>8. row'[t] = r /\ \A u \in Titles \ {t} : row'[u] = row[u]
  BY <1>1, <1>7 DEF TypeOK
<1>9. /\ hand' = [hand EXCEPT ![j] = h] /\ hand[j].entry = NoEntry /\ Contest(j, t)
      /\ UNCHANGED <<day, said, unlogged>> /\ k.do = "create" /\ ~Exists(t)
  BY <1>2, <1>3, <1>5 DEF Create, At
<1>10. ASSUME NEW l \in h.todo, l.row = t PROVE Fits(l, row'[t], day)
  <2>1. l \in hand[j].todo
    BY <1>4, <1>10
  <2>2. l.do = "create"
    BY <1>1, <1>9, <1>10, <2>1, TaskFacts
  <2> QED
    BY <2>2 DEF Fits
<1>11. Handwork'
  BY <1>1, <1>4, <1>8, <1>9, <1>10, HandworkWritten
<1>12. h.entry.row = t /\ h.entry.status = row'[t].status
  BY <1>1, <1>2, <1>4, <1>5, <1>7, <1>8, <1>9, TaskSound DEF EntryOf
<1> QED
  BY <1>1, <1>8, <1>9, <1>11, <1>12, ToldWritten

LEMMA CloseKeeps ==
  ASSUME Inv, TypeOK', NEW j \in Jobs, NEW k \in hand[j].todo, CloseRow(j, k)
  PROVE  Handwork' /\ Told'
<1>1. j \in Actors /\ TypeOK /\ Handwork /\ Told
  BY DEF Actors, Inv
<1>2. PICK e : e = EntryOf(k)
  OBVIOUS
<1>3. PICK h : h = Onward(j, hand[j].todo \ {k}, e)
  OBVIOUS
<1>4. h.todo = hand[j].todo \ {k} /\ h.entry = e /\ h.now <= day
  BY <1>1, <1>3, OnwardParts
<1>5. PICK t \in Titles : t = k.row
  BY <1>1, TaskFacts
<1>6. row' = [row EXCEPT ![t].status = "closed", ![t].stale = TRUE]
  BY <1>5 DEF CloseRow
<1>7. row[t] \in Row
  BY <1>1 DEF TypeOK
<1>8. row'[t].status = "closed" /\ \A u \in Titles \ {t} : row'[u] = row[u]
  BY <1>1, <1>6, <1>7 DEF TypeOK, Row
<1>9. /\ hand' = [hand EXCEPT ![j] = h] /\ hand[j].entry = NoEntry /\ Contest(j, t)
      /\ UNCHANGED <<day, said, unlogged>> /\ k.do = "close"
  BY <1>2, <1>3, <1>5 DEF CloseRow, At
<1>10. ASSUME NEW l \in h.todo, l.row = t PROVE Fits(l, row'[t], day)
  <2>1. l \in hand[j].todo /\ l # k
    BY <1>4, <1>10
  <2>2. WellFormed(hand[j])
    BY <1>1 DEF TypeOK
  <2>3. l.do \notin {"create", "update"}
    BY <1>9, <2>1, <2>2 DEF WellFormed
  <2>4. l.do # "close"
    BY <1>1, <1>5, <1>9, <1>10, <2>1, TaskSound
  <2> QED
    BY <2>3, <2>4 DEF Fits
<1>11. Handwork'
  BY <1>1, <1>4, <1>8, <1>9, <1>10, HandworkWritten
<1>12. h.entry.row = t /\ h.entry.status = row'[t].status
  BY <1>1, <1>2, <1>4, <1>5, <1>8, <1>9, TaskSound DEF EntryOf
<1> QED
  BY <1>1, <1>8, <1>9, <1>11, <1>12, ToldWritten

LEMMA RefusedKeeps ==
  ASSUME Inv, TypeOK', NEW j \in Jobs, NEW k \in hand[j].todo, CreateRefused(j, k)
  PROVE  Handwork' /\ Told'
<1>1. j \in Actors /\ TypeOK /\ Handwork /\ Told /\ day \in Nat
  BY DEF Actors, Inv, TypeOK, Days
<1>2. PICK h : h = Idle
  OBVIOUS
<1>3. h.todo = {} /\ h.entry = NoEntry /\ h.now <= day
  BY <1>1, <1>2 DEF Idle
<1>4. /\ hand' = [hand EXCEPT ![j] = h] /\ hand[j].entry = NoEntry
      /\ UNCHANGED <<day, row, said, contested, unlogged>>
  BY <1>2 DEF CreateRefused, At
<1>5. day' >= day /\ h.now <= day' /\ h.todo \subseteq hand[j].todo
  BY <1>1, <1>3, <1>4
<1>6. Handwork'
  BY <1>1, <1>4, <1>5, HandworkKept
<1> QED
  BY <1>1, <1>3, <1>4, <1>6, ToldKept

LEMMA StaleKeeps ==
  ASSUME Inv, TypeOK', NEW j \in Jobs, NEW k \in hand[j].todo, SetStale(j, k)
  PROVE  Handwork' /\ Told'
<1>1. j \in Actors /\ TypeOK /\ Handwork /\ Told /\ day \in Nat
  BY DEF Actors, Inv, TypeOK, Days
<1>2. PICK h : h = Onward(j, hand[j].todo \ {k}, NoEntry)
  OBVIOUS
<1>3. h.todo = hand[j].todo \ {k} /\ h.entry = NoEntry /\ h.now <= day
  BY <1>1, <1>2, OnwardParts
<1>4. /\ hand' = [hand EXCEPT ![j] = h] /\ hand[j].entry = NoEntry
      /\ UNCHANGED <<day, said, contested, unlogged>>
      /\ row' = [row EXCEPT ![k.row].stale = (k.do = "mark")]
  BY <1>2 DEF SetStale, At
<1>5. \A t \in Titles : row'[t].status = row[t].status /\ row'[t].evidence = row[t].evidence
  BY <1>1, <1>4 DEF TypeOK, Row
<1>6. day' >= day /\ h.now <= day' /\ h.todo \subseteq hand[j].todo
  BY <1>1, <1>3, <1>4
<1>7. Handwork'
  BY <1>1, <1>4, <1>5, <1>6, HandworkKept
<1> QED
  BY <1>1, <1>3, <1>4, <1>5, <1>7, ToldKept

LEMMA DecideKeeps ==
  ASSUME Inv, TypeOK', NEW c \in Clerks, NEW t \in Titles, NEW s \in Statuses \ {"absent"},
         Decide(c, t, s)
  PROVE  Handwork' /\ Told'
<1>1. c \in Actors /\ TypeOK /\ Handwork /\ Told /\ day \in Nat
  BY DEF Actors, Inv, TypeOK, Days
<1>2. PICK e : e = [row |-> t, status |-> s]
  OBVIOUS
<1>3. PICK h : h = [Idle EXCEPT !.at = "request", !.entry = e]
  OBVIOUS
<1>4. h.todo = {} /\ h.entry = e /\ h.now <= day
  BY <1>1, <1>3 DEF Idle
<1>5. row' = [row EXCEPT ![t].status = s, ![t].stale = (s = "closed")]
  BY DEF Decide
<1>6. row[t] \in Row
  BY <1>1 DEF TypeOK
<1>7. row'[t].status = s /\ \A u \in Titles \ {t} : row'[u] = row[u]
  BY <1>1, <1>5, <1>6 DEF TypeOK, Row
<1>8. WellFormed(hand[c]) /\ hand[c].at = "idle"
  BY <1>1 DEF TypeOK, Decide
<1>9. /\ hand' = [hand EXCEPT ![c] = h] /\ hand[c].entry = NoEntry /\ Contest(c, t)
      /\ UNCHANGED <<day, said, unlogged>>
  BY <1>2, <1>3, <1>8 DEF Decide, WellFormed
<1>10. Handwork'
  BY <1>1, <1>4, <1>7, <1>9, HandworkWritten
<1>11. h.entry.row = t /\ h.entry.status = row'[t].status
  BY <1>2, <1>4, <1>7
<1> QED
  BY <1>1, <1>7, <1>9, <1>10, <1>11, ToldWritten

\* The entry of one of the writers is written: it tells the status of the row.
LEMMA RecordKeeps ==
  ASSUME Inv, TypeOK', NEW x \in Actors, Record(x)
  PROVE  Handwork' /\ Told'
<1>1. TypeOK /\ Handwork /\ Told /\ day \in Nat
  BY DEF Inv, TypeOK, Days
<1>2. PICK h : h = Onward(x, hand[x].todo, NoEntry)
  OBVIOUS
<1>3. h.todo = hand[x].todo /\ h.entry = NoEntry /\ h.now <= day
  BY <1>1, <1>2, OnwardParts
<1>4. /\ hand' = [hand EXCEPT ![x] = h] /\ UNCHANGED <<day, row, contested, unlogged>>
      /\ hand[x].entry # NoEntry
  BY <1>2 DEF Record
<1>5. day' >= day /\ h.now <= day' /\ h.todo \subseteq hand[x].todo
  BY <1>1, <1>3, <1>4
<1>6. Handwork'
  BY <1>1, <1>4, <1>5, HandworkKept
<1>7. PICK t \in Titles : t = hand[x].entry.row
  BY <1>1, <1>4 DEF TypeOK, Hand, Entry
<1>8. /\ said'[t] = hand[x].entry.status
      /\ \A u \in Titles \ {t} : said'[u] = said[u]
  BY <1>1, <1>7 DEF Record, TypeOK
<1>9. hand'[x] = h /\ \A y \in Actors : y # x => hand'[y] = hand[y]
  BY <1>1, <1>4 DEF TypeOK
<1>10. ASSUME NEW u \in Titles, u \notin contested', u \notin unlogged'
       PROVE  /\ \A y \in Actors : hand'[y].entry.row = u => hand'[y].entry.status = row'[u].status
              /\ (\A y \in Actors : hand'[y].entry.row # u) => said'[u] = row'[u].status
  <2>1. h.entry.row # u
    BY <1>3 DEF NoEntry
  <2>2. /\ \A y \in Actors : hand[y].entry.row = u => hand[y].entry.status = row[u].status
        /\ (\A y \in Actors : hand[y].entry.row # u) => said[u] = row[u].status
    BY <1>1, <1>4, <1>10 DEF Told
  <2>3. CASE u = t
    BY <1>4, <1>7, <1>8, <1>9, <2>1, <2>2, <2>3
  <2>4. CASE u # t
    BY <1>4, <1>7, <1>8, <1>9, <2>1, <2>2, <2>4
  <2> QED
    BY <2>3, <2>4
<1>11. Told'
  BY <1>10 DEF Told
<1> QED
  BY <1>6, <1>11

\* Whoever fails before an entry leaves its row unlogged.
LEMMA FailKeeps ==
  ASSUME Inv, TypeOK', NEW x \in Actors, Fail(x)
  PROVE  Handwork' /\ Told'
<1>1. TypeOK /\ Handwork /\ Told /\ day \in Nat
  BY DEF Inv, TypeOK, Days
<1>2. PICK h : h = Idle
  OBVIOUS
<1>3. h.todo = {} /\ h.entry = NoEntry /\ h.now <= day
  BY <1>1, <1>2 DEF Idle
<1>4. hand' = [hand EXCEPT ![x] = h] /\ UNCHANGED <<day, row, said, contested>>
  BY <1>2 DEF Fail
<1>5. day' >= day /\ h.now <= day' /\ h.todo \subseteq hand[x].todo
  BY <1>1, <1>3, <1>4
<1>6. Handwork'
  BY <1>1, <1>4, <1>5, HandworkKept
<1>7. hand'[x] = h /\ \A y \in Actors : y # x => hand'[y] = hand[y]
  BY <1>1, <1>4 DEF TypeOK
<1>8. ASSUME NEW u \in Titles, u \notin contested', u \notin unlogged'
      PROVE  /\ \A y \in Actors : hand'[y].entry.row = u => hand'[y].entry.status = row'[u].status
             /\ (\A y \in Actors : hand'[y].entry.row # u) => said'[u] = row'[u].status
  <2>1. h.entry.row # u /\ hand[x].entry.row # u /\ u \notin unlogged
    BY <1>3, <1>8 DEF NoEntry, Fail
  <2>2. /\ \A y \in Actors : hand[y].entry.row = u => hand[y].entry.status = row[u].status
        /\ (\A y \in Actors : hand[y].entry.row # u) => said[u] = row[u].status
    BY <1>1, <1>4, <1>8, <2>1 DEF Told
  <2> QED
    BY <1>4, <1>7, <2>1, <2>2
<1>9. Told'
  BY <1>8 DEF Told
<1> QED
  BY <1>6, <1>9

LEMMA OutsideKeeps ==
  ASSUME Inv, TypeOK',
         Tick \/ SetPolicy \/ (\E c \in Candidates : NewEvidence(c)) \/ UNCHANGED vars
  PROVE  Handwork' /\ Told'
<1>1. TypeOK /\ Handwork /\ Told /\ day \in Nat
  BY DEF Inv, TypeOK, Days
<1>2. UNCHANGED <<row, hand, said, contested, unlogged>> /\ day' >= day
  BY <1>1 DEF Tick, SetPolicy, NewEvidence, vars
<1>3. Told'
  BY <1>1, <1>2 DEF Told
<1>4. ASSUME NEW x \in Actors PROVE Handwork'
  <2>1. PICK h : h = hand[x]
    OBVIOUS
  <2>2. hand' = [hand EXCEPT ![x] = h] /\ h.todo \subseteq hand[x].todo
    BY <1>1, <1>2, <2>1 DEF TypeOK
  <2>3. h.now <= day'
    <3>1. h.now \in Nat /\ h.now <= day /\ day' \in Nat
      BY <1>1, <2>1 DEF TypeOK, Hand, Days, Handwork
    <3> QED
      BY <1>1, <1>2, <3>1
  <2> QED
    BY <1>1, <1>2, <2>2, <2>3, HandworkKept
<1> QED
  BY <1>3, <1>4 DEF Handwork

LEMMA InvInit == Init => Inv
<1> SUFFICES ASSUME Init PROVE Inv
  OBVIOUS
<1>1. \A x \in Actors : hand[x] = Idle
  BY DEF Init
<1>2. Handwork
  BY <1>1 DEF Handwork, TodoSound, Idle, Init
<1>3. Told
  BY <1>1 DEF Told, Idle, NoEntry, Init
<1> QED
  BY <1>2, <1>3, TypeInit DEF Inv

LEMMA InvStep == Inv /\ [Next]_vars => Inv'
<1> SUFFICES ASSUME Inv, [Next]_vars PROVE Inv'
  OBVIOUS
<1>0. TypeOK'
  BY TypeStep DEF Inv
<1>1. CASE \E j \in Jobs : Nightly(j) \/ Requested(j) \/ JobStep(j)
  <2>1. PICK j \in Jobs : Start(j) \/ JobStep(j)
    BY <1>1 DEF Nightly, Requested
  <2>2. j \in Actors
    BY DEF Actors
  <2>3. CASE \E k \in hand[j].todo : Write(j, k)
    BY <1>0, <2>3, UpdateKeeps, CreateKeeps, RefusedKeeps, CloseKeeps, StaleKeeps DEF Write, Inv
  <2> QED
    BY <1>0, <2>1, <2>2, <2>3, StartKeeps, ReadKeeps, ReadOpenKeeps, RecordKeeps
    DEF JobStep, Inv
<1>2. CASE \E h \in Clerks : Record(h)
  BY <1>0, <1>2, RecordKeeps DEF Actors, Inv
<1>3. CASE \E h \in Clerks, t \in Titles, s \in Statuses \ {"absent"} : Decide(h, t, s)
  BY <1>0, <1>3, DecideKeeps DEF Inv
<1>4. CASE \E x \in Actors : Fail(x)
  BY <1>0, <1>4, FailKeeps DEF Inv
<1> QED
  BY <1>0, <1>1, <1>2, <1>3, <1>4, OutsideKeeps DEF Next, Inv

LEMMA Inductive == Spec => []Inv
BY InvInit, InvStep, PTL DEF Spec

-----------------------------------------------------------------------------
(* What follows.                                                           *)

\* The latest entry of the timeline tells the status of the row, or the one that
\* will is in somebody's hand, however many recomputes and requests there are:
\* only two overlapping writers or a failure make it tell another.
THEOREM TimelineFollowsRows == Spec => []TimelineTells
<1>1. Inv => TimelineTells
  <2> SUFFICES ASSUME Inv, NEW t \in Titles, t \notin contested, t \notin unlogged
               PROVE  \/ said[t] = row[t].status
                      \/ \E x \in Actors : hand[x].entry = [row |-> t, status |-> row[t].status]
    BY DEF TimelineTells
  <2>1. CASE \A x \in Actors : hand[x].entry.row # t
    BY <2>1 DEF Inv, Told
  <2>2. ASSUME NEW x \in Actors, hand[x].entry.row = t
        PROVE  hand[x].entry = [row |-> t, status |-> row[t].status]
    <3>1. hand[x].entry.status = row[t].status
      BY <2>2 DEF Inv, Told
    <3>2. hand[x].entry \in Entry
      BY <2>2 DEF Inv, TypeOK, Hand, NoEntry
    <3> QED
      BY <2>2, <3>1, <3>2 DEF Entry
  <2> QED
    BY <2>1, <2>2
<1> QED
  BY <1>1, Inductive, PTL

\* Somebody writes a row that nobody contests: the write is what the row's status
\* and evidence of this moment call for, although both were read long before.
LEMMA WriteDecides ==
  ASSUME Inv, NEW j \in Jobs, NEW k \in hand[j].todo, Write(j, k),
         NEW t \in Titles, row'[t].status # row[t].status, t \notin contested'
  PROVE  /\ row[t].status # "confirmed"
         /\ row'[t].status = "closed" => day >= row[t].evidence + CloseDays
<1>1. j \in Actors /\ TypeOK /\ k.row \in Titles /\ row[k.row] \in Row
  BY TaskFacts DEF Actors, Inv, TypeOK
<1>2. CASE Update(j, k)
  <2>1. row'[k.row].status = k.status /\ \A u \in Titles \ {k.row} : row'[u] = row[u]
    BY <1>1, <1>2 DEF Update, TypeOK
  <2>2. contested \subseteq contested' /\ k.do = "update"
    BY <1>2 DEF Update, Contest, At
  <2>3. t = k.row /\ k.row \notin contested
    BY <2>1, <2>2
  <2>4. Fits(k, row[t], day) /\ k.status \in {"inferred", "confirmed"}
    BY <1>1, <2>2, <2>3, TaskSound
  <2> QED
    BY <2>1, <2>2, <2>3, <2>4 DEF Fits
<1>3. CASE Create(j, k)
  <2>1. row'[k.row].status = "inferred" /\ \A u \in Titles \ {k.row} : row'[u] = row[u]
    BY <1>1, <1>3 DEF Create, TypeOK
  <2> QED
    BY <1>3, <2>1 DEF Create, Exists
<1>4. CASE CloseRow(j, k)
  <2>1. row'[k.row].status = "closed" /\ \A u \in Titles \ {k.row} : row'[u] = row[u]
    BY <1>1, <1>4 DEF CloseRow, TypeOK, Row
  <2>2. contested \subseteq contested' /\ k.do = "close"
    BY <1>4 DEF CloseRow, Contest, At
  <2>3. t = k.row /\ k.row \notin contested
    BY <2>1, <2>2
  <2>4. Fits(k, row[t], day)
    BY <1>1, <2>3, TaskSound
  <2> QED
    BY <2>2, <2>4 DEF Fits
<1>5. CASE SetStale(j, k)
  <2>1. \A u \in Titles : row'[u].status = row[u].status
    BY <1>1, <1>5 DEF SetStale, TypeOK, Row
  <2> QED
    BY <2>1
<1>6. CASE CreateRefused(j, k)
  BY <1>6 DEF CreateRefused
<1> QED
  BY <1>2, <1>3, <1>4, <1>5, <1>6 DEF Write

\* A recompute unconfirms nothing and closes nothing early, for any number of
\* recomputes and requests at once and any policy, but where writers of a row overlap.
THEOREM DecisionsStand == Spec => PeopleAndEvidenceDecide
<1>1. ASSUME Inv, [Next]_vars, NEW t \in Titles,
             row'[t].status # row[t].status, ~Asked(t), t \notin contested'
      PROVE  /\ row[t].status # "confirmed"
             /\ row'[t].status = "closed" => day >= row[t].evidence + CloseDays
  <2>1. CASE \E j \in Jobs : \E k \in hand[j].todo : Write(j, k)
    BY <1>1, <2>1, WriteDecides
  <2>2. ASSUME NEW c \in Clerks, NEW u \in Titles, NEW s \in Statuses \ {"absent"},
               Decide(c, u, s)
        PROVE  FALSE
    <3>1. PICK e : e = [row |-> u, status |-> s]
      OBVIOUS
    <3>2. PICK h : h = [Idle EXCEPT !.at = "request", !.entry = e]
      OBVIOUS
    <3>3. hand' = [hand EXCEPT ![c] = h] /\ h.entry.row = u /\ hand[c].at = "idle"
      <4>1. hand' = [hand EXCEPT ![c] = h] /\ hand[c].at = "idle"
        BY <2>2, <3>1, <3>2 DEF Decide
      <4> QED
        BY <3>1, <3>2, <4>1 DEF Idle
    <3>4. hand'[c].entry.row = u
      <4>1. c \in Actors /\ hand \in [Actors -> Hand]
        BY <1>1 DEF Inv, TypeOK, Actors
      <4> QED
        BY <3>3, <4>1
    <3>5. t = u
      BY <1>1, <2>2 DEF Decide, Inv, TypeOK
    <3> QED
      BY <1>1, <3>3, <3>4, <3>5 DEF Asked
  <2>3. CASE UNCHANGED row
    BY <1>1, <2>3
  <2> QED
    BY <1>1, <2>1, <2>2, <2>3
    DEF Next, JobStep, Nightly, Requested, Start, Read, ReadOpen, Record, Fail, Tick, SetPolicy, NewEvidence, vars
<1>2. Inv /\ [Next]_vars =>
        [\A t \in Titles :
           row'[t].status # row[t].status /\ ~Asked(t) /\ t \notin contested' =>
             /\ row[t].status # "confirmed"
             /\ row'[t].status = "closed" => day >= row[t].evidence + CloseDays]_vars
  BY <1>1
<1> QED
  BY <1>2, Inductive, PTL DEF Spec, PeopleAndEvidenceDecide
=============================================================================
