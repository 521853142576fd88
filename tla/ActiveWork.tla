----------------------------- MODULE ActiveWork -----------------------------
(***************************************************************************)
(* The active work of a project: recomputes infer its rows from recent     *)
(* commits and memories, mark them stale and close them, while maintainers *)
(* confirm, close and reopen them (active-work-recompute.ts,               *)
(* active-work-inference.ts, active-work-helpers.ts).                      *)
(*                                                                         *)
(* Nothing is a transaction: a recompute reads the rows once, writes them  *)
(* back one after another, reads them again and sweeps; every change of a  *)
(* status is first written to the row and then to the timeline, and both   *)
(* may meet the statements of other recomputes and of people.              *)
(*                                                                         *)
(* Abstracted: one project; scores, the threshold and the cut to ten (any  *)
(* set of the candidates that have evidence); the three reads of a         *)
(* recompute as one; the timeline's entries about staleness; audit rows;   *)
(* edits of the days for staleness and auto-close.                         *)
(***************************************************************************)
EXTENDS Naturals

CONSTANTS
  Candidates,   \* what evidence can point at: a cluster, a decision, a goal, ...
  Titles, Keys, \* titles of rows, and what is left of them in lower case
  TitleOf,      \* the title of each candidate
  KeyOf,        \* the key of each title
  Jobs,         \* recomputes at once: timers and requests of all instances
  Clerks,       \* maintainers' requests at once
  Nil,
  Window,       \* evidence counts for 14 days
  StaleDays, CloseDays, \* activeWorkStaleDays, activeWorkAutoCloseDays
  MaxDay,       \* bound: days
  MaxTroubles   \* bound: statements that fail

ASSUME ActiveWorkAssumption ==
  /\ TitleOf \in [Candidates -> Titles] /\ KeyOf \in [Titles -> Keys]
  /\ Nil \notin Titles \union Candidates
  /\ Jobs \intersect Clerks = {}
  /\ {Window, MaxTroubles} \subseteq Nat
  /\ {StaleDays, CloseDays, MaxDay} \subseteq Nat \ {0}

VARIABLES
  day,
  signal,    \* per candidate: the day of its latest evidence, 0 without any
  autoClose, \* activeWorkAutoCloseEnabled
  listed,    \* the nightly run takes the project: enableActivityAutoLog is not off
             \* in its workspace, and it is among the 1000 projects the query returns
  row,       \* active_work
  said,      \* active_work_events: the status its latest entry tells
  hand,      \* the recomputes and requests in progress
  contested, \* history: rows written while somebody else had them in hand
  unlogged,  \* history: rows written by somebody who failed before the entry
  troubles   \* how much of the bound on failures is used up

vars == <<day, signal, autoClose, listed, row, said, hand, contested, unlogged, troubles>>

Actors == Jobs \union Clerks
Days == 0..MaxDay
Statuses == {"absent", "inferred", "confirmed", "closed"}
Row == [status : Statuses, stale : BOOLEAN, evidence : Days]

\* What a recompute has read and not come to yet: the row to write, its new status
\* and date of evidence, whether the status it read was another, and why.
Task == [do : {"create", "update", "close", "mark", "clear"}, row : Titles,
         status : Statuses \ {"absent"}, seen : Days, news : BOOLEAN,
         by : Candidates \union {Nil}]
Entry == [row : Titles, status : Statuses \ {"absent"}]
NoEntry == [row |-> Nil, status |-> "absent"]
Hand == [at : {"idle", "read", "infer", "open", "sweep", "request"},
         todo : SUBSET Task, entry : Entry \union {NoEntry}, now : Days,
         close : BOOLEAN]
Idle == [at |-> "idle", todo |-> {}, entry |-> NoEntry, now |-> 0, close |-> FALSE]

\* Whoever is in the middle of its rows has one to write, or an entry; the sweep
\* and the inference have tasks of their own.
WellFormed(h) ==
  /\ h \in Hand
  /\ h.at \in {"idle", "read", "open"} => h.todo = {} /\ h.entry = NoEntry
  /\ h.at = "request" => h.todo = {} /\ h.entry # NoEntry
  /\ h.at \in {"infer", "sweep"} => h.todo # {} \/ h.entry # NoEntry
  /\ \A k \in h.todo : (k.do \in {"create", "update"}) = (h.at = "infer")

\* Only a create has no row yet.
Exists(t) == row[t].status # "absent"
Refers(h) ==
  /\ \A k \in h.todo : k.do # "create" => Exists(k.row)
  /\ h.entry # NoEntry => Exists(h.entry.row)

TypeOK ==
  /\ day \in Days /\ signal \in [Candidates -> Days] /\ autoClose \in BOOLEAN
  /\ listed \in BOOLEAN /\ row \in [Titles -> Row] /\ said \in [Titles -> Statuses]
  /\ hand \in [Actors -> Hand]
  /\ \A x \in Actors : WellFormed(hand[x]) /\ Refers(hand[x])
  /\ contested \subseteq Titles /\ unlogged \subseteq Titles
  /\ troubles \in 0..MaxTroubles

Holds(x, t) ==
  hand[x].entry.row = t \/ \E k \in hand[x].todo : k.row = t

\* x writes the status of t.
Contest(x, t) ==
  contested' = IF \E y \in Actors \ {x} : Holds(y, t)
               THEN contested \union {t} ELSE contested

-----------------------------------------------------------------------------
(* What happens outside.                                                   *)

Tick ==
  /\ day < MaxDay
  /\ day' = day + 1
  /\ UNCHANGED <<signal, autoClose, listed, row, said, hand, contested, unlogged, troubles>>

\* A commit is captured, or a decision, goal or activity written.
NewEvidence(c) ==
  /\ signal' = [signal EXCEPT ![c] = day]
  /\ UNCHANGED <<day, autoClose, listed, row, said, hand, contested, unlogged, troubles>>

\* The settings are changed, or the project moves in or out of the first thousand.
SetPolicy ==
  /\ autoClose' \in BOOLEAN /\ listed' \in BOOLEAN
  /\ UNCHANGED <<day, signal, row, said, hand, contested, unlogged, troubles>>

-----------------------------------------------------------------------------
(* A recompute.                                                            *)

\* The hour of the recompute and the policy come first.
Start(j) ==
  /\ hand[j].at = "idle"
  /\ hand' = [hand EXCEPT ![j] = [Idle EXCEPT !.at = "read", !.now = day, !.close = autoClose]]
  /\ UNCHANGED <<day, signal, autoClose, listed, row, said, contested, unlogged, troubles>>

\* The nightly run skips some projects, and so some workspaces; a request takes the
\* project it names.
Nightly(j) == listed /\ Start(j)
Requested(j) == Start(j)

Recent(now) == {c \in Candidates : signal[c] # 0 /\ now <= signal[c] + Window}

\* existingByTitle: of the rows of one key, the last that was read stays.
Picks ==
  {p \in [Keys -> Titles \union {Nil}] :
     \A key \in Keys :
       LET known == {t \in Titles : KeyOf[t] = key /\ Exists(t)}
       IN  IF known = {} THEN p[key] = Nil ELSE p[key] \in known}

\* Mutant: a confirmed row becomes inferred again.
NextStatusInferred(status) == "inferred"

NextStatus(status) == IF status = "confirmed" THEN "confirmed" ELSE "inferred"

Infer(c, pick) ==
  LET t == pick[KeyOf[TitleOf[c]]] IN
  IF t = Nil
  THEN [do |-> "create", row |-> TitleOf[c], status |-> "inferred",
        seen |-> signal[c], news |-> TRUE, by |-> c]
  ELSE [do |-> "update", row |-> t, status |-> NextStatus(row[t].status),
        seen |-> signal[c], news |-> NextStatus(row[t].status) # row[t].status, by |-> c]

\* Mutant: without candidates it goes on to write them.
ReadAnyway(j) ==
  /\ hand[j].at = "read"
  /\ \E S \in SUBSET Recent(hand[j].now), pick \in Picks :
       hand' = [hand EXCEPT ![j].at = "infer", ![j].todo = {Infer(c, pick) : c \in S}]
  /\ UNCHANGED <<day, signal, autoClose, listed, row, said, contested, unlogged, troubles>>

Read(j) ==
  /\ hand[j].at = "read"
  /\ \E S \in SUBSET Recent(hand[j].now), pick \in Picks :
       hand' = [hand EXCEPT ![j].at = IF S = {} THEN "open" ELSE "infer",
                            ![j].todo = {Infer(c, pick) : c \in S}]
  /\ UNCHANGED <<day, signal, autoClose, listed, row, said, contested, unlogged, troubles>>

\* What x goes on with, once it has tasks and an entry left, or neither.
Onward(x, todo, entry) ==
  IF todo # {} \/ entry # NoEntry THEN [hand[x] EXCEPT !.todo = todo, !.entry = entry]
  ELSE IF hand[x].at = "infer" THEN [hand[x] EXCEPT !.at = "open", !.todo = {}, !.entry = NoEntry]
  ELSE Idle

\* x has the task k, and is not about to write an entry.
At(x, k, do) == k \in hand[x].todo /\ k.do = do /\ hand[x].entry = NoEntry
EntryOf(k) == [row |-> k.row, status |-> k.status]

\* Mutant: the entry is written for new evidence only.
UpdateQuietly(j, k) ==
  /\ At(j, k, "update")
  /\ row' = [row EXCEPT ![k.row] = [status |-> k.status, stale |-> FALSE, evidence |-> k.seen]]
  /\ \E entry \in {NoEntry, EntryOf(k)} :
       hand' = [hand EXCEPT ![j] = Onward(j, hand[j].todo \ {k}, entry)]
  /\ Contest(j, k.row)
  /\ UNCHANGED <<day, signal, autoClose, listed, said, unlogged, troubles>>

\* The row is written as it was read; there is an entry when the status, the
\* evidence or the confidence differs from what was read.
Update(j, k) ==
  /\ At(j, k, "update")
  /\ row' = [row EXCEPT ![k.row] = [status |-> k.status, stale |-> FALSE, evidence |-> k.seen]]
  /\ \E entry \in (IF k.news THEN {} ELSE {NoEntry}) \union {EntryOf(k)} :
       hand' = [hand EXCEPT ![j] = Onward(j, hand[j].todo \ {k}, entry)]
  /\ Contest(j, k.row)
  /\ UNCHANGED <<day, signal, autoClose, listed, said, unlogged, troubles>>

Create(j, k) ==
  /\ At(j, k, "create") /\ ~Exists(k.row)
  /\ row' = [row EXCEPT ![k.row] = [status |-> "inferred", stale |-> FALSE, evidence |-> k.seen]]
  /\ hand' = [hand EXCEPT ![j] = Onward(j, hand[j].todo \ {k}, EntryOf(k))]
  /\ Contest(j, k.row)
  /\ UNCHANGED <<day, signal, autoClose, listed, said, unlogged, troubles>>

\* Titles are unique: the second of two creates of one title, by two recomputes or
\* by two candidates of one, fails, and the recompute ends without its sweep.
CreateRefused(j, k) ==
  /\ At(j, k, "create") /\ Exists(k.row)
  /\ hand' = [hand EXCEPT ![j] = Idle]
  /\ UNCHANGED <<day, signal, autoClose, listed, row, said, contested, unlogged, troubles>>

Older(j, t, days) == hand[j].now >= row[t].evidence + days
Sweep(do, t, status) ==
  [do |-> do, row |-> t, status |-> status, seen |-> 0, news |-> FALSE, by |-> Nil]

\* Mutant: a row that is stale already is passed over.
ToCloseFresh(j) ==
  {t \in Titles : row[t].status = "inferred" /\ hand[j].close /\ Older(j, t, CloseDays)
                  /\ ~row[t].stale}

ToClose(j) ==
  {t \in Titles : row[t].status = "inferred" /\ hand[j].close /\ Older(j, t, CloseDays)}

ToSweep(j) ==
  LET open == {t \in Titles : row[t].status \in {"inferred", "confirmed"}} \ ToClose(j) IN
  {Sweep("close", t, "closed") : t \in ToClose(j)}
    \union {Sweep("mark", t, row[t].status) :
              t \in {u \in open : Older(j, u, StaleDays) /\ ~row[u].stale}}
    \union {Sweep("clear", t, row[t].status) :
              t \in {u \in open : ~Older(j, u, StaleDays) /\ row[u].stale}}

ReadOpen(j) ==
  /\ hand[j].at = "open"
  /\ hand' = [hand EXCEPT ![j] =
       IF ToSweep(j) = {} THEN Idle ELSE [@ EXCEPT !.at = "sweep", !.todo = ToSweep(j)]]
  /\ UNCHANGED <<day, signal, autoClose, listed, row, said, contested, unlogged, troubles>>

CloseRow(j, k) ==
  /\ At(j, k, "close")
  /\ row' = [row EXCEPT ![k.row].status = "closed", ![k.row].stale = TRUE]
  /\ hand' = [hand EXCEPT ![j] = Onward(j, hand[j].todo \ {k}, EntryOf(k))]
  /\ Contest(j, k.row)
  /\ UNCHANGED <<day, signal, autoClose, listed, said, unlogged, troubles>>

SetStale(j, k) ==
  /\ At(j, k, "mark") \/ At(j, k, "clear")
  /\ row' = [row EXCEPT ![k.row].stale = (k.do = "mark")]
  /\ hand' = [hand EXCEPT ![j] = Onward(j, hand[j].todo \ {k}, NoEntry)]
  /\ UNCHANGED <<day, signal, autoClose, listed, said, contested, unlogged, troubles>>

-----------------------------------------------------------------------------
(* People, and what all of them do.                                        *)

\* confirm, close or reopen.
Decide(h, t, status) ==
  /\ hand[h].at = "idle" /\ Exists(t)
  /\ row' = [row EXCEPT ![t].status = status, ![t].stale = (status = "closed")]
  /\ hand' = [hand EXCEPT ![h] =
       [Idle EXCEPT !.at = "request", !.entry = [row |-> t, status |-> status]]]
  /\ Contest(h, t)
  /\ UNCHANGED <<day, signal, autoClose, listed, said, unlogged, troubles>>

\* recordActiveWorkEvent
Record(x) ==
  /\ hand[x].entry # NoEntry
  /\ said' = [said EXCEPT ![hand[x].entry.row] = hand[x].entry.status]
  /\ hand' = [hand EXCEPT ![x] = Onward(x, hand[x].todo, NoEntry)]
  /\ UNCHANGED <<day, signal, autoClose, listed, row, contested, unlogged, troubles>>

\* A statement fails or the process dies: the rest is left undone.
Fail(x) ==
  /\ hand[x].at # "idle" /\ troubles < MaxTroubles
  /\ hand' = [hand EXCEPT ![x] = Idle]
  /\ unlogged' = unlogged \union ({hand[x].entry.row} \ {Nil})
  /\ troubles' = troubles + 1
  /\ UNCHANGED <<day, signal, autoClose, listed, row, said, contested>>

-----------------------------------------------------------------------------
Init ==
  /\ day = 1 /\ signal = [c \in Candidates |-> 0] /\ autoClose \in BOOLEAN
  /\ listed \in BOOLEAN
  /\ row = [t \in Titles |-> [status |-> "absent", stale |-> FALSE, evidence |-> 0]]
  /\ said = [t \in Titles |-> "absent"]
  /\ hand = [x \in Actors |-> Idle]
  /\ contested = {} /\ unlogged = {} /\ troubles \in 0..MaxTroubles

Write(j, k) ==
  \/ Update(j, k) \/ Create(j, k) \/ CreateRefused(j, k)
  \/ CloseRow(j, k) \/ SetStale(j, k)

JobStep(j) == Read(j) \/ ReadOpen(j) \/ (\E k \in hand[j].todo : Write(j, k)) \/ Record(j)

Next ==
  \/ Tick \/ SetPolicy
  \/ \E c \in Candidates : NewEvidence(c)
  \/ \E j \in Jobs : Nightly(j) \/ Requested(j) \/ JobStep(j)
  \/ \E h \in Clerks : Record(h)
  \/ \E h \in Clerks, t \in Titles, s \in Statuses \ {"absent"} : Decide(h, t, s)
  \/ \E x \in Actors : Fail(x)

Spec == Init /\ [][Next]_vars

\* A timer starts the nightly run every day, and a recompute that runs goes on.
Fairness == \A j \in Jobs : WF_vars(Nightly(j)) /\ WF_vars(JobStep(j))
FairSpec == Spec /\ Fairness

-----------------------------------------------------------------------------
(* Properties.                                                             *)

\* Some maintainer's request writes t in this step.
Asked(t) == \E h \in Clerks : hand[h].at = "idle" /\ hand'[h].entry.row = t

\* active-work-stale.md: "Confirmed items are preserved from auto-close".  A
\* recompute takes no row out of confirmed, and closes none whose evidence is not
\* old enough, though it works from rows it read long before: unless somebody else
\* wrote the row meanwhile.
PeopleAndEvidenceDecide ==
  [][\A t \in Titles :
       row'[t].status # row[t].status /\ ~Asked(t) /\ t \notin contested' =>
         /\ row[t].status # "confirmed"
         /\ row'[t].status = "closed" => day >= row[t].evidence + CloseDays]_vars

\* active-work-timeline.md: every meaningful transition has its entry.  The latest
\* entry tells the status a row has, or will once it is written, unless two writers
\* of the row overlapped or one failed before its entry.
TimelineTells ==
  \A t \in Titles \ (contested \union unlogged) :
    \/ said[t] = row[t].status
    \/ \E x \in Actors : hand[x].entry = [row |-> t, status |-> row[t].status]

\* In a project that the nightly run does not skip, with auto-close on, an inferred
\* row whose evidence is old does not stay as it is: no mark, no create that fails
\* and no other recompute keeps the sweep from it.
QuietWorkIsClosed ==
  \A t \in Titles :
    ~<>[](/\ listed /\ autoClose /\ row[t].status = "inferred"
          /\ day >= row[t].evidence + CloseDays)
=============================================================================
