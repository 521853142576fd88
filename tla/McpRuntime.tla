----------------------------- MODULE McpRuntime -----------------------------
(***************************************************************************)
(* The local MCP adapter: processes that share one home directory. A start *)
(* installs its own version and links it as current; then the bridge reads *)
(* the API key while an update check runs beside it, under a lock file;    *)
(* login and logout write the same state.json (bridge-main.ts, runtime/).  *)
(*                                                                         *)
(* One file operation is one step where another process can tell, and it   *)
(* may fail. A killed process, one whose copy fails, or one that throws    *)
(* where nobody catches it leaves the files as they are.                   *)
(*                                                                         *)
(* Abstracted: POSIX files (a rename fails only when its source is gone,   *)
(* or, of a directory, its target there);                                  *)
(* the stable channel; JSON-RPC traffic and logs; the launcher script,     *)
(* the manifest files and temporary names with a time stamp in them.       *)
(***************************************************************************)
EXTENDS Naturals, FiniteSets

CONSTANTS
  Procs,      \* adapter processes
  Packages,   \* versions at hand outside the home directory (a checkout, npx)
  MaxVersion, \* bound: releases
  MaxStarts,  \* bound: processes that start
  MaxKills    \* bound: processes that are killed

ASSUME McpAssumption ==
  /\ MaxVersion \in Nat \ {0} /\ Packages \subseteq 1..MaxVersion
  /\ MaxStarts \in Nat /\ MaxKills \in Nat

VARIABLES
  dir,      \* adapter/versions/v<version>
  current,  \* target of the link adapter/current
  next,     \* target of the link adapter/current.next
  lock,     \* update.lock exists
  state,    \* state.json
  proc,     \* where each process is
  release,  \* the latest release on GitHub
  starts, kills,
  raced,    \* history: two processes switched the link at once
  cut,      \* history: versions whose copy was cut off
  refused,  \* history: releases whose download did not match its checksum
  highest,  \* history: the newest version that has been linked
  abandoned \* history: a process ended with the lock in its hands, or made its file
            \* and could not write it

Versions == 1..MaxVersion
None == 0

links == <<current, next>>
files == <<dir, links, lock, state>>
history == <<raced, cut, refused, highest, abandoned>>
vars == <<files, proc, release, starts, kills, history>>

\* Installing; switching the link, which a start and an update do; updating; the rest.
Switching == {"unlink", "link", "rename", "remove", "retry"}
Locked == {"read", "fetch", "download", "extract", "write", "release"}
Places == {"idle", "lstat", "copy", "acquire", "serve", "logout"}
          \union Switching \union Locked

State == [etag : Versions \union {None}, recent : BOOLEAN, key : BOOLEAN]
NoState == [etag |-> None, recent |-> FALSE, key |-> FALSE]
Process == [at : Places, updating : BOOLEAN, version : Versions \union {None},
            target : Versions \union {None}, seen : State,
            needsKey : BOOLEAN]
NoProcess == [at |-> "idle", updating |-> FALSE, version |-> None, target |-> None,
              seen |-> NoState, needsKey |-> FALSE]

Holding(p) == proc[p].updating

WellFormed(r) ==
  /\ r \in Process
  /\ r.at \in Locked => r.updating
  /\ r.updating => r.at \in Locked \union Switching
  /\ r.at \in {"lstat", "copy"} => r.version # None
  /\ r.at \in {"download", "extract"} \union Switching => r.target # None

TypeOK ==
  /\ dir \in [Versions -> {"absent", "partial", "complete"}]
  /\ current \in Versions \union {None} /\ next \in Versions \union {None}
  /\ lock \in BOOLEAN /\ state \in State
  /\ proc \in [Procs -> Process] /\ \A p \in Procs : WellFormed(proc[p])
  /\ release \in Versions /\ starts \in 0..MaxStarts /\ kills \in 0..MaxKills
  /\ highest \in Versions \union {None}
  /\ raced \in BOOLEAN /\ abandoned \in BOOLEAN
  /\ cut \subseteq Versions /\ refused \subseteq Versions

Goto(p, place) == proc' = [proc EXCEPT ![p].at = place]

\* The process is gone; nothing it held is given back.
Gone(p) ==
  /\ proc' = [proc EXCEPT ![p] = NoProcess]
  /\ abandoned' = (abandoned \/ Holding(p))

-----------------------------------------------------------------------------
(* Starting: ensureCurrentVersionInstalled.                                *)

\* By the launcher, which runs what current points to, or from a package.
Start(p) ==
  /\ proc[p].at = "idle" /\ starts < MaxStarts
  /\ \E v \in Packages \union {w \in Versions : w = current /\ dir[w] = "complete"} :
     \E needs \in BOOLEAN :
       proc' = [proc EXCEPT ![p] =
         [NoProcess EXCEPT !.at = "lstat", !.version = v, !.target = v, !.needsKey = needs]]
  /\ starts' = starts + 1
  /\ UNCHANGED <<files, release, kills, history>>

Lstat(p) ==
  LET v == proc[p].version IN
  /\ proc[p].at = "lstat"
  /\ \/ dir[v] = "absent" /\ Goto(p, "copy") /\ dir' = [dir EXCEPT ![v] = "partial"]
     \/ dir[v] # "absent" /\ Goto(p, "unlink") /\ UNCHANGED dir
  /\ UNCHANGED <<links, lock, state, release, starts, kills, history>>

CopyDone(p) ==
  /\ proc[p].at = "copy"
  /\ dir' = [dir EXCEPT ![proc[p].version] = "complete"]
  /\ Goto(p, "unlink")
  /\ UNCHANGED <<links, lock, state, release, starts, kills, history>>

-----------------------------------------------------------------------------
(* switchCurrentSymlink.                                                   *)

\* What follows the switch: the state is written, or the bridge and the update check
\* start; with auto-update off there is no check.
Switched(p) ==
  IF proc[p].updating THEN Goto(p, "write")
  ELSE \/ Goto(p, "acquire")
       \/ Goto(p, "serve")

\* The switch throws: an update check logs it and gives the lock back, a start fails.
SwitchFails(p) ==
  IF proc[p].updating THEN Goto(p, "release") /\ UNCHANGED abandoned ELSE Gone(p)

Unlink(p) ==
  /\ proc[p].at = "unlink"
  /\ \/ next' = None /\ Goto(p, "link") /\ UNCHANGED abandoned
     \/ SwitchFails(p) /\ UNCHANGED next
  /\ raced' = (raced \/ \E q \in Procs \ {p} : proc[q].at \in Switching)
  /\ UNCHANGED <<dir, current, lock, state, release, starts, kills, cut, refused,
                 highest>>

\* Fails at least when the link is there.
Symlink(p) ==
  /\ proc[p].at = "link"
  /\ \/ /\ next = None
        /\ next' = proc[p].target
        /\ Goto(p, "rename") /\ UNCHANGED abandoned
     \/ SwitchFails(p) /\ UNCHANGED next
  /\ UNCHANGED <<dir, current, lock, state, release, starts, kills, raced, cut,
                 refused, highest>>

SetCurrent(p) ==
  /\ next # None
  /\ current' = next /\ next' = None
  /\ highest' = IF next > highest THEN next ELSE highest
  /\ Switched(p)
  /\ UNCHANGED <<dir, lock, state, release, starts, kills, raced, cut, refused, abandoned>>

\* Mutant: the old link goes before the new one comes.
RenameRemoves(p) ==
  /\ proc[p].at = "rename"
  /\ current' = None
  /\ Goto(p, "retry")
  /\ UNCHANGED <<dir, next, lock, state, release, starts, kills, history>>

Rename(p) ==
  /\ proc[p].at = "rename"
  /\ \/ SetCurrent(p)
     \/ /\ next = None
        /\ Goto(p, "remove")
        /\ UNCHANGED <<files, release, starts, kills, history>>

RemoveCurrent(p) ==
  /\ proc[p].at = "remove"
  /\ current' = None
  /\ Goto(p, "retry")
  /\ UNCHANGED <<dir, next, lock, state, release, starts, kills, history>>

RenameAgain(p) ==
  /\ proc[p].at = "retry"
  /\ \/ SetCurrent(p)
     \/ /\ next = None
        /\ SwitchFails(p)
        /\ UNCHANGED <<files, release, starts, kills, raced, cut, refused, highest>>

-----------------------------------------------------------------------------
(* The bridge and the API key.                                             *)

\* While the check goes on, the bridge reads state.json: without a key there, or in
\* the environment, the process exits.
ReadKey(p) ==
  /\ proc[p].needsKey /\ (proc[p].updating \/ proc[p].at \in {"acquire", "serve"})
  /\ \/ /\ state.key
        /\ proc' = [proc EXCEPT ![p].needsKey = FALSE] /\ UNCHANGED abandoned
     \/ ~state.key /\ Gone(p)
  /\ UNCHANGED <<files, release, starts, kills, raced, cut, refused, highest>>

\* The client closes the standard input.
Close(p) ==
  /\ proc[p].at = "serve" /\ ~proc[p].needsKey
  /\ Gone(p)
  /\ UNCHANGED <<files, release, starts, kills, raced, cut, refused, highest>>

Login ==
  /\ state' = [NoState EXCEPT !.key = TRUE]
  /\ UNCHANGED <<dir, links, lock, proc, release, starts, kills, history>>

\* clearApiKeyFromState, which writes back the rest as it read it.
StartLogout(p) ==
  /\ proc[p].at = "idle" /\ starts < MaxStarts
  /\ proc' = [proc EXCEPT ![p] = [NoProcess EXCEPT !.at = "logout", !.seen = state]]
  /\ starts' = starts + 1
  /\ UNCHANGED <<files, release, kills, history>>

FinishLogout(p) ==
  /\ proc[p].at = "logout"
  /\ state' = [proc[p].seen EXCEPT !.key = FALSE]
  /\ Gone(p)
  /\ UNCHANGED <<dir, links, lock, release, starts, kills, raced, cut, refused, highest>>

-----------------------------------------------------------------------------
(* The update check: runBackgroundUpdateCheck.                             *)

\* Mutant: the check goes on without the lock.
AcquireAnyway(p) ==
  /\ proc[p].at = "acquire"
  /\ \/ lock /\ Goto(p, "read") /\ UNCHANGED lock
     \/ /\ ~lock /\ lock' = TRUE
        /\ proc' = [proc EXCEPT ![p].at = "read", ![p].updating = TRUE]
  /\ UNCHANGED <<dir, links, state, release, starts, kills, history>>

\* One catch takes what fails: the file is there or cannot be made; or it was made,
\* and writing or closing it fails, so that it stays though nobody has the lock.
Acquire(p) ==
  /\ proc[p].at = "acquire"
  /\ \/ Goto(p, "serve") /\ UNCHANGED <<lock, abandoned>>
     \/ /\ ~lock /\ lock' = TRUE
        /\ proc' = [proc EXCEPT ![p].at = "read", ![p].updating = TRUE]
        /\ UNCHANGED abandoned
     \/ /\ ~lock /\ lock' = TRUE
        /\ Goto(p, "serve") /\ abandoned' = TRUE
  /\ UNCHANGED <<dir, links, state, release, starts, kills, raced, cut, refused, highest>>

\* Only the updater's own fields are read, and no check follows another in a minute.
ReadState(p) ==
  /\ proc[p].at = "read"
  /\ proc' = [proc EXCEPT ![p].at = IF state.recent THEN "release" ELSE "fetch",
                          ![p].seen = [state EXCEPT !.key = FALSE]]
  /\ UNCHANGED <<files, release, starts, kills, history>>

\* 304, a release that is no newer, one without the assets, or one to download;
\* any call may fail.
Fetch(p) ==
  LET nothingNew == proc[p].seen.etag = release \/ release <= proc[p].version IN
  /\ proc[p].at = "fetch"
  /\ \/ Goto(p, "release") /\ UNCHANGED refused
     \/ /\ proc' = [proc EXCEPT ![p].seen.etag = release, ![p].target = release,
                                ![p].at = IF nothingNew THEN "write" ELSE "download"]
        /\ UNCHANGED refused
     \/ /\ ~nothingNew
        /\ proc' = [proc EXCEPT ![p].seen.etag = release, ![p].at = "write"]
        /\ refused' = refused \union {release}
  /\ UNCHANGED <<files, release, starts, kills, raced, cut, highest, abandoned>>

\* Mutant: a failed download is stored like a refused one.
DownloadStoresFailure(p) ==
  /\ proc[p].at = "download"
  /\ \/ Goto(p, "write") /\ UNCHANGED refused
     \/ Goto(p, "extract") /\ UNCHANGED refused
     \/ Goto(p, "write") /\ refused' = refused \union {proc[p].target}
  /\ UNCHANGED <<files, release, starts, kills, raced, cut, highest, abandoned>>

Download(p) ==
  /\ proc[p].at = "download"
  /\ \/ Goto(p, "release") /\ UNCHANGED refused
     \/ Goto(p, "extract") /\ UNCHANGED refused
     \/ Goto(p, "write") /\ refused' = refused \union {proc[p].target}
  /\ UNCHANGED <<files, release, starts, kills, raced, cut, highest, abandoned>>

\* A directory of its own that is renamed when it is complete.
Extract(p) ==
  LET v == proc[p].target IN
  /\ proc[p].at = "extract"
  /\ \/ /\ dir' = [dir EXCEPT ![v] = IF @ = "absent" THEN "complete" ELSE @]
        /\ Goto(p, "unlink")
     \/ Goto(p, "release") /\ UNCHANGED dir
  /\ UNCHANGED <<links, lock, state, release, starts, kills, history>>

WriteState(p) ==
  /\ proc[p].at = "write"
  /\ state' \in {[proc[p].seen EXCEPT !.recent = TRUE], state}
  /\ Goto(p, "release")
  /\ UNCHANGED <<dir, links, lock, release, starts, kills, history>>

\* The rm may fail too; nothing catches that, and the process ends as in Kill.
Release(p) ==
  /\ proc[p].at = "release"
  /\ lock' = FALSE
  /\ proc' = [proc EXCEPT ![p].at = "serve", ![p].updating = FALSE]
  /\ UNCHANGED <<dir, links, state, release, starts, kills, history>>

-----------------------------------------------------------------------------
(* The world.                                                              *)

Publish ==
  /\ release < MaxVersion
  /\ release' = release + 1
  /\ UNCHANGED <<files, proc, starts, kills, history>>

Minute ==
  /\ state.recent
  /\ state' = [state EXCEPT !.recent = FALSE]
  /\ UNCHANGED <<dir, links, lock, proc, release, starts, kills, history>>

Kill(p) ==
  /\ proc[p].at # "idle" /\ kills < MaxKills
  /\ kills' = kills + 1
  /\ Gone(p)
  /\ cut' = IF proc[p].at = "copy" THEN cut \union {proc[p].version} ELSE cut
  /\ UNCHANGED <<files, release, starts, raced, refused, highest>>

Init ==
  /\ dir = [v \in Versions |-> "absent"]
  /\ current = None /\ next = None /\ lock = FALSE /\ state = NoState
  /\ proc = [p \in Procs |-> NoProcess]
  /\ release = 1 /\ starts = 0 /\ kills = 0
  /\ raced = FALSE /\ highest = None /\ abandoned = FALSE
  /\ cut = {} /\ refused = {}

Step(p) ==
  \/ Start(p) \/ Lstat(p) \/ CopyDone(p)
  \/ Unlink(p) \/ Symlink(p) \/ Rename(p) \/ RemoveCurrent(p) \/ RenameAgain(p)
  \/ ReadKey(p) \/ Close(p) \/ StartLogout(p) \/ FinishLogout(p)
  \/ Acquire(p) \/ ReadState(p) \/ Fetch(p) \/ Download(p) \/ Extract(p)
  \/ WriteState(p) \/ Release(p)

Next ==
  \/ Login \/ Publish \/ Minute
  \/ \E p \in Procs : Step(p) \/ Kill(p)

Spec == Init /\ [][Next]_vars

-----------------------------------------------------------------------------
(* Properties.                                                             *)

\* Once installed, the launcher finds a version it can run; it misses one only after
\* two switches at once, and finds half of one only while it is copied or when the
\* copy was cut off.
LauncherWorks ==
  /\ current = None => highest = None \/ raced
  /\ current # None =>
       \/ dir[current] = "complete" \/ current \in cut
       \/ \E p \in Procs : proc[p].at = "copy" /\ proc[p].version = current

\* Updates go on: the lock is left behind only by a process that ended with it, or
\* that made its file and could not write it (lock.ts:10-20); and a release that no
\* check will look at again is linked, unless it was refused, two switches ran at
\* once, or a process of an older version has linked itself since.
UpdatesGoOn ==
  /\ lock => abandoned \/ \E p \in Procs : Holding(p)
  /\ state.etag = release =>
       current >= release \/ release \in refused \/ current < highest \/ raced
=============================================================================
