------------------------- MODULE McpRuntime_proofs -------------------------
(***************************************************************************)
(* For any number of adapter processes and versions: when the link current *)
(* works, and what can keep a release from being installed.                *)
(***************************************************************************)
EXTENDS McpRuntime, TLAPS

USE McpAssumption DEF Versions, None

\* An etag that was stored names a release that was linked or refused.
EtagFits(e, high, race, ref) == e.etag # None => e.etag \in ref \/ e.etag <= high \/ race
EtagOK(e) == EtagFits(e, highest, raced, refused)

\* What a process knows is so, wherever it is.
Fits(r, ds, high, race, ref) ==
  /\ WellFormed(r)
  /\ r.at \in {"lstat", "copy"} \/ (r.at \in Switching /\ ~r.updating) =>
       r.target = r.version /\ r.version # None
  /\ r.at \in {"acquire", "serve"} \/ r.updating => r.version <= high \/ race
  /\ r.at \in {"fetch", "write", "logout"} => EtagFits(r.seen, high, race, ref)
  /\ r.updating /\ r.at \in {"download", "extract"} \union Switching =>
       r.seen.etag = r.target
  /\ r.at \in Switching => ds[r.target] # "absent"
  /\ r.at \in {"remove", "retry"} => race
Fit(p) == Fits(proc[p], dir, highest, raced, refused)

\* Links lead to versions that are there, at least in part; and half a version is
\* being copied, or was cut off.
LinksOK ==
  /\ current # None => dir[current] # "absent"
  /\ next # None => dir[next] # "absent"
  /\ current <= highest
  /\ current = None => highest = None \/ raced
  /\ \A v \in Versions : dir[v] = "partial" =>
       v \in cut \/ \E p \in Procs : proc[p].at = "copy" /\ proc[p].version = v

\* As long as no two processes switch at once, a process renames the link it made.
Linking == {"link", "rename", "remove", "retry"}
OneSwitch ==
  ~raced =>
    /\ \A p, q \in Procs : proc[p].at \in Linking /\ proc[q].at \in Linking => p = q
    /\ \A p \in Procs : proc[p].at = "rename" => next = proc[p].target

LockOK == lock => abandoned \/ \E p \in Procs : Holding(p)

IInv ==
  /\ TypeOK /\ \A p \in Procs : Fit(p)
  /\ LinksOK /\ OneSwitch /\ EtagOK(state) /\ LockOK

-----------------------------------------------------------------------------
(* The types.                                                              *)

\* Every action writes these as their types say.
LEMMA TypeStep ==
  ASSUME TypeOK, Next, proc' \in [Procs -> Process], \A p \in Procs : WellFormed(proc'[p])
  PROVE  TypeOK'
<1> USE DEF files, links, history
<1>0. \A p \in Procs : proc[p] \in Process
  BY DEF TypeOK
<1> SUFFICES /\ dir' \in [Versions -> {"absent", "partial", "complete"}]
             /\ current' \in Versions \union {None} /\ next' \in Versions \union {None}
             /\ lock' \in BOOLEAN /\ state' \in State
             /\ release' \in Versions /\ starts' \in 0..MaxStarts /\ kills' \in 0..MaxKills
             /\ highest' \in Versions \union {None}
             /\ raced' \in BOOLEAN /\ abandoned' \in BOOLEAN
             /\ cut' \subseteq Versions /\ refused' \subseteq Versions
  BY DEF TypeOK, WellFormed
<1> USE DEF TypeOK
<1>1. CASE Login
  BY <1>1 DEF Login, State, NoState
<1>2. CASE Publish
  BY <1>2 DEF Publish
<1>3. CASE Minute
  BY <1>3 DEF Minute, State
<1>4. ASSUME NEW p \in Procs, Step(p) \/ Kill(p)
      PROVE  /\ dir' \in [Versions -> {"absent", "partial", "complete"}]
             /\ current' \in Versions \union {None} /\ next' \in Versions \union {None}
             /\ lock' \in BOOLEAN /\ state' \in State
             /\ release' \in Versions /\ starts' \in 0..MaxStarts /\ kills' \in 0..MaxKills
             /\ highest' \in Versions \union {None}
             /\ raced' \in BOOLEAN /\ abandoned' \in BOOLEAN
             /\ cut' \subseteq Versions /\ refused' \subseteq Versions
  <2>0. /\ proc[p].version \in Versions \union {None} /\ proc[p].target \in Versions \union {None}
        /\ proc[p].seen \in State /\ WellFormed(proc[p]) /\ proc[p].updating \in BOOLEAN
    BY <1>0 DEF Process
  <2> USE <2>0
  <2>1. CASE Start(p) \/ StartLogout(p)
    <3>1. /\ starts < MaxStarts /\ starts' = starts + 1
          /\ UNCHANGED <<files, release, kills, history>>
      BY <2>1 DEF Start, StartLogout
    <3> QED
      BY <3>1
  <2>2. CASE Lstat(p) \/ CopyDone(p) \/ Extract(p)
    BY <2>2 DEF Lstat, CopyDone, Extract
  <2>3. CASE Unlink(p)
    <3>1. abandoned' \in BOOLEAN
      BY <2>3 DEF Unlink, SwitchFails, Gone, Holding
    <3> QED
      BY <2>3, <3>1 DEF Unlink
  <2>4. CASE Symlink(p)
    <3>1. abandoned' \in BOOLEAN
      BY <2>4 DEF Symlink, SwitchFails, Gone, Holding
    <3> QED
      BY <2>4, <3>1 DEF Symlink
  <2>5. CASE Rename(p) \/ RenameAgain(p)
    <3>1. CASE SetCurrent(p)
      BY <3>1 DEF SetCurrent
    <3>2. CASE ~SetCurrent(p)
      <4>1. abandoned' \in BOOLEAN
        BY <2>5, <3>2 DEF Rename, RenameAgain, SwitchFails, Gone, Holding
      <4> QED
        BY <2>5, <3>2, <4>1 DEF Rename, RenameAgain
    <3> QED
      BY <3>1, <3>2
  <2>6. CASE RemoveCurrent(p)
    BY <2>6 DEF RemoveCurrent
  <2>7. CASE ReadKey(p) \/ Close(p)
    BY <2>7 DEF ReadKey, Close, Gone, Holding
  <2>8. CASE FinishLogout(p)
    BY <2>8 DEF FinishLogout, Gone, Holding, State
  <2>9. CASE Acquire(p) \/ ReadState(p) \/ Release(p)
    BY <2>9 DEF Acquire, ReadState, Release
  <2>10. CASE Fetch(p) \/ Download(p)
    <3>1. /\ UNCHANGED <<files, release, starts, kills, raced, cut, highest, abandoned>>
          /\ \/ UNCHANGED refused \/ refused' = refused \union {release}
             \/ proc[p].at = "download" /\ refused' = refused \union {proc[p].target}
      BY <2>10 DEF Fetch, Download
    <3>2. proc[p].at = "download" => proc[p].target \in Versions
      BY DEF WellFormed
    <3> QED
      BY <3>1, <3>2
  <2>11. CASE WriteState(p)
    BY <2>11 DEF WriteState, State
  <2>12. CASE Kill(p)
    <3>1. /\ kills < MaxKills /\ kills' = kills + 1
          /\ abandoned' = (abandoned \/ Holding(p))
          /\ UNCHANGED <<files, release, starts, raced, refused, highest>>
      BY <2>12 DEF Kill, Gone
    <3>2. cut' \subseteq Versions
      BY <2>12 DEF Kill, WellFormed
    <3> QED
      BY <3>1, <3>2 DEF Holding
  <2> QED
    BY <1>4, <2>1, <2>2, <2>3, <2>4, <2>5, <2>6, <2>7, <2>8, <2>9, <2>10, <2>11, <2>12 DEF Step
<1> QED
  BY <1>1, <1>2, <1>3, <1>4 DEF Next

-----------------------------------------------------------------------------
(* One process at a time.                                                  *)

\* A step that only moves a process leaves the rest of it, and the others, as they are.
LEMMA Moved ==
  ASSUME TypeOK, NEW p \in Procs, NEW place \in Places, Goto(p, place)
  PROVE  /\ proc' \in [Procs -> Process] /\ \A q \in Procs \ {p} : proc'[q] = proc[q]
         /\ proc'[p] = [proc[p] EXCEPT !.at = place]
         /\ proc'[p] \in Process /\ proc'[p].at = place
         /\ proc'[p].updating = proc[p].updating /\ proc'[p].version = proc[p].version
         /\ proc'[p].target = proc[p].target /\ proc'[p].seen = proc[p].seen
<1>1. proc \in [Procs -> Process] /\ proc[p] \in Process
  BY DEF TypeOK
<1>2. proc' = [proc EXCEPT ![p] = [proc[p] EXCEPT !.at = place]]
  BY DEF Goto
<1>3. [proc[p] EXCEPT !.at = place] \in Process
  BY <1>1 DEF Process
<1> QED
  BY <1>1, <1>2, <1>3 DEF Process

\* The history only grows, and no version goes.
LEMMA Growing ==
  ASSUME IInv, Next
  PROVE  /\ highest' \in Nat /\ highest <= highest' /\ (raced => raced') /\ refused \subseteq refused'
         /\ (abandoned => abandoned') /\ cut \subseteq cut'
         /\ \A v \in Versions : dir[v] # "absent" => dir'[v] # "absent"
<1> USE DEF files, links, history, IInv, TypeOK
<1> DEFINE Goal == /\ highest' \in Nat /\ highest <= highest' /\ (raced => raced') /\ refused \subseteq refused'
                   /\ (abandoned => abandoned') /\ cut \subseteq cut'
                   /\ \A v \in Versions : dir[v] # "absent" => dir'[v] # "absent"
<1>1. CASE Login \/ Publish \/ Minute
  BY <1>1 DEF Login, Publish, Minute
<1>2. ASSUME NEW p \in Procs, Step(p) \/ Kill(p)
      PROVE  Goal
  <2>1. CASE Start(p) \/ StartLogout(p)
    <3>1. UNCHANGED <<dir, raced, cut, refused, highest, abandoned>>
      BY <2>1 DEF Start, StartLogout
    <3> QED
      BY <3>1
  <2>2. CASE Lstat(p) \/ CopyDone(p) \/ Extract(p)
    BY <2>2 DEF Lstat, CopyDone, Extract
  <2>3. CASE Unlink(p) \/ RemoveCurrent(p)
    BY <2>3 DEF Unlink, RemoveCurrent, SwitchFails, Gone
  <2>4. CASE Symlink(p)
    BY <2>4 DEF Symlink, SwitchFails, Gone
  <2>5. CASE Rename(p) \/ RenameAgain(p)
    <3>1. CASE SetCurrent(p)
      BY <3>1 DEF SetCurrent
    <3>2. CASE ~SetCurrent(p)
      BY <2>5, <3>2 DEF Rename, RenameAgain, SwitchFails, Gone
    <3> QED
      BY <3>1, <3>2
  <2>6. CASE ReadKey(p) \/ Close(p) \/ FinishLogout(p)
    BY <2>6 DEF ReadKey, Close, FinishLogout, Gone
  <2>7. CASE Acquire(p) \/ ReadState(p) \/ WriteState(p) \/ Release(p)
    BY <2>7 DEF Acquire, ReadState, WriteState, Release
  <2>8. CASE Fetch(p) \/ Download(p)
    BY <2>8 DEF Fetch, Download
  <2>9. CASE Kill(p)
    BY <2>9 DEF Kill, Gone
  <2> QED
    BY <1>2, <2>1, <2>2, <2>3, <2>4, <2>5, <2>6, <2>7, <2>8, <2>9 DEF Step
<1> QED
  BY <1>1, <1>2 DEF Next

\* What was so of a process that does nothing stays so.
LEMMA Lasting ==
  ASSUME IInv, Next, NEW r, Fits(r, dir, highest, raced, refused)
  PROVE  Fits(r, dir', highest', raced', refused')
<1>1. /\ highest' \in Nat /\ highest <= highest' /\ (raced => raced') /\ refused \subseteq refused'
      /\ \A v \in Versions : dir[v] # "absent" => dir'[v] # "absent"
  BY Growing
<1>2. highest \in 0..MaxVersion /\ highest' \in Nat
  BY Growing DEF IInv, TypeOK
<1>3. r \in Process /\ r.version \in 0..MaxVersion /\ r.target \in 0..MaxVersion
      /\ r.seen.etag \in 0..MaxVersion
  BY DEF Fits, WellFormed, Process, State
<1>4. EtagFits(r.seen, highest, raced, refused) => EtagFits(r.seen, highest', raced', refused')
  BY <1>1, <1>2, <1>3 DEF EtagFits
<1>5. r.at \in Switching => r.target \in Versions
  BY <1>3 DEF Fits, WellFormed
<1> QED
  BY <1>1, <1>2, <1>3, <1>4, <1>5 DEF Fits

\* Nothing is known of a process that is gone.
LEMMA GoneFits ==
  ASSUME TypeOK, NEW p \in Procs, Gone(p)
  PROVE  /\ proc' \in [Procs -> Process] /\ \A q \in Procs \ {p} : proc'[q] = proc[q]
         /\ proc'[p] = NoProcess
         /\ \A ds, high, race, ref : Fits(proc'[p], ds, high, race, ref)
<1>1. NoProcess \in Process
  BY DEF NoProcess, NoState, Process, State, Places
<1>2. /\ proc' \in [Procs -> Process] /\ \A q \in Procs \ {p} : proc'[q] = proc[q]
      /\ proc'[p] = NoProcess
  BY <1>1 DEF TypeOK, Gone
<1>3. NoProcess.at = "idle" /\ ~NoProcess.updating
  BY DEF NoProcess
<1> QED
  BY <1>1, <1>2, <1>3 DEF Fits, WellFormed, Switching, Locked

\* Where a step takes its process, that process fits, and no other process moves.
LEMMA Own ==
  ASSUME IInv, Next, NEW p \in Procs, Step(p) \/ Kill(p)
  PROVE  /\ proc' \in [Procs -> Process] /\ \A q \in Procs \ {p} : proc'[q] = proc[q]
         /\ Fits(proc'[p], dir', highest', raced', refused')
<1> DEFINE Goal == /\ proc' \in [Procs -> Process] /\ \A q \in Procs \ {p} : proc'[q] = proc[q]
                   /\ Fits(proc'[p], dir', highest', raced', refused')
<1>0. TypeOK /\ Fits(proc[p], dir, highest, raced, refused) /\ Fits(proc[p], dir', highest', raced', refused')
  BY Lasting DEF IInv, Fit
<1>1. /\ proc \in [Procs -> Process] /\ proc[p] \in Process /\ state \in State
      /\ dir \in [Versions -> {"absent", "partial", "complete"}]
      /\ proc[p].version \in Versions \union {None} /\ proc[p].target \in Versions \union {None}
      /\ proc[p].seen \in State /\ proc[p].updating \in BOOLEAN /\ proc[p].at \in Places
      /\ highest \in Versions \union {None} /\ release \in Versions /\ WellFormed(proc[p])
  BY <1>0 DEF TypeOK, Process
<1> DEFINE At(place) == /\ proc' \in [Procs -> Process] /\ \A q \in Procs \ {p} : proc'[q] = proc[q]
                        /\ proc'[p] \in Process /\ proc'[p].at = place
                        /\ proc'[p].updating = proc[p].updating /\ proc'[p].version = proc[p].version
                        /\ proc'[p].target = proc[p].target /\ proc'[p].seen = proc[p].seen
<1>a. \A place \in Places : Goto(p, place) => At(place)
  BY <1>0, Moved
<1> HIDE DEF At
<1> USE <1>1 DEF files, links, history
<1>2. CASE Start(p)
  <2>1. PICK v \in Packages \union {w \in Versions : w = current /\ dir[w] = "complete"} :
             \E needs \in BOOLEAN :
               proc' = [proc EXCEPT ![p] =
                 [NoProcess EXCEPT !.at = "lstat", !.version = v, !.target = v, !.needsKey = needs]]
    BY <1>2 DEF Start
  <2>2. PICK needs \in BOOLEAN :
             proc' = [proc EXCEPT ![p] =
               [NoProcess EXCEPT !.at = "lstat", !.version = v, !.target = v, !.needsKey = needs]]
    BY <2>1
  <2> DEFINE r == [NoProcess EXCEPT !.at = "lstat", !.version = v, !.target = v, !.needsKey = needs]
  <2>3. /\ r \in Process /\ r.at = "lstat" /\ r.version = v /\ r.target = v /\ ~r.updating
        /\ v \in Versions
    BY <2>1, <2>2 DEF NoProcess, NoState, Process, State, Places
  <2>4. Fits(r, dir', highest', raced', refused')
    BY <2>3 DEF Fits, WellFormed, Switching, Locked
  <2> QED
    BY <2>2, <2>3, <2>4
<1>3. CASE StartLogout(p)
  <2> DEFINE r == [NoProcess EXCEPT !.at = "logout", !.seen = state]
  <2>1. /\ r \in Process /\ r.at = "logout" /\ r.seen = state /\ ~r.updating
    BY DEF NoProcess, NoState, Process, State, Places
  <2>2. EtagFits(state, highest, raced, refused) /\ UNCHANGED <<highest, raced, refused>>
    BY <1>3 DEF StartLogout, IInv, EtagOK
  <2>3. Fits(r, dir', highest', raced', refused')
    BY <2>1, <2>2 DEF Fits, WellFormed, Switching, Locked
  <2> QED
    BY <1>3, <2>1, <2>3 DEF StartLogout
<1>4. CASE Lstat(p)
  <2>1. CASE dir[proc[p].version] = "absent" /\ Goto(p, "copy")
    <3>1. At("copy")
      BY <1>a, <1>4, <2>1 DEF Lstat, Places, Switching, Locked
    <3> QED
      BY <1>0, <1>4, <2>1, <3>1 DEF At, Lstat, Fits, WellFormed, Switching, Locked
  <2>2. CASE dir[proc[p].version] # "absent" /\ Goto(p, "unlink") /\ UNCHANGED dir
    <3>1. At("unlink")
      BY <1>a, <1>4, <2>2 DEF Lstat, Places, Switching, Locked
    <3> QED
      BY <1>0, <1>4, <2>2, <3>1 DEF At, Lstat, Fits, WellFormed, Switching, Locked
  <2> QED
    BY <1>4, <2>1, <2>2 DEF Lstat
<1>5. CASE CopyDone(p)
  <2>1. At("unlink")
    BY <1>a, <1>5 DEF CopyDone, Places, Switching, Locked
  <2> QED
    BY <1>0, <1>5, <2>1 DEF At, CopyDone, Fits, WellFormed, Switching, Locked
<1>6. CASE SwitchFails(p) /\ proc[p].at \in {"unlink", "link", "retry"}
  <2>1. CASE proc[p].updating /\ Goto(p, "release")
    <3>1. At("release")
      BY <1>a, <2>1 DEF Places, Switching, Locked
    <3> QED
      BY <1>0, <1>6, <2>1, <3>1 DEF At, Fits, WellFormed, Switching, Locked
  <2>2. CASE Gone(p)
    BY <1>0, <2>2, GoneFits
  <2> QED
    BY <1>6, <2>1, <2>2 DEF SwitchFails
<1>7. CASE SetCurrent(p) /\ proc[p].at \in {"rename", "retry"}
  <2>1. highest' \in Nat /\ (proc[p].target <= highest' \/ raced')
    BY <1>0, <1>7 DEF SetCurrent, IInv, OneSwitch, Fits, TypeOK
  <2>2. CASE proc[p].updating /\ Goto(p, "write")
    <3>1. EtagFits(proc[p].seen, highest', raced', refused')
      BY <1>0, <1>7, <2>1, <2>2 DEF Fits, EtagFits, Switching
    <3> QED
      <4>1. At("write")
        BY <1>a, <2>2 DEF Places, Switching, Locked
      <4> QED
        BY <1>0, <1>7, <2>2, <3>1, <4>1 DEF At, Fits, WellFormed, Switching, Locked
  <2>3. CASE ~proc[p].updating /\ (Goto(p, "acquire") \/ Goto(p, "serve"))
    <3>1. At("acquire") \/ At("serve")
      BY <1>a, <2>3 DEF Places, Switching, Locked
    <3> QED
      BY <1>0, <1>7, <2>1, <2>3, <3>1 DEF At, Fits, WellFormed, Switching, Locked
  <2> QED
    BY <1>7, <2>2, <2>3 DEF SetCurrent, Switched
<1>8. CASE Unlink(p)
  <2>1. CASE Goto(p, "link") /\ proc[p].at = "unlink"
    <3>1. At("link")
      BY <1>a, <2>1 DEF Places, Switching, Locked
    <3> QED
      BY <1>0, <2>1, <3>1 DEF At, Fits, WellFormed, Switching, Locked
  <2> QED
    BY <1>6, <1>8, <2>1 DEF Unlink
<1>9. CASE Symlink(p)
  <2>1. CASE Goto(p, "rename") /\ proc[p].at = "link"
    <3>1. At("rename")
      BY <1>a, <2>1 DEF Places, Switching, Locked
    <3> QED
      BY <1>0, <2>1, <3>1 DEF At, Fits, WellFormed, Switching, Locked
  <2> QED
    BY <1>6, <1>9, <2>1 DEF Symlink
<1>10. CASE Rename(p)
  <2>1. CASE proc[p].at = "rename" /\ next = None /\ Goto(p, "remove") /\ UNCHANGED raced
    <3>1. raced
      BY <1>0, <2>1 DEF IInv, OneSwitch, Fits, WellFormed, Switching
    <3>2. At("remove")
      BY <1>a, <2>1 DEF Places, Switching, Locked
    <3> QED
      BY <1>0, <2>1, <3>1, <3>2 DEF At, Fits, WellFormed, Switching, Locked
  <2> QED
    BY <1>7, <1>10, <2>1 DEF Rename
<1>11. CASE RemoveCurrent(p)
  <2>1. At("retry")
    BY <1>a, <1>11 DEF RemoveCurrent, Places, Switching, Locked
  <2> QED
    BY <1>0, <1>11, <2>1 DEF At, RemoveCurrent, Fits, WellFormed, Switching, Locked
<1>12. CASE RenameAgain(p)
  BY <1>7, <1>6, <1>12 DEF RenameAgain
<1>13. CASE ReadKey(p)
  <2>1. CASE Gone(p)
    BY <1>0, <2>1, GoneFits
  <2>2. CASE proc' = [proc EXCEPT ![p].needsKey = FALSE]
    <3> DEFINE r == [proc[p] EXCEPT !.needsKey = FALSE]
    <3>1. /\ r \in Process /\ r.at = proc[p].at /\ r.updating = proc[p].updating
          /\ r.version = proc[p].version /\ r.target = proc[p].target /\ r.seen = proc[p].seen
      BY DEF Process
    <3>2. Fits(r, dir', highest', raced', refused')
      BY <1>0, <3>1 DEF Fits, WellFormed
    <3> QED
      BY <2>2, <3>1, <3>2
  <2> QED
    BY <1>13, <2>1, <2>2 DEF ReadKey
<1>14. CASE Close(p) \/ FinishLogout(p) \/ Kill(p)
  BY <1>0, <1>14, GoneFits DEF Close, FinishLogout, Kill
<1>15. CASE Acquire(p)
  <2>1. CASE Goto(p, "serve") /\ proc[p].at = "acquire"
    <3>1. At("serve")
      BY <1>a, <2>1 DEF Places, Switching, Locked
    <3> QED
      BY <1>0, <2>1, <3>1 DEF At, Fits, WellFormed, Switching, Locked
  <2>2. CASE proc' = [proc EXCEPT ![p].at = "read", ![p].updating = TRUE] /\ proc[p].at = "acquire"
    <3> DEFINE r == [proc[p] EXCEPT !.at = "read", !.updating = TRUE]
    <3>1. /\ r \in Process /\ r.at = "read" /\ r.updating /\ r.version = proc[p].version
      BY DEF Process, Places, Locked
    <3>2. Fits(r, dir', highest', raced', refused')
      BY <1>0, <2>2, <3>1 DEF Fits, WellFormed, Switching, Locked
    <3>3. proc' = [proc EXCEPT ![p] = r]
      BY <2>2
    <3> QED
      BY <3>1, <3>2, <3>3
  <2> QED
    BY <1>15, <2>1, <2>2 DEF Acquire
<1>16. CASE ReadState(p)
  <2> DEFINE at == IF state.recent THEN "release" ELSE "fetch"
             seen == [state EXCEPT !.key = FALSE]
             r == [proc[p] EXCEPT !.at = at, !.seen = seen]
  <2>1. seen \in State /\ seen.etag = state.etag
    BY DEF State
  <2>2. /\ r \in Process /\ r.at \in {"release", "fetch"} /\ r.seen = seen
        /\ r.version = proc[p].version /\ r.updating = proc[p].updating
    BY <2>1 DEF Process, Places, Locked
  <2>3. EtagFits(seen, highest', raced', refused') /\ proc[p].updating
    BY <1>0, <1>16, <2>1 DEF ReadState, IInv, EtagOK, EtagFits, WellFormed, Locked
  <2>4. Fits(r, dir', highest', raced', refused')
    BY <1>0, <2>2, <2>3 DEF Fits, WellFormed, Switching, Locked
  <2>5. proc' = [proc EXCEPT ![p] = r]
    BY <1>16 DEF ReadState
  <2> QED
    BY <2>2, <2>4, <2>5
<1>17. CASE Fetch(p)
  <2>1. proc[p].at = "fetch" /\ proc[p].updating
    BY <1>17 DEF Fetch, WellFormed, Locked
  <2>2. CASE Goto(p, "release")
    <3>1. At("release")
      BY <1>a, <2>2 DEF Places, Switching, Locked
    <3> QED
      BY <1>0, <2>1, <2>2, <3>1 DEF At, Fits, WellFormed, Switching, Locked
  <2> DEFINE nothingNew == proc[p].seen.etag = release \/ release <= proc[p].version
             seen == [proc[p].seen EXCEPT !.etag = release]
  <2>3. seen \in State /\ seen.etag = release
    BY DEF State
  <2>4. CASE proc' = [proc EXCEPT ![p].seen.etag = release, ![p].target = release,
                                  ![p].at = IF nothingNew THEN "write" ELSE "download"]
    <3> DEFINE at == IF nothingNew THEN "write" ELSE "download"
               r == [proc[p] EXCEPT !.seen = seen, !.target = release, !.at = at]
    <3>1. /\ r \in Process /\ r.at = at /\ r.seen = seen /\ r.target = release
          /\ r.version = proc[p].version /\ r.updating = proc[p].updating
      BY <2>3 DEF Process, Places, Locked
    <3>2. nothingNew => EtagFits(seen, highest', raced', refused')
      BY <1>0, <2>1, <2>3, <1>17 DEF Fits, EtagFits, Fetch
    <3>3. proc' = [proc EXCEPT ![p] = r]
      BY <2>4
    <3>4. ASSUME nothingNew PROVE Fits(r, dir', highest', raced', refused')
      BY <1>0, <2>1, <2>3, <3>1, <3>2, <3>4 DEF Fits, WellFormed, Switching, Locked
    <3>5. ASSUME ~nothingNew PROVE Fits(r, dir', highest', raced', refused')
      <4>1. r.at = "download" /\ seen.etag = r.target /\ r.target # None
        BY <2>3, <3>1, <3>5
      <4>2. r.updating /\ (r.version <= highest' \/ raced')
        BY <1>0, <2>1, <3>1 DEF Fits
      <4> HIDE DEF r
      <4> QED
        BY <3>1, <4>1, <4>2 DEF Fits, WellFormed, Switching, Locked
    <3> QED
      BY <3>1, <3>3, <3>4, <3>5
  <2>5. CASE /\ proc' = [proc EXCEPT ![p].seen.etag = release, ![p].at = "write"]
             /\ refused' = refused \union {release}
    <3> DEFINE r == [proc[p] EXCEPT !.seen = seen, !.at = "write"]
    <3>1. /\ r \in Process /\ r.at = "write" /\ r.seen = seen
          /\ r.version = proc[p].version /\ r.updating = proc[p].updating
      BY <2>3 DEF Process, Places, Locked
    <3>2. EtagFits(seen, highest', raced', refused')
      BY <2>3, <2>5 DEF EtagFits
    <3>3. Fits(r, dir', highest', raced', refused')
      BY <1>0, <2>1, <3>1, <3>2 DEF Fits, WellFormed, Switching, Locked
    <3>4. proc' = [proc EXCEPT ![p] = r]
      BY <2>5
    <3> QED
      BY <3>1, <3>3, <3>4
  <2> QED
    BY <1>17, <2>2, <2>4, <2>5 DEF Fetch
<1>18. CASE Download(p)
  <2>1. proc[p].at = "download" /\ proc[p].updating
    BY <1>18 DEF Download, WellFormed, Locked
  <2>2. CASE Goto(p, "release") \/ Goto(p, "extract")
    <3>1. At("release") \/ At("extract")
      BY <1>a, <2>2 DEF Places, Switching, Locked
    <3> QED
      BY <1>0, <2>1, <2>2, <3>1 DEF At, Fits, WellFormed, Switching, Locked
  <2>3. CASE Goto(p, "write") /\ refused' = refused \union {proc[p].target}
    <3>1. EtagFits(proc[p].seen, highest', raced', refused')
      BY <1>0, <2>1, <2>3 DEF Fits, EtagFits
    <3> QED
      <4>1. At("write")
        BY <1>a, <2>3 DEF Places, Switching, Locked
      <4> QED
        BY <1>0, <2>1, <2>3, <3>1, <4>1 DEF At, Fits, WellFormed, Switching, Locked
  <2> QED
    BY <1>18, <2>2, <2>3 DEF Download
<1>19. CASE Extract(p)
  <2>1. proc[p].at = "extract" /\ proc[p].updating /\ proc[p].target \in Versions
    BY <1>19 DEF Extract, WellFormed, Locked
  <2>2. CASE Goto(p, "unlink") /\ dir'[proc[p].target] # "absent"
    <3>1. At("unlink")
      BY <1>a, <2>2 DEF Places, Switching, Locked
    <3> QED
      BY <1>0, <2>1, <2>2, <3>1 DEF At, Fits, WellFormed, Switching, Locked
  <2>3. CASE Goto(p, "release")
    <3>1. At("release")
      BY <1>a, <2>3 DEF Places, Switching, Locked
    <3> QED
      BY <1>0, <2>1, <3>1 DEF At, Fits, WellFormed, Switching, Locked
  <2> QED
    BY <1>19, <2>1, <2>2, <2>3 DEF Extract
<1>20. CASE WriteState(p)
  <2>1. proc[p].at = "write" /\ proc[p].updating
    BY <1>20 DEF WriteState, WellFormed, Locked
  <2> QED
    <3>1. At("release")
      BY <1>a, <1>20 DEF WriteState, Places, Switching, Locked
    <3> QED
      BY <1>0, <2>1, <3>1 DEF At, Fits, WellFormed, Switching, Locked
<1>21. CASE Release(p)
  <2> DEFINE r == [proc[p] EXCEPT !.at = "serve", !.updating = FALSE]
  <2>1. proc[p].at = "release" /\ proc[p].updating
    BY <1>21 DEF Release, WellFormed, Locked
  <2>2. /\ r \in Process /\ r.at = "serve" /\ ~r.updating /\ r.version = proc[p].version
    BY DEF Process, Places
  <2>3. Fits(r, dir', highest', raced', refused')
    BY <1>0, <2>1, <2>2 DEF Fits, WellFormed, Switching, Locked
  <2>4. proc' = [proc EXCEPT ![p] = r]
    BY <1>21 DEF Release
  <2> QED
    BY <2>2, <2>3, <2>4
<1> QED
  BY <1>2, <1>3, <1>4, <1>5, <1>8, <1>9, <1>10, <1>11, <1>12, <1>13, <1>14, <1>15, <1>16, <1>17,
     <1>18, <1>19, <1>20, <1>21 DEF Step

-----------------------------------------------------------------------------
(* The files.                                                              *)

\* The lock is given back, or left behind by a process that ended or could not
\* write its file.
LEMMA LockStep ==
  ASSUME IInv, Next
  PROVE  LockOK'
<1> USE DEF files, links, history, LockOK, Holding
<1>0. LockOK /\ TypeOK /\ proc \in [Procs -> Process]
  BY DEF IInv, TypeOK
<1>1. CASE Login \/ Publish \/ Minute
  BY <1>0, <1>1 DEF Login, Publish, Minute
<1>2. ASSUME NEW p \in Procs, Step(p) \/ Kill(p)
      PROVE  LockOK'
  <2>1. /\ proc' \in [Procs -> Process] /\ \A q \in Procs \ {p} : proc'[q] = proc[q]
        /\ abandoned => abandoned'
    BY <1>2, Own, Growing
  <2>2. CASE lock' = lock /\ proc'[p].updating = proc[p].updating
    BY <1>0, <2>1, <2>2
  <2>3. CASE lock' = lock /\ Gone(p)
    BY <1>0, <2>1, <2>3 DEF Gone
  <2>4. ASSUME NEW place \in Places, Goto(p, place) PROVE proc'[p].updating = proc[p].updating
    BY <1>0, <2>4, Moved
  <2>5. proc[p] \in Process /\ WellFormed(proc[p]) /\ Holding(p) \in BOOLEAN
    BY <1>0 DEF TypeOK, Process
  <2>6. CASE Start(p) \/ StartLogout(p)
    <3>1. lock' = lock /\ proc[p].at = "idle"
      BY <2>6 DEF Start, StartLogout
    <3>2. ~Holding(p)
      BY <2>5, <3>1 DEF WellFormed, Locked, Switching
    <3> QED
      BY <1>0, <2>1, <3>1, <3>2
  <2>7. CASE Lstat(p) \/ CopyDone(p) \/ RemoveCurrent(p) \/ Download(p) \/ Extract(p)
             \/ WriteState(p)
    <3>1. lock' = lock /\ \E place \in Places : Goto(p, place)
      BY <2>7 DEF Lstat, CopyDone, RemoveCurrent, Download, Extract, WriteState, Places,
                  Switching, Locked
    <3> QED
      BY <2>2, <2>4, <3>1
  <2>8. CASE Unlink(p) \/ Symlink(p) \/ Rename(p) \/ RenameAgain(p)
    <3>1. lock' = lock
      BY <2>8 DEF Unlink, Symlink, Rename, RenameAgain, SetCurrent
    <3>2. Gone(p) \/ Goto(p, "link") \/ Goto(p, "rename") \/ Goto(p, "remove") \/ Goto(p, "release")
          \/ Goto(p, "write") \/ Goto(p, "acquire") \/ Goto(p, "serve")
      BY <2>8 DEF Unlink, Symlink, Rename, RenameAgain, SetCurrent, Switched, SwitchFails
    <3>3. {"link", "rename", "remove", "release", "write", "acquire", "serve"} \subseteq Places
      BY DEF Places, Switching, Locked
    <3> QED
      BY <2>2, <2>3, <2>4, <3>1, <3>2, <3>3
  <2>9. CASE ReadKey(p)
    <3>1. lock' = lock /\ (Gone(p) \/ proc' = [proc EXCEPT ![p].needsKey = FALSE])
      BY <2>9 DEF ReadKey
    <3>2. proc' = [proc EXCEPT ![p].needsKey = FALSE] => proc'[p].updating = proc[p].updating
      BY <1>0, <2>5 DEF Process
    <3> QED
      BY <2>2, <2>3, <3>1, <3>2
  <2>10. CASE Close(p) \/ FinishLogout(p) \/ Kill(p)
    BY <2>3, <2>10 DEF Close, FinishLogout, Kill
  <2>11. CASE Acquire(p)
    <3>1. CASE Goto(p, "serve") /\ UNCHANGED lock
      BY <2>2, <2>4, <3>1 DEF Places
    <3>2. CASE proc' = [proc EXCEPT ![p].at = "read", ![p].updating = TRUE]
      <4>1. proc'[p].updating
        BY <1>0, <2>5, <3>2 DEF Process
      <4> QED
        BY <4>1
    <3>3. CASE abandoned'
      BY <3>3
    <3> QED
      BY <2>11, <3>1, <3>2, <3>3 DEF Acquire
  <2>12. CASE ReadState(p) \/ Fetch(p)
    <3>1. lock' = lock
      BY <2>12 DEF ReadState, Fetch
    <3>2. proc'[p].updating = proc[p].updating
      BY <1>0, <2>5, <2>12 DEF ReadState, Fetch, Goto, Process
    <3> QED
      BY <2>2, <3>1, <3>2
  <2>13. CASE Release(p)
    BY <2>13 DEF Release
  <2> QED
    BY <1>2, <2>6, <2>7, <2>8, <2>9, <2>10, <2>11, <2>12, <2>13 DEF Step
<1> QED
  BY <1>1, <1>2 DEF Next

\* What a process writes to state.json was so when it read it, or is so by now.
LEMMA EtagStep ==
  ASSUME IInv, Next
  PROVE  EtagOK(state)'
<1> USE DEF files, links, history
<1>0. /\ EtagFits(state, highest, raced, refused) /\ TypeOK
      /\ highest \in Nat /\ state.etag \in Nat
  BY DEF IInv, EtagOK, TypeOK, State
<1>1. highest' \in Nat /\ highest <= highest' /\ (raced => raced') /\ refused \subseteq refused'
  BY Growing
<1>2. EtagFits(state, highest', raced', refused')
  BY <1>0, <1>1 DEF EtagFits
<1> SUFFICES state'.etag = state.etag \/ EtagFits(state', highest', raced', refused')
  BY <1>2 DEF EtagFits, EtagOK
<1>3. CASE UNCHANGED state
  BY <1>3
<1>4. CASE Login
  BY <1>4 DEF Login, NoState, EtagFits
<1>5. CASE Minute
  BY <1>0, <1>5 DEF Minute, TypeOK, State
<1>6. ASSUME NEW p \in Procs, WriteState(p) \/ FinishLogout(p), state' # state
      PROVE  EtagFits(state', highest', raced', refused')
  <2>1. proc[p].seen \in State /\ proc[p].seen.etag \in Nat
    BY <1>0 DEF TypeOK, Process, State
  <2>2. state'.etag = proc[p].seen.etag
    BY <1>6, <2>1 DEF WriteState, FinishLogout, State
  <2>3. EtagFits(proc[p].seen, highest, raced, refused)
    BY <1>6 DEF WriteState, FinishLogout, IInv, Fit, Fits
  <2> QED
    BY <1>0, <1>1, <2>1, <2>2, <2>3 DEF EtagFits
<1>7. ASSUME ~Login, ~Minute, NEW p \in Procs, Step(p) \/ Kill(p), ~WriteState(p), ~FinishLogout(p)
      PROVE  UNCHANGED state
  <2>1. CASE Start(p) \/ StartLogout(p) \/ Lstat(p) \/ CopyDone(p) \/ Unlink(p) \/ RemoveCurrent(p)
    <3>1. (Start(p) => UNCHANGED state) /\ (StartLogout(p) => UNCHANGED state)
      BY DEF Start, StartLogout
    <3> QED
      BY <2>1, <3>1 DEF Lstat, CopyDone, Unlink, RemoveCurrent
  <2>2. CASE Symlink(p) \/ Rename(p) \/ RenameAgain(p)
    BY <2>2 DEF Symlink, Rename, RenameAgain, SetCurrent
  <2>3. CASE ReadKey(p) \/ Close(p) \/ Acquire(p) \/ ReadState(p) \/ Fetch(p) \/ Download(p)
             \/ Extract(p) \/ Release(p) \/ Kill(p)
    BY <2>3 DEF ReadKey, Close, Acquire, ReadState, Fetch, Download, Extract, Release, Kill
  <2> QED
    BY <1>7, <2>1, <2>2, <2>3 DEF Step
<1> QED
  BY <1>3, <1>4, <1>5, <1>6, <1>7 DEF Next, Publish
\* What a step does to the links: a process at work on them changes them, each as it may.
LEMMA LinkSteps ==
  ASSUME IInv, Next
  PROVE  \/ UNCHANGED links /\ highest' = highest
         \/ \E p \in Procs : Unlink(p)
         \/ \E p \in Procs : proc[p].at = "link" /\ Goto(p, "rename") /\ next' = proc[p].target
                               /\ current' = current /\ highest' = highest
         \/ \E p \in Procs : SetCurrent(p) /\ proc[p].at \in {"rename", "retry"}
         \/ \E p \in Procs : RemoveCurrent(p)
<1> USE DEF files, links, history
<1>1. CASE Login \/ Publish \/ Minute
  BY <1>1 DEF Login, Publish, Minute
<1>2. ASSUME NEW p \in Procs, Step(p) \/ Kill(p), ~Unlink(p), ~RemoveCurrent(p)
      PROVE  \/ UNCHANGED links /\ highest' = highest
             \/ proc[p].at = "link" /\ Goto(p, "rename") /\ next' = proc[p].target
                  /\ current' = current /\ highest' = highest
             \/ SetCurrent(p) /\ proc[p].at \in {"rename", "retry"}
  <2>1. CASE Start(p) \/ StartLogout(p) \/ Lstat(p) \/ CopyDone(p)
    <3>1. (Start(p) => UNCHANGED <<links, highest>>) /\ (StartLogout(p) => UNCHANGED <<links, highest>>)
      BY DEF Start, StartLogout
    <3> QED
      BY <2>1, <3>1 DEF Lstat, CopyDone
  <2>2. CASE Symlink(p)
    BY <2>2 DEF Symlink
  <2>3. CASE Rename(p) \/ RenameAgain(p)
    BY <2>3 DEF Rename, RenameAgain
  <2>4. CASE ReadKey(p) \/ Close(p) \/ FinishLogout(p) \/ Acquire(p) \/ ReadState(p) \/ Fetch(p)
             \/ Download(p) \/ Extract(p) \/ WriteState(p) \/ Release(p) \/ Kill(p)
    BY <2>4 DEF ReadKey, Close, FinishLogout, Acquire, ReadState, Fetch, Download, Extract,
                WriteState, Release, Kill
  <2> QED
    BY <1>2, <2>1, <2>2, <2>3, <2>4 DEF Step
<1> QED
  BY <1>1, <1>2 DEF Next

\* A version that is there only in part is being copied, or its copy was cut off.
LEMMA PartsStep ==
  ASSUME IInv, Next, NEW v \in Versions, dir'[v] = "partial"
  PROVE  v \in cut' \/ \E p \in Procs : proc'[p].at = "copy" /\ proc'[p].version = v
<1> USE DEF files, links, history
<1>0. /\ TypeOK /\ proc \in [Procs -> Process] /\ cut \subseteq cut'
      /\ dir[v] = "partial" => v \in cut \/ \E p \in Procs : proc[p].at = "copy" /\ proc[p].version = v
  BY Growing DEF IInv, LinksOK, TypeOK
<1>1. CASE Login \/ Publish \/ Minute
  BY <1>0, <1>1 DEF Login, Publish, Minute
<1>2. ASSUME NEW p \in Procs, Step(p) \/ Kill(p)
      PROVE  v \in cut' \/ \E q \in Procs : proc'[q].at = "copy" /\ proc'[q].version = v
  <2>1. \A q \in Procs \ {p} : proc'[q] = proc[q]
    BY <1>2, Own
  <2>2. proc[p] \in Process /\ WellFormed(proc[p]) /\ proc[p].version \in Versions \union {None}
    BY <1>0 DEF TypeOK, Process
  <2>3. CASE Lstat(p)
    <3>1. CASE dir[proc[p].version] = "absent" /\ dir' = [dir EXCEPT ![proc[p].version] = "partial"]
               /\ Goto(p, "copy")
      <4>1. proc'[p].at = "copy" /\ proc'[p].version = proc[p].version
        BY <1>0, <3>1, Moved DEF Places
      <4>2. CASE v = proc[p].version
        BY <4>1, <4>2
      <4>3. CASE v # proc[p].version
        BY <1>0, <2>1, <2>3, <3>1, <4>3 DEF Lstat, TypeOK
      <4> QED
        BY <4>2, <4>3
    <3>2. CASE UNCHANGED dir
      BY <1>0, <2>1, <2>3, <3>2 DEF Lstat
    <3> QED
      BY <2>3, <3>1, <3>2 DEF Lstat
  <2>4. CASE CopyDone(p)
    BY <1>0, <2>1, <2>2, <2>4 DEF CopyDone, TypeOK, WellFormed
  <2>5. CASE Kill(p)
    BY <1>0, <2>1, <2>5 DEF Kill
  <2>6. CASE ~Lstat(p) /\ ~CopyDone(p) /\ ~Kill(p)
    <3>1. proc[p].at # "copy" /\ (UNCHANGED dir \/ Extract(p))
      <4>1. CASE Start(p) \/ StartLogout(p)
        BY <4>1 DEF Start, StartLogout
      <4>2. CASE Unlink(p) \/ Symlink(p) \/ Rename(p) \/ RemoveCurrent(p) \/ RenameAgain(p)
        BY <4>2 DEF Unlink, Symlink, Rename, RemoveCurrent, RenameAgain, SetCurrent
      <4>3. CASE ReadKey(p)
        BY <2>2, <4>3 DEF ReadKey, WellFormed, Locked, Switching
      <4>4. CASE Close(p) \/ FinishLogout(p) \/ Acquire(p) \/ ReadState(p) \/ Fetch(p)
                 \/ Download(p) \/ Extract(p) \/ WriteState(p) \/ Release(p)
        BY <4>4 DEF Close, FinishLogout, Acquire, ReadState, Fetch, Download, Extract, WriteState, Release
      <4> QED
        BY <1>2, <2>6, <4>1, <4>2, <4>3, <4>4 DEF Step
    <3>2. dir[v] = "partial"
      BY <1>0, <3>1 DEF Extract, TypeOK
    <3> QED
      BY <1>0, <2>1, <3>1, <3>2
  <2> QED
    BY <2>3, <2>4, <2>5, <2>6
<1> QED
  BY <1>1, <1>2 DEF Next

\* The links lead to versions that are there.
LEMMA LinksStep ==
  ASSUME IInv, Next
  PROVE  LinksOK'
<1>0. /\ LinksOK /\ highest \in Nat
      /\ current \in Versions \union {None} /\ next \in Versions \union {None}
      /\ \A p \in Procs : Fit(p) /\ proc[p] \in Process
  BY DEF IInv, TypeOK
<1>1. /\ raced => raced'
      /\ highest' \in Nat /\ highest <= highest'
      /\ \A v \in Versions : dir[v] # "absent" => dir'[v] # "absent"
  BY Growing
<1> DEFINE Goal == /\ current' # None => dir'[current'] # "absent"
                   /\ next' # None => dir'[next'] # "absent"
                   /\ current' <= highest'
                   /\ current' = None => highest' = None \/ raced'
<1>2. ASSUME UNCHANGED links, highest' = highest PROVE Goal
  BY <1>0, <1>1, <1>2 DEF LinksOK, links
<1>3. ASSUME NEW p \in Procs, Unlink(p) PROVE Goal
  BY <1>0, <1>1, <1>3 DEF LinksOK, Unlink
<1>4. ASSUME NEW p \in Procs, proc[p].at = "link", next' = proc[p].target, current' = current,
             highest' = highest
      PROVE  Goal
  <2>1. proc[p].target \in Versions /\ dir[proc[p].target] # "absent"
    BY <1>0, <1>4 DEF Fit, Fits, WellFormed, Switching, Process
  <2> QED
    BY <1>0, <1>1, <1>4, <2>1 DEF LinksOK
<1>5. ASSUME NEW p \in Procs, SetCurrent(p) PROVE Goal
  BY <1>0, <1>1, <1>5 DEF LinksOK, SetCurrent
<1>6. ASSUME NEW p \in Procs, RemoveCurrent(p) PROVE Goal
  <2>1. raced
    BY <1>0, <1>6 DEF RemoveCurrent, Fit, Fits
  <2> QED
    BY <1>0, <1>1, <1>6, <2>1 DEF LinksOK, RemoveCurrent
<1>7. Goal
  BY <1>2, <1>3, <1>4, <1>5, <1>6, LinkSteps
<1> QED
  BY <1>7, PartsStep DEF LinksOK

\* Who switches the link: a process that has begun to, and at rename with its own link.
LEMMA Switches ==
  ASSUME IInv, Next, NEW p \in Procs, Step(p) \/ Kill(p)
  PROVE  /\ proc'[p].at \in Linking => Unlink(p) \/ proc[p].at \in Linking
         /\ proc'[p].at = "rename" =>
              \/ proc[p].at = "link" /\ next' = proc'[p].target
              \/ proc[p].at = "rename" /\ next' = next /\ proc'[p].target = proc[p].target
<1> USE DEF Linking, files, links
<1> DEFINE Goal == /\ proc'[p].at \in Linking => Unlink(p) \/ proc[p].at \in Linking
                   /\ proc'[p].at = "rename" =>
                        \/ proc[p].at = "link" /\ next' = proc'[p].target
                        \/ proc[p].at = "rename" /\ next' = next /\ proc'[p].target = proc[p].target
<1>0. TypeOK /\ proc \in [Procs -> Process] /\ proc[p] \in Process /\ WellFormed(proc[p])
  BY DEF IInv, TypeOK
<1>1. \A place \in Places : Goto(p, place) =>
        proc'[p].at = place /\ proc'[p].target = proc[p].target
  BY <1>0, Moved
<1>2. \A place \in Places \ Linking : Goto(p, place) => Goal
  BY <1>1
<1>3. Gone(p) => Goal
  BY <1>0, GoneFits DEF NoProcess
<1>4. Places \ Linking = Places \ {"link", "rename", "remove", "retry"}
  OBVIOUS
<1> HIDE DEF Linking
<1>5. CASE Start(p) \/ StartLogout(p)
  <2>1. proc'[p].at \in {"lstat", "logout"}
    BY <1>0, <1>5 DEF Start, StartLogout, NoProcess
  <2> QED
    BY <2>1 DEF Linking
<1>6. CASE Lstat(p) \/ CopyDone(p) \/ Acquire(p) \/ Download(p) \/ Extract(p) \/ WriteState(p)
  <2>1. CASE Acquire(p)
    <3>1. CASE Goto(p, "serve")
      BY <1>2, <3>1 DEF Places, Linking
    <3>2. CASE proc' = [proc EXCEPT ![p].at = "read", ![p].updating = TRUE]
      BY <1>0, <3>2 DEF Linking, Process
    <3> QED
      BY <2>1, <3>1, <3>2 DEF Acquire
  <2>2. CASE ~Acquire(p)
    <3>1. \E place \in {"copy", "unlink", "release", "extract", "write"} : Goto(p, place)
      BY <1>6, <2>2 DEF Lstat, CopyDone, Download, Extract, WriteState
    <3>2. {"copy", "unlink", "release", "extract", "write"} \subseteq Places \ Linking
      BY DEF Places, Switching, Locked, Linking
    <3> QED
      BY <1>2, <3>1, <3>2
  <2> QED
    BY <2>1, <2>2
<1>7. CASE SetCurrent(p) \/ SwitchFails(p)
  <2>1. Gone(p) \/ \E place \in {"write", "acquire", "serve", "release"} : Goto(p, place)
    BY <1>7 DEF SetCurrent, Switched, SwitchFails
  <2>2. {"write", "acquire", "serve", "release"} \subseteq Places \ Linking
    BY DEF Places, Switching, Locked, Linking
  <2> QED
    BY <1>2, <1>3, <2>1, <2>2
<1>8. CASE Unlink(p)
  <2>1. Goto(p, "link") \/ SwitchFails(p)
    BY <1>8 DEF Unlink
  <2> QED
    BY <1>1, <1>7, <1>8, <2>1 DEF Places, Switching
<1>9. CASE Symlink(p)
  <2>1. CASE proc[p].at = "link" /\ Goto(p, "rename") /\ next' = proc[p].target
    BY <1>1, <2>1 DEF Places, Switching, Linking
  <2> QED
    BY <1>7, <1>9, <2>1 DEF Symlink
<1>10. CASE Rename(p)
  <2>1. CASE proc[p].at = "rename" /\ Goto(p, "remove")
    BY <1>1, <2>1 DEF Places, Switching, Linking
  <2> QED
    BY <1>7, <1>10, <2>1 DEF Rename
<1>11. CASE RemoveCurrent(p)
  BY <1>1, <1>11 DEF RemoveCurrent, Places, Switching, Linking
<1>12. CASE RenameAgain(p)
  BY <1>7, <1>12 DEF RenameAgain
<1>13. CASE ReadKey(p)
  <2>1. CASE proc' = [proc EXCEPT ![p].needsKey = FALSE]
    <3>1. proc'[p].at = proc[p].at /\ proc'[p].target = proc[p].target
      BY <1>0, <2>1 DEF Process
    <3> QED
      BY <1>13, <3>1 DEF ReadKey
  <2> QED
    BY <1>3, <1>13, <2>1 DEF ReadKey
<1>14. CASE Close(p) \/ FinishLogout(p) \/ Kill(p)
  BY <1>3, <1>14 DEF Close, FinishLogout, Kill
<1>15. CASE ReadState(p) \/ Fetch(p) \/ Release(p)
  <2>1. CASE ReadState(p)
    BY <1>0, <2>1 DEF ReadState, Linking, Process
  <2>2. CASE Fetch(p)
    <3>1. CASE Goto(p, "release")
      BY <1>2, <3>1 DEF Places, Locked, Linking
    <3>2. CASE ~Goto(p, "release")
      <4>1. proc'[p].at \in {"write", "download"}
        BY <1>0, <2>2, <3>2 DEF Fetch, Process
      <4> QED
        BY <4>1 DEF Linking
    <3> QED
      BY <3>1, <3>2
  <2>3. CASE Release(p)
    BY <1>0, <2>3 DEF Release, Linking, Process
  <2> QED
    BY <1>15, <2>1, <2>2, <2>3
<1> QED
  BY <1>5, <1>6, <1>8, <1>9, <1>10, <1>11, <1>12, <1>13, <1>14, <1>15 DEF Step

\* The link that is to become current is made and taken away only in a switch.
LEMMA NextKept ==
  ASSUME NEW p \in Procs, Step(p) \/ Kill(p), ~Unlink(p), proc[p].at \notin Linking
  PROVE  next' = next
<1> USE DEF files, links
<1>1. (Start(p) => UNCHANGED next) /\ (StartLogout(p) => UNCHANGED next)
  BY DEF Start, StartLogout
<1>2. ~Symlink(p) /\ ~Rename(p) /\ ~RemoveCurrent(p) /\ ~RenameAgain(p)
  BY DEF Symlink, Rename, RemoveCurrent, RenameAgain, Linking
<1>3. CASE Lstat(p) \/ CopyDone(p) \/ ReadKey(p) \/ Close(p) \/ FinishLogout(p) \/ Acquire(p)
           \/ ReadState(p) \/ Fetch(p) \/ Download(p) \/ Extract(p) \/ WriteState(p) \/ Release(p)
           \/ Kill(p)
  BY <1>3 DEF Lstat, CopyDone, ReadKey, Close, FinishLogout, Acquire, ReadState, Fetch, Download,
              Extract, WriteState, Release, Kill
<1> QED
  BY <1>1, <1>2, <1>3 DEF Step

\* Only a second process in the switch can take the link away from the first.
LEMMA SwitchStep ==
  ASSUME IInv, Next
  PROVE  OneSwitch'
<1> SUFFICES ASSUME ~raced'
             PROVE  /\ \A p, q \in Procs : proc'[p].at \in Linking /\ proc'[q].at \in Linking => p = q
                    /\ \A p \in Procs : proc'[p].at = "rename" => next' = proc'[p].target
  BY DEF OneSwitch, Linking
<1>0. /\ ~raced /\ \A p, q \in Procs : proc[p].at \in Linking /\ proc[q].at \in Linking => p = q
      /\ \A p \in Procs : proc[p].at = "rename" => next = proc[p].target
  BY Growing DEF IInv, OneSwitch
<1>1. CASE UNCHANGED <<proc, links>>
  BY <1>0, <1>1 DEF links
<1>2. ASSUME NEW p \in Procs, Step(p) \/ Kill(p)
      PROVE  /\ \A q, r \in Procs : proc'[q].at \in Linking /\ proc'[r].at \in Linking => q = r
             /\ \A q \in Procs : proc'[q].at = "rename" => next' = proc'[q].target
  <2>1. \A q \in Procs \ {p} : proc'[q] = proc[q]
    BY <1>2, Own
  <2>2. Unlink(p) => \A q \in Procs \ {p} : proc[q].at \notin Linking
    BY DEF Unlink, Linking, Switching
  <2>3. proc'[p].at \in Linking => Unlink(p) \/ proc[p].at \in Linking
    BY <1>2, Switches
  <2>4. ASSUME NEW q \in Procs \ {p}, proc[q].at = "rename" PROVE next' = next
    <3>1. ~Unlink(p) /\ proc[p].at \notin Linking
      BY <1>0, <2>2, <2>4 DEF Linking
    <3> QED
      BY <1>2, <3>1, NextKept
  <2> QED
    BY <1>0, <1>2, <2>1, <2>2, <2>3, <2>4, Switches DEF Linking
<1> QED
  BY <1>1, <1>2 DEF Next, Login, Publish, Minute, files, links

-----------------------------------------------------------------------------
(* The theorems.                                                           *)

LEMMA Initially == Init => IInv
<1> SUFFICES ASSUME Init PROVE IInv
  OBVIOUS
<1>1. /\ NoProcess \in Process /\ NoProcess.at = "idle" /\ ~NoProcess.updating
      /\ NoState \in State /\ NoState.etag = None
  BY DEF NoProcess, NoState, Process, State, Places
<1>2. \A p \in Procs : proc[p] = NoProcess
  BY DEF Init
<1>3. \A p \in Procs : WellFormed(proc[p]) /\ Fit(p)
  BY <1>1, <1>2 DEF WellFormed, Fit, Fits, Switching, Locked
<1>4. TypeOK
  <2>1. /\ dir \in [Versions -> {"absent", "partial", "complete"}]
        /\ proc \in [Procs -> Process] /\ state \in State
    BY <1>1 DEF Init
  <2>2. /\ release \in Versions /\ starts \in 0..MaxStarts /\ kills \in 0..MaxKills
        /\ cut \subseteq Versions /\ refused \subseteq Versions
    BY DEF Init
  <2> QED
    BY <1>3, <2>1, <2>2 DEF Init, TypeOK
<1>5. LinksOK /\ EtagOK(state) /\ LockOK
  BY <1>1 DEF Init, LinksOK, EtagOK, EtagFits, LockOK
<1>6. OneSwitch
  BY <1>1, <1>2 DEF OneSwitch, Linking
<1> QED
  BY <1>3, <1>4, <1>5, <1>6 DEF IInv

LEMMA Inductive == IInv /\ [Next]_vars => IInv'
<1> SUFFICES ASSUME IInv, [Next]_vars PROVE IInv'
  OBVIOUS
<1>1. CASE Next
  <2>1. proc' \in [Procs -> Process] /\ \A p \in Procs : Fit(p)'
    <3>0. proc \in [Procs -> Process] /\ \A p \in Procs : Fits(proc[p], dir', highest', raced', refused')
      BY <1>1, Lasting DEF IInv, Fit, TypeOK
    <3>1. CASE UNCHANGED proc
      BY <3>0, <3>1 DEF Fit
    <3>2. ASSUME NEW p \in Procs, Step(p) \/ Kill(p)
          PROVE  proc' \in [Procs -> Process] /\ \A q \in Procs : Fit(q)'
      <4>1. /\ proc' \in [Procs -> Process] /\ \A q \in Procs \ {p} : proc'[q] = proc[q]
            /\ Fits(proc'[p], dir', highest', raced', refused')
        BY <1>1, <3>2, Own
      <4>2. \A q \in Procs : Fits(proc'[q], dir', highest', raced', refused')
        BY <3>0, <4>1
      <4> QED
        BY <4>1, <4>2 DEF Fit
    <3> QED
      BY <1>1, <3>1, <3>2 DEF Next, Login, Publish, Minute
  <2>2. \A p \in Procs : WellFormed(proc'[p])
    BY <2>1 DEF Fit, Fits
  <2>3. TypeOK'
    BY <1>1, <2>1, <2>2, TypeStep DEF IInv
  <2> QED
    BY <1>1, <2>1, <2>3, LinksStep, SwitchStep, EtagStep, LockStep DEF IInv
<1>2. CASE UNCHANGED vars
  BY <1>2 DEF vars, files, links, history, IInv, TypeOK, Fit, LinksOK, OneSwitch, EtagOK, LockOK,
              Holding
<1> QED
  BY <1>1, <1>2

\* The inductive invariant holds of every state a run reaches.
THEOREM Invariance == Spec => []IInv
  BY Initially, Inductive, PTL DEF Spec

\* No action of a process, whatever the others do to the files meanwhile, leaves the
\* types: an update check is always one that took the lock, and goes for a release.
THEOREM TypeCorrect == Spec => []TypeOK
<1>1. IInv => TypeOK
  BY DEF IInv
<1> QED
  BY <1>1, Invariance, PTL

\* Whenever something was installed, current points to a version the launcher can run,
\* but for two switches at once and a copy that goes on or was cut off.
THEOREM LauncherStarts == Spec => []LauncherWorks
<1>1. IInv => LauncherWorks
  <2> SUFFICES ASSUME IInv PROVE LauncherWorks
    OBVIOUS
  <2>1. LinksOK /\ TypeOK
    BY DEF IInv
  <2>2. current # None => current \in Versions /\ dir[current] \in {"partial", "complete"}
    BY <2>1 DEF TypeOK, LinksOK
  <2> QED
    BY <2>1, <2>2 DEF LinksOK, LauncherWorks
<1> QED
  BY <1>1, Invariance, PTL

\* The lock stays only behind a process that ended with it or could not write it,
\* and a stored etag keeps a release out only for a cause UpdatesGoOn names.
THEOREM UpdatesContinue == Spec => []UpdatesGoOn
<1>1. IInv => UpdatesGoOn
  <2> SUFFICES ASSUME IInv PROVE UpdatesGoOn
    OBVIOUS
  <2>1. /\ EtagFits(state, highest, raced, refused) /\ LockOK /\ current <= highest
        /\ highest \in Nat /\ current \in Nat /\ release \in Versions
    BY DEF IInv, EtagOK, LinksOK, TypeOK
  <2> QED
    BY <2>1 DEF EtagFits, LockOK, UpdatesGoOn
<1> QED
  BY <1>1, Invariance, PTL
=============================================================================
