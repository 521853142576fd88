-------------------------- MODULE AccessSync_proofs --------------------------
(***************************************************************************)
(* Proofs about AccessSync for every set of users, projects, teams, groups *)
(* and mappings, every world, and any number of jobs and changes by people.*)
(***************************************************************************)
EXTENDS AccessSync, FiniteSetTheorems, TLAPS

-----------------------------------------------------------------------------
(* What the sources say.                                                   *)

LEMMA HighestIsHighest ==
  ASSUME NEW S, S \subseteq 0..4
  PROVE  /\ Highest(S) \in S \union {None}
         /\ \A q \in S : q <= Highest(S)
<1>1. \E r \in S \union {None} : \A q \in S : q <= r
  <2>1. CASE 4 \in S
    BY <2>1 DEF None
  <2>2. CASE 4 \notin S /\ 3 \in S
    BY <2>2 DEF None
  <2>3. CASE 4 \notin S /\ 3 \notin S /\ 2 \in S
    BY <2>3 DEF None
  <2>4. CASE 4 \notin S /\ 3 \notin S /\ 2 \notin S
    BY <2>4 DEF None
  <2> QED
    BY <2>1, <2>2, <2>3, <2>4
<1> QED
  BY <1>1 DEF Highest

LEMMA RankSets ==
  /\ \A t \in Targets : Ranks(t) \subseteq 0..4 /\ Owner(t) \in Ranks(t)
  /\ Ranks(Workspace) = 0..3 /\ Owner(Workspace) = 3
  /\ \A p \in Projects : Ranks(p) = 0..4 /\ Owner(p) = 4
  /\ Workspace \in Targets /\ Projects \subseteq Targets
BY TargetAssumption DEF Ranks, Owner, Targets

LEMMA RepoWantTyped ==
  ASSUME world \in Worlds, NEW t \in Targets, NEW u \in Users
  PROVE  RepoWant(t, u) \in Ranks(t)
BY WorldAssumption, TargetAssumption DEF RepoWant, Ranks, Owner, Targets, None

LEMMA TeamWantTyped ==
  ASSUME world \in Worlds, NEW t \in Targets, NEW u \in Users, NEW failed
  PROVE  /\ TeamWant(failed, t, u) \in Ranks(t)
         /\ TeamWant(failed, t, u) <= TeamWant({}, t, u)
<1> DEFINE Said(f) == {m.role : m \in {x \in TeamMappings :
             x.target = t /\ x.of \notin f /\ u \in world.linked
               /\ u \in world.team[x.of]}}
<1>1. \A f : Said(f) \subseteq Ranks(t) \ {None}
  BY MappingAssumption
<1>2. Said(failed) \subseteq Said({})
  OBVIOUS
<1>3. \A f : Said(f) \subseteq 0..4
  BY <1>1, RankSets
<1>4. \A f : /\ Highest(Said(f)) \in Said(f) \union {None}
             /\ \A q \in Said(f) : q <= Highest(Said(f))
  BY <1>3, HighestIsHighest
<1>5. \A f : TeamWant(f, t, u) = Highest(Said(f))
  BY DEF TeamWant
<1>6. None \in Ranks(t) /\ None \in Nat
  BY DEF Ranks, Owner, None
<1> HIDE DEF Said
<1>7. Highest(Said({})) \in 0..4
  BY <1>3, <1>4 DEF None
<1>8. Highest(Said(failed)) <= Highest(Said({}))
  BY <1>2, <1>4, <1>7 DEF None
<1> QED
  BY <1>1, <1>4, <1>5, <1>6, <1>8

LEMMA GroupWantTyped ==
  ASSUME world \in Worlds, NEW t \in Targets, NEW u \in Users
  PROVE  GroupWant(t, u) \in Ranks(t)
<1> DEFINE Said == {m.role : m \in {x \in GroupMappings :
             x.target = t /\ u \in world.group[x.of]}}
<1>1. Said \subseteq Ranks(t) \ {None}
  BY MappingAssumption
<1>2. Said \subseteq 0..4
  BY <1>1, RankSets
<1>3. Highest(Said) \in Said \union {None}
  BY <1>2, HighestIsHighest
<1>4. None \in Ranks(t)
  BY DEF Ranks, Owner, None
<1>5. GroupWant(t, u) = Highest(Said)
  BY DEF GroupWant
<1> QED
  BY <1>1, <1>3, <1>4, <1>5

-----------------------------------------------------------------------------
(* The invariant.                                                          *)

\* The rows a job has read and not yet acted upon.
HasRead(s, t, u) ==
  \/ s.pc = "commit" /\ t \in RepoProjects \union {Workspace} /\ u \in world.linked
  \/ s.pc = "commitWorkspace" /\ t = Workspace /\ u \in world.linked
  \/ s.pc = "commitProjects" /\ u \in world.linked
  \/ s.pc = "workspace" /\ t = Workspace /\ u = s.user
  \/ s.pc = "write" /\ t = s.at /\ u = s.user

TeamPlaces == {"readWorkspace", "commitWorkspace", "readProjects",
               "commitProjects"}
OidcPlaces == {"workspace", "projects", "write", "remove"}

\* A job's record fits its place.
Shaped(s) ==
  /\ s.pc = "idle" <=> s.kind = "none"
  /\ s.pc = "commit" <=> s.kind = "permission"
  /\ s.pc \in TeamPlaces <=> s.kind = "team"
  /\ s.pc \in OidcPlaces <=> s.kind = "oidc"
  /\ s.kind = "oidc" => s.user \in Users
  /\ s.pc \in {"projects", "write"} =>
       \A p \in s.todo : GroupWant(p, s.user) # None
  /\ s.pc = "write" => s.at \in Projects /\ GroupWant(s.at, s.user) # None
  /\ s.pc = "remove" => /\ s.mode = "add_and_remove"
                        /\ \A p \in s.todo :
                             s.had[p][s.user] \notin {None, Owner(p)}

\* A row read and not changed by others since is still what was read.
Current(s, gone, table) ==
  \A t \in Targets, u \in Users :
    HasRead(s, t, u) /\ <<t, u>> \notin gone
      => table[t][u] = s.had[t][u]

\* A removal has not yet come to the projects that are left.
Pending(s, gone, table) ==
  s.pc = "remove" =>
    \A p \in s.todo : <<p, s.user>> \notin gone
                        => table[p][s.user] = s.had[p][s.user]

\* A sign-on past the workspace is a member's.
Admitted(s, gone, table) ==
  s.pc \in {"projects", "write", "remove"} =>
    table[Workspace][s.user] # None \/ <<Workspace, s.user>> \in gone

Coherent(s, gone, table) ==
  /\ Shaped(s) /\ Current(s, gone, table) /\ Pending(s, gone, table)
  /\ Admitted(s, gone, table) /\ Justified(s.had)

IInv ==
  /\ TypeOK
  /\ AccessIsJustified
  /\ \A j \in Jobs : Coherent(job[j], stale[j], role)

LEMMA IdleIsCoherent ==
  ASSUME world \in Worlds, granted \in Table, NEW gone, NEW table
  PROVE  Idle \in Handlers /\ Coherent(Idle, gone, table)
<1>1. NoRows \in Table /\ \A t \in Targets, u \in Users : NoRows[t][u] = 0
  BY DEF NoRows, Table, None
<1>2. Idle \in Handlers
  BY <1>1, RankSets DEF Idle, Handlers, Kinds, Places, Modes
<1>3. Justified(NoRows)
  BY <1>1 DEF Justified, Sources, Table
<1> QED
  BY <1>2, <1>3 DEF Idle, Coherent, Shaped, Current, Pending, Admitted, HasRead,
                    TeamPlaces, OidcPlaces

-----------------------------------------------------------------------------
(* A step of one job leaves the others coherent.                           *)

LEMMA ChangedRows ==
  ASSUME NEW new, NEW t \in Targets, NEW u \in Users,
         <<t, u>> \notin Changed(new)
  PROVE  new[t][u] = role[t][u]
BY DEF Changed, Rows

LEMMA OthersStayCoherent ==
  ASSUME NEW s \in Handlers, NEW gone \in SUBSET Rows, NEW new,
         Coherent(s, gone, role)
  PROVE  /\ Current(s, gone \union Changed(new), new)
         /\ Pending(s, gone \union Changed(new), new)
         /\ Admitted(s, gone \union Changed(new), new)
<1>1. \A t \in Targets, u \in Users :
        <<t, u>> \notin gone \union Changed(new) =>
          <<t, u>> \notin gone /\ new[t][u] = role[t][u]
  BY ChangedRows
<1>2. Current(s, gone, role) /\ Pending(s, gone, role) /\ Admitted(s, gone, role)
      /\ Shaped(s)
  BY DEF Coherent
<1>3. Current(s, gone \union Changed(new), new)
  BY <1>1, <1>2 DEF Current
<1>4. Pending(s, gone \union Changed(new), new)
  <2> SUFFICES ASSUME s.pc = "remove", NEW p \in s.todo,
                      <<p, s.user>> \notin gone \union Changed(new)
               PROVE  new[p][s.user] = s.had[p][s.user]
    BY DEF Pending
  <2>1. p \in Targets /\ s.user \in Users
    BY <1>2, RankSets DEF Handlers, Shaped, OidcPlaces
  <2> QED
    BY <1>1, <1>2, <2>1 DEF Pending
<1>5. Admitted(s, gone \union Changed(new), new)
  <2> SUFFICES ASSUME s.pc \in {"projects", "write", "remove"},
                      <<Workspace, s.user>> \notin gone \union Changed(new)
               PROVE  new[Workspace][s.user] # None
    BY DEF Admitted
  <2>1. Workspace \in Targets /\ s.user \in Users
    BY <1>2, RankSets DEF Shaped, OidcPlaces
  <2> QED
    BY <1>1, <1>2, <2>1 DEF Admitted
<1> QED
  BY <1>3, <1>4, <1>5

\* What people gave only grows, and the world stands still.
LEMMA GrowingKeeps ==
  ASSUME TypeOK, world' = world, NEW table \in Table, Justified(table),
         granted' \in Table,
         \A t \in Targets, u \in Users : granted'[t][u] >= granted[t][u]
  PROVE  Justified(table)'
<1> SUFFICES ASSUME NEW t \in Targets, NEW u \in Users
             PROVE  \E r \in Sources(t, u)' : table[t][u] <= r
  BY DEF Justified
<1>1. PICK r \in Sources(t, u) : table[t][u] <= r
  BY DEF Justified
<1>2. CASE r = granted[t][u]
  <2>1. granted'[t][u] \in Sources(t, u)'
    BY DEF Sources
  <2>2. table[t][u] \in 0..4 /\ granted[t][u] \in 0..4 /\ granted'[t][u] \in 0..4
    BY DEF TypeOK, Table
  <2>3. table[t][u] <= granted[t][u] /\ granted'[t][u] >= granted[t][u]
    BY <1>1, <1>2
  <2> QED
    BY <2>1, <2>2, <2>3
<1>3. CASE r # granted[t][u]
  <2>1. r \in Sources(t, u)'
    BY <1>1, <1>3 DEF Sources, RepoWant, TeamWant, GroupWant
  <2> QED
    BY <1>1, <2>1
<1> QED
  BY <1>2, <1>3

\* A record's coherence does not depend on what people gave, but for had.
LEMMA WorldKeeps ==
  ASSUME world' = world
  PROVE  \A s, gone, table :
           /\ Shaped(s)' <=> Shaped(s)
           /\ Current(s, gone, table)' <=> Current(s, gone, table)
           /\ Pending(s, gone, table)' <=> Pending(s, gone, table)
           /\ Admitted(s, gone, table)' <=> Admitted(s, gone, table)
BY DEF Shaped, Current, Pending, Admitted, HasRead, GroupWant

LEMMA JustifiedKeeps ==
  ASSUME world' = world, granted' = granted
  PROVE  \A table : Justified(table)' <=> Justified(table)
BY DEF Justified, Sources, RepoWant, TeamWant, GroupWant

\* What a step of one job has to show.
LEMMA WriteKeeps ==
  ASSUME IInv, NEW j \in Jobs, NEW new, NEW next, NEW rest,
         Write(j, new, next, rest),
         Ranked(new), next \in Handlers, rest \in SUBSET Rows,
         Justified(new), Coherent(next, rest, new)
  PROVE  IInv'
<1>1. TypeOK /\ AccessIsJustified /\ \A i \in Jobs : Coherent(job[i], stale[i], role)
  BY DEF IInv
<1>2. /\ role' = new /\ world' = world /\ granted' = granted
      /\ edits' = edits /\ faults' = faults
      /\ job' = [job EXCEPT ![j] = next]
      /\ stale' = [i \in Jobs |->
           IF i = j THEN rest
           ELSE IF job[i].pc = "idle" THEN {} ELSE stale[i] \union Changed(new)]
  BY DEF Write
<1>3. TypeOK'
  <2>1. Changed(new) \in SUBSET Rows
    BY DEF Changed
  <2>2. stale' \in [Jobs -> SUBSET Rows]
    BY <1>1, <1>2, <2>1 DEF TypeOK
  <2>3. job' \in [Jobs -> Handlers]
    BY <1>1, <1>2 DEF TypeOK
  <2>4. Ranked(role)'
    BY <1>2 DEF Ranked
  <2> QED
    BY <1>1, <1>2, <2>2, <2>3, <2>4 DEF TypeOK
<1>4. AccessIsJustified'
  BY <1>2, JustifiedKeeps DEF AccessIsJustified
<1>5. ASSUME NEW i \in Jobs PROVE Coherent(job[i], stale[i], role)'
  <2>1. CASE i = j
    <3>1. job'[i] = next /\ stale'[i] = rest
      BY <1>1, <1>2, <2>1 DEF TypeOK
    <3> QED
      BY <1>2, <3>1, WorldKeeps, JustifiedKeeps DEF Coherent
  <2>2. CASE i # j
    <3>1. job'[i] = job[i] /\ job[i] \in Handlers /\ stale[i] \in SUBSET Rows
      BY <1>1, <1>2, <2>2 DEF TypeOK
    <3>2. Coherent(job[i], stale[i], role)
      BY <1>1
    <3>3. CASE job[i].pc = "idle"
      <4>1. Current(job[i], stale'[i], new) /\ Pending(job[i], stale'[i], new)
            /\ Admitted(job[i], stale'[i], new)
        BY <3>3 DEF Current, Pending, Admitted, HasRead
      <4> QED
        BY <1>2, <3>1, <3>2, <4>1, WorldKeeps, JustifiedKeeps DEF Coherent
    <3>4. CASE job[i].pc # "idle"
      <4>1. stale'[i] = stale[i] \union Changed(new)
        BY <1>2, <2>2, <3>4
      <4>2. Current(job[i], stale'[i], new) /\ Pending(job[i], stale'[i], new)
            /\ Admitted(job[i], stale'[i], new)
        BY <3>1, <3>2, <4>1, OthersStayCoherent
      <4> QED
        BY <1>2, <3>1, <3>2, <4>2, WorldKeeps, JustifiedKeeps DEF Coherent
    <3> QED
      BY <3>3, <3>4
  <2> QED
    BY <2>1, <2>2
<1> QED
  BY <1>3, <1>4, <1>5 DEF IInv

\* A job that starts, or that dies.
LEMMA TurnKeeps ==
  ASSUME IInv, NEW j \in Jobs, NEW next \in Handlers,
         job' = [job EXCEPT ![j] = next], stale' = [stale EXCEPT ![j] = {}],
         Coherent(next, {}, role), faults' \in 0..MaxFaults,
         UNCHANGED <<role, world, granted, edits>>
  PROVE  IInv'
<1>1. TypeOK /\ AccessIsJustified /\ \A i \in Jobs : Coherent(job[i], stale[i], role)
  BY DEF IInv
<1>2. TypeOK'
  BY <1>1 DEF TypeOK, Ranked
<1>3. AccessIsJustified'
  BY <1>1, JustifiedKeeps DEF AccessIsJustified
<1>4. ASSUME NEW i \in Jobs PROVE Coherent(job[i], stale[i], role)'
  <2>1. CASE i = j
    <3>1. job'[i] = next /\ stale'[i] = {}
      BY <1>1, <2>1 DEF TypeOK
    <3> QED
      BY <3>1, WorldKeeps, JustifiedKeeps DEF Coherent
  <2>2. CASE i # j
    <3>1. job'[i] = job[i] /\ stale'[i] = stale[i]
      BY <1>1, <2>2 DEF TypeOK
    <3> QED
      BY <1>1, <3>1, WorldKeeps, JustifiedKeeps DEF Coherent
  <2> QED
    BY <2>1, <2>2
<1> QED
  BY <1>2, <1>3, <1>4 DEF IInv

\* A change people make is what they gave from then on.
LEMMA EditKeeps ==
  ASSUME IInv, NEW new, Edit(new), Ranked(new)
  PROVE  IInv'
<1>1. TypeOK /\ AccessIsJustified /\ \A i \in Jobs : Coherent(job[i], stale[i], role)
  BY DEF IInv
<1>2. /\ role' = new /\ world' = world /\ job' = job /\ faults' = faults
      /\ edits < MaxEdits /\ edits' = edits + 1
      /\ granted' = [t \in Targets |-> [u \in Users |->
           IF new[t][u] # role[t][u] /\ new[t][u] > granted[t][u]
           THEN new[t][u] ELSE granted[t][u]]]
      /\ stale' = [i \in Jobs |->
           IF job[i].pc = "idle" THEN {} ELSE stale[i] \union Changed(new)]
  BY DEF Edit
<1>3. new \in Table /\ role \in Table /\ granted \in Table
  BY <1>1 DEF TypeOK, Ranked
<1>4. \A t \in Targets, u \in Users :
        /\ granted'[t][u] = IF new[t][u] # role[t][u] /\ new[t][u] > granted[t][u]
                            THEN new[t][u] ELSE granted[t][u]
        /\ new[t][u] \in 0..4 /\ granted[t][u] \in 0..4
        /\ role[t][u] \in 0..4
  BY <1>2, <1>3 DEF Table
<1>5. granted' \in Table
  BY <1>2, <1>4 DEF Table
<1>6. \A t \in Targets, u \in Users :
        /\ granted'[t][u] >= granted[t][u]
        /\ new[t][u] # role[t][u] => new[t][u] <= granted'[t][u]
  BY <1>4
<1>7. \A table \in Table : Justified(table) => Justified(table)'
  BY <1>1, <1>2, <1>5, <1>6, GrowingKeeps
<1>8. TypeOK'
  <2>1. Changed(new) \in SUBSET Rows
    BY DEF Changed
  <2>2. stale' \in [Jobs -> SUBSET Rows]
    BY <1>1, <1>2, <2>1 DEF TypeOK
  <2>3. Ranked(role)'
    BY <1>2 DEF Ranked
  <2>4. edits' \in 0..MaxEdits
    BY <1>1, <1>2, BoundAssumption DEF TypeOK
  <2> QED
    BY <1>1, <1>2, <1>5, <2>2, <2>3, <2>4 DEF TypeOK
<1>9. AccessIsJustified'
  <2>1. Justified(role)'
    <3> SUFFICES ASSUME NEW t \in Targets, NEW u \in Users
                 PROVE  \E r \in Sources(t, u)' : new[t][u] <= r
      BY <1>2 DEF Justified
    <3>1. CASE new[t][u] # role[t][u]
      <4>1. granted'[t][u] \in Sources(t, u)'
        BY DEF Sources
      <4> QED
        BY <1>6, <3>1, <4>1
    <3>2. CASE new[t][u] = role[t][u]
      <4>1. PICK table \in Table : table = role
        BY <1>3
      <4>2. Justified(table)
        BY <1>1, <4>1 DEF AccessIsJustified
      <4>3. Justified(table)'
        BY <1>7, <4>2
      <4>4. \E r \in Sources(t, u)' : table[t][u] <= r
        BY <4>3 DEF Justified
      <4> QED
        BY <3>2, <4>1, <4>4
    <3> QED
      BY <3>1, <3>2
  <2> QED
    BY <2>1 DEF AccessIsJustified
<1>10. ASSUME NEW i \in Jobs PROVE Coherent(job[i], stale[i], role)'
  <2>1. job'[i] = job[i] /\ job[i] \in Handlers /\ stale[i] \in SUBSET Rows
    BY <1>1, <1>2 DEF TypeOK
  <2>2. Coherent(job[i], stale[i], role) /\ job[i].had \in Table
    BY <1>1, <2>1 DEF Handlers
  <2>3. Current(job[i], stale'[i], new) /\ Pending(job[i], stale'[i], new)
        /\ Admitted(job[i], stale'[i], new)
    <3>1. CASE job[i].pc = "idle"
      BY <3>1 DEF Current, Pending, Admitted, HasRead
    <3>2. CASE job[i].pc # "idle"
      <4>1. stale'[i] = stale[i] \union Changed(new)
        BY <1>2, <3>2
      <4> QED
        BY <2>1, <2>2, <4>1, OthersStayCoherent
    <3> QED
      BY <3>1, <3>2
  <2>4. Justified(job[i].had)'
    <3>1. PICK table \in Table : table = job[i].had
      BY <2>2
    <3>2. Justified(table)'
      BY <1>7, <2>2, <3>1 DEF Coherent
    <3>3. job'[i].had = table
      BY <2>1, <3>1
    <3> QED
      BY <3>2, <3>3 DEF Justified
  <2> QED
    BY <1>2, <2>1, <2>2, <2>3, <2>4, WorldKeeps DEF Coherent
<1> QED
  BY <1>8, <1>9, <1>10 DEF IInv

-----------------------------------------------------------------------------
(* What the handlers read and write.                                       *)

LEMMA ZeroIsJustified ==
  ASSUME TypeOK, NEW t \in Targets, NEW u \in Users
  PROVE  \E r \in Sources(t, u) : None <= r
<1>1. granted[t][u] \in Sources(t, u) /\ granted[t][u] \in 0..4
  BY DEF Sources, TypeOK, Table
<1> QED
  BY <1>1 DEF None

LEMMA ReadingIsSound ==
  ASSUME IInv, NEW targets, NEW users
  PROVE  /\ Read(targets, users) \in Table
         /\ Justified(Read(targets, users))
         /\ NoRows \in Table /\ Justified(NoRows)
         /\ \A t \in Targets, u \in Users :
              /\ NoRows[t][u] = None
              /\ t \in targets /\ u \in users =>
                   Read(targets, users)[t][u] = role[t][u]
<1>1. TypeOK /\ Justified(role) /\ role \in Table
  BY DEF IInv, AccessIsJustified, TypeOK, Ranked
<1>2. \A t \in Targets, u \in Users :
        /\ Read(targets, users)[t][u] =
             IF t \in targets /\ u \in users THEN role[t][u] ELSE None
        /\ NoRows[t][u] = None
  BY DEF Read, NoRows
<1>3. \A t \in Targets, u \in Users : \E r \in Sources(t, u) : None <= r
  BY <1>1, ZeroIsJustified
<1>4. Read(targets, users) \in Table /\ NoRows \in Table
  BY <1>1 DEF Read, NoRows, Table, None
<1>5. Justified(Read(targets, users)) /\ Justified(NoRows)
  BY <1>1, <1>2, <1>3 DEF Justified
<1> QED
  BY <1>2, <1>4, <1>5

\* A plan asks for nothing that no source says.
Founded(plan) ==
  \A t \in Targets, u \in Users :
    \/ plan[t][u] = Keep
    \/ /\ plan[t][u] \in Ranks(t)
       /\ \E r \in Sources(t, u) : plan[t][u] <= r

LEMMA PatchIsSound ==
  ASSUME IInv, NEW plan, Founded(plan)
  PROVE  Ranked(Patched(plan)) /\ Justified(Patched(plan))
<1>1. Ranked(role) /\ Justified(role)
  BY DEF IInv, AccessIsJustified, TypeOK
<1>2. \A t \in Targets, u \in Users :
        Patched(plan)[t][u] = IF plan[t][u] = Keep THEN role[t][u] ELSE plan[t][u]
  BY DEF Patched
<1>3. \A t \in Targets, u \in Users : Patched(plan)[t][u] \in 0..4
  BY <1>1, <1>2, RankSets DEF Founded, Ranked, Table
<1>4. Patched(plan) \in Table
  BY <1>3 DEF Patched, Table
<1>5. \A u \in Users : Patched(plan)[Workspace][u] \in Ranks(Workspace)
  BY <1>1, <1>2, RankSets DEF Founded, Ranked
<1>6. Justified(Patched(plan))
  BY <1>1, <1>2 DEF Founded, Justified
<1> QED
  BY <1>4, <1>5, <1>6 DEF Ranked

LEMMA WantsAreFounded ==
  ASSUME TypeOK, NEW t \in Targets, NEW u \in Users, NEW failed
  PROVE  /\ \E r \in Sources(t, u) : RepoWant(t, u) <= r
         /\ \E r \in Sources(t, u) : TeamWant(failed, t, u) <= r
         /\ \E r \in Sources(t, u) : GroupWant(t, u) <= r
         /\ {RepoWant(t, u), TeamWant(failed, t, u), GroupWant(t, u)}
              \subseteq Ranks(t)
<1>1. world \in Worlds
  BY DEF TypeOK
<1>2. RepoWant(t, u) \in Ranks(t) /\ GroupWant(t, u) \in Ranks(t)
      /\ TeamWant(failed, t, u) \in Ranks(t)
      /\ TeamWant(failed, t, u) <= TeamWant({}, t, u)
  BY <1>1, RepoWantTyped, GroupWantTyped, TeamWantTyped
<1>3. Ranks(t) \subseteq 0..4
  BY RankSets
<1>4. {RepoWant(t, u), TeamWant({}, t, u), GroupWant(t, u)} \subseteq Sources(t, u)
  BY DEF Sources
<1>5. RepoWant(t, u) <= RepoWant(t, u) /\ GroupWant(t, u) <= GroupWant(t, u)
  BY <1>2, <1>3
<1> QED
  BY <1>2, <1>4, <1>5

LEMMA PlansAreFounded ==
  ASSUME TypeOK, NEW j \in Jobs, NEW targets
  PROVE  Founded(PermissionPlan(j)) /\ Founded(TeamPlan(j, targets))
<1>1. Founded(PermissionPlan(j))
  <2> SUFFICES ASSUME NEW t \in Targets, NEW u \in Users
               PROVE  \/ PermissionPlan(j)[t][u] = Keep
                      \/ PermissionPlan(j)[t][u] = RepoWant(t, u)
    BY WantsAreFounded DEF Founded
  <2> QED
    BY DEF PermissionPlan, PermissionDecision
<1>2. Founded(TeamPlan(j, targets))
  <2> SUFFICES ASSUME NEW t \in Targets, NEW u \in Users
               PROVE  \/ TeamPlan(j, targets)[t][u] = Keep
                      \/ TeamPlan(j, targets)[t][u] = TeamWant(job[j].failed, t, u)
    BY WantsAreFounded DEF Founded
  <2> QED
    BY DEF TeamPlan, TeamDecision
<1> QED
  BY <1>1, <1>2

LEMMA CommitKeeps ==
  ASSUME IInv, NEW j \in Jobs, NEW plan, NEW next \in Handlers,
         Commit(j, plan, next), Founded(plan),
         \A rest, table : Coherent(next, rest, table)
  PROVE  IInv'
<1>1. TypeOK /\ Ranked(role) /\ Justified(role) /\ granted \in Table
      /\ world \in Worlds /\ stale[j] \in SUBSET Rows
  BY DEF IInv, AccessIsJustified, TypeOK
<1>2. CASE RowGone(job[j].had, plan)
  <2>1. Write(j, role, Idle, {})
    BY <1>2 DEF Commit, End
  <2>2. Idle \in Handlers /\ Coherent(Idle, {}, role)
    BY <1>1, IdleIsCoherent
  <2> QED
    BY <1>1, <2>1, <2>2, WriteKeeps
<1>3. CASE ~RowGone(job[j].had, plan)
  <2> DEFINE rest == IF next = Idle THEN {} ELSE stale[j]
  <2>1. Write(j, Patched(plan), next, rest)
    BY <1>3 DEF Commit
  <2>2. rest \in SUBSET Rows
    BY <1>1
  <2>3. Ranked(Patched(plan)) /\ Justified(Patched(plan))
    BY PatchIsSound
  <2> HIDE DEF rest
  <2> QED
    BY <2>1, <2>2, <2>3, WriteKeeps
<1> QED
  BY <1>2, <1>3

-----------------------------------------------------------------------------
(* The two syncs.                                                          *)

LEMMA FaultsAreNatural ==
  ASSUME TypeOK, NEW failed, failed \in SUBSET Projects \/ failed \in SUBSET Teams,
         faults + Cardinality(failed) <= MaxFaults
  PROVE  faults + Cardinality(failed) \in 0..MaxFaults
<1>1. IsFiniteSet(failed)
  BY TargetAssumption, FS_Subset
<1>2. Cardinality(failed) \in Nat
  BY <1>1, FS_CardinalityType
<1> QED
  BY <1>2, BoundAssumption DEF TypeOK

LEMMA PermissionStartKeeps ==
  ASSUME IInv, NEW j \in Jobs, NEW mode \in Modes,
         NEW failed \in SUBSET RepoProjects, PermissionStart(j, mode, failed)
  PROVE  IInv'
<1> DEFINE rows == Read(RepoProjects \union {Workspace}, world.linked)
           next == [Idle EXCEPT !.kind = "permission", !.pc = "commit",
                                !.mode = mode, !.failed = failed, !.had = rows]
<1>1. TypeOK /\ world \in Worlds /\ granted \in Table
  BY DEF IInv, TypeOK
<1>2. /\ rows \in Table /\ Justified(rows)
      /\ \A t \in Targets, u \in Users :
           t \in RepoProjects \union {Workspace} /\ u \in world.linked
             => rows[t][u] = role[t][u]
  BY ReadingIsSound
<1> HIDE DEF rows
<1>3. next \in Handlers
  BY <1>1, <1>2, IdleIsCoherent, TargetAssumption DEF Handlers, Kinds, Places
<1>4. Coherent(next, {}, role)
  BY <1>2 DEF Idle, Coherent, Shaped, Current, Pending, Admitted, HasRead,
              TeamPlaces, OidcPlaces
<1>5. faults' \in 0..MaxFaults
  BY <1>1, FaultsAreNatural, TargetAssumption DEF PermissionStart
<1>6. /\ job' = [job EXCEPT ![j] = next] /\ stale' = [stale EXCEPT ![j] = {}]
      /\ UNCHANGED <<role, world, granted, edits>>
  BY DEF PermissionStart, Start, rows
<1> HIDE DEF next
<1> QED
  BY <1>3, <1>4, <1>5, <1>6, TurnKeeps

LEMMA PermissionCommitKeeps ==
  ASSUME IInv, NEW j \in Jobs, PermissionCommit(j)
  PROVE  IInv'
<1>1. TypeOK /\ world \in Worlds /\ granted \in Table
  BY DEF IInv, TypeOK
<1>2. Idle \in Handlers /\ \A rest, table : Coherent(Idle, rest, table)
  BY <1>1, IdleIsCoherent
<1>3. Founded(PermissionPlan(j))
  BY <1>1, PlansAreFounded
<1> QED
  BY <1>2, <1>3, CommitKeeps DEF PermissionCommit

LEMMA TeamStartKeeps ==
  ASSUME IInv, NEW j \in Jobs, NEW failed \in SUBSET Teams, TeamStart(j, failed)
  PROVE  IInv'
<1> DEFINE next == [Idle EXCEPT !.kind = "team", !.pc = "readWorkspace",
                                !.mode = world.webhookMode, !.failed = failed]
<1>1. TypeOK /\ world \in Worlds /\ granted \in Table
  BY DEF IInv, TypeOK
<1>2. next \in Handlers
  BY <1>1, IdleIsCoherent, WorldAssumption DEF Handlers, Kinds, Places
<1>3. Justified(NoRows)
  BY ReadingIsSound
<1>4. Coherent(next, {}, role)
  BY <1>3 DEF Idle, Coherent, Shaped, Current, Pending, Admitted, HasRead,
              TeamPlaces, OidcPlaces
<1>5. faults' \in 0..MaxFaults
  BY <1>1, FaultsAreNatural DEF TeamStart
<1>6. /\ job' = [job EXCEPT ![j] = next] /\ stale' = [stale EXCEPT ![j] = {}]
      /\ UNCHANGED <<role, world, granted, edits>>
  BY DEF TeamStart, Start
<1> HIDE DEF next
<1> QED
  BY <1>2, <1>4, <1>5, <1>6, TurnKeeps

\* A step that writes no row.
LEMMA MoveKeeps ==
  ASSUME IInv, NEW j \in Jobs, NEW next \in Handlers, NEW rest \in SUBSET Rows,
         Move(j, next, rest), Coherent(next, rest, role)
  PROVE  IInv'
<1>1. Ranked(role) /\ Justified(role)
  BY DEF IInv, AccessIsJustified, TypeOK
<1> QED
  BY <1>1, WriteKeeps DEF Move

LEMMA JobFacts ==
  ASSUME IInv, NEW j \in Jobs
  PROVE  /\ job[j] \in Handlers /\ stale[j] \in SUBSET Rows
         /\ Coherent(job[j], stale[j], role)
         /\ TypeOK /\ world \in Worlds /\ granted \in Table
         /\ Ranked(role) /\ Justified(role)
BY DEF IInv, TypeOK, AccessIsJustified

LEMMA TeamReadWorkspaceKeeps ==
  ASSUME IInv, NEW j \in Jobs, TeamReadWorkspace(j)
  PROVE  IInv'
<1> DEFINE rows == Read({Workspace}, world.linked)
           next == [job[j] EXCEPT !.pc = "commitWorkspace", !.had = rows]
<1>1. job[j] \in Handlers /\ Coherent(job[j], stale[j], role)
  BY JobFacts
<1>2. /\ rows \in Table /\ Justified(rows)
      /\ \A t \in Targets, u \in Users :
           t = Workspace /\ u \in world.linked => rows[t][u] = role[t][u]
  BY ReadingIsSound
<1> HIDE DEF rows
<1>3. next \in Handlers
  BY <1>1, <1>2 DEF Handlers, Places
<1>4. Coherent(next, {}, role)
  BY <1>1, <1>2 DEF Handlers, TeamReadWorkspace, Coherent, Shaped, Current, Pending,
                    Admitted, HasRead, TeamPlaces, OidcPlaces
<1>5. Move(j, next, {})
  BY DEF TeamReadWorkspace, rows
<1> HIDE DEF next
<1> QED
  BY <1>3, <1>4, <1>5, MoveKeeps

LEMMA TeamCommitWorkspaceKeeps ==
  ASSUME IInv, NEW j \in Jobs, TeamCommitWorkspace(j)
  PROVE  IInv'
<1> DEFINE next == [job[j] EXCEPT !.pc = "readProjects", !.had = NoRows]
<1>1. job[j] \in Handlers /\ Coherent(job[j], stale[j], role) /\ TypeOK
  BY JobFacts
<1>2. NoRows \in Table /\ Justified(NoRows)
  BY ReadingIsSound
<1>3. next \in Handlers
  BY <1>1, <1>2 DEF Handlers, Places
<1>4. \A rest, table : Coherent(next, rest, table)
  BY <1>1, <1>2 DEF Handlers, TeamCommitWorkspace, Coherent, Shaped, Current, Pending,
                    Admitted, HasRead, TeamPlaces, OidcPlaces
<1>5. Founded(TeamPlan(j, {Workspace}))
  BY <1>1, PlansAreFounded
<1>6. Commit(j, TeamPlan(j, {Workspace}), next)
  BY DEF TeamCommitWorkspace
<1> HIDE DEF next
<1> QED
  BY <1>3, <1>4, <1>5, <1>6, CommitKeeps

LEMMA TeamReadProjectsKeeps ==
  ASSUME IInv, NEW j \in Jobs, TeamReadProjects(j)
  PROVE  IInv'
<1> DEFINE rows == Read(Targets, world.linked)
           next == [job[j] EXCEPT !.pc = "commitProjects", !.had = rows]
<1>1. job[j] \in Handlers /\ Coherent(job[j], stale[j], role)
  BY JobFacts
<1>2. /\ rows \in Table /\ Justified(rows)
      /\ \A t \in Targets, u \in Users :
           u \in world.linked => rows[t][u] = role[t][u]
  BY ReadingIsSound
<1> HIDE DEF rows
<1>3. next \in Handlers
  BY <1>1, <1>2 DEF Handlers, Places
<1>4. Coherent(next, {}, role)
  BY <1>1, <1>2 DEF Handlers, TeamReadProjects, Coherent, Shaped, Current, Pending,
                    Admitted, HasRead, TeamPlaces, OidcPlaces
<1>5. Move(j, next, {})
  BY DEF TeamReadProjects, rows
<1> HIDE DEF next
<1> QED
  BY <1>3, <1>4, <1>5, MoveKeeps

LEMMA TeamCommitProjectsKeeps ==
  ASSUME IInv, NEW j \in Jobs, TeamCommitProjects(j)
  PROVE  IInv'
<1>1. TypeOK /\ world \in Worlds /\ granted \in Table
  BY DEF IInv, TypeOK
<1>2. Idle \in Handlers /\ \A rest, table : Coherent(Idle, rest, table)
  BY <1>1, IdleIsCoherent
<1>3. Founded(TeamPlan(j, Projects))
  BY <1>1, PlansAreFounded
<1> QED
  BY <1>2, <1>3, CommitKeeps DEF TeamCommitProjects

-----------------------------------------------------------------------------
(* The sign-on.                                                            *)

LEMMA SetIsSound ==
  ASSUME IInv, NEW t \in Targets, NEW u \in Users, NEW r \in Ranks(t),
         \E q \in Sources(t, u) : r <= q
  PROVE  /\ Ranked(Set(t, u, r)) /\ Justified(Set(t, u, r))
         /\ \A x \in Targets, v \in Users :
              Set(t, u, r)[x][v] = IF x = t /\ v = u THEN r ELSE role[x][v]
<1>1. Ranked(role) /\ Justified(role) /\ role \in Table
  BY DEF IInv, AccessIsJustified, TypeOK, Ranked
<1>2. \A x \in Targets, v \in Users :
        Set(t, u, r)[x][v] = IF x = t /\ v = u THEN r ELSE role[x][v]
  BY <1>1 DEF Set, Table
<1>3. r \in 0..4
  BY RankSets
<1>4. Set(t, u, r) \in Table
  BY <1>1, <1>3 DEF Set, Table
<1>5. \A v \in Users : Set(t, u, r)[Workspace][v] \in Ranks(Workspace)
  BY <1>1, <1>2, RankSets DEF Ranked
<1>6. Justified(Set(t, u, r))
  BY <1>1, <1>2 DEF Justified
<1> QED
  BY <1>2, <1>4, <1>5, <1>6 DEF Ranked

LEMMA EndKeeps ==
  ASSUME IInv, NEW j \in Jobs, NEW new, End(j, new), Ranked(new), Justified(new)
  PROVE  IInv'
<1>1. Idle \in Handlers /\ Coherent(Idle, {}, new)
  BY JobFacts, IdleIsCoherent
<1> QED
  BY <1>1, WriteKeeps DEF End

LEMMA OidcStartKeeps ==
  ASSUME IInv, NEW j \in Jobs, NEW u \in Users, OidcStart(j, u)
  PROVE  IInv'
<1> DEFINE rows == Read({Workspace}, {u})
           next == [Idle EXCEPT !.kind = "oidc", !.pc = "workspace",
                                !.mode = world.oidcMode, !.user = u, !.had = rows]
<1>1. TypeOK /\ world \in Worlds /\ granted \in Table
  BY DEF IInv, TypeOK
<1>2. /\ rows \in Table /\ Justified(rows)
      /\ \A t \in Targets, v \in Users :
           t = Workspace /\ v = u => rows[t][v] = role[t][v]
  BY ReadingIsSound
<1> HIDE DEF rows
<1>3. next \in Handlers
  BY <1>1, <1>2, IdleIsCoherent, WorldAssumption DEF Handlers, Kinds, Places
<1>4. Coherent(next, {}, role)
  BY <1>2 DEF Idle, Coherent, Shaped, Current, Pending, Admitted, HasRead,
              TeamPlaces, OidcPlaces
<1>5. faults' \in 0..MaxFaults
  BY <1>1 DEF OidcStart, TypeOK
<1>6. /\ job' = [job EXCEPT ![j] = next] /\ stale' = [stale EXCEPT ![j] = {}]
      /\ UNCHANGED <<role, world, granted, edits>>
  BY DEF OidcStart, Start, rows
<1> HIDE DEF next
<1> QED
  BY <1>3, <1>4, <1>5, <1>6, TurnKeeps

LEMMA AsMemberKeeps ==
  ASSUME IInv, NEW j \in Jobs, NEW rank \in Ranks(Workspace),
         job[j].pc = "workspace", AsMember(j, rank),
         \E q \in Sources(Workspace, job[j].user) : rank <= q,
         rank # None \/ <<Workspace, job[j].user>> \in stale[j]
  PROVE  IInv'
<1> DEFINE u == job[j].user
           next == [job[j] EXCEPT !.pc = "projects", !.had = NoRows,
                      !.todo = {p \in Projects : GroupWant(p, u) # None}]
<1>1. job[j] \in Handlers /\ Coherent(job[j], stale[j], role)
      /\ stale[j] \in SUBSET Rows
  BY JobFacts
<1>2. u \in Users /\ job[j].kind = "oidc"
  BY <1>1 DEF Coherent, Shaped, OidcPlaces
<1>3. NoRows \in Table /\ Justified(NoRows)
  BY ReadingIsSound
<1>4. /\ Ranked(Set(Workspace, u, rank)) /\ Justified(Set(Workspace, u, rank))
      /\ Set(Workspace, u, rank)[Workspace][u] = rank
  BY <1>2, SetIsSound, RankSets
<1>5. next \in Handlers
  BY <1>1, <1>3 DEF Handlers, Places
<1>6. Coherent(next, stale[j], Set(Workspace, u, rank))
  BY <1>1, <1>2, <1>3, <1>4
     DEF Handlers, Coherent, Shaped, Current, Pending, Admitted, HasRead,
         TeamPlaces, OidcPlaces
<1>7. Write(j, Set(Workspace, u, rank), next, stale[j])
  BY DEF AsMember
<1> HIDE DEF next, u
<1> QED
  BY <1>1, <1>4, <1>5, <1>6, <1>7, WriteKeeps

\* What a sign-on knows of its user's row in the workspace.
LEMMA AtWorkspace ==
  ASSUME IInv, NEW j \in Jobs, job[j].pc = "workspace"
  PROVE  LET u == job[j].user IN
         /\ u \in Users
         /\ job[j].had[Workspace][u] \in 0..4 /\ role[Workspace][u] \in 0..3
         /\ \/ <<Workspace, u>> \in stale[j]
            \/ role[Workspace][u] = job[j].had[Workspace][u]
         /\ \E q \in Sources(Workspace, u) : job[j].had[Workspace][u] <= q
         /\ \E q \in Sources(Workspace, u) : role[Workspace][u] <= q
<1>1. job[j] \in Handlers /\ Coherent(job[j], stale[j], role) /\ Ranked(role)
      /\ Justified(role)
  BY JobFacts
<1>2. job[j].user \in Users /\ Workspace \in Targets
  BY <1>1, RankSets DEF Coherent, Shaped, OidcPlaces
<1>3. job[j].had \in Table
  BY <1>1 DEF Handlers
<1>4. job[j].had[Workspace][job[j].user] \in 0..4
  BY <1>2, <1>3 DEF Table
<1>5. role[Workspace][job[j].user] \in 0..3
  BY <1>1, <1>2, RankSets DEF Ranked
<1>6. \/ <<Workspace, job[j].user>> \in stale[j]
      \/ role[Workspace][job[j].user] = job[j].had[Workspace][job[j].user]
  BY <1>1, <1>2 DEF Coherent, Current, HasRead
<1>7. /\ \E q \in Sources(Workspace, job[j].user) :
           job[j].had[Workspace][job[j].user] <= q
      /\ \E q \in Sources(Workspace, job[j].user) :
           role[Workspace][job[j].user] <= q
  BY <1>1, <1>2 DEF Coherent, Justified
<1> QED
  BY <1>2, <1>4, <1>5, <1>6, <1>7

LEMMA OidcMappedKeeps ==
  ASSUME IInv, NEW j \in Jobs, OidcMapped(j)
  PROVE  IInv'
<1> DEFINE u == job[j].user
           had == job[j].had[Workspace][u]
           rank == IF had = Owner(Workspace) THEN had ELSE GroupWant(Workspace, u)
<1>1. job[j].pc = "workspace" /\ GroupWant(Workspace, u) # None
      /\ AsMember(j, rank)
  BY DEF OidcMapped
<1>2. u \in Users /\ \E q \in Sources(Workspace, u) : had <= q
  BY <1>1, AtWorkspace
<1>3. /\ GroupWant(Workspace, u) \in Ranks(Workspace)
      /\ \E q \in Sources(Workspace, u) : GroupWant(Workspace, u) <= q
  BY <1>2, JobFacts, RankSets, WantsAreFounded
<1>4. rank \in Ranks(Workspace) /\ rank # None
      /\ \E q \in Sources(Workspace, u) : rank <= q
  BY <1>1, <1>2, <1>3, RankSets DEF None
<1> HIDE DEF rank
<1> QED
  BY <1>1, <1>4, AsMemberKeeps

LEMMA OidcAutoProvisionKeeps ==
  ASSUME IInv, NEW j \in Jobs, OidcAutoProvision(j)
  PROVE  IInv'
<1>1. CASE role[Workspace][job[j].user] = None
  <2>1. job[j].pc = "workspace" /\ world.autoProvision /\ AsMember(j, Member)
    BY <1>1 DEF OidcAutoProvision
  <2>2. Member \in Sources(Workspace, job[j].user) /\ Member <= Member
    BY <2>1 DEF Sources, Member
  <2>3. Member \in Ranks(Workspace) /\ Member # None
    BY RankSets DEF Member, None
  <2> QED
    BY <2>1, <2>2, <2>3, AsMemberKeeps
<1>2. CASE role[Workspace][job[j].user] # None
  BY <1>2, JobFacts, EndKeeps DEF OidcAutoProvision
<1> QED
  BY <1>1, <1>2

LEMMA OidcUnmappedKeeps ==
  ASSUME IInv, NEW j \in Jobs, OidcUnmapped(j)
  PROVE  IInv'
<1> DEFINE u == job[j].user
           had == job[j].had[Workspace][u]
<1>1. job[j].pc = "workspace"
  BY DEF OidcUnmapped
<1>2. /\ u \in Users /\ role[Workspace][u] \in 0..3
      /\ <<Workspace, u>> \in stale[j] \/ role[Workspace][u] = had
      /\ \E q \in Sources(Workspace, u) : role[Workspace][u] <= q
  BY <1>1, AtWorkspace
<1>3. CASE End(j, Set(Workspace, u, None))
  <2>1. /\ \E q \in Sources(Workspace, u) : None <= q
        /\ None \in Ranks(Workspace) /\ Workspace \in Targets
    BY <1>2, JobFacts, ZeroIsJustified, RankSets DEF None
  <2>2. Ranked(Set(Workspace, u, None)) /\ Justified(Set(Workspace, u, None))
    BY <1>2, <2>1, SetIsSound
  <2> QED
    BY <1>3, <2>2, EndKeeps
<1>4. CASE had = None /\ End(j, role)
  BY <1>4, JobFacts, EndKeeps
<1>5. CASE had # None /\ AsMember(j, role[Workspace][u])
  BY <1>1, <1>2, <1>5, RankSets, AsMemberKeeps
<1> QED
  BY <1>3, <1>4, <1>5 DEF OidcUnmapped

\* What a sign-on past the workspace knows.
LEMMA PastWorkspace ==
  ASSUME IInv, NEW j \in Jobs, job[j].pc \in {"projects", "write", "remove"}
  PROVE  /\ job[j] \in Handlers /\ stale[j] \in SUBSET Rows
         /\ Coherent(job[j], stale[j], role)
         /\ job[j].user \in Users /\ job[j].kind = "oidc"
         /\ Projects \subseteq Targets /\ Workspace \notin Projects
         /\ NoRows \in Table /\ Justified(NoRows)
<1>1. job[j] \in Handlers /\ stale[j] \in SUBSET Rows
      /\ Coherent(job[j], stale[j], role)
  BY JobFacts
<1>2. job[j].user \in Users /\ job[j].kind = "oidc"
  BY <1>1 DEF Coherent, Shaped, OidcPlaces
<1> QED
  BY <1>1, <1>2, RankSets, ReadingIsSound, TargetAssumption

LEMMA OidcReadProjectKeeps ==
  ASSUME IInv, NEW j \in Jobs, NEW p \in Projects, OidcReadProject(j, p)
  PROVE  IInv'
<1> DEFINE u == job[j].user
           rows == Read({p}, {u})
           next == [job[j] EXCEPT !.pc = "write", !.at = p,
                                  !.todo = job[j].todo \ {p}, !.had = rows]
           rest == stale[j] \ {<<p, u>>}
<1>1. job[j].pc = "projects" /\ p \in job[j].todo /\ Move(j, next, rest)
  BY DEF OidcReadProject
<1>2. /\ job[j] \in Handlers /\ stale[j] \in SUBSET Rows
      /\ Coherent(job[j], stale[j], role)
      /\ u \in Users /\ job[j].kind = "oidc"
      /\ p \in Targets /\ p # Workspace
  BY <1>1, PastWorkspace
<1>3. /\ rows \in Table /\ Justified(rows)
      /\ \A t \in Targets, v \in Users : t = p /\ v = u => rows[t][v] = role[t][v]
  BY ReadingIsSound
<1> HIDE DEF rows
<1>4. next \in Handlers /\ rest \in SUBSET Rows
  BY <1>2, <1>3 DEF Handlers, Places
<1>5. Shaped(next)
  BY <1>1, <1>2 DEF Handlers, Coherent, Shaped, TeamPlaces, OidcPlaces
<1>6. Current(next, rest, role)
  BY <1>2, <1>3 DEF Handlers, Current, HasRead
<1>7. Pending(next, rest, role) /\ Admitted(next, rest, role)
  BY <1>1, <1>2 DEF Handlers, Coherent, Pending, Admitted
<1>8. Coherent(next, rest, role)
  BY <1>2, <1>3, <1>5, <1>6, <1>7 DEF Handlers, Coherent
<1> HIDE DEF next, rest
<1> QED
  BY <1>1, <1>4, <1>8, MoveKeeps

LEMMA OidcWriteProjectKeeps ==
  ASSUME IInv, NEW j \in Jobs, OidcWriteProject(j)
  PROVE  IInv'
<1> DEFINE u == job[j].user
           p == job[j].at
           had == job[j].had[p][u]
           rank == IF had = Owner(p) THEN had ELSE GroupWant(p, u)
           next == [job[j] EXCEPT !.pc = "projects", !.at = Workspace,
                                  !.had = NoRows]
<1>1. job[j].pc = "write" /\ Write(j, Set(p, u, rank), next, stale[j])
  BY DEF OidcWriteProject
<1>2. /\ job[j] \in Handlers /\ stale[j] \in SUBSET Rows
      /\ Coherent(job[j], stale[j], role)
      /\ u \in Users /\ job[j].kind = "oidc"
      /\ NoRows \in Table /\ Justified(NoRows)
      /\ Workspace \in Targets
  BY <1>1, PastWorkspace, RankSets
<1>3. p \in Targets /\ p # Workspace
  BY <1>1, <1>2, PastWorkspace DEF Coherent, Shaped
<1>4. \E q \in Sources(p, u) : had <= q
  BY <1>2, <1>3 DEF Coherent, Justified
<1>5. GroupWant(p, u) \in Ranks(p) /\ \E q \in Sources(p, u) : GroupWant(p, u) <= q
  BY <1>2, <1>3, JobFacts, WantsAreFounded
<1>6. rank \in Ranks(p) /\ \E q \in Sources(p, u) : rank <= q
  BY <1>3, <1>4, <1>5, RankSets
<1> HIDE DEF rank
<1>7. /\ Ranked(Set(p, u, rank)) /\ Justified(Set(p, u, rank))
      /\ \A v \in Users : Set(p, u, rank)[Workspace][v] = role[Workspace][v]
  BY <1>2, <1>3, <1>6, SetIsSound
<1>8. next \in Handlers
  BY <1>2 DEF Handlers, Places
<1>9. Shaped(next)
  BY <1>1, <1>2 DEF Handlers, Coherent, Shaped, TeamPlaces, OidcPlaces
<1>10. \A table : Current(next, stale[j], table) /\ Pending(next, stale[j], table)
  BY <1>2 DEF Handlers, Current, Pending, HasRead
<1>11. Admitted(next, stale[j], Set(p, u, rank))
  BY <1>1, <1>2, <1>7 DEF Handlers, Coherent, Admitted
<1>12. Coherent(next, stale[j], Set(p, u, rank))
  BY <1>2, <1>9, <1>10, <1>11 DEF Handlers, Coherent
<1> HIDE DEF next, u, p
<1> QED
  BY <1>1, <1>2, <1>7, <1>8, <1>12, WriteKeeps

LEMMA OidcListProjectsKeeps ==
  ASSUME IInv, NEW j \in Jobs, OidcListProjects(j)
  PROVE  IInv'
<1> DEFINE u == job[j].user
           rows == Read(Projects, {u})
           left == {p \in Projects : /\ role[p][u] \notin {None, Owner(p)}
                                     /\ GroupWant(p, u) = None}
           next == [job[j] EXCEPT !.pc = "remove", !.had = rows, !.todo = left]
           rest == stale[j] \ (Projects \X {u})
<1>1. job[j].pc = "projects" /\ job[j].mode = "add_and_remove"
      /\ Move(j, next, rest)
  BY DEF OidcListProjects
<1>2. /\ job[j] \in Handlers /\ stale[j] \in SUBSET Rows
      /\ Coherent(job[j], stale[j], role)
      /\ u \in Users /\ job[j].kind = "oidc"
      /\ Projects \subseteq Targets /\ Workspace \notin Projects
  BY <1>1, PastWorkspace
<1>3. /\ rows \in Table /\ Justified(rows)
      /\ \A t \in Targets, v \in Users :
           t \in Projects /\ v = u => rows[t][v] = role[t][v]
  BY ReadingIsSound
<1>4. /\ \A p \in left : rows[p][u] \notin {None, Owner(p)}
      /\ \A p \in left : rows[p][u] = role[p][u]
      /\ left \in SUBSET Projects
  BY <1>2, <1>3
<1> HIDE DEF rows, left
<1>5. next \in Handlers /\ rest \in SUBSET Rows
  BY <1>2, <1>3, <1>4 DEF Handlers, Places
<1>6. Shaped(next)
  BY <1>1, <1>2, <1>4 DEF Handlers, Coherent, Shaped, TeamPlaces, OidcPlaces
<1>7. Current(next, rest, role)
  BY <1>2 DEF Handlers, Current, HasRead
<1>8. Pending(next, rest, role) /\ Admitted(next, rest, role)
  BY <1>1, <1>2, <1>4 DEF Handlers, Coherent, Pending, Admitted
<1>9. Coherent(next, rest, role)
  BY <1>2, <1>3, <1>6, <1>7, <1>8 DEF Handlers, Coherent
<1> HIDE DEF next, rest
<1> QED
  BY <1>1, <1>5, <1>9, MoveKeeps

LEMMA OidcRemoveProjectKeeps ==
  ASSUME IInv, NEW j \in Jobs, NEW p \in Projects, OidcRemoveProject(j, p)
  PROVE  IInv'
<1> DEFINE u == job[j].user
           next == [job[j] EXCEPT !.todo = job[j].todo \ {p}]
<1>1. job[j].pc = "remove" /\ p \in job[j].todo
  BY DEF OidcRemoveProject
<1>2. /\ job[j] \in Handlers /\ stale[j] \in SUBSET Rows
      /\ Coherent(job[j], stale[j], role)
      /\ u \in Users /\ job[j].kind = "oidc"
      /\ p \in Targets /\ p # Workspace /\ Projects \subseteq Targets
      /\ Workspace \in Targets
  BY <1>1, PastWorkspace, RankSets
<1>3. CASE role[p][u] = None
  BY <1>3, JobFacts, EndKeeps DEF OidcRemoveProject
<1>4. CASE role[p][u] # None
  <2>1. Write(j, Set(p, u, None), next, stale[j])
    BY <1>4 DEF OidcRemoveProject
  <2>2. None \in Ranks(p) /\ \E q \in Sources(p, u) : None <= q
    BY <1>2, JobFacts, ZeroIsJustified, RankSets DEF None
  <2>3. /\ Ranked(Set(p, u, None)) /\ Justified(Set(p, u, None))
        /\ \A x \in Targets, v \in Users :
             Set(p, u, None)[x][v] = IF x = p /\ v = u THEN None ELSE role[x][v]
    BY <1>2, <2>2, SetIsSound
  <2>4. next \in Handlers
    BY <1>2 DEF Handlers
  <2>5. Shaped(next)
    BY <1>1, <1>2 DEF Handlers, Coherent, Shaped, TeamPlaces, OidcPlaces
  <2>6. \A table : Current(next, stale[j], table)
    BY <1>1, <1>2 DEF Handlers, Current, HasRead
  <2>7. Pending(next, stale[j], Set(p, u, None))
    <3>1. next.todo = job[j].todo \ {p} /\ next.user = u /\ next.had = job[j].had
          /\ job[j].todo \subseteq Targets
      BY <1>2 DEF Handlers
    <3>2. \A q \in next.todo : Set(p, u, None)[q][u] = role[q][u]
      BY <1>2, <2>3, <3>1
    <3> QED
      BY <1>1, <1>2, <3>1, <3>2 DEF Coherent, Pending
  <2>8. Admitted(next, stale[j], Set(p, u, None))
    BY <1>1, <1>2, <2>3 DEF Handlers, Coherent, Admitted
  <2>9. Coherent(next, stale[j], Set(p, u, None))
    BY <1>2, <2>5, <2>6, <2>7, <2>8 DEF Handlers, Coherent
  <2> HIDE DEF next, u
  <2> QED
    BY <1>2, <2>1, <2>3, <2>4, <2>9, WriteKeeps
<1> QED
  BY <1>3, <1>4

LEMMA OidcFinishKeeps ==
  ASSUME IInv, NEW j \in Jobs, OidcFinish(j)
  PROVE  IInv'
BY JobFacts, EndKeeps DEF OidcFinish

-----------------------------------------------------------------------------
(* People, and jobs that die.                                              *)

LEMMA SetIsRanked ==
  ASSUME TypeOK, NEW t \in Targets, NEW u \in Users, NEW r \in Ranks(t)
  PROVE  Ranked(Set(t, u, r)) /\ Set(t, u, r) \in Table
<1>1. Ranked(role) /\ role \in Table /\ r \in 0..4
  BY RankSets DEF TypeOK, Ranked
<1>2. Set(t, u, r) \in Table
  BY <1>1 DEF Set, Table
<1>3. \A v \in Users : Set(t, u, r)[Workspace][v] \in Ranks(Workspace)
  BY <1>1, RankSets DEF Set, Table, Ranked
<1> QED
  BY <1>2, <1>3 DEF Ranked

LEMMA PeopleKeep ==
  ASSUME IInv, People
  PROVE  IInv'
<1>1. TypeOK /\ Ranked(role) /\ role \in Table
  BY DEF IInv, TypeOK, Ranked
<1> USE RankSets
<1>2. ASSUME NEW u \in Users, NEW r \in Given \intersect Ranks(Workspace),
             SetWorkspaceRole(u, r)
      PROVE  IInv'
  BY <1>1, <1>2, SetIsRanked, EditKeeps DEF SetWorkspaceRole
<1>3. ASSUME NEW u \in Users, RemoveWorkspaceMember(u)
      PROVE  IInv'
  BY <1>1, <1>3, SetIsRanked, EditKeeps DEF RemoveWorkspaceMember, None
<1>4. ASSUME NEW u \in Users, NEW p \in Projects, NEW r \in Given,
             AddProjectMember(p, u, r)
      PROVE  IInv'
  <2> DEFINE new == [Set(p, u, r) EXCEPT ![Workspace] =
               [role[Workspace] EXCEPT ![u] = IF @ = None THEN Member ELSE @]]
  <2>1. r \in Ranks(p) /\ p \in Targets /\ Workspace \in Targets
    BY BoundAssumption
  <2>2. Set(p, u, r) \in Table
    BY <1>1, <2>1, SetIsRanked
  <2>3. [role[Workspace] EXCEPT ![u] = IF @ = None THEN Member ELSE @]
          \in [Users -> 0..3]
    BY <1>1 DEF Ranked, Table, Member, None
  <2>4. new \in Table
    BY <2>1, <2>2, <2>3 DEF Table
  <2>5. \A v \in Users : new[Workspace][v] \in Ranks(Workspace)
    BY <2>1, <2>2, <2>3 DEF Table
  <2>6. Ranked(new) /\ Edit(new)
    BY <1>4, <2>4, <2>5 DEF Ranked, AddProjectMember
  <2> HIDE DEF new
  <2> QED
    BY <2>6, EditKeeps
<1>5. ASSUME NEW u \in Users, NEW p \in Projects, NEW r \in Given,
             UpdateProjectMemberRole(p, u, r)
      PROVE  IInv'
  <2>1. r \in Ranks(p) /\ p \in Targets
    BY BoundAssumption
  <2> QED
    BY <1>1, <1>5, <2>1, SetIsRanked, EditKeeps DEF UpdateProjectMemberRole
<1>6. ASSUME NEW u \in Users, NEW p \in Projects, RemoveProjectMember(p, u)
      PROVE  IInv'
  <2>1. None \in Ranks(p) /\ p \in Targets
    BY DEF None
  <2> QED
    BY <1>1, <1>6, <2>1, SetIsRanked, EditKeeps DEF RemoveProjectMember
<1>7. ASSUME NEW u \in Users, NEW p \in Projects, CreateProject(p, u)
      PROVE  IInv'
  <2>1. Owner(p) \in Ranks(p) /\ p \in Targets
    OBVIOUS
  <2> QED
    BY <1>1, <1>7, <2>1, SetIsRanked, EditKeeps DEF CreateProject
<1>8. ASSUME NEW u \in Users, NEW rank \in Given \intersect Ranks(Workspace),
             NEW projects \in SUBSET Projects, NEW r \in Given,
             AcceptInvite(u, rank, projects, r)
      PROVE  IInv'
  <2> DEFINE new == [t \in Targets |-> [v \in Users |->
               IF v = u /\ t = Workspace THEN rank
               ELSE IF v = u /\ t \in projects THEN r ELSE role[t][v]]]
  <2>1. \A t \in Targets, v \in Users : new[t][v] \in 0..4
    BY <1>1, BoundAssumption DEF Table
  <2>2. new \in Table
    BY <2>1 DEF Table
  <2>3. \A v \in Users : new[Workspace][v] \in Ranks(Workspace)
    BY <1>1, TargetAssumption DEF Ranked
  <2>4. Ranked(new) /\ Edit(new)
    BY <1>8, <2>2, <2>3 DEF Ranked, AcceptInvite
  <2> HIDE DEF new
  <2> QED
    BY <2>4, EditKeeps
<1> QED
  BY <1>2, <1>3, <1>4, <1>5, <1>6, <1>7, <1>8 DEF People

LEMMA AbortKeeps ==
  ASSUME IInv, NEW j \in Jobs, Abort(j)
  PROVE  IInv'
<1>1. Idle \in Handlers /\ Coherent(Idle, {}, role) /\ TypeOK
  BY JobFacts, IdleIsCoherent
<1>2. faults' \in 0..MaxFaults
  BY <1>1, BoundAssumption DEF Abort, TypeOK
<1> QED
  BY <1>1, <1>2, TurnKeeps DEF Abort

LEMMA InitKeeps == Init => IInv
<1> SUFFICES ASSUME Init PROVE IInv
  OBVIOUS
<1>1. role \in Table /\ granted = role /\ Ranked(role) /\ world \in Worlds
  BY StartAssumption DEF Init, Ranked
<1>2. Idle \in Handlers /\ \A gone, table : Coherent(Idle, gone, table)
  BY <1>1, IdleIsCoherent
<1>3. TypeOK
  BY <1>1, <1>2, BoundAssumption DEF Init, TypeOK
<1>4. AccessIsJustified
  <2> SUFFICES ASSUME NEW t \in Targets, NEW u \in Users
               PROVE  \E r \in Sources(t, u) : role[t][u] <= r
    BY DEF AccessIsJustified, Justified
  <2>1. granted[t][u] \in Sources(t, u) /\ granted[t][u] = role[t][u]
    BY <1>1 DEF Sources
  <2>2. role[t][u] \in 0..4
    BY <1>1 DEF Table
  <2> QED
    BY <2>1, <2>2
<1> QED
  BY <1>2, <1>3, <1>4 DEF Init, IInv

LEMMA NextKeeps == IInv /\ [Next]_vars => IInv'
<1> SUFFICES ASSUME IInv, [Next]_vars PROVE IInv'
  OBVIOUS
<1>1. CASE UNCHANGED vars
  <2>1. TypeOK'
    BY <1>1 DEF vars, IInv, TypeOK, Ranked
  <2>2. AccessIsJustified'
    BY <1>1, JustifiedKeeps DEF vars, IInv, AccessIsJustified
  <2>3. ASSUME NEW j \in Jobs PROVE Coherent(job[j], stale[j], role)'
    BY <1>1, JobFacts, WorldKeeps, JustifiedKeeps DEF vars, Coherent
  <2> QED
    BY <2>1, <2>2, <2>3 DEF IInv
<1>2. CASE People
  BY <1>2, PeopleKeep
<1>3. ASSUME NEW j \in Jobs, Sync(j) PROVE IInv'
  BY <1>3, PermissionStartKeeps, PermissionCommitKeeps, TeamStartKeeps,
     TeamReadWorkspaceKeeps, TeamCommitWorkspaceKeeps, TeamReadProjectsKeeps,
     TeamCommitProjectsKeeps DEF Sync
<1>4. ASSUME NEW j \in Jobs, SignOn(j) PROVE IInv'
  BY <1>4, OidcStartKeeps, OidcMappedKeeps, OidcAutoProvisionKeeps,
     OidcUnmappedKeeps, OidcReadProjectKeeps, OidcWriteProjectKeeps,
     OidcListProjectsKeeps, OidcRemoveProjectKeeps, OidcFinishKeeps DEF SignOn
<1>5. ASSUME NEW j \in Jobs, Abort(j) PROVE IInv'
  BY <1>5, AbortKeeps
<1> QED
  BY <1>1, <1>2, <1>3, <1>4, <1>5 DEF Next

LEMMA Inductive == Spec => []IInv
BY InitKeeps, NextKeeps, PTL DEF Spec

\* The tables, the jobs' records and the histories keep their types.
THEOREM TypeCorrect == Spec => []TypeOK
<1>1. IInv => TypeOK
  BY DEF IInv
<1> QED
  BY <1>1, Inductive, PTL

\* No row ever ranks above everything that people gave it and that a source says
\* of it, however the syncs, sign-ons and people interleave and whichever calls
\* fail.
THEOREM AccessJustified == Spec => []AccessIsJustified
<1>1. IInv => AccessIsJustified
  BY DEF IInv
<1> QED
  BY <1>1, Inductive, PTL

-----------------------------------------------------------------------------
(* What a step may never do.                                               *)

\* A session token goes to a member, unless somebody else changed the membership
\* during the sign-on.
THEOREM SessionsAreMembers == Spec => TokensGoToMembers
<1>1. ASSUME IInv, NEW j \in Jobs, OidcFinish(j)
      PROVE  \/ role[Workspace][job[j].user] # None
             \/ <<Workspace, job[j].user>> \in stale[j]
  BY <1>1, PastWorkspace DEF OidcFinish, Coherent, Admitted
<1>2. IInv /\ [Next]_vars =>
        [\A j \in Jobs :
           OidcFinish(j) => \/ role[Workspace][job[j].user] # None
                            \/ <<Workspace, job[j].user>> \in stale[j]]_vars
  BY <1>1
<1> QED
  BY <1>2, Inductive, PTL DEF Spec, TokensGoToMembers

\* Only a job's own steps change its record.
LEMMA OthersStand ==
  ASSUME NEW i \in Jobs, NEW j \in Jobs, i # j,
         job \in [Jobs -> Handlers], Sync(i) \/ SignOn(i) \/ Abort(i)
  PROVE  job'[j] = job[j]
<1>1. ASSUME NEW new, NEW next, NEW rest, Write(i, new, next, rest)
      PROVE  job'[j] = job[j]
  BY <1>1 DEF Write
<1>2. ASSUME NEW next, Start(i, next) PROVE job'[j] = job[j]
  BY <1>2 DEF Start
<1>3. CASE Sync(i)
  BY <1>1, <1>2, <1>3 DEF Sync, PermissionStart, PermissionCommit, TeamStart,
     TeamReadWorkspace, TeamCommitWorkspace, TeamReadProjects, TeamCommitProjects,
     Commit, Move, End
<1>4. CASE SignOn(i)
  BY <1>1, <1>2, <1>4 DEF SignOn, OidcStart, OidcMapped, OidcAutoProvision,
     OidcUnmapped, OidcReadProject, OidcWriteProject, OidcListProjects,
     OidcRemoveProject, OidcFinish, AsMember, Move, End
<1>5. CASE Abort(i)
  BY <1>5 DEF Abort
<1> QED
  BY <1>3, <1>4, <1>5

\* A transaction lowers what its plan lowers.
LEMMA CommitLowers ==
  ASSUME IInv, NEW j \in Jobs, NEW plan, NEW next, Commit(j, plan, next),
         NEW t \in Targets, NEW u \in Users, role'[t][u] < role[t][u]
  PROVE  plan[t][u] # Keep /\ plan[t][u] = role'[t][u]
<1>1. role[t][u] \in 0..4
  BY JobFacts DEF Ranked, Table
<1>2. role' = role \/ role' = Patched(plan)
  BY DEF Commit, End, Write
<1>3. role' = Patched(plan)
  BY <1>1, <1>2
<1>4. role'[t][u] = IF plan[t][u] = Keep THEN role[t][u] ELSE plan[t][u]
  BY <1>3 DEF Patched
<1> QED
  BY <1>1, <1>4

\* A row that is fresh for a sync is protected iff it was when it was read.
LEMMA FreshIsProtected ==
  ASSUME IInv, NEW j \in Jobs, NEW t \in Targets, NEW u \in world.linked,
         \/ job[j].pc = "commit" /\ t \in RepoProjects
         \/ job[j].pc = "commitWorkspace" /\ t = Workspace
         \/ job[j].pc = "commitProjects",
         Fresh(j, t, u)
  PROVE  /\ role[t][u] = job[j].had[t][u] /\ role[t][u] \in 0..4
         /\ Protected(job[j].had, t, u) = Protected(role, t, u)
         /\ job[j].kind # "oidc" /\ job[j].mode \in Modes
<1>1. job[j] \in Handlers /\ Coherent(job[j], stale[j], role) /\ Ranked(role)
      /\ world \in Worlds
  BY JobFacts
<1>2. u \in Users /\ Workspace \in Targets
  BY <1>1, WorldAssumption, RankSets
<1>3. role[t][u] = job[j].had[t][u]
      /\ role[Workspace][u] = job[j].had[Workspace][u]
  BY <1>1, <1>2 DEF Coherent, Current, HasRead, Fresh
<1>4. job[j].kind # "oidc"
  BY <1>1 DEF Coherent, Shaped, OidcPlaces
<1> QED
  BY <1>1, <1>2, <1>3, <1>4 DEF Protected, Handlers, Ranked, Table

LEMMA SyncsRespectProtection ==
  ASSUME IInv, NEW j \in Jobs, Sync(j), NEW t \in Targets, NEW u \in Users,
         role'[t][u] < role[t][u], Fresh(j, t, u)
  PROVE  MayLower(j, t, u)
<1>1. role[t][u] \in 0..4
  BY JobFacts DEF Ranked, Table
<1>2. CASE PermissionCommit(j)
  <2>1. PermissionPlan(j)[t][u] # Keep /\ PermissionPlan(j)[t][u] = role'[t][u]
    BY <1>2, CommitLowers DEF PermissionCommit
  <2>2. t \in RepoProjects /\ u \in world.linked
    BY <2>1 DEF PermissionPlan
  <2>3. role'[t][u] = PermissionDecision(job[j].mode, job[j].had[t][u],
                        RepoWant(t, u), Protected(job[j].had, t, u))
    BY <2>1, <2>2 DEF PermissionPlan
  <2>4. /\ role[t][u] = job[j].had[t][u] /\ role[t][u] \in 0..4
        /\ Protected(job[j].had, t, u) = Protected(role, t, u)
        /\ job[j].kind # "oidc" /\ job[j].mode \in Modes
    BY <1>2, <2>2, FreshIsProtected DEF PermissionCommit
  <2>5. role'[t][u] \in 0..4
    BY <1>2, PermissionCommitKeeps DEF IInv, TypeOK, Ranked, Table
  <2> QED
    BY <2>1, <2>3, <2>4, <2>5 DEF PermissionDecision, MayLower, Modes, Keep, None
<1>3. ASSUME NEW targets, NEW next, Commit(j, TeamPlan(j, targets), next), IInv',
             \/ job[j].pc = "commitWorkspace" /\ targets = {Workspace}
             \/ job[j].pc = "commitProjects"
      PROVE  MayLower(j, t, u)
  <2>1. /\ TeamPlan(j, targets)[t][u] # Keep
        /\ TeamPlan(j, targets)[t][u] = role'[t][u]
    BY <1>3, CommitLowers
  <2>2. t \in targets /\ u \in world.linked
    BY <2>1 DEF TeamPlan
  <2>3. role'[t][u] = TeamDecision(job[j].mode, job[j].had[t][u],
                        TeamWant(job[j].failed, t, u), Protected(job[j].had, t, u))
    BY <2>1, <2>2 DEF TeamPlan
  <2>4. /\ role[t][u] = job[j].had[t][u] /\ role[t][u] \in 0..4
        /\ Protected(job[j].had, t, u) = Protected(role, t, u)
        /\ job[j].kind # "oidc" /\ job[j].mode \in Modes
    BY <1>3, <2>2, FreshIsProtected
  <2>5. role'[t][u] \in 0..4
    BY <1>3 DEF IInv, TypeOK, Ranked, Table
  <2> QED
    BY <2>1, <2>3, <2>4, <2>5 DEF TeamDecision, MayLower, Keep
<1>4. CASE TeamCommitWorkspace(j)
  BY <1>3, <1>4, TeamCommitWorkspaceKeeps DEF TeamCommitWorkspace
<1>5. CASE TeamCommitProjects(j)
  BY <1>3, <1>5, TeamCommitProjectsKeeps DEF TeamCommitProjects
<1>6. CASE role' = role
  BY <1>1, <1>6
<1> QED
  BY <1>2, <1>4, <1>5, <1>6 DEF Sync, PermissionStart, TeamStart, TeamReadWorkspace,
     TeamReadProjects, Move, Write

LEMMA SignOnsRespectProtection ==
  ASSUME IInv, NEW j \in Jobs, SignOn(j), NEW t \in Targets, NEW u \in Users,
         role'[t][u] < role[t][u], Fresh(j, t, u)
  PROVE  MayLower(j, t, u)
<1>1. /\ role[t][u] \in 0..4 /\ role \in Table /\ job[j] \in Handlers
      /\ Coherent(job[j], stale[j], role)
  BY JobFacts DEF Ranked, Table
<1>2. ASSUME NEW x, NEW v, NEW r, role' = Set(x, v, r)
      PROVE  /\ t = x /\ u = v
             /\ x \in Targets /\ v \in Users => role'[t][u] = r
  BY <1>1, <1>2 DEF Set, Table
<1>3. job[j].pc \in OidcPlaces => job[j].kind = "oidc"
  BY <1>1 DEF Coherent, Shaped
<1>4. CASE role' = role
  BY <1>1, <1>4
<1>5. CASE OidcMapped(j)
  <2> DEFINE v == job[j].user
             had == job[j].had[Workspace][v]
             rank == IF had = Owner(Workspace) THEN had ELSE GroupWant(Workspace, v)
  <2>1. job[j].pc = "workspace" /\ GroupWant(Workspace, v) # None
        /\ role' = Set(Workspace, v, rank)
    BY <1>5 DEF OidcMapped, AsMember, Write
  <2>2. t = Workspace /\ u = v /\ role'[t][u] = rank
    BY <1>2, <2>1
  <2>3. role[t][u] = had
    BY <1>1, <2>1, <2>2 DEF Coherent, Current, HasRead, Fresh
  <2>4. job[j].kind = "oidc"
    BY <1>3, <2>1 DEF OidcPlaces
  <2>5. role[t][u] # Owner(t)
    BY <1>1, <2>2, <2>3
  <2> QED
    BY <2>1, <2>2, <2>4, <2>5 DEF MayLower
<1>6. CASE OidcAutoProvision(j)
  <2>1. CASE role[Workspace][job[j].user] = None
    <3>1. role' = Set(Workspace, job[j].user, Member)
      BY <1>6, <2>1 DEF OidcAutoProvision, AsMember, Write
    <3>2. t = Workspace /\ u = job[j].user /\ role'[t][u] = Member
      BY <1>2, <3>1
    <3> QED
      BY <2>1, <3>2 DEF Member, None
  <2>2. CASE role[Workspace][job[j].user] # None
    BY <1>4, <1>6, <2>2 DEF OidcAutoProvision, End, Write
  <2> QED
    BY <2>1, <2>2
<1>7. CASE OidcUnmapped(j)
  <2> DEFINE v == job[j].user
             had == job[j].had[Workspace][v]
  <2>1. job[j].pc = "workspace"
    BY <1>7 DEF OidcUnmapped
  <2>2. \/ /\ job[j].mode = "add_and_remove" /\ had # Owner(Workspace)
           /\ role' = Set(Workspace, v, None)
        \/ role' = Set(Workspace, v, role[Workspace][v])
        \/ role' = role
    BY <1>7 DEF OidcUnmapped, AsMember, End, Write
  <2>3. CASE role' = Set(Workspace, v, role[Workspace][v])
    <3>1. t = Workspace /\ u = v /\ role'[t][u] = role[Workspace][v]
      BY <1>2, <2>3
    <3> QED
      BY <1>1, <3>1
  <2>4. CASE /\ job[j].mode = "add_and_remove" /\ had # Owner(Workspace)
             /\ role' = Set(Workspace, v, None)
    <3>1. t = Workspace /\ u = v
      BY <1>2, <2>4
    <3>2. role[t][u] = had
      BY <1>1, <2>1, <3>1 DEF Coherent, Current, HasRead, Fresh
    <3>3. job[j].kind = "oidc"
      BY <1>3, <2>1 DEF OidcPlaces
    <3> QED
      BY <2>4, <3>1, <3>2, <3>3 DEF MayLower
  <2> QED
    BY <1>4, <2>2, <2>3, <2>4
<1>8. CASE OidcWriteProject(j)
  <2> DEFINE v == job[j].user
             p == job[j].at
             had == job[j].had[p][v]
             rank == IF had = Owner(p) THEN had ELSE GroupWant(p, v)
  <2>1. job[j].pc = "write" /\ role' = Set(p, v, rank)
    BY <1>8 DEF OidcWriteProject, Write
  <2>2. t = p /\ u = v /\ role'[t][u] = rank
    BY <1>2, <2>1
  <2>3. role[t][u] = had
    BY <1>1, <2>1, <2>2 DEF Coherent, Current, HasRead, Fresh
  <2>4. job[j].kind = "oidc" /\ GroupWant(p, v) # None
    BY <1>1, <1>3, <2>1 DEF Coherent, Shaped, OidcPlaces
  <2>5. role[t][u] # Owner(t)
    BY <1>1, <2>2, <2>3
  <2> QED
    BY <2>2, <2>4, <2>5 DEF MayLower
<1>9. ASSUME NEW p \in Projects, OidcRemoveProject(j, p) PROVE MayLower(j, t, u)
  <2> DEFINE v == job[j].user
  <2>1. CASE role[p][v] = None
    BY <1>4, <1>9, <2>1 DEF OidcRemoveProject, End, Write
  <2>2. CASE role[p][v] # None
    <3>1. role' = Set(p, v, None)
      BY <1>9, <2>2 DEF OidcRemoveProject, Write
    <3>2. t = p /\ u = v
      BY <1>2, <3>1
    <3>3. job[j].pc = "remove" /\ p \in job[j].todo
      BY <1>9 DEF OidcRemoveProject
    <3>4. role[t][u] = job[j].had[p][v]
      BY <1>1, <3>2, <3>3 DEF Coherent, Pending, Fresh
    <3>5. /\ job[j].kind = "oidc" /\ job[j].mode = "add_and_remove"
          /\ job[j].had[p][v] # Owner(p)
      BY <1>1, <1>3, <3>3 DEF Coherent, Shaped, OidcPlaces
    <3> QED
      BY <3>2, <3>4, <3>5 DEF MayLower
  <2> QED
    BY <2>1, <2>2
<1> QED
  BY <1>4, <1>5, <1>6, <1>7, <1>8, <1>9 DEF SignOn, OidcStart, OidcReadProject,
     OidcListProjects, OidcFinish, Move, End, Write

\* Owner protection, for every world and every interleaving: a job lowers a row it
\* has read, and nobody else has changed since, only where its mode and the
\* protected roles allow it.
THEOREM OwnersAreProtected == Spec => ProtectionHolds
<1>1. ASSUME IInv, Next, NEW j \in Jobs, NEW t \in Targets, NEW u \in Users,
             Steps(j), role'[t][u] < role[t][u], Fresh(j, t, u)
      PROVE  MayLower(j, t, u)
  <2>1. job \in [Jobs -> Handlers] /\ role[t][u] \in 0..4
    BY <1>1 DEF IInv, TypeOK, Ranked, Table
  <2>2. job'[j] # job[j]
    BY <1>1 DEF Steps
  <2>3. CASE People
    <3>1. \A new : Edit(new) => job' = job
      BY DEF Edit
    <3>2. job' = job
      BY <2>3, <3>1 DEF People, SetWorkspaceRole, RemoveWorkspaceMember,
         AddProjectMember, UpdateProjectMemberRole, RemoveProjectMember,
         CreateProject, AcceptInvite
    <3> QED
      BY <2>2, <3>2
  <2>4. ASSUME NEW i \in Jobs, Sync(i) \/ SignOn(i) \/ Abort(i)
        PROVE  MayLower(j, t, u)
    <3>1. i = j
      BY <2>1, <2>2, <2>4, OthersStand
    <3>2. CASE Sync(j)
      BY <1>1, <3>2, SyncsRespectProtection
    <3>3. CASE SignOn(j)
      BY <1>1, <3>3, SignOnsRespectProtection
    <3>4. CASE Abort(j)
      BY <1>1, <2>1, <3>4 DEF Abort
    <3> QED
      BY <2>4, <3>1, <3>2, <3>3, <3>4
  <2> QED
    BY <1>1, <2>3, <2>4 DEF Next
<1>2. IInv /\ [Next]_vars =>
        [\A j \in Jobs, t \in Targets, u \in Users :
           Steps(j) /\ role'[t][u] < role[t][u] /\ Fresh(j, t, u)
             => MayLower(j, t, u)]_vars
  BY <1>1
<1> QED
  BY <1>2, Inductive, PTL DEF Spec, ProtectionHolds

-----------------------------------------------------------------------------
(* What a sync reaches.                                                    *)

\* Only a job's own step changes its record, and people's never do.
LEMMA OwnStep ==
  ASSUME IInv, Next, NEW j \in Jobs, Steps(j)
  PROVE  Sync(j) \/ SignOn(j) \/ Abort(j)
<1>1. job \in [Jobs -> Handlers] /\ job'[j] # job[j]
  BY DEF IInv, TypeOK, Steps
<1>2. ~People
  <2>1. \A new : Edit(new) => job' = job
    BY DEF Edit
  <2> QED
    BY <1>1, <2>1 DEF People, SetWorkspaceRole, RemoveWorkspaceMember,
       AddProjectMember, UpdateProjectMemberRole, RemoveProjectMember,
       CreateProject, AcceptInvite
<1>3. PICK i \in Jobs : Sync(i) \/ SignOn(i) \/ Abort(i)
  BY <1>2 DEF Next
<1> QED
  BY <1>1, <1>3, OthersStand

\* A sign-on's steps are those of its own places.
LEMMA SignOnPlaces ==
  ASSUME NEW j \in Jobs, SignOn(j)
  PROVE  job[j].pc \in {"idle"} \union OidcPlaces
<1>1. ASSUME NEW u \in Users, OidcStart(j, u) PROVE job[j].pc = "idle"
  <2>1. job[j] = Idle
    BY <1>1 DEF OidcStart, Start
  <2> QED
    BY <2>1 DEF Idle
<1>2. OidcMapped(j) \/ OidcAutoProvision(j) \/ OidcUnmapped(j) =>
        job[j].pc = "workspace"
  BY DEF OidcMapped, OidcAutoProvision, OidcUnmapped
<1>3. ASSUME NEW p \in Projects, OidcReadProject(j, p) \/ OidcRemoveProject(j, p)
      PROVE  job[j].pc \in {"projects", "remove"}
  BY <1>3 DEF OidcReadProject, OidcRemoveProject
<1>4. OidcWriteProject(j) \/ OidcListProjects(j) \/ OidcFinish(j) =>
        job[j].pc \in {"write", "projects", "remove"}
  BY DEF OidcWriteProject, OidcListProjects, OidcFinish
<1> QED
  BY <1>1, <1>2, <1>3, <1>4 DEF SignOn, OidcPlaces

\* A sync's steps are its reading and its commits.
LEMMA SyncPlaces ==
  ASSUME NEW j \in Jobs, Sync(j)
  PROVE  \/ job[j].pc = "idle" /\ role' = role
         \/ job[j].pc \in {"readWorkspace", "readProjects"} /\ role' = role
         \/ PermissionCommit(j) \/ TeamCommitWorkspace(j) \/ TeamCommitProjects(j)
<1>1. ASSUME NEW mode, NEW failed, PermissionStart(j, mode, failed)
      PROVE  job[j].pc = "idle" /\ role' = role
  <2>1. job[j] = Idle /\ role' = role
    BY <1>1 DEF PermissionStart, Start
  <2> QED
    BY <2>1 DEF Idle
<1>2. ASSUME NEW failed, TeamStart(j, failed)
      PROVE  job[j].pc = "idle" /\ role' = role
  <2>1. job[j] = Idle /\ role' = role
    BY <1>2 DEF TeamStart, Start
  <2> QED
    BY <2>1 DEF Idle
<1>3. TeamReadWorkspace(j) \/ TeamReadProjects(j) =>
        job[j].pc \in {"readWorkspace", "readProjects"} /\ role' = role
  BY DEF TeamReadWorkspace, TeamReadProjects, Move, Write
<1> QED
  BY <1>1, <1>2, <1>3 DEF Sync

\* The step of a job about to commit is its commit, unless it dies.
LEMMA CommitsNext ==
  ASSUME IInv, Next, NEW j \in Jobs, Undisturbed(j)
  PROVE  /\ job[j].pc = "commit" => PermissionCommit(j)
         /\ job[j].pc = "commitWorkspace" => TeamCommitWorkspace(j)
         /\ job[j].pc = "commitProjects" => TeamCommitProjects(j)
<1>1. Sync(j) \/ SignOn(j) \/ Abort(j)
  BY OwnStep DEF Undisturbed
<1>2. ~Abort(j)
  BY DEF Undisturbed, Abort, IInv, TypeOK
<1>3. CASE SignOn(j)
  BY <1>3, SignOnPlaces DEF OidcPlaces
<1>4. CASE Sync(j)
  BY <1>4, SyncPlaces DEF PermissionCommit, TeamCommitWorkspace, TeamCommitProjects
<1> QED
  BY <1>1, <1>2, <1>3, <1>4

\* A transaction over rows nobody has changed since they were read goes through.
LEMMA QuietCommit ==
  ASSUME IInv, NEW j \in Jobs, NEW plan, NEW next, Commit(j, plan, next),
         stale[j] = {},
         \A t \in Targets, u \in Users :
           plan[t][u] > None => HasRead(job[j], t, u)
  PROVE  role' = Patched(plan)
<1>1. Current(job[j], stale[j], role)
  BY JobFacts DEF Coherent
<1>2. \A t \in Targets, u \in Users :
        plan[t][u] > None => role[t][u] = job[j].had[t][u]
  BY <1>1 DEF Current
<1>3. ~RowGone(job[j].had, plan)
  BY <1>2 DEF RowGone
<1> QED
  BY <1>3 DEF Commit, Write

LEMMA PermissionReaches ==
  ASSUME IInv, NEW j \in Jobs, PermissionCommit(j), stale[j] = {},
         NEW u \in world.linked, NEW t \in RepoProjects \ job[j].failed
  PROVE  Reached(j, t, u, RepoWant(t, u))
<1> DEFINE plan == PermissionPlan(j)
<1>1. job[j].pc = "commit" /\ Commit(j, plan, Idle)
  BY DEF PermissionCommit
<1>2. world.linked \subseteq Users /\ t \in Targets /\ world \in Worlds
  BY JobFacts, WorldAssumption, TargetAssumption, RankSets
<1>3. \A x \in Targets, v \in Users :
        plan[x][v] > None => HasRead(job[j], x, v)
  BY <1>1 DEF PermissionPlan, HasRead, Keep, None
<1>4. role' = Patched(plan)
  <2> HIDE DEF plan
  <2> QED
    BY <1>1, <1>3, QuietCommit
<1>5. plan[t][u] = PermissionDecision(job[j].mode, job[j].had[t][u],
                     RepoWant(t, u), Protected(job[j].had, t, u))
  BY <1>2 DEF PermissionPlan
<1>6. /\ role[t][u] = job[j].had[t][u] /\ role[t][u] \in 0..4
      /\ Protected(job[j].had, t, u) = Protected(role, t, u)
      /\ job[j].mode \in Modes
  <2>1. Fresh(j, t, u)
    BY DEF Fresh
  <2> HIDE DEF plan
  <2> QED
    BY <1>1, <1>2, <2>1, FreshIsProtected
<1>7. role'[t][u] = IF plan[t][u] = Keep THEN role[t][u] ELSE plan[t][u]
  <2> HIDE DEF plan
  <2> QED
    BY <1>2, <1>4 DEF Patched
<1>8. RepoWant(t, u) \in 0..4
  BY <1>2, RepoWantTyped, RankSets
<1>9. job[j].kind = "permission"
  BY <1>1, JobFacts DEF Coherent, Shaped
<1> HIDE DEF plan
<1> QED
  BY <1>5, <1>6, <1>7, <1>8, <1>9
  DEF Reached, PermissionDecision, Modes, Keep, None

LEMMA TeamReaches ==
  ASSUME IInv, NEW j \in Jobs, NEW targets, NEW next,
         Commit(j, TeamPlan(j, targets), next), stale[j] = {},
         \/ job[j].pc = "commitWorkspace" /\ targets = {Workspace}
         \/ job[j].pc = "commitProjects" /\ targets = Projects,
         NEW u \in world.linked, NEW t \in targets \intersect Mapped
  PROVE  Reached(j, t, u, TeamWant(job[j].failed, t, u))
<1> DEFINE plan == TeamPlan(j, targets)
           want == TeamWant(job[j].failed, t, u)
<1>1. world.linked \subseteq Users /\ t \in Targets /\ world \in Worlds
  BY JobFacts, WorldAssumption, RankSets
<1>2. \A x \in Targets, v \in Users :
        plan[x][v] > None => HasRead(job[j], x, v)
  BY DEF TeamPlan, HasRead, Keep, None
<1>3. role' = Patched(plan)
  <2>1. Commit(j, plan, next)
    OBVIOUS
  <2> HIDE DEF plan
  <2> QED
    BY <1>2, <2>1, QuietCommit
<1>4. plan[t][u] = TeamDecision(job[j].mode, job[j].had[t][u], want,
                                Protected(job[j].had, t, u))
  BY <1>1 DEF TeamPlan
<1>5. /\ role[t][u] = job[j].had[t][u] /\ role[t][u] \in 0..4
      /\ Protected(job[j].had, t, u) = Protected(role, t, u)
      /\ job[j].mode \in Modes
  <2>1. Fresh(j, t, u)
    BY DEF Fresh
  <2> HIDE DEF plan, want
  <2> QED
    BY <1>1, <2>1, FreshIsProtected
<1>6. role'[t][u] = IF plan[t][u] = Keep THEN role[t][u] ELSE plan[t][u]
  <2> HIDE DEF plan
  <2> QED
    BY <1>1, <1>3 DEF Patched
<1>7. want \in 0..4
  BY <1>1, TeamWantTyped, RankSets
<1> HIDE DEF plan, want
<1>8. Reached(j, t, u, want)
  BY <1>4, <1>5, <1>6, <1>7 DEF Reached, TeamDecision, Modes, Keep
<1> QED
  BY <1>8 DEF want

\* What a sync promises, for every world and every interleaving: when nobody else
\* wrote between its reading and its commit, each linked user has the source's
\* role, but for what add_only and the protected roles keep.
THEOREM SyncsReachTheirSource == Spec => SyncReachesItsSource
<1>1. ASSUME IInv, Next, NEW j \in Jobs, NEW u \in world.linked, Undisturbed(j)
      PROVE
         /\ job[j].pc = "commit" =>
              \A t \in RepoProjects \ job[j].failed :
                Reached(j, t, u, RepoWant(t, u))
         /\ job[j].pc = "commitWorkspace" /\ Workspace \in Mapped =>
              Reached(j, Workspace, u, TeamWant(job[j].failed, Workspace, u))
         /\ job[j].pc = "commitProjects" =>
              \A t \in Mapped \ {Workspace} :
                Reached(j, t, u, TeamWant(job[j].failed, t, u))
  <2>1. stale[j] = {}
    BY <1>1 DEF Undisturbed
  <2>2. /\ job[j].pc = "commit" => PermissionCommit(j)
        /\ job[j].pc = "commitWorkspace" => TeamCommitWorkspace(j)
        /\ job[j].pc = "commitProjects" => TeamCommitProjects(j)
    BY <1>1, CommitsNext
  <2>3. ASSUME job[j].pc = "commit", NEW t \in RepoProjects \ job[j].failed
        PROVE  Reached(j, t, u, RepoWant(t, u))
    BY <1>1, <2>1, <2>2, <2>3, PermissionReaches
  <2>4. ASSUME job[j].pc = "commitWorkspace", Workspace \in Mapped
        PROVE  Reached(j, Workspace, u, TeamWant(job[j].failed, Workspace, u))
    BY <1>1, <2>1, <2>2, <2>4, TeamReaches DEF TeamCommitWorkspace
  <2>5. ASSUME job[j].pc = "commitProjects", NEW t \in Mapped \ {Workspace}
        PROVE  Reached(j, t, u, TeamWant(job[j].failed, t, u))
    <3>1. t \in Projects \intersect Mapped
      BY <2>5, MappingAssumption DEF Mapped, Targets
    <3> QED
      BY <1>1, <2>1, <2>2, <2>5, <3>1, TeamReaches DEF TeamCommitProjects
  <2> QED
    BY <2>3, <2>4, <2>5
<1>2. IInv /\ [Next]_vars =>
        [\A j \in Jobs, u \in world.linked :
           Undisturbed(j) =>
             /\ job[j].pc = "commit" =>
                  \A t \in RepoProjects \ job[j].failed :
                    Reached(j, t, u, RepoWant(t, u))
             /\ job[j].pc = "commitWorkspace" /\ Workspace \in Mapped =>
                  Reached(j, Workspace, u, TeamWant(job[j].failed, Workspace, u))
             /\ job[j].pc = "commitProjects" =>
                  \A t \in Mapped \ {Workspace} :
                    Reached(j, t, u, TeamWant(job[j].failed, t, u))]_vars
  BY <1>1
<1> QED
  BY <1>2, Inductive, PTL DEF Spec, SyncReachesItsSource

-----------------------------------------------------------------------------
(* What a call to GitHub that fails costs.                                 *)

\* What the teams say without some of them is less only by a mapping of one of
\* those.
LEMMA MissingTeam ==
  ASSUME world \in Worlds, NEW t \in Targets, NEW u \in Users, NEW failed,
         TeamWant(failed, t, u) < TeamWant({}, t, u)
  PROVE  \E m \in TeamMappings : /\ m.of \in failed /\ m.target = t
                                 /\ m.role > TeamWant(failed, t, u)
                                 /\ u \in world.team[m.of]
<1> DEFINE Says(f) == {x \in TeamMappings :
             x.target = t /\ x.of \notin f /\ u \in world.linked
               /\ u \in world.team[x.of]}
           Said(f) == {m.role : m \in Says(f)}
<1>1. \A f : Said(f) \subseteq 0..4
  BY MappingAssumption, RankSets
<1>2. \A f : /\ Highest(Said(f)) \in Said(f) \union {None}
             /\ \A q \in Said(f) : q <= Highest(Said(f))
  BY <1>1, HighestIsHighest
<1>3. \A f : TeamWant(f, t, u) = Highest(Said(f))
  BY DEF TeamWant
<1>4. TeamWant(failed, t, u) \in 0..4
  BY TeamWantTyped, RankSets
<1>5. TeamWant({}, t, u) \in Said({})
  <2>1. TeamWant({}, t, u) # None
    BY <1>4 DEF None
  <2> HIDE DEF Said
  <2> QED
    BY <1>2, <1>3, <2>1
<1>6. PICK m \in Says({}) : m.role = TeamWant({}, t, u)
  BY <1>5
<1>7. m.of \in failed
  <2> SUFFICES ASSUME m.of \notin failed PROVE FALSE
    OBVIOUS
  <2>1. m \in Says(failed)
    BY <1>6
  <2>2. m.role \in Said(failed)
    BY <2>1
  <2>3. m.role <= TeamWant(failed, t, u) /\ m.role \in 0..4
    <3> HIDE DEF Said
    <3> QED
      BY <1>1, <1>2, <1>3, <2>2
  <2> QED
    BY <1>4, <1>6, <2>3
<1> QED
  BY <1>6, <1>7

LEMMA TeamTakes ==
  ASSUME IInv, IInv', NEW j \in Jobs, NEW targets, NEW next,
         Commit(j, TeamPlan(j, targets), next),
         \/ job[j].pc = "commitWorkspace" /\ targets = {Workspace}
         \/ job[j].pc = "commitProjects" /\ targets = Projects,
         NEW t \in Targets, NEW u \in Users,
         Fresh(j, t, u), role'[t][u] < role[t][u]
  PROVE  role'[t][u] = TeamWant(job[j].failed, t, u)
<1>1. /\ TeamPlan(j, targets)[t][u] # Keep
      /\ TeamPlan(j, targets)[t][u] = role'[t][u]
  BY CommitLowers
<1>2. t \in targets /\ u \in world.linked
  BY <1>1 DEF TeamPlan
<1>3. role'[t][u] = TeamDecision(job[j].mode, job[j].had[t][u],
                      TeamWant(job[j].failed, t, u), Protected(job[j].had, t, u))
  BY <1>1, <1>2 DEF TeamPlan
<1> QED
  BY <1>1, <1>3 DEF TeamDecision

\* The permission sync leaves a project it could not ask about alone; the team
\* sync lowers a role below what the user's teams say only by a team it could not
\* ask about.
THEOREM FailedCallsCostLittle == Spec => FailedCallsTakeLittle
<1>1. ASSUME IInv, Next, NEW j \in Jobs, NEW t \in Targets, NEW u \in Users,
             Steps(j)
      PROVE
         /\ job[j].kind = "permission" /\ t \in job[j].failed =>
              role'[t][u] = role[t][u]
         /\ job[j].kind = "team" /\ Fresh(j, t, u) /\ role'[t][u] < role[t][u]
              /\ role'[t][u] < TeamWant({}, t, u) =>
              \E m \in TeamMappings : /\ m.of \in job[j].failed
                                      /\ m.target = t /\ m.role > role'[t][u]
                                      /\ u \in world.team[m.of]
  <2>1. Sync(j) \/ SignOn(j) \/ Abort(j)
    BY <1>1, OwnStep
  <2>2. IInv' /\ world \in Worlds /\ role[t][u] \in 0..4
        /\ Shaped(job[j])
    BY <1>1, NextKeeps, JobFacts DEF Coherent, Ranked, Table
  <2>3. SignOn(j) => job[j].kind \notin {"permission", "team"}
    BY <2>2, SignOnPlaces DEF Shaped, OidcPlaces
  <2>4. Sync(j) =>
          \/ PermissionCommit(j) \/ TeamCommitWorkspace(j) \/ TeamCommitProjects(j)
          \/ role' = role
    BY SyncPlaces
  <2>5. \/ PermissionCommit(j) /\ job[j].kind = "permission"
        \/ TeamCommitWorkspace(j) /\ job[j].kind = "team"
        \/ TeamCommitProjects(j) /\ job[j].kind = "team"
        \/ role' = role
        \/ job[j].kind \notin {"permission", "team"}
    BY <2>1, <2>2, <2>3, <2>4 DEF Abort, PermissionCommit,
       TeamCommitWorkspace, TeamCommitProjects, Shaped, TeamPlaces
  <2>6. ASSUME PermissionCommit(j), t \in job[j].failed
        PROVE  role'[t][u] = role[t][u]
    <3>1. PermissionPlan(j)[t][u] = Keep
      BY <2>6 DEF PermissionPlan
    <3>2. role' = role \/ role' = Patched(PermissionPlan(j))
      BY <2>6 DEF PermissionCommit, Commit, End, Write
    <3> QED
      BY <3>1, <3>2 DEF Patched
  <2>7. ASSUME TeamCommitWorkspace(j) \/ TeamCommitProjects(j),
               Fresh(j, t, u), role'[t][u] < role[t][u]
        PROVE  role'[t][u] = TeamWant(job[j].failed, t, u)
    BY <1>1, <2>2, <2>7, TeamTakes DEF TeamCommitWorkspace, TeamCommitProjects
  <2>8. ASSUME job[j].kind = "team", Fresh(j, t, u), role'[t][u] < role[t][u],
               role'[t][u] < TeamWant({}, t, u)
        PROVE  \E m \in TeamMappings : /\ m.of \in job[j].failed
                                       /\ m.target = t /\ m.role > role'[t][u]
                                       /\ u \in world.team[m.of]
    <3>1. TeamCommitWorkspace(j) \/ TeamCommitProjects(j)
      BY <2>2, <2>5, <2>8
    <3>2. role'[t][u] = TeamWant(job[j].failed, t, u)
      BY <2>7, <2>8, <3>1
    <3> QED
      BY <2>2, <2>8, <3>2, MissingTeam
  <2>9. job[j].kind = "permission" /\ t \in job[j].failed =>
          role'[t][u] = role[t][u]
    BY <2>5, <2>6
  <2> QED
    BY <2>8, <2>9
<1>2. IInv /\ [Next]_vars =>
        [\A j \in Jobs, t \in Targets, u \in Users :
           Steps(j) =>
             /\ job[j].kind = "permission" /\ t \in job[j].failed =>
                  role'[t][u] = role[t][u]
             /\ job[j].kind = "team" /\ Fresh(j, t, u) /\ role'[t][u] < role[t][u]
                  /\ role'[t][u] < TeamWant({}, t, u) =>
                  \E m \in TeamMappings : /\ m.of \in job[j].failed
                                          /\ m.target = t /\ m.role > role'[t][u]
                                          /\ u \in world.team[m.of]]_vars
  BY <1>1
<1> QED
  BY <1>2, Inductive, PTL DEF Spec, FailedCallsTakeLittle
=============================================================================
