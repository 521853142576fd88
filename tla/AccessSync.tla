----------------------------- MODULE AccessSync -----------------------------
(***************************************************************************)
(* Who may write workspace_members and project_members, and what happens   *)
(* when they do so at once: the GitHub permission sync                     *)
(* (github-permission-sync-helpers.ts), the GitHub team mapping sync       *)
(* (github-team-mapping-sync-helpers.ts), the OIDC sign-on with its group  *)
(* mappings (oidc-login.ts), and people (the member endpoints of           *)
(* memory-core-service.ts, creating a project, accepting an invitation).   *)
(*                                                                         *)
(* Roles are their ranks: a workspace is a target like a project, with     *)
(* ranks 1 to 3 (MEMBER, ADMIN, OWNER) instead of 1 to 4 (READER, WRITER,  *)
(* MAINTAINER, OWNER); rank 0 is no row.  The automatic writers are jobs:  *)
(* each reads rows, decides, and writes later, the two syncs in            *)
(* transactions, a sign-on row by row.                                     *)
(*                                                                         *)
(* Abstracted: one workspace; one repository per project, as the           *)
(* repository sync links them; GitHub, the identity provider and the       *)
(* settings stay as they are while the tables change (GithubWebhookQueue   *)
(* is about GitHub changing), but any call to GitHub may fail; a           *)
(* transaction is one step, and so is a change people make, whose own      *)
(* reading decides nothing; the audit rows written afterwards; the dry     *)
(* run, which writes nothing.                                              *)
(***************************************************************************)
EXTENDS Integers, FiniteSets

CONSTANTS
  Users,
  Workspace,     \* the workspace as a target of roles
  Projects,
  RepoProjects,  \* projects linked to a GitHub repository
  Teams, TeamMappings,   \* [of: Teams, target, role]
  Groups, GroupMappings, \* [of: Groups, target, role]
  Worlds,        \* what GitHub, the provider and the settings may say
  Starts,        \* the tables a behaviour may begin with
  Jobs,          \* handlers that run at once
  Nobody,
  Given,         \* bound: the ranks people give
  MaxEdits,      \* bound: changes people make
  MaxFaults      \* bound: calls to GitHub that fail, and jobs that die

Targets == {Workspace} \union Projects
None == 0
Member == 1
Admin == 2
Owner(t) == IF t = Workspace THEN 3 ELSE 4
Ranks(t) == 0..Owner(t)
Modes == {"add_only", "add_and_remove"}

ASSUME UserAssumption == Nobody \notin Users
ASSUME TargetAssumption ==
  /\ RepoProjects \subseteq Projects /\ Workspace \notin Projects
  /\ IsFiniteSet(Projects) /\ IsFiniteSet(Teams)
ASSUME MappingAssumption ==
  /\ \A m \in TeamMappings : /\ m.of \in Teams /\ m.target \in Targets
                             /\ m.role \in Ranks(m.target) \ {None}
  /\ \A m \in GroupMappings : /\ m.of \in Groups /\ m.target \in Targets
                              /\ m.role \in Ranks(m.target) \ {None}
ASSUME WorldAssumption ==
  \A w \in Worlds :
    /\ w.linked \subseteq Users
    /\ w.repo \in [Projects -> [Users -> 0..4]]
    /\ w.team \in [Teams -> SUBSET Users]
    /\ w.group \in [Groups -> SUBSET Users]
    /\ {w.permissionMode, w.webhookMode, w.oidcMode} \subseteq Modes
    /\ w.autoProvision \in BOOLEAN
ASSUME BoundAssumption ==
  Given \subseteq 1..4 /\ MaxEdits \in Nat /\ MaxFaults \in Nat

VARIABLES
  role,    \* workspace_members and project_members: role[target][user]
  world,   \* what GitHub, the identity provider and the settings say
  job,     \* the handlers in progress
  stale,   \* history, per job: rows others changed since it read them
  granted, \* history: the highest rank people gave, per row
  edits, faults \* how much of each budget is used

vars == <<role, world, job, stale, granted, edits, faults>>

Rows == Targets \X Users
Table == [Targets -> [Users -> 0..4]]
ASSUME StartAssumption ==
  \A table \in Starts :
    table \in Table /\ \A u \in Users : table[Workspace][u] \in Ranks(Workspace)
NoRows == [t \in Targets |-> [u \in Users |-> None]]

\* had: the rows as the job read them; failed: the repositories or teams it
\* got no answer about; todo: the projects a sign-on has yet to write; at: the
\* one it has read.
Idle == [kind |-> "none", pc |-> "idle", mode |-> "add_only", user |-> Nobody,
         failed |-> {}, had |-> NoRows, todo |-> {}, at |-> Workspace]

Kinds == {"none", "permission", "team", "oidc"}
Places == {"idle", "commit", "readWorkspace", "commitWorkspace",
           "readProjects", "commitProjects", "workspace", "projects", "write",
           "remove"}

Handlers == [kind : Kinds, pc : Places, mode : Modes,
             user : Users \union {Nobody},
             failed : SUBSET (Projects \union Teams), had : Table,
             todo : SUBSET Projects, at : Targets]
Ranked(table) ==
  table \in Table /\ \A u \in Users : table[Workspace][u] \in Ranks(Workspace)

TypeOK ==
  /\ Ranked(role) /\ granted \in Table
  /\ world \in Worlds
  /\ job \in [Jobs -> Handlers]
  /\ stale \in [Jobs -> SUBSET Rows]
  /\ edits \in 0..MaxEdits /\ faults \in 0..MaxFaults

-----------------------------------------------------------------------------
(* What the sources say about a row.                                       *)

Highest(S) == CHOOSE r \in S \union {None} : \A q \in S : q <= r

\* computeRepoPermissions, through the link and the role mapping.
RepoWant(t, u) == IF t \in RepoProjects /\ u \in world.linked THEN world.repo[t][u]
                                                      ELSE None

\* A team whose members could not be listed counts as an empty one.
TeamWant(failed, t, u) ==
  Highest({m.role : m \in {x \in TeamMappings :
             x.target = t /\ x.of \notin failed /\ u \in world.linked
               /\ u \in world.team[x.of]}})

GroupWant(t, u) ==
  Highest({m.role : m \in {x \in GroupMappings :
             x.target = t /\ u \in world.group[x.of]}})

Mapped == {m.target : m \in TeamMappings}

-----------------------------------------------------------------------------
(* What a sync decides about one row: the rank to write, 0 to delete it,   *)
(* or to leave it alone.                                                   *)

Keep == -1

\* Mutant: the protection is not looked up.
DecisionUnprotected(mode, had, want, protected) ==
  IF had = want THEN Keep
  ELSE IF mode = "add_only" THEN (IF want > had THEN want ELSE Keep)
  ELSE want

\* Mutant: rows that are wanted are not left out of the removal.
DecisionForgetsWanted(mode, had, want, protected) ==
  IF mode = "add_and_remove" /\ had # None /\ had = want /\ ~protected THEN None
  ELSE DecisionUnprotected(mode, had, want, protected)

PermissionDecision(mode, had, want, protected) ==
  IF had = want THEN Keep
  ELSE IF mode = "add_only" THEN (IF want > had THEN want ELSE Keep)
  ELSE IF had # None /\ protected THEN Keep ELSE want

\* isProtectedRoleChange: a project OWNER, or an OWNER or ADMIN of the workspace.
Protected(table, t, u) == table[t][u] = Owner(t) \/ table[Workspace][u] >= Admin

\* Mutant: add_and_remove only raises and removes.
TeamNeverLowers(mode, had, want, protected) ==
  IF want > had THEN want
  ELSE IF want = None /\ had # None /\ mode = "add_and_remove" /\ ~protected
  THEN want ELSE Keep

\* The same for both kinds of target of the team mapping: an upgrade is written
\* in every mode, a protected row is never lowered nor deleted.
TeamDecision(mode, had, want, protected) ==
  IF want > had THEN want
  ELSE IF want < had /\ mode = "add_and_remove" /\ ~protected THEN want
  ELSE Keep

\* Mutant: a repository that failed counts as one nobody has access to.
PlanTakesFailureForEmpty(j) ==
  LET s == job[j] IN
  [t \in Targets |-> [u \in Users |->
     IF t \in RepoProjects /\ u \in world.linked
     THEN PermissionDecision(s.mode, s.had[t][u],
                             IF t \in s.failed THEN None ELSE RepoWant(t, u),
                             Protected(s.had, t, u))
     ELSE Keep]]

PermissionPlan(j) ==
  LET s == job[j] IN
  [t \in Targets |-> [u \in Users |->
     IF t \in RepoProjects \ s.failed /\ u \in world.linked
     THEN PermissionDecision(s.mode, s.had[t][u], RepoWant(t, u),
                             Protected(s.had, t, u))
     ELSE Keep]]

TeamPlan(j, targets) ==
  LET s == job[j] IN
  [t \in Targets |-> [u \in Users |->
     IF t \in targets \intersect Mapped /\ u \in world.linked
     THEN TeamDecision(s.mode, s.had[t][u], TeamWant(s.failed, t, u),
                       Protected(s.had, t, u))
     ELSE Keep]]

-----------------------------------------------------------------------------
(* Reading and writing the two tables.                                     *)

Read(targets, users) ==
  [t \in Targets |-> [u \in Users |->
     IF t \in targets /\ u \in users THEN role[t][u] ELSE None]]

Changed(new) == {r \in Rows : new[r[1]][r[2]] # role[r[1]][r[2]]}

\* The writer's own record becomes next, and rest what is stale for it.
Write(j, new, next, rest) ==
  /\ role' = new
  /\ job' = [job EXCEPT ![j] = next]
  /\ stale' = [i \in Jobs |->
       IF i = j THEN rest
       ELSE IF job[i].pc = "idle" THEN {} ELSE stale[i] \union Changed(new)]
  /\ UNCHANGED <<world, granted, edits, faults>>

Set(t, u, r) == [role EXCEPT ![t] = [role[t] EXCEPT ![u] = r]]

Move(j, next, rest) == Write(j, role, next, rest)
End(j, new) == Write(j, new, Idle, {})

\* `update` throws when the row is gone: the transaction is rolled back and the
\* handler ends; `upsert` and `deleteMany` do not.
RowGone(had, plan) ==
  \E t \in Targets, u \in Users :
    plan[t][u] > None /\ had[t][u] # None /\ role[t][u] = None

\* Mutant: rows to be left alone are written too.
PatchedAll(plan) == plan

Patched(plan) ==
  [t \in Targets |-> [u \in Users |->
     IF plan[t][u] = Keep THEN role[t][u] ELSE plan[t][u]]]

Commit(j, plan, next) ==
  IF RowGone(job[j].had, plan)
  THEN End(j, role)
  ELSE Write(j, Patched(plan), next, IF next = Idle THEN {} ELSE stale[j])

Start(j, next) ==
  /\ job[j] = Idle
  /\ job' = [job EXCEPT ![j] = next]
  /\ stale' = [stale EXCEPT ![j] = {}]

-----------------------------------------------------------------------------
(* The permission sync: all rows and the protected users first, then       *)
(* minutes of calls, then one transaction.                                 *)

PermissionStart(j, mode, failed) ==
  /\ mode \in {world.permissionMode, world.webhookMode}
  /\ faults + Cardinality(failed) <= MaxFaults
  /\ Start(j, [Idle EXCEPT !.kind = "permission", !.pc = "commit",
                           !.mode = mode, !.failed = failed,
                           !.had = Read(RepoProjects \union {Workspace}, world.linked)])
  /\ faults' = faults + Cardinality(failed)
  /\ UNCHANGED <<role, world, granted, edits>>

PermissionCommit(j) ==
  /\ job[j].pc = "commit"
  /\ Commit(j, PermissionPlan(j), Idle)

-----------------------------------------------------------------------------
(* The team mapping sync: the teams' members first, then the workspace's   *)
(* rows, then the projects' rows with the protected users as they are by   *)
(* then.                                                                   *)

TeamStart(j, failed) ==
  /\ TeamMappings # {}
  /\ faults + Cardinality(failed) <= MaxFaults
  /\ Start(j, [Idle EXCEPT !.kind = "team", !.pc = "readWorkspace",
                           !.mode = world.webhookMode, !.failed = failed])
  /\ faults' = faults + Cardinality(failed)
  /\ UNCHANGED <<role, world, granted, edits>>

TeamReadWorkspace(j) ==
  /\ job[j].pc = "readWorkspace"
  /\ Move(j, [job[j] EXCEPT !.pc = "commitWorkspace",
                            !.had = Read({Workspace}, world.linked)], {})

TeamCommitWorkspace(j) ==
  /\ job[j].pc = "commitWorkspace"
  /\ Commit(j, TeamPlan(j, {Workspace}),
            [job[j] EXCEPT !.pc = "readProjects", !.had = NoRows])

TeamReadProjects(j) ==
  /\ job[j].pc = "readProjects"
  /\ Move(j, [job[j] EXCEPT !.pc = "commitProjects",
                            !.had = Read(Targets, world.linked)], {})

TeamCommitProjects(j) ==
  /\ job[j].pc = "commitProjects"
  /\ Commit(j, TeamPlan(j, Projects), Idle)

-----------------------------------------------------------------------------
(* A sign-on through the identity provider: every row is read and written  *)
(* on its own, and a create or delete of a row that came or went meanwhile *)
(* throws.                                                                 *)

OidcStart(j, u) ==
  /\ Start(j, [Idle EXCEPT !.kind = "oidc", !.pc = "workspace",
                           !.mode = world.oidcMode, !.user = u,
                           !.had = Read({Workspace}, {u})])
  /\ UNCHANGED <<role, world, granted, edits, faults>>

\* The sign-on goes on, as a member, to the projects its groups are mapped to.
AsMember(j, rank) ==
  LET u == job[j].user IN
  Write(j, Set(Workspace, u, rank),
        [job[j] EXCEPT !.pc = "projects", !.had = NoRows,
                       !.todo = {p \in Projects : GroupWant(p, u) # None}],
        stale[j])

\* Mutant: an ADMIN is taken for an OWNER.
OidcMappedAdmin(j) ==
  LET u == job[j].user IN
  /\ job[j].pc = "workspace"
  /\ GroupWant(Workspace, u) # None
  /\ AsMember(j, IF job[j].had[Workspace][u] >= Admin THEN Owner(Workspace)
                 ELSE GroupWant(Workspace, u))

OidcMapped(j) ==
  LET u == job[j].user
      had == job[j].had[Workspace][u]
  IN /\ job[j].pc = "workspace"
     /\ GroupWant(Workspace, u) # None
     /\ AsMember(j, IF had = Owner(Workspace) THEN had
                    ELSE GroupWant(Workspace, u))

OidcAutoProvision(j) ==
  LET u == job[j].user IN
  /\ job[j].pc = "workspace"
  /\ GroupWant(Workspace, u) = None
  /\ job[j].had[Workspace][u] = None /\ world.autoProvision
  /\ IF role[Workspace][u] = None THEN AsMember(j, Member) ELSE End(j, role)

\* Mutant: the role read before the row is deleted lets the sign-on go on.
OidcUnmappedGoesOn(j) ==
  LET u == job[j].user IN
  /\ job[j].pc = "workspace"
  /\ GroupWant(Workspace, u) = None
  /\ job[j].had[Workspace][u] # None
  /\ AsMember(j, IF job[j].mode = "add_and_remove" THEN None
                 ELSE role[Workspace][u])

\* No group maps the user here and it is no new one: in add_and_remove it loses
\* its row, and so the sign-on is refused; in add_only it keeps what it has.
OidcUnmapped(j) ==
  LET u == job[j].user
      had == job[j].had[Workspace][u]
  IN /\ job[j].pc = "workspace"
     /\ GroupWant(Workspace, u) = None
     /\ ~(had = None /\ world.autoProvision)
     /\ \/ /\ job[j].mode = "add_and_remove" /\ had # Owner(Workspace)
           /\ End(j, Set(Workspace, u, None))
        \/ /\ ~(job[j].mode = "add_and_remove" /\ had # Owner(Workspace))
           /\ IF had = None THEN End(j, role)
              ELSE AsMember(j, role[Workspace][u])

OidcReadProject(j, p) ==
  /\ job[j].pc = "projects" /\ p \in job[j].todo
  /\ Move(j, [job[j] EXCEPT !.pc = "write", !.at = p,
                            !.todo = job[j].todo \ {p},
                            !.had = Read({p}, {job[j].user})],
          stale[j] \ {<<p, job[j].user>>})

OidcWriteProject(j) ==
  LET u == job[j].user
      p == job[j].at
      had == job[j].had[p][u]
  IN /\ job[j].pc = "write"
     /\ Write(j, Set(p, u, IF had = Owner(p) THEN had ELSE GroupWant(p, u)),
              [job[j] EXCEPT !.pc = "projects", !.at = Workspace,
                             !.had = NoRows], stale[j])

OidcListProjects(j) ==
  LET u == job[j].user IN
  /\ job[j].pc = "projects" /\ job[j].todo = {}
  /\ job[j].mode = "add_and_remove"
  /\ Move(j, [job[j] EXCEPT !.pc = "remove", !.had = Read(Projects, {u}),
                !.todo = {p \in Projects : /\ role[p][u] \notin {None, Owner(p)}
                                           /\ GroupWant(p, u) = None}],
          stale[j] \ (Projects \X {u}))

OidcRemoveProject(j, p) ==
  LET u == job[j].user IN
  /\ job[j].pc = "remove" /\ p \in job[j].todo
  /\ IF role[p][u] = None
     THEN End(j, role)
     ELSE Write(j, Set(p, u, None),
                [job[j] EXCEPT !.todo = job[j].todo \ {p}], stale[j])

\* The session token is issued.
OidcFinish(j) ==
  /\ \/ job[j].pc = "projects" /\ job[j].mode = "add_only"
     \/ job[j].pc = "remove"
  /\ job[j].todo = {}
  /\ End(j, role)

-----------------------------------------------------------------------------
(* People.                                                                 *)

Edit(new) ==
  /\ edits < MaxEdits
  /\ edits' = edits + 1
  /\ role' = new
  /\ granted' = [t \in Targets |-> [u \in Users |->
       IF new[t][u] # role[t][u] /\ new[t][u] > granted[t][u]
       THEN new[t][u] ELSE granted[t][u]]]
  /\ stale' = [i \in Jobs |->
       IF job[i].pc = "idle" THEN {} ELSE stale[i] \union Changed(new)]
  /\ UNCHANGED <<world, job, faults>>

\* addWorkspaceMember writes any role over any row; updateWorkspaceMemberRole
\* and createWorkspaceDomain do a part of that.
SetWorkspaceRole(u, r) == Edit(Set(Workspace, u, r))

RemoveWorkspaceMember(u) ==
  role[Workspace][u] # None /\ Edit(Set(Workspace, u, None))

\* A new project member becomes a member of the workspace in one transaction.
AddProjectMember(p, u, r) ==
  Edit([Set(p, u, r) EXCEPT ![Workspace] =
         [role[Workspace] EXCEPT ![u] = IF @ = None THEN Member ELSE @]])

UpdateProjectMemberRole(p, u, r) ==
  role[p][u] # None /\ Edit(Set(p, u, r))

RemoveProjectMember(p, u) == role[p][u] # None /\ Edit(Set(p, u, None))

\* Creating a project that exists is an upsert too, and its creator its OWNER.
CreateProject(p, u) ==
  role[Workspace][u] # None /\ Edit(Set(p, u, Owner(p)))

\* An invitation sets the rows it names, whatever they were.
AcceptInvite(u, rank, projects, r) ==
  Edit([t \in Targets |-> [v \in Users |->
         IF v = u /\ t = Workspace THEN rank
         ELSE IF v = u /\ t \in projects THEN r ELSE role[t][v]]])

-----------------------------------------------------------------------------
\* A job dies where it stands: its process stops, or a statement fails.
Abort(j) ==
  /\ job[j] # Idle
  /\ faults < MaxFaults
  /\ faults' = faults + 1
  /\ job' = [job EXCEPT ![j] = Idle]
  /\ stale' = [stale EXCEPT ![j] = {}]
  /\ UNCHANGED <<role, world, granted, edits>>

Init ==
  /\ role \in Starts
  /\ world \in Worlds
  /\ job = [j \in Jobs |-> Idle]
  /\ stale = [j \in Jobs |-> {}]
  /\ granted = role
  /\ edits = 0 /\ faults = 0

Sync(j) ==
  \/ \E mode \in Modes, failed \in SUBSET RepoProjects :
       PermissionStart(j, mode, failed)
  \/ PermissionCommit(j)
  \/ \E failed \in SUBSET Teams : TeamStart(j, failed)
  \/ TeamReadWorkspace(j) \/ TeamCommitWorkspace(j)
  \/ TeamReadProjects(j) \/ TeamCommitProjects(j)

SignOn(j) ==
  \/ \E u \in Users : OidcStart(j, u)
  \/ OidcMapped(j) \/ OidcAutoProvision(j) \/ OidcUnmapped(j)
  \/ \E p \in Projects : OidcReadProject(j, p) \/ OidcRemoveProject(j, p)
  \/ OidcWriteProject(j) \/ OidcListProjects(j) \/ OidcFinish(j)

People ==
  \E u \in Users :
    \/ \E r \in Given \intersect Ranks(Workspace) : SetWorkspaceRole(u, r)
    \/ RemoveWorkspaceMember(u)
    \/ \E p \in Projects, r \in Given :
         AddProjectMember(p, u, r) \/ UpdateProjectMemberRole(p, u, r)
    \/ \E p \in Projects : RemoveProjectMember(p, u) \/ CreateProject(p, u)
    \/ \E rank \in Given \intersect Ranks(Workspace),
          projects \in SUBSET Projects, r \in Given :
         AcceptInvite(u, rank, projects, r)

Next == People \/ \E j \in Jobs : Sync(j) \/ SignOn(j) \/ Abort(j)

Spec == Init /\ [][Next]_vars

-----------------------------------------------------------------------------
(* Properties.                                                             *)

\* No access out of nothing: whoever wrote it and however old its reading was,
\* a row never ranks above what people gave it and what a source says of it
\* (a new user's sign-on may make it a MEMBER).
Sources(t, u) ==
  {granted[t][u], RepoWant(t, u), TeamWant({}, t, u), GroupWant(t, u),
   IF t = Workspace /\ world.autoProvision THEN Member ELSE None}
Justified(table) ==
  \A t \in Targets, u \in Users : \E r \in Sources(t, u) : table[t][u] <= r
AccessIsJustified == Justified(role)

Steps(j) == job'[j] # job[j]
Fresh(j, t, u) ==
  <<t, u>> \notin stale[j] /\ <<Workspace, u>> \notin stale[j]

\* Owner protection.  An automatic writer lowers or removes a row only where it
\* may: never in add_only (but a group mapping sets the role it names), never
\* a protected one, unless somebody changed the row, or the user's workspace
\* role, between the job's reading it and its writing.
MayLower(j, t, u) ==
  IF job[j].kind = "oidc"
  THEN role[t][u] # Owner(t)
       /\ (job[j].mode = "add_and_remove" \/ GroupWant(t, u) # None)
  ELSE job[j].mode = "add_and_remove" /\ ~Protected(role, t, u)
ProtectionHolds ==
  [][\A j \in Jobs, t \in Targets, u \in Users :
       Steps(j) /\ role'[t][u] < role[t][u] /\ Fresh(j, t, u)
         => MayLower(j, t, u)]_vars

\* What a sync promises when nobody else wrote between its reading and its
\* commit: a linked user then has exactly the source's role, except that add_only
\* leaves a higher one, and add_and_remove a protected one (which the team sync
\* still raises).
Reached(j, t, u, want) ==
  \/ role'[t][u] = want
  \/ /\ role'[t][u] = role[t][u]
     /\ role[t][u] > want \/ job[j].kind = "permission"
     /\ IF job[j].mode = "add_only" THEN role[t][u] > want
                                    ELSE Protected(role, t, u)
Undisturbed(j) == Steps(j) /\ stale[j] = {} /\ faults' = faults
SyncReachesItsSource ==
  [][\A j \in Jobs, u \in world.linked :
       Undisturbed(j) =>
         /\ job[j].pc = "commit" =>
              \A t \in RepoProjects \ job[j].failed :
                Reached(j, t, u, RepoWant(t, u))
         /\ job[j].pc = "commitWorkspace" /\ Workspace \in Mapped =>
              Reached(j, Workspace, u, TeamWant(job[j].failed, Workspace, u))
         /\ job[j].pc = "commitProjects" =>
              \A t \in Mapped \ {Workspace} :
                Reached(j, t, u, TeamWant(job[j].failed, t, u))]_vars

\* A call to GitHub that fails.  The permission sync leaves the project alone;
\* the team sync takes the team for empty, and only then may it take from a
\* linked user a role one of the user's teams is mapped to.
FailedCallsTakeLittle ==
  [][\A j \in Jobs, t \in Targets, u \in Users :
       Steps(j) =>
         /\ job[j].kind = "permission" /\ t \in job[j].failed =>
              role'[t][u] = role[t][u]
         /\ job[j].kind = "team" /\ Fresh(j, t, u) /\ role'[t][u] < role[t][u]
              /\ role'[t][u] < TeamWant({}, t, u) =>
              \E m \in TeamMappings : /\ m.of \in job[j].failed
                                      /\ m.target = t /\ m.role > role'[t][u]
                                      /\ u \in world.team[m.of]]_vars

\* A session token is issued only to a member of the workspace, unless somebody
\* else changed the membership while the sign-on was going on.
TokensGoToMembers ==
  [][\A j \in Jobs :
       OidcFinish(j) => \/ role[Workspace][job[j].user] # None
                        \/ <<Workspace, job[j].user>> \in stale[j]]_vars

\* The writers may disagree about a row: one raises it to a rank above the one
\* another lowers it to.
Raises(t, u) ==
  {RepoWant(t, u), TeamWant({}, t, u), GroupWant(t, u),
   IF t = Workspace /\ world.autoProvision THEN Member ELSE None}
Lowers(t, u) ==
  {w \in {RepoWant(t, u)} : t \in RepoProjects /\ u \in world.linked
      /\ "add_and_remove" \in {world.permissionMode, world.webhookMode}}
  \union {w \in {TeamWant({}, t, u)} : t \in Mapped /\ u \in world.linked
             /\ world.webhookMode = "add_and_remove"}
  \union {w \in {GroupWant(t, u)} :
             w # None \/ world.oidcMode = "add_and_remove"}
Contested ==
  \E t \in Targets, u \in Users :
    \E high \in Raises(t, u), low \in Lowers(t, u) : high > low

\* Unless the sources contradict each other, the tables come to rest however
\* often and in whatever order the syncs and sign-ons run, if now and then none
\* is running.  (Sign-ons that overlap without end can hand on for ever an OWNER
\* each has read before another, with an older reading, lowered it.)
Quiet == \A j \in Jobs : job[j] = Idle
TablesComeToRest == (~Contested /\ []<>Quiet) => <>[][UNCHANGED role]_vars
=============================================================================
