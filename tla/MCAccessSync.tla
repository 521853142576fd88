---------------------------- MODULE MCAccessSync ----------------------------
(* Model-checking instance of AccessSync: one user whose rows every writer  *)
(* is after.  No decision of the code about one user reads another's rows.  *)
EXTENDS AccessSync, TLC

CONSTANTS ann, ws, p1, core, leads, staff, ops

MCTeamMappings == {[of |-> leads, target |-> ws, role |-> 2],
                   [of |-> core, target |-> p1, role |-> 2]}
MCGroupMappings == {[of |-> staff, target |-> ws, role |-> 2],
                    [of |-> ops, target |-> p1, role |-> 2]}

World(links, repo, teams, groups, modes, auto) ==
  [linked |-> links,
   repo |-> [p \in {p1} |-> [u \in {ann} |-> repo]],
   team |-> [t \in {core, leads} |-> IF t \in teams THEN {ann} ELSE {}],
   group |-> [g \in {staff, ops} |-> IF g \in groups THEN {ann} ELSE {}],
   permissionMode |-> modes[1], webhookMode |-> modes[2],
   oidcMode |-> modes[3], autoProvision |-> auto]

Add == "add_only"
Full == "add_and_remove"
AddOnly == <<Add, Add, Add>>
WebhooksFull == <<Add, Full, Add>>
AllFull == <<Full, Full, Full>>
\* In the first three the sources agree, or none may lower a row.
MCWorlds ==
  {World({ann}, 2, {core, leads}, {staff, ops}, AllFull, FALSE),
   World({ann}, 2, {core, leads}, {}, AddOnly, TRUE),
   World({ann}, 0, {}, {}, AllFull, FALSE),
   World({ann}, 4, {core}, {ops}, WebhooksFull, TRUE),
   World({}, 3, {core, leads}, {ops}, AllFull, TRUE)}

MCStarts ==
  {[t \in {ws, p1} |-> [u \in {ann} |-> IF t = ws THEN row[1] ELSE row[2]]] :
     row \in {<<0, 0>>, <<3, 1>>, <<1, 4>>}}
=============================================================================
