---------------------------- MODULE Credentials ----------------------------
(***************************************************************************)
(* API keys, the one-time links that show a key once, and invitations:     *)
(* api-key-domain.ts, invite-domain.ts and the workspace key endpoints of  *)
(* memory-core-service.ts.                                                 *)
(*                                                                         *)
(* A request is a sequence of statements, and other requests run between   *)
(* them.  The two handlers that use a transaction (reset, accept) run at   *)
(* READ COMMITTED: what they write is visible when they commit, a row they *)
(* have written is locked until then, and a statement that waited for a    *)
(* lock goes on with the rows it had found before.                         *)
(*                                                                         *)
(* Abstracted: one workspace; secrets, hashes and labels; who may call     *)
(* what; the roles an invitation gives (AccessSync!AcceptInvite); the      *)
(* audit row between the last statement and the answer, which may fail     *)
(* like any other statement.  Users are never deleted; those a sign-on     *)
(* through a provider creates, without a password, are there from Init on. *)
(***************************************************************************)
EXTENDS Integers, FiniteSets

CONSTANTS
  Users, Keys, Invites,
  Requests,   \* requests that run at once
  Nobody,     \* no user row
  NoPassword, \* a user row without a password
  None,       \* nothing yet
  Old,        \* a password from before
  LinkTtl,    \* oneTimeTokenTtlSeconds
  InviteTtl,
  MaxTime,    \* bound: the clock
  MaxFaults   \* bound: statements that fail, processes that die

ASSUME CredentialsAssumption ==
  /\ LinkTtl \in Nat \ {0} /\ InviteTtl \in Nat \ {0}
  /\ MaxTime \in Nat /\ MaxFaults \in Nat
  /\ IsFiniteSet(Keys)
  /\ {Nobody, NoPassword, Old} \intersect Requests = {}
  /\ Nobody # NoPassword /\ NoPassword # Old /\ Nobody # Old
  /\ None \notin Users \union Keys \union Invites

VARIABLES
  key,      \* api_keys: "absent", "active" or "revoked", and whose
  link,     \* api_key_one_time_tokens, one for a key
  invite,   \* invitation_tokens
  password, \* users: Nobody, NoPassword, or who set the password
  setup,    \* users who must change their password
  req,      \* the requests in progress
  now,
  sent,     \* history: keys whose link was given to somebody
  seen,     \* history: keys whose secret was given to somebody
  since,    \* history: what was committed since a request began
  faults

tables == <<key, link, invite, password, setup>>
vars == <<key, link, invite, password, setup, req, now, sent, seen, since, faults>>

Times == 0..(MaxTime + LinkTtl + InviteTtl)
KeyRows == [user : Users \union {None}, state : {"absent", "active", "revoked"}]
Tokens == [state : {"absent", "fresh", "used"}, expires : Times]
InviteRows == [user : Users \union {None}, state : {"absent", "fresh", "used"}, expires : Times]
Passwords == Requests \union {Nobody, NoPassword, Old}

\* user, key, invite: what the request is about; expires: of the link it will
\* create; rows: the keys its statement found, or has locked; had: the user's row
\* as the request read it.
Steps == {"idle", "link", "answer", "find", "lock", "commit", "consume",
          "user", "accept", "setup"}
Request == [pc : Steps, user : Users \union {None}, key : Keys \union {None},
            invite : Invites \union {None}, expires : Times, rows : SUBSET Keys,
            had : Passwords, gives : {"link", "secret"}]
Idle == [pc |-> "idle", user |-> None, key |-> None, invite |-> None,
         expires |-> 0, rows |-> {}, had |-> Nobody, gives |-> "secret"]

TypeOK ==
  /\ key \in [Keys -> KeyRows] /\ link \in [Keys -> Tokens]
  /\ invite \in [Invites -> InviteRows]
  /\ password \in [Users -> Passwords] /\ setup \subseteq Users
  /\ req \in [Requests -> Request]
  /\ now \in 0..MaxTime /\ faults \in 0..MaxFaults
  /\ sent \subseteq Keys /\ seen \subseteq Keys
  /\ since \in [Requests -> SUBSET (Keys \union Invites \union Users)]
  /\ \A k \in Keys : key[k].state = "absent" <=> key[k].user = None
  /\ \A i \in Invites : invite[i].state = "absent" <=> invite[i].user = None

Active(k) == key[k].state = "active"
ActiveOf(u) == {k \in Keys : Active(k) /\ key[k].user = u}

\* Rows an open transaction has written.
Locked(k) == \E r \in Requests : req[r].pc = "commit" /\ k \in req[r].rows
RowHeld(u) == \E r \in Requests : req[r].pc = "accept" /\ req[r].user = u

-----------------------------------------------------------------------------
Goto(h, pc) == [req EXCEPT ![h].pc = pc]
Idling(h) == req[h].pc = "idle"
Exists(u) == password[u] # Nobody

\* What h commits becomes part of the history of the other requests in progress.
Others(h, things) ==
  [r \in Requests |-> IF Idling(r) \/ r = h THEN since[r] ELSE since[r] \union things]
Done(h) ==
  /\ req' = [req EXCEPT ![h] = Idle]
  /\ since' = [since EXCEPT ![h] = {}]

Respond(h) ==
  /\ req[h].pc = "answer"
  /\ Done(h)
  /\ sent' = IF req[h].gives = "link" THEN sent \union {req[h].key} ELSE sent
  /\ seen' = IF req[h].gives = "secret" THEN seen \union {req[h].key} ELSE seen
  /\ UNCHANGED <<tables, now, faults>>

\* A statement fails or the process dies: an open transaction is rolled back, and
\* nobody gets an answer.
Fail(h) ==
  /\ ~Idling(h) /\ faults < MaxFaults
  /\ faults' = faults + 1
  /\ Done(h)
  /\ UNCHANGED <<tables, now, sent, seen>>

NewKey(u, k) == key' = [key EXCEPT ![k] = [user |-> u, state |-> "active"]]
\* Mutant: seconds are taken for milliseconds.
NewLinkInMillis(k, expires) ==
  link' = [link EXCEPT ![k] = [state |-> "fresh", expires |-> 1000 * expires]]
NewLink(k, expires) ==
  link' = [link EXCEPT ![k] = [state |-> "fresh", expires |-> expires]]

-----------------------------------------------------------------------------
(* Keys.                                                                   *)

\* createSelfApiKeyDomain: the secret is in the answer.
CreateKey(h, u, k) ==
  /\ Idling(h) /\ Exists(u) /\ key[k].state = "absent"
  /\ NewKey(u, k)
  /\ req' = [req EXCEPT ![h] = [Idle EXCEPT !.pc = "answer", !.key = k]]
  /\ since' = Others(h, {k})
  /\ UNCHANGED <<link, invite, password, setup, now, sent, seen, faults>>

\* issueWorkspaceApiKey: the key, and then its link, each on its own.
IssueKey(h, u, k) ==
  /\ Idling(h) /\ Exists(u) /\ key[k].state = "absent"
  /\ NewKey(u, k)
  /\ req' = [req EXCEPT ![h] =
       [Idle EXCEPT !.pc = "link", !.key = k, !.expires = now + LinkTtl]]
  /\ since' = Others(h, {k})
  /\ UNCHANGED <<link, invite, password, setup, now, sent, seen, faults>>

IssueLink(h) ==
  /\ req[h].pc = "link"
  /\ NewLink(req[h].key, req[h].expires)
  /\ req' = [req EXCEPT ![h].pc = "answer", ![h].gives = "link"]
  /\ UNCHANGED <<key, invite, password, setup, now, sent, seen, since, faults>>

\* revokeApiKeyDomain and revokeWorkspaceApiKey: an update by id, which waits for
\* the row.
RevokeKey(k) ==
  /\ Active(k) /\ ~Locked(k)
  /\ key' = [key EXCEPT ![k].state = "revoked"]
  /\ UNCHANGED <<link, invite, password, setup, req, now, sent, seen, since, faults>>

-----------------------------------------------------------------------------
(* resetUserApiKeysDomain: one transaction revokes the user's active keys, *)
(* creates a new one and its link.                                         *)

StartReset(h, u) ==
  /\ Idling(h) /\ Exists(u)
  /\ req' = [req EXCEPT ![h] =
       [Idle EXCEPT !.pc = "find", !.user = u, !.expires = now + LinkTtl]]
  /\ UNCHANGED <<tables, now, sent, seen, since, faults>>

\* updateMany finds its rows...
ResetFind(h) ==
  /\ req[h].pc = "find"
  /\ req' = [req EXCEPT ![h].pc = "lock", ![h].rows = ActiveOf(req[h].user)]
  /\ UNCHANGED <<tables, now, sent, seen, since, faults>>

\* Mutant: rows another transaction holds are skipped.
ResetSkipsLocked(h) ==
  /\ req[h].pc = "lock"
  /\ req' = [req EXCEPT ![h].pc = "commit",
                        ![h].rows = {k \in @ : Active(k) /\ ~Locked(k)}]
  /\ UNCHANGED <<tables, now, sent, seen, since, faults>>

\* ...waits for those another transaction has written, and keeps the ones that
\* are still active.
ResetLock(h) ==
  /\ req[h].pc = "lock" /\ \A k \in req[h].rows : ~Locked(k)
  /\ req' = [req EXCEPT ![h].pc = "commit", ![h].rows = {k \in @ : Active(k)}]
  /\ UNCHANGED <<tables, now, sent, seen, since, faults>>

ResetCommit(h, k) ==
  /\ req[h].pc = "commit" /\ key[k].state = "absent"
  /\ key' = [x \in Keys |->
       IF x = k THEN [user |-> req[h].user, state |-> "active"]
       ELSE IF x \in req[h].rows THEN [key[x] EXCEPT !.state = "revoked"]
       ELSE key[x]]
  /\ NewLink(k, req[h].expires)
  /\ req' = [req EXCEPT ![h] =
       [Idle EXCEPT !.pc = "answer", !.key = k, !.gives = "link"]]
  /\ since' = Others(h, {k})
  /\ UNCHANGED <<invite, password, setup, now, sent, seen, faults>>

-----------------------------------------------------------------------------
(* viewOneTimeApiKeyDomain: look, then consume with a compare-and-set.     *)

Viewable(k) == link[k].state = "fresh" /\ now < link[k].expires

\* Mutant: the link is consumed before its expiry is looked at.
ViewConsumesFirst(h, k) ==
  /\ Idling(h) /\ k \in sent /\ link[k].state = "fresh"
  /\ link' = [link EXCEPT ![k].state = "used"]
  /\ IF Viewable(k)
     THEN req' = [req EXCEPT ![h] = [Idle EXCEPT !.pc = "answer", !.key = k]]
     ELSE UNCHANGED req
  /\ UNCHANGED <<key, invite, password, setup, now, sent, seen, since, faults>>

ViewLink(h, k) ==
  /\ Idling(h) /\ k \in sent /\ Viewable(k)
  /\ req' = [req EXCEPT ![h] = [Idle EXCEPT !.pc = "consume", !.key = k]]
  /\ UNCHANGED <<tables, now, sent, seen, since, faults>>

\* Mutant: the row is marked by id alone.
ConsumeById(h) ==
  /\ req[h].pc = "consume"
  /\ link' = [link EXCEPT ![req[h].key].state = "used"]
  /\ req' = Goto(h, "answer")
  /\ UNCHANGED <<key, invite, password, setup, now, sent, seen, since, faults>>

ConsumeLink(h) ==
  /\ req[h].pc = "consume" /\ Viewable(req[h].key)
  /\ link' = [link EXCEPT ![req[h].key].state = "used"]
  /\ req' = Goto(h, "answer")
  /\ UNCHANGED <<key, invite, password, setup, now, sent, seen, since, faults>>

ConsumeRefused(h) ==
  /\ req[h].pc = "consume" /\ ~Viewable(req[h].key)
  /\ Done(h)
  /\ UNCHANGED <<tables, now, sent, seen, faults>>

-----------------------------------------------------------------------------
(* Invitations: acceptInviteDomain is one transaction, and hashing the     *)
(* password makes it a long one.                                           *)

CreateInvite(i, u) ==
  /\ invite[i].state = "absent"
  /\ invite' = [invite EXCEPT ![i] =
       [user |-> u, state |-> "fresh", expires |-> now + InviteTtl]]
  /\ UNCHANGED <<key, link, password, setup, req, now, sent, seen, since, faults>>

ReadInvite(h, i) ==
  LET u == invite[i].user IN
  /\ req' = [req EXCEPT ![h] =
       [Idle EXCEPT !.pc = "user", !.invite = i, !.user = u, !.had = password[u]]]
  /\ UNCHANGED <<tables, now, sent, seen, since, faults>>

\* Mutant: an invitation is refused only after it expired.
AcceptForgetsUsed(h, i) ==
  /\ Idling(h) /\ invite[i].state # "absent" /\ now < invite[i].expires
  /\ ReadInvite(h, i)

StartAccept(h, i) ==
  /\ Idling(h) /\ invite[i].state = "fresh" /\ now < invite[i].expires
  /\ ReadInvite(h, i)

\* The user's row is updated, which waits for it, or created, which fails when it
\* has come meanwhile.
WriteUser(h) ==
  /\ req[h].pc = "user" /\ ~RowHeld(req[h].user)
  /\ IF req[h].had = Nobody /\ Exists(req[h].user)
     THEN Done(h)
     ELSE req' = Goto(h, "accept") /\ UNCHANGED since
  /\ UNCHANGED <<tables, now, sent, seen, faults>>

\* Mutant: every accept sets the password.
AcceptResets(h) ==
  LET u == req[h].user IN
  /\ req[h].pc = "accept"
  /\ password' = [password EXCEPT ![u] = h]
  /\ setup' = setup \ {u}
  /\ invite' = [invite EXCEPT ![req[h].invite].state = "used"]
  /\ req' = [req EXCEPT ![h] = Idle]
  /\ since' = [Others(h, {req[h].invite, u}) EXCEPT ![h] = {}]
  /\ UNCHANGED <<key, link, now, sent, seen, faults>>

AcceptCommit(h) ==
  LET u == req[h].user IN
  /\ req[h].pc = "accept"
  /\ password' = [password EXCEPT ![u] =
       IF req[h].had \in {Nobody, NoPassword} THEN h ELSE @]
  /\ setup' = setup \ {u}
  /\ invite' = [invite EXCEPT ![req[h].invite].state = "used"]
  /\ req' = [req EXCEPT ![h] = Idle]
  /\ since' = [Others(h, {req[h].invite, u}) EXCEPT ![h] = {}]
  /\ UNCHANGED <<key, link, now, sent, seen, faults>>

-----------------------------------------------------------------------------
(* The first sign-on of the bootstrap administrator.                       *)

\* completeSetupDomain: who must change the password does so, once.
StartSetup(h, u) ==
  /\ Idling(h) /\ u \in setup
  /\ req' = [req EXCEPT ![h] = [Idle EXCEPT !.pc = "setup", !.user = u]]
  /\ UNCHANGED <<tables, now, sent, seen, since, faults>>

FinishSetup(h) ==
  LET u == req[h].user IN
  /\ req[h].pc = "setup" /\ ~RowHeld(u)
  /\ password' = [password EXCEPT ![u] = h]
  /\ setup' = setup \ {u}
  /\ req' = [req EXCEPT ![h] = Idle]
  /\ since' = [Others(h, {u}) EXCEPT ![h] = {}]
  /\ UNCHANGED <<key, link, invite, now, sent, seen, faults>>

Tick ==
  /\ now < MaxTime
  /\ now' = now + 1
  /\ UNCHANGED <<tables, req, sent, seen, since, faults>>

-----------------------------------------------------------------------------
\* The users' rows are any; some keys and invitations are from before.
Init ==
  /\ password \in [Users -> {Nobody, NoPassword, Old}]
  /\ setup \in SUBSET {u \in Users : password[u] = Old}
  /\ key \in [Keys ->
       [user : {u \in Users : Exists(u)}, state : {"active", "revoked"}]
       \union {[user |-> None, state |-> "absent"]}]
  /\ invite \in [Invites ->
       [user : {u \in Users : Exists(u)}, state : {"used"}, expires : {0}]
       \union {[user |-> None, state |-> "absent", expires |-> 0]}]
  /\ link = [k \in Keys |-> [state |-> "absent", expires |-> 0]]
  /\ req = [r \in Requests |-> Idle]
  /\ now = 0 /\ faults = 0
  /\ sent = {} /\ seen = {k \in Keys : key[k].state # "absent"}
  /\ since = [r \in Requests |-> {}]

KeyStep(h) ==
  \/ \E u \in Users, k \in Keys : CreateKey(h, u, k) \/ IssueKey(h, u, k)
  \/ IssueLink(h)
  \/ \E u \in Users : StartReset(h, u)
  \/ ResetFind(h) \/ ResetLock(h)
  \/ \E k \in Keys : ResetCommit(h, k) \/ ViewLink(h, k)
  \/ ConsumeLink(h) \/ ConsumeRefused(h)

UserStep(h) ==
  \/ \E i \in Invites : StartAccept(h, i)
  \/ WriteUser(h) \/ AcceptCommit(h)
  \/ \E u \in Users : StartSetup(h, u)
  \/ FinishSetup(h)

Next ==
  \/ \E h \in Requests : KeyStep(h) \/ UserStep(h) \/ Respond(h) \/ Fail(h)
  \/ \E k \in Keys : RevokeKey(k)
  \/ \E i \in Invites, u \in Users : CreateInvite(i, u)
  \/ Tick

Spec == Init /\ [][Next]_vars

-----------------------------------------------------------------------------
(* Properties.                                                             *)

Gives(h, k) == req[h].pc = "answer" /\ req[h].gives = "secret" /\ req[h].key = k
\* A link gives its secret away once, before it expires, however the views of it
\* interleave: whoever is about to answer with it found it unused and unexpired.
ShownOnce ==
  [][\A h \in Requests, k \in Keys :
       link[k].state # "absent" /\ ~Gives(h, k) /\ Gives(h, k)' =>
         /\ Viewable(k) /\ link'[k].state = "used"
         /\ k \notin seen /\ \A r \in Requests : ~Gives(r, k)]_vars

\* After a reset, an active key of the user is the new one, or one that was
\* committed while the reset ran ("all active keys for target user are revoked",
\* api-keys-and-security.md:37, leaves those out).
ResetReachesOldKeys ==
  [][\A h \in Requests, k \in Keys :
       ResetCommit(h, k) =>
         \A x \in Keys :
           key'[x] = [user |-> req[h].user, state |-> "active"] =>
             x = k \/ x \in since[h]]_vars

\* Nobody can ever use the key: its secret was not shown, no request has it, and
\* nobody has a link that can still be viewed.
Lost(k) ==
  /\ Active(k) /\ k \notin seen
  /\ \A r \in Requests : req[r].key # k
  /\ ~(k \in sent /\ Viewable(k))
\* Its link was given out, and expired before anybody had used it.
Lapsed(k) == k \in sent /\ link[k].state = "fresh" /\ now >= link[k].expires
\* An active key that nobody can ever use has cost a failure, each its own,
\* unless its link was given out and expired unused.
LostHasACause == Cardinality({k \in Keys : Lost(k) /\ ~Lapsed(k)}) <= faults

\* A password somebody has chosen (in an accept or in completeSetup) is replaced
\* only by a request that was running when it was chosen.
ChosenPasswordsStay ==
  [][\A u \in Users :
       password[u] \notin {Nobody, NoPassword} /\ u \notin setup
         /\ password'[u] # password[u]
       => u \in since[password'[u]]]_vars
\* An invitation is taken twice only by two accepts that overlap ("Tokens are
\* one-time", onboarding.md:55, leaves those out).
TakenTwiceByOverlap ==
  [][\A h \in Requests :
       AcceptCommit(h) /\ invite[req[h].invite].state = "used"
         => req[h].invite \in since[h]]_vars
=============================================================================
