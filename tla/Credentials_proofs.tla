------------------------- MODULE Credentials_proofs -------------------------
(***************************************************************************)
(* Proofs about Credentials for every number of users, keys, invitations   *)
(* and requests, every time to live and every number of failures.          *)
(***************************************************************************)
EXTENDS Credentials, FiniteSetTheorems, TLAPS

\* What a request holds at each place.
Shaped(h) ==
  /\ IF req[h].pc \in {"link", "answer", "consume"}
     THEN req[h].key \in Keys /\ key[req[h].key].state # "absent"
     ELSE req[h].key = None
  /\ \A x \in req[h].rows : key[x].state # "absent"
  /\ req[h].pc \in {"find", "lock", "commit", "user", "accept", "setup"} =>
       req[h].user \in Users
  /\ req[h].pc \in {"find", "lock", "commit", "link"} =>
       req[h].expires \in 0..(MaxTime + LinkTtl)
  /\ req[h].pc \in {"user", "accept"} =>
       req[h].invite \in Invites /\ invite[req[h].invite].state # "absent"
  /\ req[h].pc = "consume" => req[h].gives = "secret" /\ req[h].key \in sent

\* A link in the making, or about to be given out, is known to its request alone.
Alone(h) ==
  /\ \/ req[h].pc = "link"
     \/ req[h].pc = "answer" /\ req[h].gives = "link"
  => /\ req[h].key \notin seen /\ req[h].key \notin sent
     /\ \A r \in Requests \ {h} : req[r].key # req[h].key
     /\ link[req[h].key].state = IF req[h].pc = "link" THEN "absent" ELSE "fresh"

Untouched(k) ==
  /\ key[k].state = "absent" =>
       /\ link[k].state = "absent" /\ k \notin seen /\ k \notin sent
       /\ \A r \in Requests : req[r].key # k
  /\ k \in sent => link[k].state # "absent"
  /\ link[k].state = "fresh" => k \notin seen /\ \A r \in Requests : ~Gives(r, k)

\* What a request found still stands, or was changed since.
Current(h) ==
  /\ req[h].pc \in {"lock", "commit"} =>
       ActiveOf(req[h].user) \subseteq req[h].rows \union since[h]
  /\ req[h].pc \in {"user", "accept"} =>
       /\ req[h].invite \in since[h] \/ invite[req[h].invite].state = "fresh"
       /\ \/ req[h].had \notin {Nobody, NoPassword}
          \/ req[h].user \in since[h]
          \/ password[req[h].user] \in {Nobody, NoPassword}
  /\ req[h].pc = "setup" => req[h].user \in since[h] \/ req[h].user \in setup

IInv ==
  /\ TypeOK
  /\ \A h \in Requests : Shaped(h) /\ Alone(h) /\ Current(h)
  /\ \A k \in Keys : Untouched(k)

Things == Keys \union Invites \union Users

\* The records the steps put together are requests.
LEMMA IdleTyped == Idle \in Request
BY CredentialsAssumption DEF Idle, Request, Steps, Times, Passwords

LEMMA MovedTyped ==
  ASSUME NEW r \in Request, NEW pc \in Steps, NEW g \in {"link", "secret"},
         NEW rows \in SUBSET Keys
  PROVE  /\ [r EXCEPT !.pc = pc] \in Request
         /\ [r EXCEPT !.pc = pc, !.gives = g] \in Request
         /\ [r EXCEPT !.pc = pc, !.rows = rows] \in Request
BY DEF Request

LEMMA RequestsTyped ==
  ASSUME TypeOK, NEW h \in Requests, NEW r \in Request, req' = [req EXCEPT ![h] = r]
  PROVE  req' \in [Requests -> Request]
BY DEF TypeOK

LEMMA HistoryTyped ==
  ASSUME TypeOK, NEW h \in Requests, NEW things \in SUBSET Things
  PROVE  /\ Others(h, things) \in [Requests -> SUBSET Things]
         /\ [Others(h, things) EXCEPT ![h] = {}] \in [Requests -> SUBSET Things]
BY DEF TypeOK, Others, Things

LEMMA CreateKeyKeeps ==
  ASSUME IInv, NEW h \in Requests, NEW u \in Users, NEW k \in Keys, CreateKey(h, u, k)
  PROVE  IInv'
<1>1. TypeOK'
  <2> DEFINE new == [Idle EXCEPT !.pc = "answer", !.key = k]
  <2>1. new \in Request
    BY IdleTyped, CredentialsAssumption
       DEF IInv, TypeOK, Request, Steps, Times
  <2>2. req' = [req EXCEPT ![h] = new]
    BY DEF IInv, TypeOK, CreateKey
  <2>3. req' \in [Requests -> Request]
    BY <2>1, <2>2, RequestsTyped DEF IInv
  <2>4. since' \in [Requests -> SUBSET Things]
    BY HistoryTyped, {k} \in SUBSET Things DEF IInv, Things, Shaped, CreateKey
  <2>5. key' = [key EXCEPT ![k] = [user |-> u, state |-> "active"]]
    BY DEF CreateKey, NewKey
  <2>6. /\ key' \in [Keys -> KeyRows]
        /\ \A x \in Keys : key'[x].state = "absent" <=> key'[x].user = None
    BY <2>5, CredentialsAssumption DEF IInv, TypeOK, KeyRows
  <2> QED
    BY <2>3, <2>4, <2>6 DEF IInv, TypeOK, Things, CreateKey
<1>2. ASSUME NEW r \in Requests PROVE Shaped(r)'
  BY CredentialsAssumption DEF IInv, TypeOK, Request, Idle, Idling, Exists,
     Others, Shaped, Alone, CreateKey, NewKey
<1>3. ASSUME NEW r \in Requests PROVE Alone(r)'
  BY CredentialsAssumption DEF IInv, TypeOK, Request, Idle, Idling, Exists,
     Others, Shaped, Alone, Untouched, CreateKey, NewKey
<1>4. ASSUME NEW r \in Requests PROVE Current(r)'
  BY CredentialsAssumption DEF IInv, TypeOK, Request, Idle, Idling, Exists,
     Others, Shaped, Current, ActiveOf, Active, CreateKey, NewKey
<1>5. ASSUME NEW x \in Keys PROVE Untouched(x)'
  BY CredentialsAssumption DEF IInv, TypeOK, Request, Idle, Idling, Exists,
     Others, Shaped, Alone, Untouched, Gives, CreateKey, NewKey
<1> QED
  BY <1>1, <1>2, <1>3, <1>4, <1>5 DEF IInv

LEMMA IssueKeyKeeps ==
  ASSUME IInv, NEW h \in Requests, NEW u \in Users, NEW k \in Keys, IssueKey(h, u, k)
  PROVE  IInv'
<1>1. TypeOK'
  <2> DEFINE new == [Idle EXCEPT !.pc = "link", !.key = k, !.expires = now + LinkTtl]
  <2>1. new \in Request
    <3>1. now + LinkTtl \in Times
      BY CredentialsAssumption DEF IInv, TypeOK, Times
    <3> QED
      BY <3>1, IdleTyped DEF Request, Steps
  <2>2. req' = [req EXCEPT ![h] = new]
    BY DEF IInv, TypeOK, IssueKey
  <2>3. req' \in [Requests -> Request]
    BY <2>1, <2>2, RequestsTyped DEF IInv
  <2>4. since' \in [Requests -> SUBSET Things]
    BY HistoryTyped, {k} \in SUBSET Things DEF IInv, Things, Shaped, IssueKey
  <2>5. key' = [key EXCEPT ![k] = [user |-> u, state |-> "active"]]
    BY DEF IssueKey, NewKey
  <2>6. /\ key' \in [Keys -> KeyRows]
        /\ \A x \in Keys : key'[x].state = "absent" <=> key'[x].user = None
    BY <2>5, CredentialsAssumption DEF IInv, TypeOK, KeyRows
  <2> QED
    BY <2>3, <2>4, <2>6 DEF IInv, TypeOK, Things, IssueKey
<1>2. ASSUME NEW r \in Requests PROVE Shaped(r)'
  BY CredentialsAssumption DEF IInv, TypeOK, Request, Idle, Idling, Exists,
     Others, Shaped, Alone, IssueKey, NewKey
<1>3. ASSUME NEW r \in Requests PROVE Alone(r)'
  BY CredentialsAssumption DEF IInv, TypeOK, Request, Idle, Idling, Exists,
     Others, Shaped, Alone, Untouched, IssueKey, NewKey
<1>4. ASSUME NEW r \in Requests PROVE Current(r)'
  BY CredentialsAssumption DEF IInv, TypeOK, Request, Idle, Idling, Exists,
     Others, Shaped, Current, ActiveOf, Active, IssueKey, NewKey
<1>5. ASSUME NEW x \in Keys PROVE Untouched(x)'
  BY CredentialsAssumption DEF IInv, TypeOK, Request, Idle, Idling, Exists,
     Others, Shaped, Alone, Untouched, Gives, IssueKey, NewKey
<1> QED
  BY <1>1, <1>2, <1>3, <1>4, <1>5 DEF IInv

LEMMA IssueLinkKeeps ==
  ASSUME IInv, NEW h \in Requests, IssueLink(h)
  PROVE  IInv'
<1>1. TypeOK'
  <2> DEFINE new == [req[h] EXCEPT !.pc = "answer", !.gives = "link"]
  <2>1. new \in Request
    BY IdleTyped, MovedTyped DEF IInv, TypeOK, Steps, ActiveOf
  <2>2. req' = [req EXCEPT ![h] = new]
    BY DEF IInv, TypeOK, IssueLink
  <2>3. req' \in [Requests -> Request]
    BY <2>1, <2>2, RequestsTyped DEF IInv
  <2> QED
    BY <2>3, CredentialsAssumption DEF IInv, Shaped, Things, TypeOK, KeyRows,
       Tokens, InviteRows, Passwords, Times, tables, IssueLink, NewLink
<1>2. ASSUME NEW r \in Requests PROVE Shaped(r)'
  BY CredentialsAssumption DEF IInv, TypeOK, Request, Shaped, Alone, IssueLink,
     NewLink
<1>3. ASSUME NEW r \in Requests PROVE Alone(r)'
  BY CredentialsAssumption DEF IInv, TypeOK, Request, Shaped, Alone, Untouched,
     IssueLink, NewLink
<1>4. ASSUME NEW r \in Requests PROVE Current(r)'
  BY CredentialsAssumption DEF IInv, TypeOK, Request, Shaped, Current, ActiveOf,
     Active, IssueLink, NewLink
<1>5. ASSUME NEW x \in Keys PROVE Untouched(x)'
  BY CredentialsAssumption DEF IInv, TypeOK, Request, Shaped, Alone, Untouched,
     Gives, IssueLink, NewLink
<1> QED
  BY <1>1, <1>2, <1>3, <1>4, <1>5 DEF IInv

LEMMA RevokeKeyKeeps ==
  ASSUME IInv, NEW k \in Keys, RevokeKey(k)
  PROVE  IInv'
<1>1. TypeOK'
  BY CredentialsAssumption DEF IInv, TypeOK, KeyRows, Tokens, InviteRows,
     Passwords, Request, Steps, Times, Idle, tables, Idling, Exists, Others,
     Shaped, RevokeKey, Active
<1>2. ASSUME NEW r \in Requests PROVE Shaped(r)'
  BY CredentialsAssumption DEF IInv, TypeOK, Request, Shaped, Alone, RevokeKey,
     Active
<1>3. ASSUME NEW r \in Requests PROVE Alone(r)'
  BY CredentialsAssumption DEF IInv, TypeOK, Request, Shaped, Alone, Untouched,
     RevokeKey, Active
<1>4. ASSUME NEW r \in Requests PROVE Current(r)'
  BY CredentialsAssumption DEF IInv, TypeOK, Request, Shaped, Current, ActiveOf,
     Active, RevokeKey, Active
<1>5. ASSUME NEW x \in Keys PROVE Untouched(x)'
  BY CredentialsAssumption DEF IInv, TypeOK, Request, Shaped, Alone, Untouched,
     Gives, RevokeKey, Active
<1> QED
  BY <1>1, <1>2, <1>3, <1>4, <1>5 DEF IInv

LEMMA StartResetKeeps ==
  ASSUME IInv, NEW h \in Requests, NEW u \in Users, StartReset(h, u)
  PROVE  IInv'
<1>1. TypeOK'
  <2> DEFINE new == [Idle EXCEPT !.pc = "find", !.user = u, !.expires = now + LinkTtl]
  <2>1. new \in Request
    <3>1. now + LinkTtl \in Times
      BY CredentialsAssumption DEF IInv, TypeOK, Times
    <3> QED
      BY <3>1, IdleTyped DEF Request, Steps
  <2>2. req' = [req EXCEPT ![h] = new]
    BY DEF IInv, TypeOK, StartReset
  <2>3. req' \in [Requests -> Request]
    BY <2>1, <2>2, RequestsTyped DEF IInv
  <2> QED
    BY <2>3, CredentialsAssumption DEF IInv, Shaped, Things, TypeOK, KeyRows,
       Tokens, InviteRows, Passwords, Times, tables, StartReset
<1>2. ASSUME NEW r \in Requests PROVE Shaped(r)'
  BY CredentialsAssumption DEF IInv, TypeOK, Request, Idle, tables, Idling,
     Exists, Shaped, Alone, StartReset
<1>3. ASSUME NEW r \in Requests PROVE Alone(r)'
  BY CredentialsAssumption DEF IInv, TypeOK, Request, Idle, tables, Idling,
     Exists, Shaped, Alone, Untouched, StartReset
<1>4. ASSUME NEW r \in Requests PROVE Current(r)'
  BY CredentialsAssumption DEF IInv, TypeOK, Request, Idle, tables, Idling,
     Exists, Shaped, Current, ActiveOf, Active, StartReset
<1>5. ASSUME NEW x \in Keys PROVE Untouched(x)'
  BY CredentialsAssumption DEF IInv, TypeOK, Request, Idle, tables, Idling,
     Exists, Shaped, Alone, Untouched, Gives, StartReset
<1> QED
  BY <1>1, <1>2, <1>3, <1>4, <1>5 DEF IInv

LEMMA ResetFindKeeps ==
  ASSUME IInv, NEW h \in Requests, ResetFind(h)
  PROVE  IInv'
<1>1. TypeOK'
  <2> DEFINE new == [req[h] EXCEPT !.pc = "lock", !.rows = ActiveOf(req[h].user)]
  <2>1. new \in Request
    BY IdleTyped, MovedTyped DEF IInv, TypeOK, Steps, ActiveOf
  <2>2. req' = [req EXCEPT ![h] = new]
    BY DEF IInv, TypeOK, ResetFind
  <2>3. req' \in [Requests -> Request]
    BY <2>1, <2>2, RequestsTyped DEF IInv
  <2> QED
    BY <2>3, CredentialsAssumption DEF IInv, Shaped, Things, TypeOK, KeyRows,
       Tokens, InviteRows, Passwords, Times, tables, ResetFind, ActiveOf, Active
<1>2. ASSUME NEW r \in Requests PROVE Shaped(r)'
  BY CredentialsAssumption DEF IInv, TypeOK, Request, tables, Shaped, Alone,
     ResetFind, ActiveOf
<1>3. ASSUME NEW r \in Requests PROVE Alone(r)'
  BY CredentialsAssumption DEF IInv, TypeOK, Request, tables, Shaped, Alone,
     Untouched, ResetFind, ActiveOf
<1>4. ASSUME NEW r \in Requests PROVE Current(r)'
  BY CredentialsAssumption DEF IInv, TypeOK, Request, tables, Shaped, Current,
     ActiveOf, Active, ResetFind, ActiveOf, Active
<1>5. ASSUME NEW x \in Keys PROVE Untouched(x)'
  BY CredentialsAssumption DEF IInv, TypeOK, Request, tables, Shaped, Alone,
     Untouched, Gives, ResetFind, ActiveOf
<1> QED
  BY <1>1, <1>2, <1>3, <1>4, <1>5 DEF IInv

LEMMA ResetLockKeeps ==
  ASSUME IInv, NEW h \in Requests, ResetLock(h)
  PROVE  IInv'
<1>1. TypeOK'
  <2> DEFINE new == [req[h] EXCEPT !.pc = "commit", !.rows = {k \in @ : Active(k)}]
  <2>1. new \in Request
    <3>1. req[h].rows \in SUBSET Keys /\ req[h] \in Request
      BY DEF IInv, TypeOK, Request
    <3> QED
      BY <3>1, MovedTyped DEF Steps
  <2>2. req' = [req EXCEPT ![h] = new]
    BY DEF IInv, TypeOK, ResetLock
  <2>3. req' \in [Requests -> Request]
    BY <2>1, <2>2, RequestsTyped DEF IInv
  <2> QED
    BY <2>3, CredentialsAssumption DEF IInv, Shaped, Things, TypeOK, KeyRows,
       Tokens, InviteRows, Passwords, Times, tables, ResetLock, Active
<1>2. ASSUME NEW r \in Requests PROVE Shaped(r)'
  BY CredentialsAssumption DEF IInv, TypeOK, Request, tables, Shaped, Alone,
     ResetLock, Active
<1>3. ASSUME NEW r \in Requests PROVE Alone(r)'
  BY CredentialsAssumption DEF IInv, TypeOK, Request, tables, Shaped, Alone,
     Untouched, ResetLock, Active
<1>4. ASSUME NEW r \in Requests PROVE Current(r)'
  BY CredentialsAssumption DEF IInv, TypeOK, Request, tables, Shaped, Current,
     ActiveOf, Active, ResetLock, Active
<1>5. ASSUME NEW x \in Keys PROVE Untouched(x)'
  BY CredentialsAssumption DEF IInv, TypeOK, Request, tables, Shaped, Alone,
     Untouched, Gives, ResetLock, Active
<1> QED
  BY <1>1, <1>2, <1>3, <1>4, <1>5 DEF IInv

LEMMA ResetCommitKeeps ==
  ASSUME IInv, NEW h \in Requests, NEW k \in Keys, ResetCommit(h, k)
  PROVE  IInv'
<1>1. TypeOK'
  <2> DEFINE new == [Idle EXCEPT !.pc = "answer", !.key = k, !.gives = "link"]
  <2>1. new \in Request
    BY IdleTyped, CredentialsAssumption
       DEF IInv, TypeOK, Request, Steps, Times
  <2>2. req' = [req EXCEPT ![h] = new]
    BY DEF IInv, TypeOK, ResetCommit
  <2>3. req' \in [Requests -> Request]
    BY <2>1, <2>2, RequestsTyped DEF IInv
  <2>4. since' \in [Requests -> SUBSET Things]
    BY HistoryTyped, {k} \in SUBSET Things DEF IInv, Things, Shaped, ResetCommit
  <2>5. key' \in [Keys -> KeyRows]
    BY DEF IInv, TypeOK, KeyRows, Shaped, ResetCommit
  <2>6. \A x \in Keys : key'[x].state = "absent" <=> key'[x].user = None
    BY CredentialsAssumption DEF IInv, TypeOK, KeyRows, Shaped, ResetCommit
  <2>7. link' \in [Keys -> Tokens]
    BY CredentialsAssumption
       DEF IInv, TypeOK, Shaped, Tokens, Times, ResetCommit, NewLink
  <2> QED
    BY <2>3, <2>4, <2>5, <2>6, <2>7 DEF IInv, TypeOK, Things, ResetCommit
<1>2. ASSUME NEW r \in Requests PROVE Shaped(r)'
  BY CredentialsAssumption DEF IInv, TypeOK, Request, Idle, Others, Shaped, Alone,
     ResetCommit, NewLink
<1>3. ASSUME NEW r \in Requests PROVE Alone(r)'
  BY CredentialsAssumption DEF IInv, TypeOK, Request, Idle, Others, Shaped, Alone,
     Untouched, ResetCommit, NewLink
<1>4. ASSUME NEW r \in Requests PROVE Current(r)'
  BY CredentialsAssumption DEF IInv, TypeOK, Request, Idle, Idling, Others, Shaped,
     Current, ActiveOf, Active, ResetCommit, NewLink
<1>5. ASSUME NEW x \in Keys PROVE Untouched(x)'
  BY CredentialsAssumption DEF IInv, TypeOK, Request, Idle, Others, Shaped, Alone,
     Untouched, Gives, ResetCommit, NewLink
<1> QED
  BY <1>1, <1>2, <1>3, <1>4, <1>5 DEF IInv

LEMMA ViewLinkKeeps ==
  ASSUME IInv, NEW h \in Requests, NEW k \in Keys, ViewLink(h, k)
  PROVE  IInv'
<1>1. TypeOK'
  <2> DEFINE new == [Idle EXCEPT !.pc = "consume", !.key = k]
  <2>1. new \in Request
    BY IdleTyped, CredentialsAssumption
       DEF IInv, TypeOK, Request, Steps, Times
  <2>2. req' = [req EXCEPT ![h] = new]
    BY DEF IInv, TypeOK, ViewLink
  <2>3. req' \in [Requests -> Request]
    BY <2>1, <2>2, RequestsTyped DEF IInv
  <2> QED
    BY <2>3, CredentialsAssumption DEF IInv, Shaped, Things, TypeOK, KeyRows,
       Tokens, InviteRows, Passwords, Times, tables, ViewLink, Viewable
<1>2. ASSUME NEW r \in Requests PROVE Shaped(r)'
  BY CredentialsAssumption DEF IInv, TypeOK, Request, Idle, tables, Idling,
     Shaped, Alone, Untouched, ViewLink, Viewable
<1>3. ASSUME NEW r \in Requests PROVE Alone(r)'
  BY CredentialsAssumption DEF IInv, TypeOK, Request, Idle, tables, Idling,
     Shaped, Alone, Untouched, ViewLink, Viewable
<1>4. ASSUME NEW r \in Requests PROVE Current(r)'
  BY CredentialsAssumption DEF IInv, TypeOK, Request, Idle, tables, Idling,
     Shaped, Current, ActiveOf, Active, ViewLink, Viewable
<1>5. ASSUME NEW x \in Keys PROVE Untouched(x)'
  BY CredentialsAssumption DEF IInv, TypeOK, Request, Idle, tables, Idling,
     Shaped, Alone, Untouched, Gives, ViewLink, Viewable
<1> QED
  BY <1>1, <1>2, <1>3, <1>4, <1>5 DEF IInv

LEMMA ConsumeLinkKeeps ==
  ASSUME IInv, NEW h \in Requests, ConsumeLink(h)
  PROVE  IInv'
<1>1. TypeOK'
  <2> DEFINE new == [req[h] EXCEPT !.pc = "answer"]
  <2>1. new \in Request
    BY IdleTyped, MovedTyped DEF IInv, TypeOK, Steps, ActiveOf
  <2>2. req' = [req EXCEPT ![h] = new]
    BY DEF IInv, TypeOK, ConsumeLink, Goto
  <2>3. req' \in [Requests -> Request]
    BY <2>1, <2>2, RequestsTyped DEF IInv
  <2> QED
    BY <2>3, CredentialsAssumption DEF IInv, Shaped, Things, TypeOK, KeyRows,
       Tokens, InviteRows, Passwords, Times, tables, ConsumeLink, Viewable, Goto
<1>2. ASSUME NEW r \in Requests PROVE Shaped(r)'
  BY CredentialsAssumption DEF IInv, TypeOK, Request, Shaped, Alone, ConsumeLink,
     Viewable, Goto
<1>3. ASSUME NEW r \in Requests PROVE Alone(r)'
  BY CredentialsAssumption DEF IInv, TypeOK, Request, Shaped, Alone, Untouched,
     ConsumeLink, Viewable, Goto
<1>4. ASSUME NEW r \in Requests PROVE Current(r)'
  BY CredentialsAssumption DEF IInv, TypeOK, Request, Shaped, Current, ActiveOf,
     Active, ConsumeLink, Viewable, Goto
<1>5. ASSUME NEW x \in Keys PROVE Untouched(x)'
  BY CredentialsAssumption DEF IInv, TypeOK, Request, Shaped, Alone, Untouched,
     Gives, ConsumeLink, Viewable, Goto
<1> QED
  BY <1>1, <1>2, <1>3, <1>4, <1>5 DEF IInv

LEMMA CreateInviteKeeps ==
  ASSUME IInv, NEW i \in Invites, NEW u \in Users, CreateInvite(i, u)
  PROVE  IInv'
<1>1. TypeOK'
  BY CredentialsAssumption DEF IInv, TypeOK, KeyRows, Tokens, InviteRows,
     Passwords, Request, Steps, Times, Idle, tables, Idling, Exists, Others,
     Shaped, CreateInvite
<1>2. ASSUME NEW r \in Requests PROVE Shaped(r)'
  BY CredentialsAssumption DEF IInv, TypeOK, Request, Shaped, Alone, CreateInvite
<1>3. ASSUME NEW r \in Requests PROVE Alone(r)'
  BY CredentialsAssumption DEF IInv, TypeOK, Request, Shaped, Alone, Untouched,
     CreateInvite
<1>4. ASSUME NEW r \in Requests PROVE Current(r)'
  BY CredentialsAssumption DEF IInv, TypeOK, Request, Shaped, Current, ActiveOf,
     Active, CreateInvite
<1>5. ASSUME NEW x \in Keys PROVE Untouched(x)'
  BY CredentialsAssumption DEF IInv, TypeOK, Request, Shaped, Alone, Untouched,
     Gives, CreateInvite
<1> QED
  BY <1>1, <1>2, <1>3, <1>4, <1>5 DEF IInv

LEMMA StartAcceptKeeps ==
  ASSUME IInv, NEW h \in Requests, NEW i \in Invites, StartAccept(h, i)
  PROVE  IInv'
<1>1. TypeOK'
  <2> DEFINE new == [Idle EXCEPT !.pc = "user", !.invite = i, !.user = invite[i].user,
                 !.had = password[invite[i].user]]
  <2>1. new \in Request
    BY IdleTyped, CredentialsAssumption
       DEF IInv, TypeOK, Request, Steps, Times, InviteRows, Passwords, StartAccept
  <2>2. req' = [req EXCEPT ![h] = new]
    BY DEF IInv, TypeOK, StartAccept, ReadInvite
  <2>3. req' \in [Requests -> Request]
    BY <2>1, <2>2, RequestsTyped DEF IInv
  <2> QED
    BY <2>3, CredentialsAssumption DEF IInv, Shaped, Things, TypeOK, KeyRows,
       Tokens, InviteRows, Passwords, Times, tables, StartAccept, ReadInvite
<1>2. ASSUME NEW r \in Requests PROVE Shaped(r)'
  BY CredentialsAssumption DEF IInv, TypeOK, InviteRows, Request, Idle, tables,
     Idling, Shaped, Alone, StartAccept, ReadInvite
<1>3. ASSUME NEW r \in Requests PROVE Alone(r)'
  BY CredentialsAssumption DEF IInv, TypeOK, InviteRows, Request, Idle, tables,
     Idling, Shaped, Alone, Untouched, StartAccept, ReadInvite
<1>4. ASSUME NEW r \in Requests PROVE Current(r)'
  BY CredentialsAssumption DEF IInv, TypeOK, InviteRows, Request, Idle, tables,
     Idling, Shaped, Current, ActiveOf, Active, StartAccept, ReadInvite
<1>5. ASSUME NEW x \in Keys PROVE Untouched(x)'
  BY CredentialsAssumption DEF IInv, TypeOK, InviteRows, Request, Idle, tables,
     Idling, Shaped, Alone, Untouched, Gives, StartAccept, ReadInvite
<1> QED
  BY <1>1, <1>2, <1>3, <1>4, <1>5 DEF IInv

LEMMA GiveUpKeeps ==
  ASSUME IInv, NEW h \in Requests, Done(h), UNCHANGED <<tables, now, sent, seen, faults>>
  PROVE  IInv'
<1>1. TypeOK'
  BY IdleTyped, RequestsTyped DEF IInv, TypeOK, KeyRows, InviteRows, tables, Done
<1>2. ASSUME NEW r \in Requests PROVE Shaped(r)'
  BY DEF IInv, TypeOK, Idle, tables, Done, Shaped
<1>3. ASSUME NEW r \in Requests PROVE Alone(r)'
  BY CredentialsAssumption DEF IInv, TypeOK, Idle, tables, Done, Alone, Shaped
<1>4. ASSUME NEW r \in Requests PROVE Current(r)'
  BY DEF IInv, TypeOK, Idle, tables, Done, Current, ActiveOf, Active
<1>5. ASSUME NEW x \in Keys PROVE Untouched(x)'
  BY CredentialsAssumption DEF IInv, TypeOK, Idle, tables, Done, Untouched, Gives
<1> QED
  BY <1>1, <1>2, <1>3, <1>4, <1>5 DEF IInv

LEMMA WriteUserKeeps ==
  ASSUME IInv, NEW h \in Requests, WriteUser(h)
  PROVE  IInv'
<1>1. CASE req[h].had = Nobody /\ Exists(req[h].user)
  BY <1>1, GiveUpKeeps DEF WriteUser
<1>2. CASE ~(req[h].had = Nobody /\ Exists(req[h].user))
  <2>0. /\ req' = [req EXCEPT ![h].pc = "accept"]
        /\ UNCHANGED <<tables, now, sent, seen, faults, since>>
        /\ req[h].pc = "user"
    BY <1>2 DEF WriteUser, Goto
  <2>1. TypeOK'
    <3>1. [req[h] EXCEPT !.pc = "accept"] \in Request
      BY MovedTyped DEF IInv, TypeOK, Steps
    <3>2. req' \in [Requests -> Request]
      BY <2>0, <3>1, RequestsTyped DEF IInv, TypeOK
    <3> QED
      BY <2>0, <3>2 DEF IInv, TypeOK, tables
  <2>2. ASSUME NEW r \in Requests PROVE Shaped(r)'
    BY <2>0 DEF IInv, TypeOK, Request, tables, Shaped
  <2>3. ASSUME NEW r \in Requests PROVE Alone(r)'
    BY <2>0 DEF IInv, TypeOK, Request, tables, Alone
  <2>4. ASSUME NEW r \in Requests PROVE Current(r)'
    BY <2>0 DEF IInv, TypeOK, Request, tables, Current, ActiveOf, Active
  <2>5. ASSUME NEW x \in Keys PROVE Untouched(x)'
    BY <2>0 DEF IInv, TypeOK, Request, tables, Untouched, Gives
  <2> QED
    BY <2>1, <2>2, <2>3, <2>4, <2>5 DEF IInv
<1> QED
  BY <1>1, <1>2

LEMMA ConsumeRefusedKeeps ==
  ASSUME IInv, NEW h \in Requests, ConsumeRefused(h)
  PROVE  IInv'
BY GiveUpKeeps DEF ConsumeRefused

LEMMA AcceptCommitKeeps ==
  ASSUME IInv, NEW h \in Requests, AcceptCommit(h)
  PROVE  IInv'
<1>1. TypeOK'
  <2> DEFINE new == Idle
  <2>1. new \in Request
    BY IdleTyped, MovedTyped DEF IInv, TypeOK, Steps, ActiveOf
  <2>2. req' = [req EXCEPT ![h] = new]
    BY DEF IInv, TypeOK, AcceptCommit
  <2>3. req' \in [Requests -> Request]
    BY <2>1, <2>2, RequestsTyped DEF IInv
  <2>4. since' \in [Requests -> SUBSET Things]
    BY HistoryTyped, {req[h].invite, req[h].user} \in SUBSET Things DEF IInv,
       Things, Shaped, AcceptCommit
  <2>5. password' \in [Users -> Passwords]
    BY DEF IInv, TypeOK, Passwords, Shaped, AcceptCommit
  <2>6. /\ invite' \in [Invites -> InviteRows]
        /\ \A i \in Invites : invite'[i].state = "absent" <=> invite'[i].user = None
    <3>1. /\ req[h].invite \in Invites /\ invite[req[h].invite].state # "absent"
          /\ invite' = [invite EXCEPT ![req[h].invite].state = "used"]
      BY DEF IInv, Shaped, AcceptCommit
    <3> QED
      BY <3>1 DEF IInv, TypeOK, InviteRows
  <2> QED
    BY <2>3, <2>4, <2>5, <2>6 DEF IInv, TypeOK, Things, AcceptCommit
<1>2. ASSUME NEW r \in Requests PROVE Shaped(r)'
  BY CredentialsAssumption DEF IInv, TypeOK, Request, Idle, Others, Shaped, Alone,
     AcceptCommit
<1>3. ASSUME NEW r \in Requests PROVE Alone(r)'
  BY CredentialsAssumption DEF IInv, TypeOK, Request, Idle, Others, Shaped, Alone,
     Untouched, AcceptCommit
<1>4. ASSUME NEW r \in Requests PROVE Current(r)'
  BY CredentialsAssumption DEF IInv, TypeOK, Request, Idle, Idling, Others, Shaped,
     Current, ActiveOf, Active, AcceptCommit
<1>5. ASSUME NEW x \in Keys PROVE Untouched(x)'
  BY CredentialsAssumption DEF IInv, TypeOK, Request, Idle, Others, Shaped, Alone,
     Untouched, Gives, AcceptCommit
<1> QED
  BY <1>1, <1>2, <1>3, <1>4, <1>5 DEF IInv

LEMMA StartSetupKeeps ==
  ASSUME IInv, NEW h \in Requests, NEW u \in Users, StartSetup(h, u)
  PROVE  IInv'
<1>1. TypeOK'
  <2> DEFINE new == [Idle EXCEPT !.pc = "setup", !.user = u]
  <2>1. new \in Request
    BY IdleTyped, CredentialsAssumption
       DEF IInv, TypeOK, Request, Steps, Times
  <2>2. req' = [req EXCEPT ![h] = new]
    BY DEF IInv, TypeOK, StartSetup
  <2>3. req' \in [Requests -> Request]
    BY <2>1, <2>2, RequestsTyped DEF IInv
  <2> QED
    BY <2>3, CredentialsAssumption DEF IInv, Shaped, Things, TypeOK, KeyRows,
       Tokens, InviteRows, Passwords, Times, tables, StartSetup
<1>2. ASSUME NEW r \in Requests PROVE Shaped(r)'
  BY CredentialsAssumption DEF IInv, TypeOK, Request, Idle, tables, Idling,
     Shaped, Alone, StartSetup
<1>3. ASSUME NEW r \in Requests PROVE Alone(r)'
  BY CredentialsAssumption DEF IInv, TypeOK, Request, Idle, tables, Idling,
     Shaped, Alone, Untouched, StartSetup
<1>4. ASSUME NEW r \in Requests PROVE Current(r)'
  BY CredentialsAssumption DEF IInv, TypeOK, Request, Idle, tables, Idling,
     Shaped, Current, ActiveOf, Active, StartSetup
<1>5. ASSUME NEW x \in Keys PROVE Untouched(x)'
  BY CredentialsAssumption DEF IInv, TypeOK, Request, Idle, tables, Idling,
     Shaped, Alone, Untouched, Gives, StartSetup
<1> QED
  BY <1>1, <1>2, <1>3, <1>4, <1>5 DEF IInv

LEMMA FinishSetupKeeps ==
  ASSUME IInv, NEW h \in Requests, FinishSetup(h)
  PROVE  IInv'
<1>1. TypeOK'
  <2> DEFINE new == Idle
  <2>1. new \in Request
    BY IdleTyped, MovedTyped DEF IInv, TypeOK, Steps, ActiveOf
  <2>2. req' = [req EXCEPT ![h] = new]
    BY DEF IInv, TypeOK, FinishSetup
  <2>3. req' \in [Requests -> Request]
    BY <2>1, <2>2, RequestsTyped DEF IInv
  <2>4. since' \in [Requests -> SUBSET Things]
    BY HistoryTyped, {req[h].user} \in SUBSET Things DEF IInv, Things, Shaped,
       FinishSetup
  <2>5. password' \in [Users -> Passwords] /\ setup' \subseteq Users
    BY DEF IInv, TypeOK, Passwords, Shaped, FinishSetup
  <2> QED
    BY <2>3, <2>4, <2>5 DEF IInv, TypeOK, Things, FinishSetup
<1>2. ASSUME NEW r \in Requests PROVE Shaped(r)'
  BY CredentialsAssumption DEF IInv, TypeOK, Request, Idle, Others, Shaped, Alone,
     FinishSetup, RowHeld
<1>3. ASSUME NEW r \in Requests PROVE Alone(r)'
  BY CredentialsAssumption DEF IInv, TypeOK, Request, Idle, Others, Shaped, Alone,
     Untouched, FinishSetup, RowHeld
<1>4. ASSUME NEW r \in Requests PROVE Current(r)'
  BY CredentialsAssumption DEF IInv, TypeOK, Request, Idle, Idling, Others, Shaped,
     Current, ActiveOf, Active, FinishSetup, RowHeld
<1>5. ASSUME NEW x \in Keys PROVE Untouched(x)'
  BY CredentialsAssumption DEF IInv, TypeOK, Request, Idle, Others, Shaped, Alone,
     Untouched, Gives, FinishSetup, RowHeld
<1> QED
  BY <1>1, <1>2, <1>3, <1>4, <1>5 DEF IInv

LEMMA RespondKeeps ==
  ASSUME IInv, NEW h \in Requests, Respond(h)
  PROVE  IInv'
<1>1. TypeOK'
  BY CredentialsAssumption DEF IInv, TypeOK, KeyRows, Tokens, InviteRows,
     Passwords, Request, Steps, Times, Idle, tables, Idling, Exists, Others,
     Shaped, Respond, Done
<1>2. ASSUME NEW r \in Requests PROVE Shaped(r)'
  BY CredentialsAssumption DEF IInv, TypeOK, Request, Idle, tables, Shaped, Alone,
     Respond, Done
<1>3. ASSUME NEW r \in Requests PROVE Alone(r)'
  BY CredentialsAssumption DEF IInv, TypeOK, Request, Idle, tables, Shaped, Alone,
     Untouched, Respond, Done
<1>4. ASSUME NEW r \in Requests PROVE Current(r)'
  BY CredentialsAssumption DEF IInv, TypeOK, Request, Idle, tables, Shaped,
     Current, ActiveOf, Active, Respond, Done
<1>5. ASSUME NEW x \in Keys PROVE Untouched(x)'
  BY CredentialsAssumption DEF IInv, TypeOK, Request, Idle, tables, Shaped, Alone,
     Untouched, Gives, Respond, Done
<1> QED
  BY <1>1, <1>2, <1>3, <1>4, <1>5 DEF IInv

LEMMA FailKeeps ==
  ASSUME IInv, NEW h \in Requests, Fail(h)
  PROVE  IInv'
<1>1. TypeOK'
  BY CredentialsAssumption DEF IInv, TypeOK, KeyRows, Tokens, InviteRows,
     Passwords, Request, Steps, Times, Idle, tables, Idling, Exists, Others,
     Shaped, Fail, Done
<1>2. ASSUME NEW r \in Requests PROVE Shaped(r)'
  BY CredentialsAssumption DEF IInv, TypeOK, Request, Idle, tables, Idling,
     Shaped, Alone, Fail, Done
<1>3. ASSUME NEW r \in Requests PROVE Alone(r)'
  BY CredentialsAssumption DEF IInv, TypeOK, Request, Idle, tables, Idling,
     Shaped, Alone, Untouched, Fail, Done
<1>4. ASSUME NEW r \in Requests PROVE Current(r)'
  BY CredentialsAssumption DEF IInv, TypeOK, Request, Idle, tables, Idling,
     Shaped, Current, ActiveOf, Active, Fail, Done
<1>5. ASSUME NEW x \in Keys PROVE Untouched(x)'
  BY CredentialsAssumption DEF IInv, TypeOK, Request, Idle, tables, Idling,
     Shaped, Alone, Untouched, Gives, Fail, Done
<1> QED
  BY <1>1, <1>2, <1>3, <1>4, <1>5 DEF IInv

LEMMA InitKeeps == Init => IInv
<1> SUFFICES ASSUME Init PROVE IInv
  OBVIOUS
<1>1. TypeOK
  BY CredentialsAssumption, IdleTyped
     DEF Init, TypeOK, KeyRows, Tokens, InviteRows, Passwords, Times
<1>2. ASSUME NEW h \in Requests PROVE Shaped(h) /\ Alone(h) /\ Current(h)
  BY DEF Init, Idle, Shaped, Alone, Current
<1>3. ASSUME NEW k \in Keys PROVE Untouched(k)
  BY CredentialsAssumption DEF Init, Idle, Untouched, Gives
<1> QED
  BY <1>1, <1>2, <1>3 DEF IInv

LEMMA NextKeeps == IInv /\ [Next]_vars => IInv'
<1> SUFFICES ASSUME IInv, [Next]_vars PROVE IInv'
  OBVIOUS
<1>1. ASSUME NEW h \in Requests, KeyStep(h) PROVE IInv'
  BY <1>1, CreateKeyKeeps, IssueKeyKeeps, IssueLinkKeeps, StartResetKeeps,
     ResetFindKeeps, ResetLockKeeps, ResetCommitKeeps, ViewLinkKeeps,
     ConsumeLinkKeeps, ConsumeRefusedKeeps DEF KeyStep
<1>2. ASSUME NEW h \in Requests, UserStep(h) PROVE IInv'
  BY <1>2, StartAcceptKeeps, WriteUserKeeps, AcceptCommitKeeps, StartSetupKeeps,
     FinishSetupKeeps DEF UserStep
<1>3. ASSUME NEW h \in Requests, Respond(h) \/ Fail(h) PROVE IInv'
  BY <1>3, RespondKeeps, FailKeeps
<1>4. CASE Tick \/ UNCHANGED vars
  <2>1. TypeOK'
    <3>1. now' \in 0..MaxTime /\ UNCHANGED <<tables, req, sent, seen, since, faults>>
      BY <1>4, CredentialsAssumption DEF IInv, TypeOK, Tick, vars, tables
    <3> QED
      BY <3>1 DEF IInv, TypeOK, tables
  <2>2. UNCHANGED <<tables, req, sent, seen, since>>
    BY <1>4 DEF Tick, vars, tables
  <2>3. ASSUME NEW h \in Requests PROVE (Shaped(h) /\ Alone(h) /\ Current(h))'
    BY <2>2 DEF IInv, tables, Shaped, Alone, Current, ActiveOf, Active
  <2>4. ASSUME NEW k \in Keys PROVE Untouched(k)'
    BY <2>2 DEF IInv, tables, Untouched, Gives
  <2> QED
    BY <2>1, <2>3, <2>4 DEF IInv
<1> QED
  BY <1>1, <1>2, <1>3, <1>4, RevokeKeyKeeps, CreateInviteKeeps DEF Next

LEMMA Inductive == Spec => []IInv
BY InitKeeps, NextKeeps, PTL DEF Spec

\* The tables, the requests in progress and the histories keep their types.
THEOREM TypeCorrect == Spec => []TypeOK
<1>1. IInv => TypeOK
  BY DEF IInv
<1> QED
  BY <1>1, Inductive, PTL

-----------------------------------------------------------------------------
(* Who gives a secret away.                                                *)

LEMMA GivingStep ==
  ASSUME IInv, Next, NEW h \in Requests, NEW k \in Keys,
         link[k].state # "absent", ~Gives(h, k), Gives(h, k)'
  PROVE  ConsumeLink(h) /\ req[h].key = k
<1>1. req[h] # req'[h] /\ req'[h].pc = "answer" /\ req'[h].gives = "secret"
      /\ req'[h].key = k
  BY DEF Gives
<1>2. DOMAIN req = Requests /\ \A r \in Requests : req[r] \in Request
  BY DEF IInv, TypeOK
<1>3. ASSUME NEW r \in Requests, KeyStep(r) PROVE ConsumeLink(h) /\ req[h].key = k
  <2>1. r = h
    BY <1>1, <1>2, <1>3 DEF KeyStep, CreateKey, IssueKey, IssueLink, StartReset,
       ResetFind, ResetLock, ResetCommit, ViewLink, ConsumeLink, ConsumeRefused,
       Goto, Done
  <2>2. ~\E u \in Users, x \in Keys : CreateKey(h, u, x)
    BY <1>1, <1>2 DEF IInv, Untouched, CreateKey, Idle
  <2>3. ~IssueLink(h) /\ ~ResetFind(h) /\ ~ResetLock(h) /\ ~ConsumeRefused(h)
    BY <1>1, <1>2 DEF IssueLink, ResetFind, ResetLock, ConsumeRefused, Done, Idle,
       Request
  <2>4. /\ \A u \in Users : ~StartReset(h, u)
        /\ \A u \in Users, x \in Keys : ~IssueKey(h, u, x)
        /\ \A x \in Keys : ~ResetCommit(h, x) /\ ~ViewLink(h, x)
    BY <1>1, <1>2 DEF IssueKey, StartReset, ResetCommit, ViewLink, Idle
  <2>5. ConsumeLink(h)
    <3>1. KeyStep(h)
      BY <1>3, <2>1
    <3> QED
      BY <3>1, <2>2, <2>3, <2>4 DEF KeyStep
  <2> QED
    BY <1>1, <1>2, <2>5 DEF ConsumeLink, Goto, Request
<1>4. ASSUME NEW r \in Requests, UserStep(r) \/ Respond(r) \/ Fail(r) PROVE FALSE
  <2>1. r = h
    BY <1>1, <1>2, <1>4 DEF UserStep, StartAccept, ReadInvite, WriteUser,
       AcceptCommit, StartSetup, FinishSetup, Respond, Fail, Goto, Done
  <2>2. req'[h].pc # "answer"
    <3>1. UserStep(h) \/ Respond(h) \/ Fail(h)
      BY <1>4, <2>1
    <3>2. Idle.pc = "idle"
      BY DEF Idle
    <3>3. ASSUME NEW new, new.pc # "answer", req' = [req EXCEPT ![h] = new]
          PROVE  req'[h].pc # "answer"
      BY <1>2, <3>3
    <3>4. CASE WriteUser(h)
      BY <1>2, <3>2, <3>4 DEF WriteUser, Goto, Done, Request
    <3>5. CASE AcceptCommit(h) \/ FinishSetup(h) \/ Respond(h) \/ Fail(h)
      BY <3>2, <3>3, <3>5 DEF AcceptCommit, FinishSetup, Respond, Fail, Done
    <3>6. ASSUME NEW i \in Invites, StartAccept(h, i) PROVE req'[h].pc # "answer"
      BY <1>2, <3>6 DEF StartAccept, ReadInvite, Idle
    <3>7. ASSUME NEW u \in Users, StartSetup(h, u) PROVE req'[h].pc # "answer"
      BY <1>2, <3>7 DEF StartSetup, Idle
    <3> QED
      BY <3>1, <3>4, <3>5, <3>6, <3>7 DEF UserStep
  <2> QED
    BY <1>1, <2>2
<1> QED
  BY <1>1, <1>3, <1>4 DEF Next, RevokeKey, CreateInvite, Tick

\* However views of a link interleave, at most one of them is about to answer with
\* its secret, and that one found the link unused and unexpired.
THEOREM LinksShowOnce == Spec => ShownOnce
<1>1. ASSUME IInv, Next, NEW h \in Requests, NEW k \in Keys,
             link[k].state # "absent", ~Gives(h, k), Gives(h, k)'
      PROVE  /\ Viewable(k) /\ link'[k].state = "used"
             /\ k \notin seen /\ \A r \in Requests : ~Gives(r, k)
  <2>1. ConsumeLink(h) /\ req[h].key = k
    BY <1>1, GivingStep
  <2>2. Viewable(k) /\ link'[k].state = "used"
    BY <1>1, <2>1 DEF IInv, TypeOK, Tokens, ConsumeLink
  <2> QED
    BY <1>1, <2>2 DEF IInv, Untouched, Viewable
<1>2. IInv /\ [Next]_vars =>
        [\A h \in Requests, k \in Keys :
           link[k].state # "absent" /\ ~Gives(h, k) /\ Gives(h, k)' =>
             /\ Viewable(k) /\ link'[k].state = "used"
             /\ k \notin seen /\ \A r \in Requests : ~Gives(r, k)]_vars
  BY <1>1
<1> QED
  BY <1>2, Inductive, PTL DEF Spec, ShownOnce

\* A reset leaves no active key of its user but its own and those committed while
\* it ran, for any number of resets and issues at once.
THEOREM ResetsReachOldKeys == Spec => ResetReachesOldKeys
<1>1. ASSUME IInv, NEW h \in Requests, NEW k \in Keys, ResetCommit(h, k),
             NEW x \in Keys, key'[x] = [user |-> req[h].user, state |-> "active"],
             x # k
      PROVE  x \in since[h]
  <2>1. x \notin req[h].rows /\ key'[x] = key[x]
    BY <1>1 DEF ResetCommit, IInv, TypeOK, KeyRows
  <2>2. x \in ActiveOf(req[h].user)
    BY <1>1, <2>1 DEF ActiveOf, Active
  <2> QED
    BY <1>1, <2>1, <2>2 DEF IInv, Current, ResetCommit
<1>2. IInv /\ [Next]_vars =>
        [\A h \in Requests, k \in Keys :
           ResetCommit(h, k) =>
             \A x \in Keys :
               key'[x] = [user |-> req[h].user, state |-> "active"] =>
                 x = k \/ x \in since[h]]_vars
  BY <1>1
<1> QED
  BY <1>2, Inductive, PTL DEF Spec, ResetReachesOldKeys

\* A chosen password is replaced only by a request that ran while it was chosen.
THEOREM PasswordsStay == Spec => ChosenPasswordsStay
<1>1. ASSUME IInv, Next, NEW u \in Users, password[u] \notin {Nobody, NoPassword},
             u \notin setup, password'[u] # password[u]
      PROVE  u \in since[password'[u]]
  <2>1. PICK h \in Requests : AcceptCommit(h) \/ FinishSetup(h)
    BY <1>1 DEF Next, KeyStep, UserStep, CreateKey, IssueKey, IssueLink, StartReset,
       ResetFind, ResetLock, ResetCommit, ViewLink, ConsumeLink, ConsumeRefused,
       StartAccept, ReadInvite, WriteUser, StartSetup, Respond, Fail, RevokeKey,
       CreateInvite, Tick, tables
  <2>2. req[h].user = u /\ password'[u] = h
    BY <1>1, <2>1 DEF IInv, TypeOK, AcceptCommit, FinishSetup
  <2>3. u \in since[h]
    BY <1>1, <2>1, <2>2 DEF IInv, TypeOK, Current, AcceptCommit, FinishSetup
  <2> QED
    BY <2>2, <2>3
<1>2. IInv /\ [Next]_vars =>
        [\A u \in Users :
           password[u] \notin {Nobody, NoPassword} /\ u \notin setup
             /\ password'[u] # password[u]
           => u \in since[password'[u]]]_vars
  BY <1>1
<1> QED
  BY <1>2, Inductive, PTL DEF Spec, ChosenPasswordsStay

\* An invitation is taken twice only by two accepts that overlap.
THEOREM InvitesTakenOnce == Spec => TakenTwiceByOverlap
<1>1. IInv /\ [Next]_vars =>
        [\A h \in Requests :
           AcceptCommit(h) /\ invite[req[h].invite].state = "used"
             => req[h].invite \in since[h]]_vars
  BY DEF IInv, Current, AcceptCommit
<1> QED
  BY <1>1, Inductive, PTL DEF Spec, TakenTwiceByOverlap

-----------------------------------------------------------------------------
(* Lost keys.  A key can be lost for good before it is lost in the sense of *)
(* Lost, because a second view of its link may still be under way; and a   *)
(* link that is given out and still fresh is no failure's, expired or not. *)

Held(k) == \E r \in Requests : req[r].pc \in {"link", "answer"} /\ req[r].key = k
Stuck == {k \in Keys : /\ key[k].state # "absent" /\ k \notin seen /\ ~Held(k)
                       /\ k \notin sent \/ link[k].state # "fresh"}

LEMMA KeyStepSticksNothing ==
  ASSUME IInv, NEW h \in Requests, KeyStep(h), NEW x \in Keys, x \notin Stuck
  PROVE  x \notin Stuck'
<1>0. DOMAIN req = Requests /\ (\A r \in Requests : req[r] \in Request)
      /\ DOMAIN key = Keys /\ DOMAIN link = Keys
  BY DEF IInv, TypeOK
<1>1. ASSUME NEW u \in Users, NEW k \in Keys, CreateKey(h, u, k) PROVE x \notin Stuck'
  BY <1>0, <1>1 DEF Stuck, Held, CreateKey, NewKey, Idle, Idling
<1>2. ASSUME NEW u \in Users, NEW k \in Keys, IssueKey(h, u, k) PROVE x \notin Stuck'
  BY <1>0, <1>2 DEF Stuck, Held, IssueKey, NewKey, Idle, Idling
<1>3. CASE IssueLink(h)
  BY <1>0, <1>3 DEF Stuck, Held, IssueLink, NewLink, Request
<1>4. ASSUME NEW u \in Users, StartReset(h, u) PROVE x \notin Stuck'
  BY <1>0, <1>4 DEF Stuck, Held, StartReset, Idle, Idling, tables
<1>5. CASE ResetFind(h) \/ ResetLock(h)
  <2>1. /\ UNCHANGED <<tables, sent, seen>> /\ req[h].pc \in {"find", "lock"}
        /\ \A r \in Requests \ {h} : req'[r] = req[r]
    BY <1>0, <1>5 DEF ResetFind, ResetLock
  <2> QED
    BY <1>0, <2>1 DEF Stuck, Held, tables
<1>6. ASSUME NEW k \in Keys, ResetCommit(h, k) PROVE x \notin Stuck'
  <2>1. /\ UNCHANGED <<sent, seen>> /\ req[h].pc = "commit"
        /\ req'[h].pc = "answer" /\ req'[h].key = k
        /\ \A r \in Requests \ {h} : req'[r] = req[r]
    BY <1>0, <1>6 DEF ResetCommit, Idle
  <2>2. CASE x = k
    BY <2>1, <2>2 DEF Stuck, Held
  <2>3. CASE x # k
    <3>1. /\ link'[x] = link[x]
          /\ key[x].state = "absent" => key'[x].state = "absent"
      BY <1>0, <1>6, <2>1, <2>3 DEF ResetCommit, NewLink, IInv, Shaped
    <3>2. Held(x) => Held(x)'
      BY <1>0, <2>1 DEF Held
    <3>3. CASE Held(x)
      BY <3>2, <3>3 DEF Stuck, Held
    <3>4. CASE ~Held(x)
      <4>1. key[x].state = "absent" \/ x \in seen \/ (x \in sent /\ link[x].state = "fresh")
        BY <3>4 DEF Stuck
      <4> QED
        BY <2>1, <3>1, <4>1 DEF Stuck
    <3> QED
      BY <3>3, <3>4
  <2> QED
    BY <2>2, <2>3
<1>7. ASSUME NEW k \in Keys, ViewLink(h, k) PROVE x \notin Stuck'
  BY <1>0, <1>7 DEF Stuck, Held, ViewLink, Idle, Idling, tables
<1>8. CASE ConsumeLink(h)
  BY <1>0, <1>8 DEF Stuck, Held, ConsumeLink, Goto, Request
<1>9. CASE ConsumeRefused(h)
  BY <1>0, <1>9 DEF Stuck, Held, ConsumeRefused, Done, tables
<1> QED
  BY <1>1, <1>2, <1>3, <1>4, <1>5, <1>6, <1>7, <1>8, <1>9 DEF KeyStep

LEMMA UserStepSticksNothing ==
  ASSUME IInv, NEW h \in Requests, UserStep(h)
  PROVE  Stuck' = Stuck
<1>1. UNCHANGED <<key, link, sent, seen>>
  BY DEF UserStep, StartAccept, ReadInvite, WriteUser, AcceptCommit, StartSetup,
     FinishSetup, tables
<1>2. /\ \A r \in Requests \ {h} : req'[r] = req[r]
      /\ {req[h].pc, req'[h].pc} \intersect {"link", "answer"} = {}
  <2>1. DOMAIN req = Requests /\ (\A r \in Requests : req[r] \in Request)
        /\ Idle.pc = "idle"
    BY DEF IInv, TypeOK, Idle
  <2>2. CASE WriteUser(h)
    BY <2>1, <2>2 DEF WriteUser, Done, Goto, Request
  <2>3. CASE AcceptCommit(h) \/ FinishSetup(h)
    BY <2>1, <2>3 DEF AcceptCommit, FinishSetup
  <2>4. ASSUME NEW i \in Invites, StartAccept(h, i)
        PROVE  /\ \A r \in Requests \ {h} : req'[r] = req[r]
               /\ req[h].pc = "idle" /\ req'[h].pc = "user"
    BY <2>1, <2>4 DEF StartAccept, ReadInvite, Idling, Idle
  <2>5. ASSUME NEW u \in Users, StartSetup(h, u)
        PROVE  /\ \A r \in Requests \ {h} : req'[r] = req[r]
               /\ req[h].pc = "idle" /\ req'[h].pc = "setup"
    BY <2>1, <2>5 DEF StartSetup, Idling, Idle
  <2> QED
    BY <2>2, <2>3, <2>4, <2>5 DEF UserStep
<1> QED
  BY <1>1, <1>2 DEF Stuck, Held

LEMMA RespondSticksNothing ==
  ASSUME IInv, NEW h \in Requests, Respond(h)
  PROVE  Stuck' \subseteq Stuck
<1>1. /\ \A r \in Requests \ {h} : req'[r] = req[r]
      /\ UNCHANGED <<key, link>> /\ seen \subseteq seen' /\ sent \subseteq sent'
  BY DEF IInv, TypeOK, Respond, Done, tables
<1>2. CASE req[h].gives = "secret"
  BY <1>1, <1>2 DEF Respond, Stuck, Held
<1>3. CASE req[h].gives = "link"
  <2>1. req[h].key \in sent' /\ link[req[h].key].state = "fresh"
    BY <1>3 DEF Respond, IInv, Alone
  <2> QED
    BY <1>1, <1>3, <2>1 DEF Respond, Stuck, Held
<1> QED
  BY <1>2, <1>3 DEF IInv, TypeOK, Request

LEMMA StuckStep ==
  ASSUME IInv, Next
  PROVE  \/ Stuck' \subseteq Stuck /\ faults' = faults
         \/ /\ faults' = faults + 1
            /\ \E x \in Keys \union {None} : Stuck' \subseteq Stuck \union {x}
<1>1. ASSUME NEW h \in Requests, KeyStep(h) PROVE faults' = faults
  BY <1>1 DEF KeyStep, CreateKey, IssueKey, IssueLink, StartReset, ResetFind,
     ResetLock, ResetCommit, ViewLink, ConsumeLink, ConsumeRefused
<1>2. ASSUME NEW h \in Requests, KeyStep(h) PROVE Stuck' \subseteq Stuck
  BY <1>2, KeyStepSticksNothing DEF Stuck
<1>3. ASSUME NEW h \in Requests, UserStep(h) PROVE Stuck' = Stuck /\ faults' = faults
  BY <1>3, UserStepSticksNothing DEF UserStep, StartAccept, ReadInvite, WriteUser,
     AcceptCommit, StartSetup, FinishSetup
<1>4. ASSUME NEW h \in Requests, Respond(h)
      PROVE  Stuck' \subseteq Stuck /\ faults' = faults
  BY <1>4, RespondSticksNothing DEF Respond
<1>5. ASSUME NEW h \in Requests, Fail(h)
      PROVE  /\ faults' = faults + 1 /\ req[h].key \in Keys \union {None}
             /\ Stuck' \subseteq Stuck \union {req[h].key}
  <2>1. /\ \A r \in Requests \ {h} : req'[r] = req[r]
        /\ UNCHANGED <<key, link, seen, sent>> /\ faults' = faults + 1
    BY <1>5 DEF IInv, TypeOK, Fail, Done, tables
  <2> QED
    BY <2>1 DEF Stuck, Held, IInv, TypeOK, Request
<1>6. ASSUME NEW k \in Keys, RevokeKey(k) PROVE Stuck' = Stuck /\ faults' = faults
  <2>1. /\ UNCHANGED <<req, link, sent, seen, faults>>
        /\ \A x \in Keys : key'[x].state = "absent" <=> key[x].state = "absent"
    BY <1>6 DEF RevokeKey, Active, IInv, TypeOK, KeyRows
  <2> QED
    BY <2>1 DEF Stuck, Held
<1>7. ASSUME Tick \/ \E i \in Invites, u \in Users : CreateInvite(i, u)
      PROVE  Stuck' = Stuck /\ faults' = faults
  BY <1>7 DEF Tick, CreateInvite, tables, Stuck, Held
<1> QED
  BY <1>1, <1>2, <1>3, <1>4, <1>5, <1>6, <1>7 DEF Next

\* Every active key that nobody can ever use has cost a failure of its own, but
\* for those whose link was given out and expired unused.
THEOREM LostKeysHaveACause == Spec => []LostHasACause
<1> DEFINE Counted == Cardinality(Stuck) <= faults
<1>1. IsFiniteSet(Stuck)
  BY CredentialsAssumption, FS_Subset DEF Stuck
<1>2. Init => Counted
  <2>1. Init => Stuck = {}
    BY DEF Init, Stuck
  <2>2. Init => faults = 0
    BY DEF Init
  <2> QED
    BY <2>1, <2>2, FS_EmptySet
<1>3. IInv /\ Counted /\ [Next]_vars => Counted'
  <2> SUFFICES ASSUME IInv, Counted, [Next]_vars PROVE Counted'
    OBVIOUS
  <2>1. Cardinality(Stuck) \in Nat /\ faults \in Nat
    BY <1>1, FS_CardinalityType DEF IInv, TypeOK
  <2>2. CASE UNCHANGED vars
    <3>1. Stuck' = Stuck /\ faults' = faults
      BY <2>2 DEF vars, tables, Stuck, Held
    <3> QED
      BY <3>1
  <2>3. CASE Stuck' \subseteq Stuck /\ faults' = faults
    <3>1. Cardinality(Stuck') <= Cardinality(Stuck)
      BY <1>1, <2>3, FS_Subset
    <3>2. Cardinality(Stuck') \in Nat
      BY <1>1, <2>3, FS_Subset, FS_CardinalityType
    <3> QED
      BY <2>1, <2>3, <3>1, <3>2
  <2>4. ASSUME faults' = faults + 1, NEW x, Stuck' \subseteq Stuck \union {x}
        PROVE  Counted'
    <3>1. IsFiniteSet(Stuck \union {x})
          /\ Cardinality(Stuck \union {x}) <= Cardinality(Stuck) + 1
      BY <1>1, <2>1, FS_AddElement
    <3>2. /\ Cardinality(Stuck') <= Cardinality(Stuck \union {x})
          /\ IsFiniteSet(Stuck')
      BY <2>4, <3>1, FS_Subset
    <3>3. Cardinality(Stuck') \in Nat /\ Cardinality(Stuck \union {x}) \in Nat
      BY <3>1, <3>2, FS_CardinalityType
    <3> QED
      BY <2>1, <2>4, <3>1, <3>2, <3>3
  <2> QED
    BY <2>2, <2>3, <2>4, StuckStep
<1>4. IInv /\ Counted => LostHasACause
  <2> SUFFICES ASSUME IInv, Counted PROVE LostHasACause
    OBVIOUS
  <2> DEFINE L == {k \in Keys : Lost(k) /\ ~Lapsed(k)}
  <2>1. L \subseteq Stuck
    <3> SUFFICES ASSUME NEW k \in Keys, Lost(k), ~Lapsed(k) PROVE k \in Stuck
      BY DEF Stuck
    <3>1. k \notin sent \/ link[k].state # "fresh"
      <4>1. link[k] \in Tokens /\ now \in 0..MaxTime
        BY DEF IInv, TypeOK
      <4>2. link[k].expires \in Int /\ now \in Int
        BY <4>1, CredentialsAssumption DEF Tokens, Times
      <4> QED
        BY <4>2 DEF Lost, Lapsed, Viewable
    <3> QED
      BY <3>1 DEF Stuck, Held, Lost, Active
  <2>2. IsFiniteSet(L) /\ Cardinality(L) <= Cardinality(Stuck)
    BY <1>1, <2>1, FS_Subset
  <2>3. Cardinality(L) \in Nat /\ Cardinality(Stuck) \in Nat /\ faults \in Nat
    BY <1>1, <2>2, FS_CardinalityType DEF IInv, TypeOK
  <2> QED
    BY <2>2, <2>3 DEF LostHasACause
<1> QED
  BY <1>2, <1>3, <1>4, Inductive, PTL DEF Spec
=============================================================================
