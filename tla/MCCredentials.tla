--------------------------- MODULE MCCredentials ---------------------------
EXTENDS Credentials, TLC

Symmetry == Permutations(Users) \union Permutations(Keys) \union
            Permutations(Requests) \union Permutations(Invites)

\* The keys and the users' rows meet only in "the user exists", so the instance is
\* a sum: no invitation is left to take, or no key to create; and two users share
\* two keys, or one has three.
AboutKeys ==
  /\ \A i \in Invites : invite[i].state = "used"
  /\ \A u \in Users : password[u] \in {Nobody, Old}
  /\ \A k \in Keys : key[k].state # "revoked"
  /\ \E k \in Keys : Active(k)
  /\ setup = {} /\ Cardinality({u \in Users : Exists(u)}) = 1
AboutTwo ==
  /\ \A i \in Invites : invite[i].state = "used"
  /\ \A u \in Users : password[u] = Old
  /\ Cardinality({k \in Keys : key[k].state = "revoked"}) = 1
  /\ \E k \in Keys : Active(k)
  /\ setup = {}
AboutUsers ==
  /\ \E u \in Users : \A k \in Keys : key[k] = [user |-> u, state |-> "revoked"]
  /\ \A i \in Invites : invite[i].state = "absent"
MCInit == Init /\ (AboutKeys \/ AboutTwo \/ AboutUsers)
MCSpec == MCInit /\ [][Next]_vars
=============================================================================
