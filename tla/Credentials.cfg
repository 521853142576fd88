\* Two requests at once over three keys of one user, two of two users, or two
\* invitations; links and invitations expire at the next tick.
SPECIFICATION MCSpec
CONSTANTS
  Users = {u1, u2}
  Keys = {k1, k2, k3}
  Invites = {i1, i2}
  Requests = {r1, r2}
  Nobody = Nobody
  NoPassword = NoPassword
  None = None
  Old = Old
  LinkTtl = 1
  InviteTtl = 1
  MaxTime = 1
  MaxFaults = 1
SYMMETRY Symmetry
INVARIANTS
  TypeOK
  LostHasACause
PROPERTIES
  ShownOnce
  ResetReachesOldKeys
  ChosenPasswordsStay
  TakenTwiceByOverlap
\* Keys and the clock run out.
CHECK_DEADLOCK FALSE
