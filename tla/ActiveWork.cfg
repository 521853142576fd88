SPECIFICATION MCSpec
CONSTANTS
  j1 = j1
  c1 = c1
  c2 = c2
  c3 = c3
  t1 = t1
  t2 = t2
  Candidates = {c1, c2, c3}
  Titles = {t1, t2}
  Keys = {"key"}
  TitleOf <- MCTitleOf
  KeyOf <- MCKeyOf
  Jobs = {j1, j2}
  Clerks = {h1}
  Nil = Nil
  Window = 1
  StaleDays = 1
  CloseDays = 2
  MaxDay = 3
  MaxTroubles = 2
INVARIANTS
  TypeOK
  TimelineTells
PROPERTIES
  PeopleAndEvidenceDecide
  QuietWorkIsClosed
