SPECIFICATION Spec
CONSTANTS
  Procs = {p1, p2}
  Packages = {1, 2}
  MaxVersion = 3
  MaxStarts = 3
  MaxKills = 1
SYMMETRY Symmetry
INVARIANTS
  TypeOK
  LauncherWorks
  UpdatesGoOn
CHECK_DEADLOCK FALSE
