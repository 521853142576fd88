SPECIFICATION Spec
CONSTANTS
  ann = ann
  ws = ws
  p1 = p1
  core = core
  leads = leads
  staff = staff
  ops = ops
  Users = {ann}
  Workspace = ws
  Projects = {p1}
  RepoProjects = {p1}
  Teams = {core, leads}
  TeamMappings <- MCTeamMappings
  Groups = {staff, ops}
  GroupMappings <- MCGroupMappings
  Worlds <- MCWorlds
  Starts <- MCStarts
  Jobs = {j1, j2}
  Nobody = Nobody
  Given = {3, 4}
  MaxEdits = 1
  MaxFaults = 1
INVARIANTS
  TypeOK
  AccessIsJustified
PROPERTIES
  ProtectionHolds
  SyncReachesItsSource
  FailedCallsTakeLittle
  TokensGoToMembers
  TablesComeToRest
CHECK_DEADLOCK FALSE
