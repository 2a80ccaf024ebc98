SPECIFICATION Spec
CONSTANTS
  v0 = v0
  v1 = v1
  None = None
  Absent = Absent
  Unread = Unread
  Free = Free
  Worktrees = {w1}
  HasGit = TRUE
  Sources = {"a.cs", "b.cs"}
  GraphSources = {"a.cs", "b.cs"}
  Settings = {}
  ResolverInputs = {}
  ProjectConfigs = {}
  CargoConfigs = {}
  Contents = {v0, v1}
  SiteContents = {}
  WeakContents = {}
  InitialTree <- AllPresent
  Scopes <- WholeAndPart
  MaxEdits = 0
  MaxCommits = 1
  Mappers = {m1}
  Queriers = {q1}
  Locking = TRUE
  MaxMaps = 3
  Lanes = {None}
  GitMayFail = FALSE
  StatusFails = FALSE
  STATUS_ENTRY_CAP = 9
  CANDIDATE_PATH_CAP = 9
  CANDIDATE_BYTE_CAP = 9
  Environment = {"crash"}
  MaxForeign = 0
  Files = {"a.cs", "b.cs"}
PROPERTIES ScopedMapMerges
