SPECIFICATION Spec
CONSTANTS
  v0 = v0
  v1 = v1
  None = None
  Absent = Absent
  Unread = Unread
  Free = Free
  Worktrees = {w1}
  HasGit = TRUE
  Sources = {"a.cs", "appsettings.json"}
  GraphSources = {"a.cs"}
  Settings = {"appsettings.json"}
  ResolverInputs = {}
  ProjectConfigs = {"p.csproj"}
  CargoConfigs = {"Cargo.toml"}
  Contents = {v0, v1}
  SiteContents = {v0}
  WeakContents = {v0}
  InitialTree <- AllPresent
  Scopes <- WholeRepo
  MaxEdits = 2
  MaxCommits = 1
  Mappers = {m1}
  Queriers = {q1}
  Locking = TRUE
  MaxMaps = 2
  Lanes = {None}
  GitMayFail = TRUE
  StatusFails = TRUE
  STATUS_ENTRY_CAP = 2
  CANDIDATE_PATH_CAP = 1
  CANDIDATE_BYTE_CAP = 1
  Environment = {}
  MaxForeign = 0
  Files = {"a.cs", "appsettings.json", "p.csproj", "Cargo.toml"}
PROPERTIES FreshMeansIndexedBytes
