SPECIFICATION MCFairSpec
CONSTANTS
  v0 = v0
  v1 = v1
  None = None
  Absent = Absent
  Unread = Unread
  Free = Free
  Worktrees = {w1}
  HasGit = TRUE
  Sources = {"a.cs"}
  GraphSources = {"a.cs"}
  Settings = {}
  ResolverInputs = {}
  ProjectConfigs = {}
  CargoConfigs = {}
  Contents = {v0, v1}
  SiteContents = {}
  WeakContents = {}
  InitialTree <- AllPresent
  Scopes <- WholeRepo
  MaxEdits = 0
  MaxCommits = 1
  Mappers = {m1, m2}
  Queriers = {q1}
  Locking = TRUE
  MaxMaps = 2
  Lanes = {None}
  GitMayFail = FALSE
  StatusFails = FALSE
  STATUS_ENTRY_CAP = 9
  CANDIDATE_PATH_CAP = 9
  CANDIDATE_BYTE_CAP = 9
  Environment = {"crash"}
  MaxForeign = 0
  Files = {"a.cs"}
  Verbs = {a}
  OutputCap = 1
  Produce <- Produced
  Earlier <- LeftBehind
  MaxVerbs = 1
  MaxLanes = 1
  MaxMoves = 2
INVARIANTS MapsSerialize AppliedLaneWasCurrent
PROPERTIES FreshPairIsOneRuns MapsEnd QueriesEnd PublishedIsWhole RunsEnd
CHECK_DEADLOCK FALSE
