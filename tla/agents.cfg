SPECIFICATION MCSpec
CONSTANTS
  Roots = {"r"}
  Rels = {f, g}
  Commands = {"ls"}
  Sessions = {"s"}
  Agents = {"main", "sub"}
  Main = "main"
  Texts = {x1, x2}
  NoText = "none"
  TextSize <- OneByte
  LegacyRoots = {"r"}
  Hooks = {h1, h2}
  MaxCalls = 3
  World = {"busy", "kill"}
  Dirs = {"home", "repo", "tree", "inner", "work"}
  GitEntries = {"repo", "tree", "inner"}
  NoDir = "nowhere"
  Up <- UpFrom
  GitDir <- CommonDir
  Inits = {i1, i2}
  ScopeArgs <- AppScope
  MaxInits = 2
  MaxUserEdits = 1
SYMMETRY Alike
INVARIANTS TypeOK StubStandsForDelivered SpendMatchesDelivery
INVARIANTS ScoutDirIsExcluded ReportedRootsStay HooksFindTheRoot SettingsSurvive
INVARIANTS ImpactIsReach NarrowingIsReported UnmarkedHasCleanPath
INVARIANTS OutOfReachShadowsNothing BasesAnswerForMembers CountsMatch FollowsTheCompiler
INVARIANTS LookupFollowsBarrels ReferencesRideImports NamespacesAreReexported
INVARIANTS ImportsSettle ImportsAreOrderFree
CHECK_DEADLOCK FALSE
