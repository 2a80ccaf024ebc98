SPECIFICATION MCSpec
CONSTANTS
  Roots = {"r"}
  Rels = {f, g}
  Commands = {"ls"}
  Sessions = {"s"}
  Agents = {"main", "sub"}
  Main = "main"
  Texts = {x1, x2}
  NoText = "none"
  TextSize <- OneByte
  LegacyRoots = {"r"}
  Hooks = {h1, h2}
  MaxCalls = 2
  World = {"kill", "kill-in-migration"}
  Dirs = {"home", "repo", "tree", "inner", "work"}
  GitEntries = {"repo", "tree", "inner"}
  NoDir = "nowhere"
  Up <- UpFrom
  GitDir <- CommonDir
  Inits = {i1, i2}
  ScopeArgs <- AppScope
  MaxInits = 0
  MaxUserEdits = 1
CHECK_DEADLOCK FALSE
INVARIANT MigrationResumes
