SPECIFICATION FairSpec
CONSTANTS
  Files = {"main", "a", "b"}
  Main = "main"
  Keys = {"gaps", "blur"}
  MaxDepth = 2
  MaxIncludes = 3
  Clients = {"c1"}
  Appliers = {"c1", "main", "watcher"}
  Faults = {"conf", "lua"}
  Payloads <- SomePayloads
  Trees <- SomeTrees
  SaveKinds = {"inplace", "replace", "recreate"}
  MaxOps = 2
INVARIANTS TypeOK MainOverrides NothingIncludedIsLost ReloadSettles  FilesWhole
PROPERTY ReloadEnds
CHECK_DEADLOCK FALSE
