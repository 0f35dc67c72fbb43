SPECIFICATION Spec
CONSTANTS
  Files = {"main", "a", "b"}
  Main = "main"
  Keys = {"gaps", "blur"}
  MaxDepth = 1
  MaxIncludes = 3
  Clients = {}
  Appliers = {"main", "watcher"}
  Faults = {}
  Payloads <- SomePayloads
  Trees <- SomeTrees
  SaveKinds = {"replace"}
  MaxOps = 2
INVARIANT HotReloadedOnSave
CHECK_DEADLOCK FALSE
