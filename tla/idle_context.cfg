SPECIFICATION Spec
CONSTANTS
  Clients = {c1}
  None = None
  MaxMonitors = 1
  MaxInhibitors = 1
  Requests = {"idle"}
  Faults = {}
  MaxNotifs = 1
  MaxQueue = 2
  MaxOps = 1
INVARIANTS ContextOutlivesCallback
CHECK_DEADLOCK FALSE
