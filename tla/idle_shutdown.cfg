SPECIFICATION FairSpec
CONSTANTS
  Clients = {c1}
  None = None
  MaxMonitors = 1
  MaxInhibitors = 1
  Requests = {"create", "destroy"}
  Faults = {"shutdown"}
  MaxNotifs = 1
  MaxQueue = 2
  MaxOps = 2
PROPERTIES ShutdownEnds
CHECK_DEADLOCK FALSE
