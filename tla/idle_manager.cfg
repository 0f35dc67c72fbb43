SPECIFICATION Spec
CONSTANTS
  Clients = {c1, c2}
  None = None
  MaxMonitors = 2
  MaxInhibitors = 1
  Requests = {"create", "update", "destroy", "resume", "check", "inhibitors"}
  Faults = {"shutdown", "lost"}
  MaxNotifs = 2
  MaxQueue = 1
  MaxOps = 3
INVARIANTS TypeOK MonitorSettles ReportsFollowState NoProxyLeaks WaitIsTruthful WaitHears  
CHECK_DEADLOCK FALSE
SYMMETRY Symmetry
