SPECIFICATION FairSpec
CONSTANTS
  Sessions = {c1}
  Fds = {f1}
  Broadcasters = {watcher, idle}
  Watcher = watcher
  None = None
  EventKinds = {"window", "ignored", "refresh"}
  PartCount = 2
  MaxClients = 1
  Stallers = {c1}
  SockCap = 1
  MaxEvents = 1
  MaxSubscribes = 1
  MaxCalls = 0
INVARIANTS TypeOK OwnState NoMissedState NoticesInOrder
PROPERTIES BroadcastEnds RequestsEnd
