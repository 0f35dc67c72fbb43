SPECIFICATION DaemonSpec
CONSTANTS
  Sessions = {c1}
  Fds = {f1}
  Broadcasters = {watcher}
  Watcher = watcher
  None = None
  EventKinds = {"window"}
  PartCount = 1
  MaxClients = 2
  Stallers = {c1}
  SockCap = 1
  MaxEvents = 1
  MaxSubscribes = 1
  MaxCalls = 0
PROPERTY BroadcastEnds
