SPECIFICATION Spec
CONSTANTS
  Sessions = {c1}
  Fds = {f1}
  Broadcasters = {watcher}
  Watcher = watcher
  None = None
  EventKinds = {"window"}
  PartCount = 1
  MaxClients = 2
  Stallers = {}
  SockCap = 0
  MaxEvents = 1
  MaxSubscribes = 1
  MaxCalls = 0
INVARIANT OneMessagePerLine
