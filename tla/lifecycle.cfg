SPECIFICATION FairSpec
CONSTANTS
  Daemons = {d1, d2}
  Backends = {"hyprland", "mango"}
  NoFile = NoFile
  Stale = Stale
INVARIANTS TypeOK OneDaemon OneReachable
PROPERTY StopEnds
