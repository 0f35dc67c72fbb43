SPECIFICATION Spec
CONSTANTS
  Windows = {w1, w2}
  Workspaces = {ws1, ws2}
  Nothing = Nothing
  Backends = {"hyprland", "niri"}
  ReuseIds = TRUE
  MaxOps = 3
  MaxFailures = 1
SYMMETRY Symmetry
INVARIANTS TypeOK NoLostWindow  RefreshRepairs GhostsWereOvertaken
