-------------------------------- MODULE Backends --------------------------------
(***************************************************************************)
(* The three compositors behind the vtable of include/ipc/compositor.h:    *)
(* which one the daemon takes (src/src/ipc/compositor.c), and for every    *)
(* method of dispatch_method its plan: the steps that dispatch_method and  *)
(* the function of the backend take, one after the other.                  *)
(*                                                                         *)
(* A Hyprland command may need the version, the window or a list first; a  *)
(* Niri command is one action; the Mango client is a stub whose tables no  *)
(* listener fills, so that it knows no output and declines every command.  *)
(***************************************************************************)

-----------------------------------------------------------------------------
(* Detection *)

\* The environment variables, of which the first two are also looked at for being empty,
\* and whether wl_display_connect succeeds.
Environment ==
  [signature : {"unset", "empty", "set"}, niri : {"unset", "empty", "set"},
   mango : BOOLEAN, wayland : BOOLEAN, display : BOOLEAN]

\* mango_compositor_create accepts a display that has its hint, or no sign of the others.
AcceptsMango(e) ==
  /\ e.display
  /\ e.mango \/ (e.wayland /\ e.signature = "unset" /\ e.niri = "unset")

\* Nobody asks whether the socket of the variable is there.
Detected(e) ==
  IF e.signature = "set" THEN "hyprland"
  ELSE IF e.niri = "set" THEN "niri"
  ELSE IF AcceptsMango(e) THEN "mango"
  ELSE "none"

-----------------------------------------------------------------------------
(* The methods *)

WindowMethods ==
  {"Window.List", "Window.Active", "Window.Focus", "Window.FocusDir", "Window.Close",
   "Window.Move", "Window.Resize", "Window.ToggleFloating", "Window.Fullscreen",
   "Window.Maximize", "Window.Pin", "Window.ToggleGroup", "Window.GroupNav",
   "Window.LayoutProp", "Window.MovePixel", "Window.MoveToWorkspaceSilent"}

WorkspaceMethods ==
  {"Workspace.List", "Workspace.Active", "Workspace.Switch", "Workspace.MoveTo",
   "Workspace.ToggleSpecial"}

MonitorMethods == {"Monitor.List", "Monitor.Focus", "Monitor.MoveTo", "Monitor.SetDpms"}

ConfigMethods ==
  {"Layout.Set", "Config.Get", "Config.Set", "Config.Apply", "Config.Batch",
   "Config.KeybindsBatch", "Config.RawBatch", "Config.Reload", "Config.GetAnimations",
   "Config.BindKey", "Config.UnbindKey"}

SystemMethods ==
  {"System.Execute", "System.GetCursorPosition", "System.Exit",
   "System.SwitchKeyboardLayout", "System.SetKeyboardLayouts", "System.GetCapabilities"}

IdleMonitorMethods ==
  {"System.IsIdle", "System.IsInputIdle", "System.IsInhibited",
   "System.IdleMonitorCreate", "System.IdleMonitorUpdate", "System.IdleMonitorGet",
   "System.IdleMonitorDestroy"}

InhibitorMethods ==
  {"System.IdleInhibit", "System.IdleInhibitorCreate", "System.IdleInhibitorSet",
   "System.IdleInhibitorGet", "System.IdleInhibitorDestroy", "System.InhibitSystem",
   "System.IsSystemInhibited", "System.AppInhibitCheck", "System.MediaInhibitCheck"}

\* Waits and System.Subscribe are modelled by Idle and Broadcast; "none" is any other name.
Methods ==
  WindowMethods \cup WorkspaceMethods \cup MonitorMethods \cup ConfigMethods
    \cup SystemMethods \cup IdleMonitorMethods \cup InhibitorMethods \cup {"none"}

-----------------------------------------------------------------------------
(* Steps *)

\* The steps that need no compositor.  "refuse" is AXCTL_ERR_NOT_SUPPORTED, "decline" an
\* error with a text.
LocalSteps ==
  {"cached", "payload", "parse", "collect", "files", "key", "idle", "refuse", "decline",
   "unknown"}

\* The steps that are a request to the compositor: those whose answer is parsed as JSON,
\* and commands.  Nobody looks at the failure of three of them.
Parsed == {"resolve", "list", "active", "version", "query", "also"}
Commands == {"dispatch", "keyword", "action"}
Optional == {"resolve", "version", "also"}

Steps == LocalSteps \cup Parsed \cup Commands \cup {"compare", "check"}

\* Mutant: the lists are asked of the compositor.
CachedNot == <<"query">>

Cached == <<"cached">>
Query == <<"query">>
Refuse == <<"refuse">>
Decline == <<"decline">>

-----------------------------------------------------------------------------
(* Hyprland *)

Keyword == <<"keyword">>
Versioned == <<"check", "dispatch">>
Targeted == <<"resolve", "check", "dispatch">>

WindowPlan(method) ==
  CASE method = "Window.List" -> Cached
    [] method = "Window.Active" -> Query
    [] method \in {"Window.Focus", "Window.FocusDir", "Window.GroupNav"} -> Versioned
    [] method = "Window.Fullscreen" ->
         <<"resolve", "list", "active", "compare", "check", "dispatch">>
    [] method = "Window.LayoutProp" -> <<"resolve", "refuse">>
    [] OTHER -> Targeted

WorkspacePlan(method) ==
  CASE method = "Workspace.List" -> Cached
    [] method = "Workspace.Active" -> Query
    [] method = "Workspace.MoveTo" -> Targeted
    [] OTHER -> Versioned

MonitorPlan(method) ==
  CASE method = "Monitor.List" -> Cached
    [] method = "Monitor.MoveTo" -> Targeted
    [] OTHER -> Versioned

ConfigPlan(method) ==
  CASE method \in {"Config.Get", "Config.GetAnimations"} -> Query
    [] method = "Config.Apply" -> <<"payload", "parse", "files", "keyword">>
    [] method = "Config.Batch" -> <<"collect", "keyword">>
    [] method = "Config.KeybindsBatch" -> <<"parse", "collect", "keyword">>
    [] OTHER -> Keyword

SystemPlan(method) ==
  CASE method \in {"System.Execute", "System.Exit"} -> Versioned
    [] method = "System.GetCursorPosition" -> Query
    [] method = "System.SetKeyboardLayouts" -> <<"keyword", "keyword">>
    [] method = "System.GetCapabilities" -> Cached
    [] OTHER -> Keyword

HyprlandPlan(method) ==
  CASE method \in WindowMethods -> WindowPlan(method)
    [] method \in WorkspaceMethods -> WorkspacePlan(method)
    [] method \in MonitorMethods -> MonitorPlan(method)
    [] method \in ConfigMethods -> ConfigPlan(method)
    [] OTHER -> SystemPlan(method)

-----------------------------------------------------------------------------
(* Niri *)

Action == <<"action">>
TargetedAction == <<"resolve", "action">>
TargetedRefuse == <<"resolve", "refuse">>

NiriWindowPlan(method) ==
  CASE method = "Window.List" -> Cached
    [] method = "Window.Active" -> Query
    [] method \in {"Window.Focus", "Window.FocusDir"} -> Action
    [] method = "Window.GroupNav" -> Refuse
    [] method \in {"Window.Resize", "Window.Pin", "Window.ToggleGroup", "Window.MovePixel"} ->
         TargetedRefuse
    [] OTHER -> TargetedAction

\* The output with the focus is asked for, and the workspaces whatever its name.
NiriWorkspacePlan(method) ==
  CASE method = "Workspace.List" -> Cached
    [] method = "Workspace.Active" -> <<"query", "also">>
    [] method = "Workspace.Switch" -> Action
    [] method = "Workspace.MoveTo" -> TargetedAction
    [] OTHER -> Refuse

NiriMonitorPlan(method) ==
  CASE method = "Monitor.List" -> Cached
    [] method = "Monitor.Focus" -> Action
    [] method = "Monitor.MoveTo" -> TargetedAction
    [] OTHER -> Refuse

\* Niri reads its own configuration again: after Config.Apply, too, there is nothing to do.
NiriConfigPlan(method) ==
  CASE method = "Config.Set" -> <<"key", "action">>
    [] method = "Config.Apply" -> <<"payload", "parse", "files">>
    [] method = "Config.Batch" -> <<"collect", "refuse">>
    [] method = "Config.Reload" -> Cached
    [] OTHER -> Refuse

NiriSystemPlan(method) ==
  CASE method \in {"System.Execute", "System.Exit", "System.SwitchKeyboardLayout"} -> Action
    [] method = "System.GetCapabilities" -> Cached
    [] OTHER -> Refuse

NiriPlan(method) ==
  CASE method \in WindowMethods -> NiriWindowPlan(method)
    [] method \in WorkspaceMethods -> NiriWorkspacePlan(method)
    [] method \in MonitorMethods -> NiriMonitorPlan(method)
    [] method \in ConfigMethods -> NiriConfigPlan(method)
    [] OTHER -> NiriSystemPlan(method)

-----------------------------------------------------------------------------
(* Mango *)

\* mango_active_window finds no window and says so without an error.
MangoWindowPlan(method) ==
  IF method \in {"Window.List", "Window.Active"} THEN Cached ELSE Decline

MangoWorkspacePlan(method) == IF method = "Workspace.List" THEN Cached ELSE Decline

MangoMonitorPlan(method) == IF method = "Monitor.List" THEN Cached ELSE Decline

MangoConfigPlan(method) ==
  CASE method = "Config.Apply" -> <<"payload", "parse", "files", "decline">>
    [] method = "Config.Batch" -> <<"collect", "decline">>
    [] OTHER -> Decline

MangoSystemPlan(method) == IF method = "System.GetCapabilities" THEN Cached ELSE Decline

MangoPlan(method) ==
  CASE method \in WindowMethods -> MangoWindowPlan(method)
    [] method \in WorkspaceMethods -> MangoWorkspacePlan(method)
    [] method \in MonitorMethods -> MangoMonitorPlan(method)
    [] method \in ConfigMethods -> MangoConfigPlan(method)
    [] OTHER -> MangoSystemPlan(method)

-----------------------------------------------------------------------------

BackendPlan(backend, method) ==
  CASE backend = "hyprland" -> HyprlandPlan(method)
    [] backend = "niri" -> NiriPlan(method)
    [] OTHER -> MangoPlan(method)

\* The first two kinds of plan are of the server alone.
Plan(backend, method) ==
  CASE method = "none" -> <<"unknown">>
    [] method \in IdleMonitorMethods \cup InhibitorMethods -> <<"idle">>
    [] OTHER -> BackendPlan(backend, method)

=============================================================================
