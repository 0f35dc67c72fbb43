------------------------------ MODULE StateCache ------------------------------
(***************************************************************************)
(* The state cache of the daemon (ipc/cache.c) and how the event watcher   *)
(* keeps it up to date (event_callback and server_init_cache of server.c,  *)
(* the event threads and list requests of the Hyprland and Niri clients).  *)
(*                                                                         *)
(* The compositor is a program of its own.  It answers requests with its   *)
(* state at that moment, and it queues events on a second socket, so an    *)
(* answer may be newer than the events that have not been read yet.  The   *)
(* daemon fills the cache first and only then opens the event socket.      *)
(*                                                                         *)
(* Abstractions.  A window has a workspace, two flags and the focus; a     *)
(* workspace of Hyprland is one whose name, which the events give, is its  *)
(* number, which the lists give, as it is unless the user renames it.  The *)
(* list of workspaces and the list of monitors are each represented by     *)
(* what changes in them, the active workspace.  Titles are left out, and   *)
(* only the event thread writes to the cache, one lock per call, so each   *)
(* call is one step.                                                       *)
(***************************************************************************)
EXTENDS Integers, SequencesExt

CONSTANTS
  Windows,      \* window ids: 64-bit numbers, so finitely many
  Workspaces,   \* workspaces
  Nothing,      \* no window, no workspace
  Backends,     \* a subset of {"hyprland", "niri"}
  ReuseIds,     \* the compositor may give a closed window's id to a new one
  MaxOps,       \* bound: what the compositor does
  MaxFailures   \* bound: requests that fail

ASSUME ConstantsAssumption ==
  /\ Nothing \notin Windows \cup Workspaces
  /\ IsFiniteSet(Windows)
  /\ Backends \subseteq {"hyprland", "niri"}
  /\ ReuseIds \in BOOLEAN
  /\ MaxOps \in Nat
  /\ MaxFailures \in Nat

VARIABLES
  backend,     \* the compositor that axctl_detect_compositor found
  win,         \* compositor: the open windows and their attributes
  focus,       \* compositor: the focused window
  active,      \* compositor: the active workspace
  closed,      \* compositor: the windows closed so far
  ops,         \* compositor: how often it has changed
  queue,       \* events written to the event socket and not read
  windows,     \* cache: the list of windows
  workspaces,  \* cache: the workspace marked active in the list of workspaces
  monitors,    \* cache: the workspace shown by the list of monitors
  connected,   \* the event thread has connected
  step,        \* the next request of server_init_cache, 0 outside it
  failed,      \* a request of the current refresh has failed
  failures,    \* requests that have failed so far
  synced,      \* history: the last refresh began connected and succeeded
  overtaken,   \* history: the windows listed last before their event was read
  lastEvent    \* history: the type of the last event queued

compositorVars == <<win, focus, active, closed, ops>>
cacheVars == <<windows, workspaces, monitors>>
refreshVars == <<step, failed, failures, synced, overtaken>>
vars == <<backend, compositorVars, queue, cacheVars, connected, refreshVars, lastEvent>>

-----------------------------------------------------------------------------
(* Windows and events *)

Attributes == [ws : Workspaces, floating : BOOLEAN, fullscreen : BOOLEAN]

Entries == [id : Windows, ws : Workspaces, floating : BOOLEAN,
            fullscreen : BOOLEAN, focused : BOOLEAN]

Entry(w, a, focused) ==
  [id |-> w, ws |-> a.ws, floating |-> a.floating, fullscreen |-> a.fullscreen,
   focused |-> focused]

\* The window object of an EVENT_WINDOW_CREATED has no more than the event
\* says: the workspace, and with Niri the focus.
EventWindow(w, ws) ==
  Entry(w, [ws |-> ws, floating |-> FALSE, fullscreen |-> FALSE],
        backend = "niri" /\ focus = w)

Created(w, ws) == [type |-> "created", window |-> EventWindow(w, ws)]
Closed(w) == [type |-> "closed", id |-> w]
Focused(w) == [type |-> "focused", id |-> w]
Refresh == [type |-> "refresh"]

\* With Niri every change of a window is a WindowOpenedOrChanged, which the
\* client translates to EVENT_WINDOW_CREATED.  The fullscreen event of
\* Hyprland names no window.
Moved(w, ws) == IF backend = "niri" THEN Created(w, ws)
                ELSE [type |-> "moved", id |-> w, ws |-> ws]
Floated(w, f) == IF backend = "niri" THEN Created(w, win[w].ws)
                 ELSE [type |-> "floating", id |-> w, floating |-> f]
Fullscreened(w) == IF backend = "niri" THEN Created(w, win[w].ws)
                   ELSE [type |-> "fullscreen"]

EventTypes == {"created", "closed", "focused", "moved", "floating", "fullscreen",
               "refresh"}

Event == [type : {"created"}, window : Entries]
           \cup [type : {"closed"}, id : Windows]
           \cup [type : {"focused"}, id : Windows \cup {Nothing}]
           \cup [type : {"moved"}, id : Windows, ws : Workspaces]
           \cup [type : {"floating"}, id : Windows, floating : BOOLEAN]
           \cup [type : {"fullscreen", "refresh"}]

Ids == {windows[i].id : i \in DOMAIN windows}

FirstIndex(id) ==
  CHOOSE i \in DOMAIN windows :
    windows[i].id = id /\ \A j \in 1 .. i - 1 : windows[j].id # id

-----------------------------------------------------------------------------
(* State *)

TypeOK ==
  /\ backend \in Backends
  /\ DOMAIN win \subseteq Windows
  /\ \A w \in DOMAIN win : win[w] \in Attributes
  /\ focus \in DOMAIN win \cup {Nothing}
  /\ active \in Workspaces
  /\ closed \subseteq Windows
  /\ ops \in 0 .. MaxOps
  /\ queue \in Seq(Event)
  /\ windows \in Seq(Entries)
  /\ workspaces \in Workspaces \cup {Nothing}
  /\ monitors \in Workspaces \cup {Nothing}
  /\ connected \in BOOLEAN
  /\ step \in 0 .. 4
  /\ failed \in BOOLEAN
  /\ failures \in 0 .. MaxFailures
  /\ synced \in BOOLEAN
  /\ overtaken \subseteq Windows
  /\ lastEvent \in EventTypes \cup {"none"}

\* axctl_server_create: the cache is empty and server_init_cache begins; the
\* compositor has been running for a while.
Init ==
  /\ backend \in Backends
  /\ \E open \in SUBSET Windows : \E ws \in Workspaces :
       win = [w \in open |-> [ws |-> ws, floating |-> FALSE, fullscreen |-> FALSE]]
  /\ focus \in DOMAIN win \cup {Nothing}
  /\ active \in Workspaces
  /\ closed = {}
  /\ ops = 0
  /\ queue = <<>>
  /\ windows = <<>>
  /\ workspaces = Nothing
  /\ monitors = Nothing
  /\ connected = FALSE
  /\ step = 1
  /\ failed = FALSE
  /\ failures = 0
  /\ synced = FALSE
  /\ overtaken = {}
  /\ lastEvent = "none"

-----------------------------------------------------------------------------
(* The compositor *)

\* What the compositor does is told on the event socket, once that is open.
Tell(events) ==
  /\ ops < MaxOps
  /\ ops' = ops + 1
  /\ IF connected
     THEN /\ queue' = queue \o events
          /\ lastEvent' = Last(events).type
     ELSE UNCHANGED <<queue, lastEvent>>
  /\ UNCHANGED <<backend, cacheVars, connected, refreshVars>>

OpenWindow(w, ws, f) ==
  /\ w \notin DOMAIN win
  /\ w \in closed => ReuseIds
  /\ win' = [v \in DOMAIN win \cup {w} |->
               IF v = w THEN [ws |-> ws, floating |-> f, fullscreen |-> FALSE]
                        ELSE win[v]]
  /\ Tell(<<Created(w, ws)>>)
  /\ UNCHANGED <<focus, active, closed>>

CloseWindow(w) ==
  /\ w \in DOMAIN win
  /\ win' = [v \in DOMAIN win \ {w} |-> win[v]]
  /\ closed' = closed \cup {w}
  /\ IF focus = w
     THEN focus' = Nothing /\ Tell(<<Closed(w), Focused(Nothing)>>)
     ELSE UNCHANGED focus /\ Tell(<<Closed(w)>>)
  /\ UNCHANGED active

FocusWindow(w) ==
  /\ w \in DOMAIN win \ {focus}
  /\ focus' = w
  /\ Tell(<<Focused(w)>>)
  /\ UNCHANGED <<win, active, closed>>

MoveWindow(w, ws) ==
  /\ w \in DOMAIN win
  /\ ws # win[w].ws
  /\ win' = [win EXCEPT ![w].ws = ws]
  /\ Tell(<<Moved(w, ws)>>)
  /\ UNCHANGED <<focus, active, closed>>

ToggleFloating(w) ==
  /\ w \in DOMAIN win
  /\ win' = [win EXCEPT ![w].floating = ~@]
  /\ Tell(<<Floated(w, ~win[w].floating)>>)
  /\ UNCHANGED <<focus, active, closed>>

ToggleFullscreen(w) ==
  /\ w \in DOMAIN win
  /\ win' = [win EXCEPT ![w].fullscreen = ~@]
  /\ Tell(<<Fullscreened(w)>>)
  /\ UNCHANGED <<focus, active, closed>>

\* A workspace switch, or something else that makes the daemon refresh: a
\* monitor event, a reloaded configuration, an event it does not know.
SwitchWorkspace(ws) ==
  /\ active' = ws
  /\ Tell(<<Refresh>>)
  /\ UNCHANGED <<win, focus, closed>>

Compositor ==
  \/ \E w \in Windows :
       \/ \E ws \in Workspaces, f \in BOOLEAN : OpenWindow(w, ws, f)
       \/ CloseWindow(w)
       \/ FocusWindow(w)
       \/ \E ws \in Workspaces : MoveWindow(w, ws)
       \/ ToggleFloating(w)
       \/ ToggleFullscreen(w)
  \/ \E ws \in Workspaces : SwitchWorkspace(ws)

-----------------------------------------------------------------------------
(* ipc/cache.c *)

AddWindow(entry) == windows' = Append(windows, entry)

\* Mutant: the entry behind the one that was found is removed.
RemoveNextWindow(id) ==
  windows' = IF id \in Ids /\ FirstIndex(id) < Len(windows)
             THEN RemoveAt(windows, FirstIndex(id) + 1) ELSE windows

\* Mutant: the entry is freed but the ones behind it do not move up.
RemoveWindowInPlace(id) ==
  windows' = IF id \in Ids THEN [windows EXCEPT ![FirstIndex(id)].id = Nothing] ELSE windows

\* Mutant: the loop ends one entry early.
RemoveWindowButLast(id) ==
  windows' = IF id \in Ids /\ FirstIndex(id) < Len(windows)
             THEN RemoveAt(windows, FirstIndex(id)) ELSE windows

\* The first entry with the id goes, the ones behind it move up.
RemoveWindow(id) ==
  windows' = IF id \in Ids THEN RemoveAt(windows, FirstIndex(id)) ELSE windows

\* The first entry with the id changes.
UpdateWorkspace(id, ws) ==
  windows' = IF id \in Ids THEN [windows EXCEPT ![FirstIndex(id)].ws = ws] ELSE windows

UpdateFloating(id, f) ==
  windows' = IF id \in Ids THEN [windows EXCEPT ![FirstIndex(id)].floating = f]
                           ELSE windows

\* Mutant: the mark is set and never taken back.
OnlySetFocused(id) ==
  windows' = [i \in DOMAIN windows |->
                IF windows[i].id = id THEN [windows[i] EXCEPT !.focused = TRUE]
                                      ELSE windows[i]]

\* Every entry is marked, or its mark removed.
MarkFocused(id) ==
  windows' = [i \in DOMAIN windows |-> [windows[i] EXCEPT !.focused = (windows[i].id = id)]]

-----------------------------------------------------------------------------
(* server_init_cache *)

\* list_windows of Hyprland marks no window as focused, that of Niri does.
Listing ==
  LET entries == {Entry(w, win[w], backend = "niri" /\ focus = w) : w \in DOMAIN win}
  IN SetToSeq(entries)

\* A request fails; what it was to replace stays.
Fail ==
  /\ failures < MaxFailures
  /\ failures' = failures + 1
  /\ failed' = TRUE
  /\ UNCHANGED cacheVars

\* The windows whose opening is still to be read from the event socket.
Announced == {queue[i].window.id : i \in {j \in DOMAIN queue : queue[j].type = "created"}}

\* Mutant: the new list goes behind the old one.
ListWindowsBehind ==
  \/ /\ windows' = windows \o Listing
     /\ overtaken' = Announced \cap DOMAIN win
     /\ UNCHANGED <<failed, failures, workspaces, monitors>>
  \/ Fail /\ UNCHANGED overtaken

\* list_windows, then axctl_cache_set_windows: the old list is freed and the
\* new one takes its place.
ListWindows ==
  \/ /\ windows' = Listing
     /\ overtaken' = Announced \cap DOMAIN win
     /\ UNCHANGED <<failed, failures, workspaces, monitors>>
  \/ Fail /\ UNCHANGED overtaken

\* active_window, then axctl_cache_mark_window_focused unless it is empty.
MarkActiveWindow ==
  \/ /\ IF focus = Nothing THEN UNCHANGED windows ELSE MarkFocused(focus)
     /\ UNCHANGED <<failed, failures, workspaces, monitors>>
  \/ Fail

\* Hyprland is asked twice: without the second answer no workspace is active.
ListWorkspaces ==
  \/ workspaces' = active /\ UNCHANGED <<failed, failures, windows, monitors>>
  \/ Fail
  \/ /\ backend = "hyprland"
     /\ failures < MaxFailures
     /\ failures' = failures + 1
     /\ failed' = TRUE
     /\ workspaces' = Nothing
     /\ UNCHANGED <<windows, monitors>>

\* list_monitors, then axctl_cache_set_monitors.
ListMonitors ==
  \/ monitors' = active /\ UNCHANGED <<failed, failures, windows, workspaces>>
  \/ Fail

\* One request and the write that follows it.
RefreshStep ==
  /\ \/ step = 1 /\ ListWindows
     \/ step = 2 /\ MarkActiveWindow /\ UNCHANGED overtaken
     \/ step = 3 /\ ListWorkspaces /\ UNCHANGED overtaken
     \/ step = 4 /\ ListMonitors /\ UNCHANGED overtaken
  /\ step' = (step + 1) % 5
  /\ synced' = IF step = 4 THEN connected /\ ~failed' ELSE synced
  /\ UNCHANGED <<backend, compositorVars, queue, connected, lastEvent>>

-----------------------------------------------------------------------------
(* The event thread *)

\* server_event_watcher subscribes; the thread opens the event socket.
Connect ==
  /\ ~connected
  /\ step = 0
  /\ connected' = TRUE
  /\ UNCHANGED <<backend, compositorVars, queue, cacheVars, refreshVars, lastEvent>>

\* event_callback.  Events whose payload lacks the id or the value change
\* nothing in the cache; every event is then broadcast (see Broadcast.tla).
Apply(e) ==
  \/ e.type = "created" /\ AddWindow(e.window)
  \/ e.type = "closed" /\ RemoveWindow(e.id)
  \/ e.type = "focused" /\ MarkFocused(e.id)
  \/ e.type = "moved" /\ UpdateWorkspace(e.id, e.ws)
  \/ e.type = "floating" /\ UpdateFloating(e.id, e.floating)
  \/ e.type \in {"fullscreen", "refresh"} /\ UNCHANGED windows

HandleEvent ==
  /\ connected
  /\ step = 0
  /\ queue # <<>>
  /\ queue' = Tail(queue)
  /\ Apply(Head(queue))
  /\ IF Head(queue).type = "refresh"
     THEN step' = 1 /\ failed' = FALSE
     ELSE UNCHANGED <<step, failed>>
  /\ UNCHANGED <<backend, compositorVars, workspaces, monitors, connected>>
  /\ UNCHANGED <<failures, synced, overtaken, lastEvent>>

Daemon == RefreshStep \/ Connect \/ HandleEvent

\* The compositor does nothing more and the daemon has read everything.
Finished ==
  /\ ops = MaxOps /\ connected /\ step = 0 /\ queue = <<>>
  /\ UNCHANGED vars

Next == Compositor \/ Daemon \/ Finished

Spec == Init /\ [][Next]_vars

-----------------------------------------------------------------------------
(* Properties *)

\* The event thread waits for the next event and there is none.
AtRest == connected /\ step = 0 /\ queue = <<>>

FocusedIds == {windows[i].id : i \in {j \in DOMAIN windows : windows[j].focused}}

\* Once a refresh has succeeded, no open window is missing from the cache,
\* unless the event that announces it is still unread, whatever the refreshes
\* that overtake events do.
NoLostWindow ==
  synced => \A w \in DOMAIN win :
    \/ w \in Ids
    \/ \E i \in DOMAIN queue : queue[i].type = "created" /\ queue[i].window.id = w

\* At rest the window marked as focused is the focused one: marks made early
\* by a refresh and late by old events give way to the last event.
FocusConverges ==
  AtRest /\ synced => FocusedIds = {focus} \cap Ids

\* A refresh repairs whatever went wrong before: if the last event was one
\* that refreshes and all requests were answered, the cache is the state of
\* the compositor, every window once.
RefreshRepairs ==
  AtRest /\ synced /\ lastEvent = "refresh" =>
    /\ {windows[i] : i \in DOMAIN windows} =
         {Entry(w, win[w], focus = w) : w \in DOMAIN win}
    /\ Len(windows) = Cardinality(DOMAIN win)
    /\ workspaces = active
    /\ monitors = active

\* With Hyprland nothing else than a refresh that overtakes the event of a new window leaves
\* a ghost: at rest, a window that the cache lists twice, or lists though it is not open, was
\* in the last list before its openwindow event was handled (axctl_cache_add_window appends
\* without looking for the id, and axctl_cache_remove_window stops at the first).
GhostsWereOvertaken ==
  backend = "hyprland" /\ AtRest /\ synced =>
    \A i, j \in DOMAIN windows :
      windows[i].id \notin overtaken => (windows[i].id = windows[j].id => i = j)
                                       /\ windows[i].id \in DOMAIN win

=============================================================================
