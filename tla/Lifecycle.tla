------------------------------- MODULE Lifecycle -------------------------------
(***************************************************************************)
(* The life of daemons that share one socket path: run_daemon of           *)
(* src/src/main.c, axctl_server_start and axctl_server_destroy of          *)
(* src/src/server/server.c, and the end of the threads that they wait for. *)
(*                                                                         *)
(* The path is all that keeps two daemons apart: one that starts connects  *)
(* to it, and gives up if somebody answers.  It is unlinked five times in  *)
(* the life of a daemon, whosever socket it stands for.                   *)
(*                                                                         *)
(* Abstractions.  The configuration is one step (see ConfigWatch), and so  *)
(* is a callback (see Broadcast and Idle).  A thread that uses memory that *)
(* shutdown has freed crashes the process, as Kill does, or goes on; what  *)
(* it may then do to the path is modelled.  Nobody else touches the path.  *)
(***************************************************************************)
EXTENDS Integers, FiniteSets

CONSTANTS
  Daemons,      \* the processes; one that has ended may be started again
  Backends,     \* the compositors there may be: "hyprland", "niri", "mango"
  NoFile,       \* the path does not exist
  Stale         \* the path is a socket of a process that is no more

ASSUME LifecycleAssumption ==
  /\ Backends \subseteq {"hyprland", "niri", "mango"}
  /\ {NoFile, Stale} \cap Daemons = {}
  /\ NoFile # Stale

VARIABLES
  backend,      \* the compositor, which axctl_detect_compositor finds
  path,         \* whose socket the path is
  proc,         \* the processes
  raced,        \* history: a start has met another start or a stop
  ended         \* history: a daemon has ended or has been told to

vars == <<backend, path, proc, raced, ended>>

-----------------------------------------------------------------------------
(* Types *)

MainPcs ==
  {"off", "check", "clean", "create", "spawn", "serve", "unlink", "close",
   "unlinkAgain", "idle", "compositor", "exit"}

Processes ==
  [main : MainPcs,
   server : {"none", "unlink", "bind", "listen", "accept", "failed"},
   listen_fd : {"none", "open", "closed"},
   events : {"none", "subscribe", "running"},
   dispatch : {"none", "running"},
   told : BOOLEAN]

Off ==
  [main |-> "off", server |-> "none", listen_fd |-> "none", events |-> "none",
   dispatch |-> "none", told |-> FALSE]

Alive(d) == proc[d].main # "off"

\* The type invariant; the path never stands for a socket that its owner has not bound.
TypeOK ==
  /\ backend \in Backends
  /\ path \in Daemons \cup {NoFile, Stale}
  /\ proc \in [Daemons -> Processes]
  /\ raced \in BOOLEAN /\ ended \in BOOLEAN
  /\ path \in Daemons =>
       Alive(path) /\ proc[path].server \in {"listen", "accept", "failed"}

\* Nobody runs; a daemon that was killed may have left its socket behind.
Init ==
  /\ backend \in Backends
  /\ path \in {NoFile, Stale}
  /\ proc = [d \in Daemons |-> Off]
  /\ raced = FALSE
  /\ ended = FALSE

-----------------------------------------------------------------------------
(* Phases *)

\* From the check to the listening socket.
Starting(d) ==
  \/ proc[d].main \in {"check", "clean", "create", "spawn"}
  \/ proc[d].main = "serve" /\ ~proc[d].told /\ proc[d].server \in {"unlink", "bind", "listen"}

\* From the signal until nothing in the process touches the path any more.
Stopping(d) ==
  \/ proc[d].main \in {"unlink", "close", "unlinkAgain"}
  \/ proc[d].main = "serve" /\ proc[d].told
  \/ proc[d].main \in {"idle", "compositor", "exit"}
       /\ proc[d].server \in {"unlink", "bind", "listen"}

Overlap ==
  \E d, e \in Daemons : d # e /\ Starting(d) /\ (Starting(e) \/ Stopping(e))

Goto(d, from, to) ==
  /\ proc[d].main = from
  /\ proc' = [proc EXCEPT ![d].main = to]

\* Mutant: the socket of the process is thought to be gone with it.
DieClean(d) ==
  /\ proc' = [proc EXCEPT ![d] = Off]
  /\ UNCHANGED path

\* The process is gone, with all its threads; its socket is still there.
Die(d) ==
  /\ proc' = [proc EXCEPT ![d] = Off]
  /\ path' = IF path = d THEN Stale ELSE path

-----------------------------------------------------------------------------
(* run_daemon: the start *)

Start(d) == Goto(d, "off", "check") /\ UNCHANGED path

\* Mutant: whoever answers, the daemon goes on.
CheckNot(d) == Goto(d, "check", "clean") /\ UNCHANGED path

\* connect: somebody must listen at the other end.  Then "axctl daemon is already running".
Check(d) ==
  /\ proc[d].main = "check"
  /\ IF path \in Daemons /\ proc[path].server = "accept"
     THEN Die(d)
     ELSE Goto(d, "check", "clean") /\ UNCHANGED path

\* unlink, for a stale socket.
CleanStale(d) == Goto(d, "clean", "create") /\ path' = NoFile

\* axctl_server_create: the idle manager, which may have no display, and a thread that will
\* subscribe to the compositor's events.  Then the configuration.
Create(d) ==
  /\ proc[d].main = "create"
  /\ \E dispatch \in {"none", "running"} :
       proc' = [proc EXCEPT ![d].main = "spawn", ![d].events = "subscribe",
                            ![d].dispatch = dispatch]
  /\ UNCHANGED path

\* The signals, of which one that comes earlier kills, and the thread of the server.
Spawn(d) ==
  /\ proc[d].main = "spawn"
  /\ proc' = [proc EXCEPT ![d].main = "serve", ![d].server = "unlink"]
  /\ UNCHANGED path

-----------------------------------------------------------------------------
(* axctl_server_start *)

\* s->socket_path is freed: it may still spell the path, or something else.
Dangling(d) == proc[d].main \in {"idle", "compositor", "exit"}

ServerUnlinks(d) ==
  /\ proc[d].server = "unlink"
  /\ proc' = [proc EXCEPT ![d].server = "bind", ![d].listen_fd = "open"]
  /\ path' \in {NoFile} \cup (IF Dangling(d) THEN {path} ELSE {})

BindTo(d, name, server) ==
  /\ path' = name
  /\ proc' = [proc EXCEPT ![d].server = server]

\* Mutant: the way out of an error cleans up the path, too.
BindCleansUp(d) ==
  /\ proc[d].server = "bind"
  /\ \/ path = NoFile /\ proc[d].listen_fd = "open" /\ BindTo(d, d, "listen")
     \/ path # NoFile /\ BindTo(d, NoFile, "failed")
     \/ proc[d].listen_fd = "closed" /\ BindTo(d, NoFile, "failed")
     \/ Dangling(d) /\ BindTo(d, path, "listen")

\* bind fails when the path exists and when the main thread has closed the socket; the main
\* thread does not notice.
Bind(d) ==
  /\ proc[d].server = "bind"
  /\ \/ path = NoFile /\ proc[d].listen_fd = "open" /\ BindTo(d, d, "listen")
     \/ path # NoFile /\ BindTo(d, path, "failed")
     \/ proc[d].listen_fd = "closed" /\ BindTo(d, path, "failed")
     \/ Dangling(d) /\ BindTo(d, path, "listen")

\* listen; then accept for ever, as a close by another thread does not wake it.
Listen(d) ==
  /\ proc[d].server = "listen"
  /\ proc' = [proc EXCEPT ![d].server =
                IF proc[d].listen_fd = "closed" THEN "failed" ELSE "accept"]
  /\ UNCHANGED path

ServerStep(d) == ServerUnlinks(d) \/ Bind(d) \/ Listen(d)

-----------------------------------------------------------------------------
(* run_daemon: the stop *)

\* SIGINT or SIGTERM: g_running = 0.
Terminate(d) ==
  /\ proc[d].main = "serve" /\ ~proc[d].told
  /\ proc' = [proc EXCEPT ![d].told = TRUE]
  /\ UNCHANGED path

\* A signal that nothing catches, or a crash.
Kill(d) == Alive(d) /\ Die(d)

\* The loop ends, and axctl_config_watcher_stop.
LeaveLoop(d) == proc[d].told /\ Goto(d, "serve", "unlink") /\ UNCHANGED path

Unlink(d) == Goto(d, "unlink", "close") /\ path' = NoFile

\* axctl_server_destroy.
CloseListener(d) ==
  /\ proc[d].main = "close"
  /\ proc' = [proc EXCEPT ![d].main = "unlinkAgain",
                          ![d].listen_fd = IF @ = "open" THEN "closed" ELSE @]
  /\ UNCHANGED path

UnlinkAgain(d) == Goto(d, "unlinkAgain", "idle") /\ path' = NoFile

\* axctl_wayland_disconnect has set ctx->running = 0 and joins the dispatch thread; then
\* the server is freed.
JoinDispatch(d) ==
  /\ proc[d].dispatch = "none"
  /\ Goto(d, "idle", "compositor")
  /\ UNCHANGED path

\* hypr_destroy and niri_destroy have set event_running = false and join the event thread,
\* if there is one; mango_destroy does not.
JoinEvents(d) ==
  /\ backend \in {"hyprland", "niri"} => proc[d].events # "running"
  /\ Goto(d, "compositor", "exit")
  /\ UNCHANGED path

Exit(d) == proc[d].main = "exit" /\ Die(d)

MainStep(d) ==
  \/ Check(d) \/ CleanStale(d) \/ Create(d) \/ Spawn(d)
  \/ LeaveLoop(d) \/ Unlink(d) \/ CloseListener(d) \/ UnlinkAgain(d)
  \/ JoinDispatch(d) \/ JoinEvents(d) \/ Exit(d)

-----------------------------------------------------------------------------
(* The event thread and the dispatch thread *)

EventsGoto(d, from, to) ==
  /\ proc[d].events = from
  /\ proc' = [proc EXCEPT ![d].events = to]
  /\ UNCHANGED path

\* The thread of the subscription starts the event thread, which may find no event socket.
Subscribe(d) == EventsGoto(d, "subscribe", "running") \/ EventsGoto(d, "subscribe", "none")

\* Mutant: the event thread does not look at event_running.
EventUnnoticed(d) ==
  EventsGoto(d, "running", "running") \/ (proc[d].main # "compositor" /\ EventsGoto(d, "running", "none"))

\* The compositor closes the event socket; or an event comes, which the thread handles
\* before it looks at event_running again.
Event(d) ==
  \/ EventsGoto(d, "running", "none")
  \/ proc[d].main \notin {"compositor", "exit"} /\ EventsGoto(d, "running", "running")

DispatchGoto(d, to) ==
  /\ proc[d].dispatch = "running"
  /\ proc' = [proc EXCEPT ![d].dispatch = to]
  /\ UNCHANGED path

\* The display is lost; or a Wayland event comes, which is dispatched before the loop looks
\* at ctx->running again.
Display(d) ==
  DispatchGoto(d, "none") \/ (proc[d].main # "idle" /\ DispatchGoto(d, "running"))

-----------------------------------------------------------------------------
(* Specifications *)

Step(d) ==
  \/ Start(d) \/ MainStep(d) \/ ServerStep(d) \/ Terminate(d) \/ Kill(d)
  \/ Subscribe(d) \/ Event(d) \/ Display(d)

Served(d) == proc[d].main \notin {"off", "check"}

\* When everybody has ended, what happened before does not matter any more.
Remember ==
  LET quiet == \A d \in Daemons : proc'[d] = Off
      ends == \E d \in Daemons : proc'[d].told \/ (Served(d) /\ proc'[d] = Off)
  IN  /\ raced' = (~quiet /\ (raced \/ Overlap'))
      /\ ended' = (~quiet /\ (ended \/ ends))
      /\ UNCHANGED backend

Next == \E d \in Daemons : Step(d) /\ Remember

Spec == Init /\ [][Next]_vars

\* The threads run.  A signal need not come, nor an event, but for the one that ends a wait
\* of the shutdown.
FairSpec ==
  /\ Spec
  /\ \A d \in Daemons :
       /\ WF_vars(MainStep(d) /\ Remember)
       /\ WF_vars(ServerStep(d) /\ Remember)
       /\ WF_vars(Subscribe(d) /\ Remember)
       /\ WF_vars(proc[d].main = "idle" /\ Display(d) /\ Remember)
       /\ WF_vars(proc[d].main = "compositor" /\ Event(d) /\ Remember)

-----------------------------------------------------------------------------
(* Properties *)

\* It has been started, and nobody has told it to stop.
Running(d) == Served(d) /\ ~proc[d].told

Serving(d) == Running(d) /\ proc[d].server = "accept"

\* "Single instance check" (main.c, lines 221-236): as long as no start meets another start
\* or a stop, at most one daemon runs, and when it serves, the path is its socket, whatever
\* sockets killed daemons have left there and however often the path is unlinked.
OneDaemon ==
  ~raced => \A d \in Daemons :
    /\ Running(d) => \A e \in Daemons : Running(e) => e = d
    /\ Serving(d) => path = d

\* Every daemon that there is has come to the end of its start, for better or worse.
Settled ==
  \A d \in Daemons : Alive(d) => proc[d].main = "serve" /\ proc[d].server \in {"accept", "failed"}

\* Daemons that start together unlink each other's sockets, and a bind may fail; but as long
\* as none of them ends, one of them can be reached when all have started: each unlinks
\* before it binds, so the last unlink is followed by a bind.
OneReachable ==
  (Settled /\ ~ended /\ \E d \in Daemons : Alive(d)) => path \in Daemons /\ Serving(path)

\* A daemon that is told to stop ends, if only an event comes to each thread that it joins:
\* the dispatch thread and the event thread look at their flags after every event.
StopEnds == \A d \in Daemons : proc[d].told ~> ~Alive(d)

=============================================================================
