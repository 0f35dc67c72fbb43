# Verification of the axctl daemon

TLA+ models of axctl, a daemon that gives one JSON-RPC interface to three
Wayland compositors (Hyprland, Niri, Mango), with TLC runs and TLAPS proofs.
Paths below are relative to the repository; line numbers are those of the
commit the models were translated from. `PROJECT.json` maps every definition to
the lines it stands for and lists the hazards the properties are aimed at.

Run a model with `tlc -config <run>.cfg <module>.tla`, check the proofs with
`tlapm Broadcast_proofs.tla`, and so on for `BroadcastFeed_proofs`,
`StateCache_proofs`, `Idle_proofs`, `IdleProxies_proofs`, `ConfigWatch_proofs`,
`Rpc_proofs` and `Lifecycle_proofs`.

## The system

| Part | State | Operations | Correct when |
|---|---|---|---|
| Connections and subscriptions (`src/server/server.c`) | `client_fds[MAX_CLIENTS]`, `client_count` under `clients_mu`; one detached thread per connection | `accept` loop, `handle_connection`, `System.Subscribe`, `broadcast_event`, removal and `close` | the table holds open, subscribed connections and each once; every subscriber hears every notification in order; one client cannot stop the others; messages do not mix |
| State cache (`src/ipc/cache.c`) | lists of windows, workspaces, monitors under one `pthread_rwlock` | add, remove, update, mark, set, get | follows the compositor: nothing lost, nothing left over, one focus |
| Event pipeline (`event_callback`, `server_init_cache`, event threads of `src/ipc/hyprland/client.c` and `src/ipc/niri/client.c`) | none of its own; an event socket and a request socket per request | parse an event, update or refresh the cache, broadcast | a notification carries the state its event produced; a refresh repairs the cache |
| RPC dispatch (`handle_connection`, `dispatch_method`, `src/ipc/errors.c`) | a JSON tokener per connection, an error text per thread | 63 methods, one `strcmp` chain | every request of a client that waits is answered once; a reply that reports success follows a success, an error text belongs to its request |
| Compositor detection and commands (`src/ipc/compositor.c`, `src/ipc/hyprland/client.c`, `src/ipc/niri/client.c`, `src/ipc/mango/client.c`) | which of the three it is; the request mutex `d->mu`; the version of Hyprland, once it is known | one request to the compositor, or a few in a row | commands in the syntax the compositor understands; full screen as asked; a compositor that hangs stops no more than what needs it |
| Idle monitors and inhibitors (`src/server/idle.c`, `src/ipc/wayland/wayland_client.c`) | fixed tables of monitors and inhibitors under `im->mu`; Wayland objects; a child process | create, update, get, destroy, wait, inhibit; `idled`/`resumed` callbacks on the Wayland dispatch thread | a monitor reports what the compositor last said; waits end; no callback after destroy |
| Configuration (`src/config/config.c`, `src/server/config_handler.c`) | list of key/value pairs; inotify watch; generated files | load with includes, apply, reload | includes terminate and none is lost, the main file overrides, what was saved is what is loaded, the compositor has read whole files |
| Lifecycle (`src/main.c`, `axctl_server_create/start/destroy`) | the socket path | single-instance check, bind, signals, shutdown | one daemon at a time, and it can be reached; a stop ends |
| Generators, colours, JSON and string helpers | none | sequential code | unit tests |

### Threads and what they share

    compositor --events--> event thread --> cache --> broadcast_event --\
    Wayland server --------> dispatch thread (idle) -> broadcast_event --+--> sockets
    clients --requests----> one thread per connection ------------------/
                                |
    editor --inotify--> watcher thread --> generated files --> reload_config

* The event thread is the only writer of the cache. It writes once per event, or
  up to four times in a refresh, each time under the cache's own lock; the lock
  is never held across two writes.
* `clients_mu` protects the table and is held during the whole of
  `broadcast_event`, which includes blocking writes to every subscriber.
* Connection threads write replies to their socket under no lock.
* Requests to the compositor are made one at a time, with `d->mu` held from the
  connect to the end of the answer; the lists are answered from the cache and need none.
* A descriptor number is shared by the kernel, the table and the write loop.
* The main thread, the watcher thread and the connection threads (`Config.Apply`)
  write the generated files under no lock.

### What is hard here

Interleavings of three kinds of threads; a table of numbers that the kernel
recycles; blocking calls inside a critical section; events that arrive after the
answer to a later request; requests that fail in the middle of a refresh;
clients that stop reading or hang up at any point; a file that is saved in pieces
while it is read, by editors that write it, replace it or unlink it; processes that start, stop
and are killed over one socket path. The path is all that outlives a daemon, and no message is
retried, so crash recovery is about stale sockets and duplicate delivery does not arise.

## Modules

| Module | Models | Status |
|---|---|---|
| `EventFeed` | what the daemon promises its subscribers: an in-step publish/subscribe feed (abstract specification) | done |
| `Broadcast` | connections, subscriptions, notifications; implements `EventFeed` | done |
| `Broadcast_proofs` | theorems about `Broadcast`: the table and the write loop | four theorems |
| `BroadcastFeed_proofs` | theorems about what connections hear; `Broadcast` implements `EventFeed` | four theorems |
| `StateCache` | the cache, the refresh and the two event sources | done |
| `StateCache_proofs` | theorems about `StateCache` | five theorems |
| `Idle` | the idle manager: monitors, one-shot waits, inhibitors, the Wayland dispatch thread, shutdown | done, without the `systemd-inhibit` child |
| `Idle_proofs` | theorems about `Idle`: monitors and their reports | three theorems |
| `IdleProxies_proofs` | theorems about `Idle`: notifications, waits and inhibitors | five theorems |
| `ConfigLoader` | `axctl_load_config`: includes, limits, lookup | done, without arrays of tables |
| `ConfigApply` | `axctl_config_handler_apply`: the generated files and the reload | done |
| `ConfigWatch` | composes both: start, watcher, editor, `Config.Apply` | done, without the stop at shutdown |
| `ConfigWatch_proofs` | theorems about `ConfigWatch` | six theorems |
| `Backends` | which compositor is detected, and the plan of every method for each of the three (no state) | done |
| `Rpc` | requests and replies: reading, dispatch, the error text, the requests to the compositor; runs the plans of `Backends` | done |
| `Rpc_proofs` | theorems about `Rpc` | five theorems |
| `Lifecycle` | daemons that share a socket path: check, start, bind, signals, kill, shutdown and its joins | done, without the configuration watcher |
| `Lifecycle_proofs` | theorems about `Lifecycle` | three theorems |
| `MCBroadcast`, `MCStateCache`, `MCIdle`, `MCConfigWatch`, `MCRpc`, `MCLifecycle` | instances for TLC: symmetry sets, file trees, sets of requests | done |

### Broadcast

State, one variable for one: `client_fds` and `clients_mu` are the fields of
`struct axctl_server` (67-79); `bpc`, `bdump`, `cursor` are the local state of
`broadcast_event` in each thread that calls it (the watcher, and the Wayland
dispatch thread for `idle_monitor_changed_cb`); `pc`, `fd`, `half`, `sdump` the
local state of `handle_connection` and of the `System.Subscribe` branch;
`client`, `asked`, `stream`, `line_buf`, `backlog` the client and its socket.
`cache` keeps a write stamp for each list, which is all the properties need:
which write a dump contains. `published` and `joinedAt` are history.

One action is one critical section or one system call: `ApplyEvent` (an event
applied to the cache), `RefreshStep` (one request of `server_init_cache` and
its write), `EnterBroadcast` (lock, return early when the table is empty),
`BuildNotice` and `BuildDump` (one `axctl_cache_get_*` each), `SendText` and
`SendNewline` (the two `write` calls), `AddClient`, `RemoveClient` (the locked
regions of lines 970-977 and 1090-1097), `CloseFd`. `write` reaches the
connection that owns the number at that moment, is lost when the peer has gone,
and waits while the buffer of a peer that does not read is full: no code sets
`O_NONBLOCK`.

`EventFeed` states the promise without threads: notifications are published one
at a time, a member hears each of them once and in order from joining to hanging
up, and the next is published only when every member on the line has heard the
last. The refinement mapping takes `heard` to be the notifications in a
connection's stream (`Notices`, a recursive function) and `gone` the clients that
hung up; `published` and `joinedAt` map to themselves.

### StateCache

The compositor is part of the model: its windows, focus and active workspace,
and the queue of the event socket. Requests are answered with the state of the
moment; so an answer overtakes events still in the queue, which is how the
daemon's picture can differ. `Apply` is `event_callback` for what the two clients
really send (a fullscreen event without an id, a Niri change as a second
"created"), with the five functions of `cache.c` beneath it, translated with
their "first match" rule; `RefreshStep` is `server_init_cache` request by
request, each of which may fail.

A refresh that has read a window before its `openwindow` event is applied makes
the list hold it twice (`axctl_cache_add_window` does not look for the id), and
`closewindow` removes one copy: a ghost. `overtaken` is history: the windows that the
last refresh listed while their `openwindow` event was still in the queue
(`Announced`). `GhostsWereOvertaken` says that this is the only way to a ghost.

### Idle

State: `mu`, `monitors`, `inhibitors`, `legacy_inhibitor_id` and
`next_inhibitor_id` are the fields of `struct axctl_idle_manager`; a monitor and
an inhibitor are records of the fields the code tests, a back pointer
(`manager`) and the Wayland object included. `contexts`, `fired` and `resumed`
are the heap-allocated contexts of the one-shot waits. `pc` and `req` are the
connection threads and the locals of the request each serves; `dpc` and
`callback` the dispatch thread. `queue`, `proxies`, `listener` and `acks_due`
are what libwayland and the socket hold, `user_active` and `idling` what the
compositor knows; these are external and modelled from how `idle.c` uses them:
an event of a proxy that is destroyed, or has no listener yet, is dropped by the
dispatch; the data pointer of a callback is read when it begins; the answer to a
destroyed object (`delete_id`) wakes `wl_display_dispatch` like any event.

One action is one critical section or one call between two of them.
`refresh_monitor` is two steps although it runs under `im->mu`: the
notification is requested in the first and its listener set in the second
(`Refresh`, `Listen`), because the dispatch thread reads events without the
mutex and can meet a notification without listener. `System.IdleMonitorUpdate`
is `ReadMonitor` and `UpdateMonitor`, its two critical sections.
`set_monitor_idle` is `ReadManager` (the test outside the mutex),
`SetMonitorIdle` (the critical section) and `Report` (`on_changed`, after it). A
wait is `BeginWait`, `Attach`, `EndWait`, `FreeContext`; the kind `check` is
`axctl_idle_is_idle`, which waits for 50 ms and not for an event. What a
callback does to a freed context is undefined; `stray` marks such behaviours,
and only the properties that depend on the context's flags leave them out.
Shutdown is `Clear`, `StopRunning` and `Free`; requests are served until then,
as in the code, since nothing stops the connection threads.

### Configuration: ConfigLoader, ConfigApply, ConfigWatch

`ConfigLoader` has one variable for each part of `struct axctl_toml_config`:
`entries` is the list from `head` to `tail`, one element for each file parsed,
and `includes` the array. The recursion of `parse_toml_file` is a step machine:
`stack` holds the `i` of each call, and because all calls share the array, a
call goes over every file listed so far, those of its callers too, while the
calls it makes lengthen it. `Include` is one turn of the loop (a call that is
too deep or finds no file is ignored, as in the code), `Return` the end of a
call. A file is read in one step: an editor that writes while it is read adds
only mixtures, and half a file is among the contents anyway (`Empty` after
`O_TRUNC`). `ToConfig` is the lookup of every key (`kv_get`: first match wins).

`ConfigApply` is `axctl_config_handler_apply` with its two files. `Truncate`
is `fopen` with "w", `PutBlock` a write at the writer's own offset: two threads
in the same file overwrite each other's blocks and may leave holes. Either
file may fail to open (`Faults`); the first failure returns, the second is
passed over. The compositor is Hyprland, the one with two files; its
`reload_config` is taken to reread both at once and not to fail.

`ConfigWatch` adds the main thread (`mpc`: stat, load, apply, start the watcher,
serve), the watcher thread (`wpc`: read, debounce, drain, load, apply), and
outside the daemon the editor and inotify. A watch is on an inode (`watch`,
`inode`): `Relink` takes the name to another one and, since a removed file takes
its watch along, wakes the watcher a last time with `IN_IGNORED`. `pending` is a
flag since `watcher_loop` reads all events and looks at none. Connection threads
begin and end `Config.Apply`. `loaded` and `unseen` are history: what the last
load saw, and that the last change came before there was a watch.

Left out: changes of the files that are included, which have no watch; the
keyboard layout and layout requests that follow an application, one request
each; `axctl_config_watcher_stop`, which belongs to the shutdown.

### Rpc

A connection has its socket (`inbox`), the tokener (`tok`) and the locals of
`handle_connection` and `dispatch_method`: the request (`now`, `asked`), `rc`
(`failed`), the id (`target`), and for `hypr_set_fullscreen` and
`hypr_dispatch_versioned` what they have read (`seen`, `use_lua`). `error_buf` is
the thread-local text of `errors.c`: the number of the request that wrote it
instead of the text. `mu` and `version` are `d->mu` and the two fields under
`d->version_mu`.

`dispatch_method` is a table: `Plan` of `Backends` gives for every method the steps
its branch takes in the server and in the client of the compositor, in their order,
and `todo` is what is left of them. Which client that is (`backend`) is decided once,
by `Detected`: the first whose variables are set, Mango on any other display. A
Hyprland command may have to find out the window, the version or the state of
full screen first. A Niri command is one action, whose empty answer is an error
(`NeedsAnswer`); many are refused with a code (`Refuse`). The Mango client is a stub:
no listener fills its tables, so it has no output, every command ends in
`axctl_set_error` (`Decline`) and every list is empty. Each kind of step is an action: `Local` (arguments, the cache, the
idle manager, files), `Compare`, `Skip` and `Check` (the tests of
`hypr_set_fullscreen`, `resolve_id` and `hypr_supports_lua`), `Lock` and `Dispatch`
(a request to the compositor, from taking `d->mu` to releasing it). A failure drops
the rest of the plan (`Fail`), but for the two requests whose failure nobody looks
at (`Optional`). `Read` takes any number of pieces of what has arrived, as `read`
may, and `Parse` is `json_tokener_parse_ex`: it goes on with what the tokener
holds and ends with the first text; what follows in the same buffer is lost.
`Reply` ends the request with the error text first, the result second; a failure
without text has the result "error", unless the backend left one behind: Niri's
`get_config` and `get_animations` leave `{}`, so that such a failure does not look like
one (`blank` in `ReplyKind`).

The compositor is external: `screen` has the focused window and the windows in
full screen, the two things `hypr_set_fullscreen` depends on; any other command,
and anyone else, may change both in any way. It may reject, answer nothing or
something that is no JSON (`empty`), be unreachable, or hang with the request
(`Faults`). `broken` and `calm` are history: the steps that went wrong, and that
nobody came between.

### Lifecycle

Each process has the place of its main thread (`main`), of the thread of
`axctl_server_start` (`server`, with `listen_fd`), of the event thread and of the
Wayland dispatch thread; `told` is `~g_running`. `path` is whose socket the path is:
a daemon's, nobody's (`Stale`), or that it does not exist. The path is unlinked before
the server is created, before `bind`, and twice in the shutdown; `connect` succeeds
only if the owner is in `listen`. A killed process (`Kill`, at any time) leaves a
stale socket, and any process may start again.

Shutdown is one action per call: `LeaveLoop`, `Unlink`, `CloseListener`,
`UnlinkAgain`, `JoinDispatch`, `JoinEvents`, `Exit`; the thread of the server goes on
meanwhile, with a `socket_path` that is freed (`Dangling`: it spells the path or
something else). A thread that uses freed memory crashes the process, which is
`Kill`, or goes on.

`raced` and `ended` are history, forgotten when every process is off: a start has met
another start or a stop; a daemon has been told to stop or has died. Without `raced` the
check for another daemon does what it says (`OneDaemon`). With it, it does not: two
daemons that start together both run, and the one whose socket was unlinked is
never heard of again; a daemon that starts between the two unlinks of another's
shutdown loses its socket. `OneReachable` is what is left then: of those that start
together, one can be reached.

## Runs

| Run | Expect | Shows |
|---|---|---|
| `broadcast_members` | pass | two clients, two descriptors, one event source: `TableSound`, `WriteLoopSound`, and `EventFeed` is implemented |
| `broadcast_order` | pass | two event sources, one client that may stall, refreshes with failures, dumps of two lists: `TypeOK`, `OwnState`, `NoMissedState`, `NoticesInOrder`, and the liveness properties `BroadcastEnds`, `RequestsEnd` |
| `broadcast_framing` | violation of `OneMessagePerLine` | a notification lands between the text and the newline of a reply |
| `broadcast_stalled_client` | violation of `BroadcastEnds` | a client that stops reading blocks every broadcast, although line 478 says it is dropped |
| `cache_sync` | pass | both backends, two windows, reused ids, one failing request: `NoLostWindow`, `FocusConverges`, `RefreshRepairs`, `GhostsWereOvertaken`, `TypeOK` |
| `idle_manager` | pass | two connection threads, two monitors, one inhibitor, waits, shutdown or loss of the display: `TypeOK`, `MonitorSettles`, `ReportsFollowState`, `NoProxyLeaks`, `WaitIsTruthful`, `WaitHears`, `InhibitorsMatch`, `NoCallbackAfterFree` |
| `idle_context` | violation of `ContextOutlivesCallback` | a wait frees its context while the callback of a later event of the same notification has begun |
| `idle_shutdown` | violation of `ShutdownEnds` | the join at shutdown waits for a dispatch thread that waits for an event |
| `config_reload` | pass | files that include each other in a circle, a missing include and a missing main file; three ways to save; one client; failures to open: `TypeOK`, `MainOverrides`, `NothingIncludedIsLost`, `ReloadSettles`, `SettledOnDisk`, `FilesWhole`, and under fairness `ReloadEnds` |
| `config_rename` | violation of `HotReloadedOnSave` | the second save by rename is never loaded: the watch has gone with the first file |
| `rpc_requests` | pass | each of the three compositors, a client that waits and one that does not, requests of one, two and up to seven steps, a compositor that rejects, answers nothing or hangs: `TypeOK` (with the owner of the mutex), `ErrorIsOwn`, `NoFalseSuccess`, `SyntaxUnderstood`, `FullscreenAsAsked`, and under fairness `RequestsAnswered`, `CachedAnswered` |
| `lifecycle` | pass | two processes that start, stop, are killed and start again, over a path that may be stale, with a client whose event thread is joined (Hyprland; Niri is the same) and one whose is not (Mango): `TypeOK`, `OneDaemon`, `OneReachable`, and under fairness `StopEnds` |

The five violations are the findings of `PROJECT.json`, each with the line of
the repository that says otherwise.

### Bounds and why they are enough

* Two connections and two descriptors: a stale entry needs one connection that
  leaves and one that comes; a swap in the table needs two entries.
* Two broadcasters: all races between broadcasters are between two of them.
  Each starts one notification per run (`MaxEvents`), so two notifications can
  meet; the order of two notifications of the same thread is its program order.
* `PartCount = 2` of the three lists: a dump that is torn or stale is so between
  two of them.
* `SockCap = 1` write in the socket of a client that does not read: the next
  write waits. A larger buffer only delays the wait.
* `MaxSubscribes = 1` in the passing runs: clients of the repository subscribe
  once per connection. With two (`MaxSubscribes = 2`, one descriptor) `TableSound` fails:
  the code adds an entry each time, removes one at the end, and the next connection
  with the descriptor receives notifications it never asked for. `NoMissedState` and
  `NoticesInOrder` do not depend on it and are proved for any number.
* Three compositor operations (`MaxOps`) on two windows: one to change, one to
  change again, one to refresh. A run with four (17.9 million states) found the
  same properties to hold; three keep the run under a minute.
* `idle_manager`: two threads so that a monitor is updated or destroyed by one
  while the other waits; two monitors so that a listener could be given the wrong
  one; three requests, to create, change and destroy a monitor, or to change it
  beside a wait. Two notifications exist at a time (`MaxNotifs`): a third is
  created when one is gone, so a replaced notification, its events still queued,
  lives beside its successor. One event is queued (`MaxQueue`) while another is in the hands of
  the dispatch thread. Two of the three wait kinds are in `Requests`; a run with
  one thread, all three and two queued events (3.5 million states) found the same.
  Deadlock is not checked: the model stops when the manager is freed.
* `config_reload`: three files are the least for a circle that does not begin at
  Main and for a file that is reached on two ways. `MaxDepth = 2` makes calls that are
  too deep, and `MaxIncludes = 3` a list that fills up at the last include (10 and 32
  in the code: the model would only parse the same files more often). Two saves or
  requests together (`MaxOps`): a save during a reload, a request during a reload,
  two saves in a row. Deadlock is not checked: the daemon rests when nobody saves.
* `rpc_requests`: one thread serves a request of every shape, the other gets in its
  way with commands, by the mutex, the version and the screen. The client that waits
  sends one request, so that every part of it meets everything the other does; the
  one that does not sends two, which is what it takes to have two in one read and a
  text left from an earlier request. One window: what `hypr_set_fullscreen` must tell
  apart is this window and none. `unreachable` is left out of `Faults`: it is
  `rejected` without a text. One environment for each compositor (`Sessions`).
  Deadlock is not checked: the clients stop.
* `lifecycle`: two processes, each started any number of times; every property is
  about a pair of them (`Lifecycle_proofs` proves the safety properties for any number).
* Symmetry: connections and descriptors, threads, or workspaces, are interchangeable; the
  run with liveness properties uses none.

### Fairness

`DaemonSpec` assumes weak fairness of every step of every daemon thread and
nothing of the clients: threads are scheduled by the kernel and a mutex or a
`write` that stays available is taken at last. (A mutex that is free again and
again could in theory starve a thread; with bounded work it comes to rest, so
weak fairness suffices.) `FairSpec` adds that a client which has stopped reading
hangs up at last. `BroadcastEnds` holds under `FairSpec` and fails under
`DaemonSpec`: this is the finding about stalled clients, and the pass run shows
that the stalled client is the only obstacle.

In `Idle`, `DaemonSpec` likewise assumes weak fairness of the dispatch thread, of
a request that has begun and of the shutdown. `FairSpec` adds a user who comes
back and rests again and again, and a compositor that tells every notification
so. `idle_shutdown` fails under `FairSpec`: once every notification is destroyed
and the last answers are read, no event is left to send, whatever the user does.

In `ConfigWatch`, `FairSpec` assumes weak fairness of the main thread, of the
watcher, of the loader they run and of every application, and nothing of the
editor or of the clients. `Read` waits for an event; the other steps of the
daemon wait for nothing.

In `Lifecycle`, `FairSpec` assumes weak fairness of the main and the server thread and
of the subscription, and that an event comes at last to a thread that a shutdown
joins: with no event the shutdown waits, as `idle_shutdown` shows of the dispatch
thread. No signal, start or kill need come.

In `Rpc`, `FairSpec` assumes weak fairness of each connection thread and nothing of
the clients or the compositor's user. The compositor answers until it hangs, which
is part of the thread's step `Dispatch`. `Lock` needs the mutex at last: with
bounded requests nobody can take it again and again, as above. Both properties
are about clients that wait for their replies; a client that does not may lose a
request, and no line of the repository promises otherwise.

## Proofs

`Broadcast_proofs` proves, for every value of the constants:

* `TypeCorrect`: `Spec => []TypeOK`. The inductive invariant `TypeInv` adds that
  an open connection has a descriptor and that a dump being built is not
  complete (else the next `Append` would leave the type).
* `OwnStateAlways`: `Spec => []OwnState`. The invariant `DumpInv` says that what
  the watcher has copied so far is still in the cache: the cache is written by
  the watcher only, and not while it broadcasts.
* `TableAlwaysSound`, `WriteLoopAlwaysSound`: under `MaxSubscribes <= 1`,
  `[]TableSound` and `[]WriteLoopSound`. `TableInv`: open connections have
  different descriptors; entries differ; each entry has an owner that has passed
  `AddClient` and not yet `RemoveClient`; only a connection that has asked is
  about to enter. The last part is why the bound is needed: an owner that could
  ask again would enter twice.
  `LoopInv`: whoever is inside `broadcast_event` holds the mutex, hence is alone,
  and the table does not change under its index.

`BroadcastFeed_proofs` goes on from there to what the connections hear:

* `NoticesStayInOrder`: `Spec => []NoticesInOrder`. `OrderInv`: what a connection has
  heard is not newer than the cache, nor than what the broadcaster inside
  `broadcast_event` has copied of it (`HeardIsPast`), and no copy is newer than the
  cache (`CopiedIsPast`). That needs `LoopInv`: two
  broadcasters that copied before either wrote would break it.
* `NoStateIsMissed`: `Spec => []NoMissedState`, for any number of subscriptions per
  connection. `UpToDate`: a subscriber has the current state, or its thread is
  copying it and will write it (`Current`), unless the watcher is inside `broadcast_event`
  and has not come to it yet (`Served`). `MemberInv` is what
  makes it reachable: a subscriber stays listed until its own thread takes it out, also when
  it is listed twice and another connection leaves (`WithoutKeeps`).
* `BroadcastIsAFeed`: under `MaxSubscribes <= 1`, `Spec => ImplementsFeed`, the refinement
  of `EventFeed`: every step is one of the feed or a stutter (`FeedStep`). `FeedInv`: a subscriber on the line
  has heard all that was published since it joined, but for the notification that is being
  sent and has not reached it (`HeardCount`); the one being sent is the last published.
  The bound is needed: a connection that is listed twice hears everything twice.
* `SubscribersHearEverything`: under the same bound, `Spec => []HeardInStep`, the promise of
  `EventFeed` as an invariant: what a subscriber has heard is the piece of `published`
  that begins where it joined, and all of it when nobody is sending. It follows from the
  steps of the feed alone (`Segment`).

  The recursive function `Notices` has no induction principle here; `NoticesEmpty`,
  `NoticesAppend` and `NoticesType` are proved by the smallest counterexample.

`StateCache_proofs` proves, for every finite set of windows, every set of workspaces, both
compositors, and any number of operations and failed requests, all five invariants of `cache_sync`:

* `StateCacheTypes`: `Spec => []TypeOK`. Most of it is about the loops of `cache.c` that change a list
  in place: they leave no hole and no foreign entry.
* The other four rest on `CacheInv`. Its part `WireInv` says what the events that are not yet read tell of
  the compositor: the last focus event names the focused window; the last event of a
  window's life says whether it is open; with Hyprland a window is not created twice
  without being closed in between. It is kept because the compositor sends an event
  with every change, and a thread reads them in order.
* `NoWindowIsLost`: `NoneMissing`: an open window is listed, or its opening is still to be read.
* `TheFocusConverges`: `Marked`: the marks are right, or a focus event that will set them is to be read.
* `GhostsAreOvertaken`: `Ghosts`: a window that was not overtaken is listed at most
  once, not before its opening is read, and, when no event of it is left to read, exactly if
  it is open (`GhostFree`).
* `ARefreshRepairs`: `Repaired`: after a refresh with nothing behind it in the queue the cache is the
  compositor's state.

`Idle_proofs` proves, for every number of threads, slots, notifications and
requests and for queues of any length:

* `IdleTypes`: `Spec => []TypeOK`. The inductive invariant `TableInv` adds that
  listeners, requests and callbacks refer to slots in use; this is what makes the
  callback's write to `is_idle` a write to a monitor. It holds because the code
  never takes a slot back.
* `ReportsAlternate`: `Spec => []ReportsFollowState`. `ReportInv` adds that a
  change due to be reported is in the table, and that a slot not yet in use was
  never reported. Every step but two keeps `is_idle` of every monitor
  (`StatesKept`), also the updates and destroys that race with the callback; the
  two are `SetMonitorIdle` and `Report`, and only the dispatch thread takes them.
* `CallbackSafety`: `Spec => []NoCallbackAfterFree`, which is inductive by itself.

`IdleProxies_proofs` proves the other five invariants of `idle_manager` in the same generality:

* `InhibitorsAlwaysMatch`: `Spec => []InhibitorsMatch`. `InhibitorIds`: ids differ and have
  been given out, so the legacy toggle cannot find another's inhibitor.
* `MonitorsSettle`, `WaitsHear`, `WaitsAreTruthful`, `ProxiesNeverLeak` rest on `NotifInv`,
  which adds two things to `TableInv`. `OwnersInv`: each live notification belongs to one
  monitor or one wait, its listener is that owner or not yet set, a thread about to set it
  holds `im->mu`, and nothing is left of a destroyed one. `EventInv`: the last event
  in the queue for a notification is what the compositor said last (`LastInv`); with none
  in the queue the callback in hand says it, and without one `is_idle` does (`SettleInv`);
  a flag of a wait is set by an event that was sent, and an event that is no longer on its way
  has set it (`HearInv`). The hard step is `refresh_monitor`, which replaces a
  notification while events and a callback of the old one are under way: they no longer
  have an owner, so that the callback's write is to a monitor that has a newer notification without
  events, or none (`Carried`).

`ConfigWatch_proofs` proves, for every set of files, keys, saves and clients and
for every limit on includes and depth, all six invariants of `config_reload`.
The lemmas `LoaderSteps` and `ApplySteps` reduce the many cases of `Next` to the
few that matter to the loader and to the application:

* `ConfigTypes`: `Spec => []TypeOK`. `LoaderInv` adds that a load in progress has
  a call on its stack. `ToConfigType` needs that the first match exists
  (`SmallestNumber`, from the well-foundedness of the naturals).
* `MainAlwaysOverrides`: `Spec => []MainOverrides`. `RootFirst`: the entries of the
  version of Main that was opened first are the first of the list and stay so.
* `NothingEverLost`: `Spec => []NothingIncludedIsLost`. `ListInv`: the includes
  before the index of the outermost call have been parsed, by it or by a call
  within, and what a parsed file names is listed. Deeper calls may be cut off by the
  limit; the outermost one never is, as the limit is at least one.
* `AlwaysSettledOnDisk`: `SettledInv`: files that differ from what the compositor
  has read are being written by a thread with the reload still before it.
* `ReloadAlwaysSettles`: `ReloadInv`: if what was loaded differs from the file, the
  watcher has not begun to load or has events to read. It rests on `TurnInv`: main
  and watcher never load at the same time, and each load begins from nothing.
* `FilesAlwaysWhole`: `WholeInv`: where a lone application has got to in its two
  files. `PutPrefix` is the step of the argument: a block put at the end of a prefix
  gives the next prefix.

`Rpc_proofs` proves, for every number of connections and clients of both kinds, any
requests, windows and faults, all five invariants of `rpc_requests`:

* `RpcTypes`: `Spec => []TypeOK`, with its clause on `d->mu`. `TypeInv` adds that a
  thread holds the mutex for `resolve` or `active` only while it does not know the
  window, so that `Skip` is never a step of the holder; `MutexKept` is the argument
  for all steps but `Lock` and `Dispatch`.
* `ErrorAlwaysOwn`, `NeverFalseSuccess`: `HonestInv`: the error text of a thread is
  empty or that of the request it serves, and what went wrong so far is `failed`
  unless it is `Optional`. No step of another thread touches any of this
  (`OthersKept`).
* `SyntaxAlwaysUnderstood`: `SyntaxInv`: what is kept of the version, and what a
  thread was told, is true of the compositor or `FALSE`, so it does not matter in
  which order two threads that both ask store their answers.
* `FullscreenAlwaysAsAsked`: `FullscreenInv` says for every rest of the plan what
  holds while nobody comes between: a list that was read is still true, a toggle that
  is left is due, and with nothing left the window is as asked. `ScreenKept`: any
  thread that changes the screen ends the calm of the others, hence the proof needs
  no order between threads.

  A Niri action sets full screen as asked whatever it was; a Mango command never
  changes it. The lemmas `HyprlandPlanType`, `NiriPlanType` and `MangoPlanType` say that
  every plan is made of known steps.

`Lifecycle_proofs` proves, for every number of processes:

* `LifecycleTypes`: `Spec => []TypeOK`. `Phases` adds what the progress of the main
  thread says of the others: no server before `Spawn`, a signal before the shutdown.
  `Effects` sums up what a step does to its process and to the path, and both proofs
  below rest on it.
* `OneDaemonAlways`: `Spec => []OneDaemon`. `LoneInv`: when a daemon runs all others are
  aside (off, at the check, or done with the path), the path is free when it
  binds and its own from then on. `LoneOther` is the step of another process, which
  the check turns away or which no longer touches the path; `LoneSelf` its own.
* `OneAlwaysReachable`: `Spec => []OneReachable`. `ReachInv`: with a daemon past the check,
  the path is somebody's or somebody has yet to bind: whoever unlinks a socket
  binds afterwards.

The only assumptions are those on the constants: `ConstantsAssumption` of
`Broadcast` and that of `StateCache` (its windows are finitely many), `IdleAssumption` of `Idle`, `LoaderAssumption`, `ApplyAssumption` and
`WatchAssumption` of the configuration modules (keys are finitely many, the depth
limit is at least one), `RpcAssumption` of `Rpc` (the requests are of known methods
or "none"), `LifecycleAssumption` of `Lifecycle` (a process is none of the two other
values of `path`); TLC evaluates them in every run. All
invariants of the passing runs and the refinement are proved. Only liveness (`BroadcastEnds`,
`RequestsEnd`, `ReloadEnds`, `RequestsAnswered`, `CachedAnswered`, `StopEnds`) is model-checked
only: the prover does not reason about fairness and `ENABLED`.

## What is not modelled

* Text: JSON, formatting, logging, colours and the generated configuration files
  of the three compositors (`generator.c`, `config_types.c`, `types.c`, `utils/`).
  They are sequential functions with unit tests.
* Window titles and metadata; the fields a reader of the cache only copies.
* Hyprland workspaces whose name is not their number (the cache then mixes names
  from events with numbers from lists).
* Partial writes and interrupted system calls; failures of `malloc` and
  `pthread_create`.
* The `systemd-inhibit` child of the idle manager, which is started and stopped
  inside one critical section, and the media and application checks, which read
  other programs. The length of timeouts and `respect_inhibitors`: the compositor
  may find the seat idle at any moment at which the user rests.
* Two updates of different fields of one monitor: the request writes back what it
  read, so one may undo the other. The model has the two sections, but only the
  field `enabled`.
* Arrays of tables in the configuration and the keybinds made of them, whose numbers
  collide between files; a setting that is converted only beside another.
* How often files are parsed: with n includes about n^10 times, which ends (`ReloadEnds`)
  but may take very long.
* The arguments of a command and their text, and what the Mango client would do if a
  listener filled its tables.
* `axctl_config_watcher_stop`, which closes the descriptor and frees the watcher
  under its detached thread: what the thread does then is undefined, and the process is
  about to end. The same is true of connection threads that use the freed server; in
  `Lifecycle` they crash the process (`Kill`) or do nothing.
* The parts of an error reply that a client does not need: the text, and `"error"` as a
  result when there is none (`failed` in `ReplyKind`).
* Generated Wayland protocol code.

## Plan

1. More proofs: the safety half of the liveness properties, measures that every step of a
   broadcast, a reload or a shutdown lowers and that no step of another thread raises.
2. Arrays of tables in `ConfigLoader` and the stop of the watcher in `Lifecycle`, when
   they are worth more than a run that is there.
