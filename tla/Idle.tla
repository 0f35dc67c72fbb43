---------------------------------- MODULE Idle ----------------------------------
(***************************************************************************)
(* The idle manager of the axctl daemon (src/src/server/idle.c) and the    *)
(* Wayland connection it owns (src/src/ipc/wayland/wayland_client.c).      *)
(*                                                                         *)
(* Threads: the connection threads that serve idle requests; the Wayland   *)
(* dispatch thread, which runs the idled and resumed callbacks; and the    *)
(* main thread, which shuts the manager down.  They share the tables of    *)
(* monitors and inhibitors under im->mu, and the proxies and the event     *)
(* queue of libwayland under no lock of the program's own.                 *)
(*                                                                         *)
(* Abstractions.  A proxy of ext_idle_notification_v1 is a number.  Which  *)
(* timeout a monitor has does not matter: the compositor may find the seat *)
(* idle for long enough at any moment while the user rests.  A destroyed   *)
(* object is gone at the compositor at once; the events it sends in the    *)
(* meantime would be discarded here.  The compositor has all the globals.  *)
(* A section under im->mu is one step unless the dispatch thread, which    *)
(* does not take the mutex to read events, can see into it.                *)
(***************************************************************************)
EXTENDS Integers, Sequences, FiniteSets

CONSTANTS
  Clients,        \* the connection threads that serve idle requests
  None,           \* no thread
  MaxMonitors,    \* MAX_MONITORS
  MaxInhibitors,  \* MAX_INHIBITORS
  Requests,       \* the kinds of requests that are made
  Faults,         \* what may end the manager: "shutdown", "lost"
  MaxNotifs,      \* bound: the notifications that exist at a time
  MaxQueue,       \* bound: the events that wait for the dispatch thread
  MaxOps          \* bound: the requests that are made

ASSUME IdleAssumption ==
  /\ None \notin Clients
  /\ MaxMonitors \in Nat
  /\ MaxInhibitors \in Nat
  /\ Requests \subseteq {"create", "update", "destroy", "idle", "resume", "check",
                         "inhibitors"}
  /\ Faults \subseteq {"shutdown", "lost"}
  /\ MaxNotifs \in Nat
  /\ MaxQueue \in Nat
  /\ MaxOps \in Nat

VARIABLES
  mu,              \* the connection thread that holds im->mu across its steps, or None
  monitors,        \* im->monitors[0 .. monitor_count-1]
  inhibitors,      \* im->inhibitors[0 .. inhibitor_count-1]
  legacy_inhibitor_id,
  next_inhibitor_id,
  manager,         \* "up", then "cleared", "joining" and "freed" at shutdown
  proxies,         \* the notifications that are not destroyed
  listener,        \* the data pointer of each notification's listener
  contexts,        \* the notifications whose one-shot context is allocated
  fired,           \* the contexts whose flag fired is set
  resumed,         \* the contexts whose flag resumed is set
  user_active,     \* whether there is input at the seat
  idling,          \* the notifications the compositor has told "idled" last
  queue,           \* the events on their way to the dispatch thread
  acks_due,        \* the delete_id events of destroyed objects are on their way
  dpc,             \* where the dispatch thread is
  callback,        \* the callback it runs
  pc,              \* where each connection thread is
  req,             \* the local variables of its request
  ops,             \* how many requests have been made
  sent,            \* history: the kinds of events sent for each notification
  dropped,         \* history: notifications that lost an event for want of a listener
  stray,           \* history: a callback has used a context that is freed
  reported         \* history: what on_changed was last called with for each monitor

tableVars == <<mu, monitors>>
inhibitVars == <<inhibitors, legacy_inhibitor_id, next_inhibitor_id>>
proxyVars == <<proxies, listener, idling, sent, dropped>>
contextVars == <<contexts, fired, resumed>>
wireVars == <<user_active, queue>>
dispatchVars == <<dpc, callback>>
requestVars == <<pc, req, ops>>
histVars == <<stray, reported>>
vars == <<tableVars, inhibitVars, manager, proxyVars, contextVars, wireVars, acks_due,
          dispatchVars, requestVars, histVars>>

-----------------------------------------------------------------------------
(* Types *)

Notifs == 1 .. MaxNotifs

\* The id of a monitor is the number of its slot: both grow by one in create.
Slots == 1 .. MaxMonitors

NoProxy == 0

\* The data pointer of a listener is a monitor's slot or the context of its wait.
NoListener == 0
OwnContext == -1

Monitor == [enabled : BOOLEAN, is_idle : BOOLEAN, deleted : BOOLEAN,
            manager : BOOLEAN, notification : Notifs \cup {NoProxy}]

Inhibitor == [id : Nat \ {0}, enabled : BOOLEAN, deleted : BOOLEAN,
              inhibitor : BOOLEAN]

Event == [notif : Notifs, kind : {"idled", "resumed"}]

\* A callback: the event and the data pointer it is run with.
Callback == [notif : Notifs, kind : {"idled", "resumed"}, data : Slots \cup {OwnContext}]

NoCallback == [notif |-> NoProxy, kind |-> "none", data |-> NoListener]

WaitKinds == {"idle", "resume", "check"}

Request == [kind : WaitKinds \cup {"none"}, monitor : 0 .. MaxMonitors,
            notif : Notifs \cup {NoProxy}, enabled : BOOLEAN]

NoRequest == [kind |-> "none", monitor |-> 0, notif |-> NoProxy, enabled |-> FALSE]

TableType ==
  /\ mu \in Clients \cup {None}
  /\ monitors \in Seq(Monitor)
  /\ Len(monitors) <= MaxMonitors

InhibitType ==
  /\ inhibitors \in Seq(Inhibitor)
  /\ Len(inhibitors) <= MaxInhibitors
  /\ next_inhibitor_id \in Nat
  /\ legacy_inhibitor_id \in 0 .. next_inhibitor_id

ProxyType ==
  /\ proxies \subseteq Notifs
  /\ listener \in [Notifs -> Slots \cup {NoListener, OwnContext}]
  /\ idling \subseteq proxies
  /\ sent \in [Notifs -> SUBSET {"idled", "resumed"}]
  /\ dropped \subseteq Notifs

ContextType ==
  /\ contexts \subseteq Notifs
  /\ fired \subseteq contexts
  /\ resumed \subseteq contexts

WireType ==
  /\ user_active \in BOOLEAN
  /\ queue \in Seq(Event)
  /\ acks_due \in BOOLEAN

DispatchType ==
  /\ dpc \in {"poll", "between", "manager", "lock", "report", "oneshot", "ended"}
  /\ callback \in Callback \cup {NoCallback}
  /\ manager \in {"up", "cleared", "joining", "freed"}

RequestType ==
  /\ pc \in [Clients -> {"ready", "update", "listen", "attach", "wait", "free"}]
  /\ req \in [Clients -> Request]
  /\ ops \in 0 .. MaxOps

HistType ==
  /\ stray \in BOOLEAN
  /\ reported \in [Slots -> BOOLEAN]

TypeOK ==
  /\ TableType /\ InhibitType /\ ProxyType /\ ContextType
  /\ WireType /\ DispatchType /\ RequestType /\ HistType

\* axctl_idle_manager_create: connected, the globals bound, the dispatch thread
\* started, on_changed set; no request yet.
Init ==
  /\ mu = None
  /\ monitors = <<>>
  /\ inhibitors = <<>>
  /\ legacy_inhibitor_id = 0
  /\ next_inhibitor_id = 0
  /\ manager = "up"
  /\ proxies = {}
  /\ listener = [n \in Notifs |-> NoListener]
  /\ contexts = {}
  /\ fired = {}
  /\ resumed = {}
  /\ user_active = TRUE
  /\ idling = {}
  /\ queue = <<>>
  /\ acks_due = FALSE
  /\ dpc = "poll"
  /\ callback = NoCallback
  /\ pc = [c \in Clients |-> "ready"]
  /\ req = [c \in Clients |-> NoRequest]
  /\ ops = 0
  /\ sent = [n \in Notifs |-> {}]
  /\ dropped = {}
  /\ stray = FALSE
  /\ reported = [m \in Slots |-> FALSE]

-----------------------------------------------------------------------------
(* Notifications, monitors and inhibitors *)

\* The notifications that something still refers to; of the others, one is as good as
\* another for a new one.
InUse == proxies \cup contexts \cup {callback.notif} \cup {queue[i].notif : i \in DOMAIN queue}

NewNotif == CHOOSE n \in Notifs \ InUse : TRUE

CanCreate == Notifs \ InUse # {}

\* Destroy the notifications old and create new, which has no listener yet.  A destroyed
\* one is told nothing more; its delete_id event follows (Destroyed).
ReplaceProxies(old, new) ==
  /\ proxies' = (proxies \ old) \cup new
  /\ listener' = [n \in Notifs |-> IF n \in old THEN NoListener ELSE listener[n]]
  /\ idling' = idling \ old
  /\ sent' = [n \in Notifs |-> IF n \in old THEN {} ELSE sent[n]]
  /\ dropped' = dropped \ old

Destroyed(objects) == acks_due' = (acks_due \/ objects # {})

Live(m) == m \in DOMAIN monitors /\ ~monitors[m].deleted

ProxyOf(m) == {monitors[m].notification} \ {NoProxy}

FindInhibitor(id) == {i \in DOMAIN inhibitors : inhibitors[i].id = id /\ ~inhibitors[i].deleted}

\* A request may start, or go on, as long as the manager exists.
Serving(c, at) == pc[c] = at /\ manager # "freed"

Serve(c, kinds) ==
  /\ Serving(c, "ready")
  /\ kinds \in Requests
  /\ ops < MaxOps
  /\ ops' = ops + 1

Goto(c, at) == pc' = [pc EXCEPT ![c] = at]

\* Mutant: is_idle is reset and nobody is told.
PutMonitorReset(m, mon) ==
  monitors' = IF m \in DOMAIN monitors
              THEN [monitors EXCEPT ![m] = [mon EXCEPT !.is_idle = FALSE]]
              ELSE Append(monitors, mon)

PutMonitor(m, mon) ==
  monitors' = IF m \in DOMAIN monitors THEN [monitors EXCEPT ![m] = mon]
                                       ELSE Append(monitors, mon)

-----------------------------------------------------------------------------
(* Monitor requests *)

\* refresh_monitor for mon in slot m: destroy the previous notification and, when
\* mon is enabled, create one.  The listener is attached in the next step, with
\* im->mu still held.
Refresh(c, m, mon) ==
  LET old == {mon.notification} \ {NoProxy} IN
  \/ /\ mon.enabled
     /\ CanCreate
     /\ ReplaceProxies(old, {NewNotif})
     /\ Destroyed(old)
     /\ PutMonitor(m, [mon EXCEPT !.notification = NewNotif, !.manager = TRUE])
     /\ mu' = c
     /\ req' = [req EXCEPT ![c] = [NoRequest EXCEPT !.monitor = m, !.notif = NewNotif]]
     /\ Goto(c, "listen")
  \/ /\ ~mon.enabled
     /\ ReplaceProxies(old, {})
     /\ Destroyed(old)
     /\ PutMonitor(m, [mon EXCEPT !.notification = NoProxy])
     /\ req' = [req EXCEPT ![c] = NoRequest]
     /\ Goto(c, "ready")
     /\ UNCHANGED mu

NewMonitor(enabled) ==
  [enabled |-> enabled, is_idle |-> FALSE, deleted |-> FALSE, manager |-> TRUE,
   notification |-> NoProxy]

\* axctl_idle_monitor_create; a full table makes it fail.
CreateMonitor(c) ==
  /\ mu = None
  /\ Serve(c, "create")
  /\ \/ /\ Len(monitors) >= MaxMonitors
        /\ UNCHANGED <<tableVars, proxyVars, acks_due, pc, req>>
     \/ /\ Len(monitors) < MaxMonitors
        /\ \E enabled \in BOOLEAN : Refresh(c, Len(monitors) + 1, NewMonitor(enabled))
  /\ UNCHANGED <<inhibitVars, manager, contextVars, wireVars, dispatchVars, histVars>>

\* Mutant: the listener is given the first slot of the table.
ListenFirst(c) ==
  /\ Serving(c, "listen")
  /\ listener' = [listener EXCEPT ![req[c].notif] = 1]
  /\ mu' = None
  /\ req' = [req EXCEPT ![c] = NoRequest]
  /\ Goto(c, "ready")
  /\ UNCHANGED <<monitors, inhibitVars, manager, proxies, idling, sent, dropped,
                 contextVars, wireVars, acks_due, dispatchVars, ops, histVars>>

\* add_listener with the monitor as its data, flush, unlock.
Listen(c) ==
  /\ Serving(c, "listen")
  /\ listener' = [listener EXCEPT ![req[c].notif] = req[c].monitor]
  /\ mu' = None
  /\ req' = [req EXCEPT ![c] = NoRequest]
  /\ Goto(c, "ready")
  /\ UNCHANGED <<monitors, inhibitVars, manager, proxies, idling, sent, dropped,
                 contextVars, wireVars, acks_due, dispatchVars, ops, histVars>>

\* System.IdleMonitorUpdate reads the monitor in one critical section; what the
\* request does not name keeps the value read; so enabled, too, is either value.
ReadMonitor(c) ==
  /\ mu = None
  /\ Serve(c, "update")
  /\ \E m \in DOMAIN monitors :
       \/ /\ Live(m)
          /\ \E enabled \in BOOLEAN :
               req' = [req EXCEPT ![c] = [NoRequest EXCEPT !.monitor = m,
                                                           !.enabled = enabled]]
          /\ Goto(c, "update")
       \/ ~Live(m) /\ UNCHANGED <<pc, req>>
  /\ UNCHANGED <<tableVars, inhibitVars, manager, proxyVars, contextVars, wireVars, acks_due,
                 dispatchVars, histVars>>

\* axctl_idle_monitor_update, in a second critical section.
UpdateMonitor(c) ==
  LET m == req[c].monitor IN
  /\ mu = None
  /\ Serving(c, "update")
  /\ \/ /\ Live(m)
        /\ Refresh(c, m, [monitors[m] EXCEPT !.enabled = req[c].enabled])
     \/ /\ ~Live(m)
        /\ req' = [req EXCEPT ![c] = NoRequest]
        /\ Goto(c, "ready")
        /\ UNCHANGED <<tableVars, proxyVars, acks_due>>
  /\ UNCHANGED <<inhibitVars, manager, contextVars, wireVars, dispatchVars, ops, histVars>>

\* Mutant: the notification of a destroyed monitor is left alive.
DestroyMonitorOnly(c) ==
  /\ mu = None
  /\ Serve(c, "destroy")
  /\ \E m \in DOMAIN monitors :
       \/ /\ Live(m)
          /\ PutMonitor(m, [monitors[m] EXCEPT !.deleted = TRUE, !.manager = FALSE])
       \/ ~Live(m) /\ UNCHANGED monitors
  /\ UNCHANGED <<mu, inhibitVars, manager, proxyVars, contextVars, wireVars, acks_due,
                 dispatchVars, pc, req, histVars>>

\* axctl_idle_monitor_destroy.
DestroyMonitor(c) ==
  /\ mu = None
  /\ Serve(c, "destroy")
  /\ \E m \in DOMAIN monitors :
       \/ /\ Live(m)
          /\ ReplaceProxies(ProxyOf(m), {})
          /\ Destroyed(ProxyOf(m))
          /\ PutMonitor(m, [monitors[m] EXCEPT !.notification = NoProxy,
                                               !.deleted = TRUE, !.manager = FALSE])
       \/ ~Live(m) /\ UNCHANGED <<monitors, proxyVars, acks_due>>
  /\ UNCHANGED <<mu, inhibitVars, manager, contextVars, wireVars, dispatchVars, pc, req,
                 histVars>>

-----------------------------------------------------------------------------
(* One-shot waits *)

\* axctl_idle_wait, axctl_idle_wait_resume and axctl_idle_is_idle create a
\* notification and its context; they do not take im->mu.
BeginWait(c) ==
  \E kind \in WaitKinds :
    /\ Serve(c, kind)
    /\ CanCreate
    /\ ReplaceProxies({}, {NewNotif})
    /\ contexts' = contexts \cup {NewNotif}
    /\ req' = [req EXCEPT ![c] = [NoRequest EXCEPT !.kind = kind, !.notif = NewNotif]]
    /\ Goto(c, "attach")
    /\ UNCHANGED <<tableVars, inhibitVars, manager, fired, resumed, wireVars, acks_due,
                   dispatchVars, histVars>>

\* add_listener with the context as its data, flush, and begin to wait.
Attach(c) ==
  /\ Serving(c, "attach")
  /\ listener' = [listener EXCEPT ![req[c].notif] = OwnContext]
  /\ Goto(c, "wait")
  /\ UNCHANGED <<tableVars, inhibitVars, manager, proxies, idling, sent, dropped,
                 contextVars, wireVars, acks_due, dispatchVars, req, ops, histVars>>

\* Mutant: the wait for resume looks at the flag of idle.
WaitOverFired(kind, n) == kind = "check" \/ n \in fired

\* The condition a request of each kind waits for; is_idle sleeps for 50 ms and
\* answers with what has been dispatched by then.
WaitOver(kind, n) ==
  \/ kind = "idle" /\ n \in fired
  \/ kind = "resume" /\ n \in resumed
  \/ kind = "check"

\* The wait ends and the notification is destroyed.
EndWait(c) ==
  LET n == req[c].notif IN
  /\ Serving(c, "wait")
  /\ WaitOver(req[c].kind, n)
  /\ ReplaceProxies({n}, {})
  /\ Destroyed({n})
  /\ Goto(c, "free")
  /\ UNCHANGED <<tableVars, inhibitVars, manager, contextVars, wireVars, dispatchVars, req,
                 ops, histVars>>

\* oneshot_ctx_free, and the request returns.
FreeContext(c) ==
  LET n == req[c].notif IN
  /\ Serving(c, "free")
  /\ contexts' = contexts \ {n}
  /\ fired' = fired \ {n}
  /\ resumed' = resumed \ {n}
  /\ req' = [req EXCEPT ![c] = NoRequest]
  /\ Goto(c, "ready")
  /\ UNCHANGED <<tableVars, inhibitVars, manager, proxyVars, wireVars, acks_due, dispatchVars,
                 ops, histVars>>

-----------------------------------------------------------------------------
(* Inhibitors *)

\* refresh_inhibitor: the Wayland object follows enabled.
RefreshInhibitor(inh) == [inh EXCEPT !.inhibitor = inh.enabled]

SetInhibitor(i, inh) ==
  /\ inhibitors' = [inhibitors EXCEPT ![i] = inh]
  /\ Destroyed({x \in {i} : inhibitors[x].inhibitor /\ ~inh.inhibitor})

NewInhibitor(id, enabled) ==
  RefreshInhibitor([id |-> id, enabled |-> enabled, deleted |-> FALSE, inhibitor |-> FALSE])

\* Mutant: one entry too many.
InhibitorRoomOff == Len(inhibitors) <= MaxInhibitors

InhibitorRoom == Len(inhibitors) < MaxInhibitors

\* axctl_idle_inhibitor_create.
CreateInhibitor ==
  \E enabled \in BOOLEAN :
    \/ /\ InhibitorRoom
       /\ next_inhibitor_id' = next_inhibitor_id + 1
       /\ inhibitors' = Append(inhibitors, NewInhibitor(next_inhibitor_id + 1, enabled))
       /\ UNCHANGED <<legacy_inhibitor_id, acks_due>>
    \/ /\ ~InhibitorRoom
       /\ UNCHANGED <<inhibitors, legacy_inhibitor_id, next_inhibitor_id, acks_due>>

\* axctl_idle_inhibitor_set; an id that is not found makes it fail.
EnableInhibitor ==
  \E id \in 1 .. next_inhibitor_id, enabled \in BOOLEAN :
    /\ \/ \E i \in FindInhibitor(id) :
            SetInhibitor(i, RefreshInhibitor([inhibitors[i] EXCEPT !.enabled = enabled]))
       \/ FindInhibitor(id) = {} /\ UNCHANGED <<inhibitors, acks_due>>
    /\ UNCHANGED <<legacy_inhibitor_id, next_inhibitor_id>>

\* Mutant: the legacy toggle keeps an id that is destroyed.
DestroyInhibitorOnly ==
  \E id \in 1 .. next_inhibitor_id :
    /\ \/ \E i \in FindInhibitor(id) :
            SetInhibitor(i, [inhibitors[i] EXCEPT !.deleted = TRUE, !.inhibitor = FALSE])
       \/ FindInhibitor(id) = {} /\ UNCHANGED <<inhibitors, acks_due>>
    /\ UNCHANGED <<legacy_inhibitor_id, next_inhibitor_id>>

\* axctl_idle_inhibitor_destroy, which may be given the legacy inhibitor's id.
DestroyInhibitor ==
  \E id \in 1 .. next_inhibitor_id :
    /\ \/ \E i \in FindInhibitor(id) :
            /\ SetInhibitor(i, [inhibitors[i] EXCEPT !.deleted = TRUE, !.inhibitor = FALSE])
            /\ legacy_inhibitor_id' = IF legacy_inhibitor_id = id THEN 0
                                                                  ELSE legacy_inhibitor_id
       \/ FindInhibitor(id) = {} /\ UNCHANGED <<inhibitors, legacy_inhibitor_id, acks_due>>
    /\ UNCHANGED next_inhibitor_id

\* axctl_idle_inhibit: the first call makes the legacy inhibitor, whose id is taken
\* even when the table is full, and which is then not found.
ToggleLegacy ==
  \E on \in BOOLEAN :
    \/ /\ legacy_inhibitor_id = 0
       /\ next_inhibitor_id' = next_inhibitor_id + 1
       /\ legacy_inhibitor_id' = next_inhibitor_id + 1
       /\ inhibitors' = IF InhibitorRoom
                        THEN Append(inhibitors, NewInhibitor(next_inhibitor_id + 1, on))
                        ELSE inhibitors
       /\ UNCHANGED acks_due
    \/ /\ legacy_inhibitor_id # 0
       /\ \/ \E i \in FindInhibitor(legacy_inhibitor_id) :
               SetInhibitor(i, RefreshInhibitor([inhibitors[i] EXCEPT !.enabled = on]))
          \/ FindInhibitor(legacy_inhibitor_id) = {} /\ UNCHANGED <<inhibitors, acks_due>>
       /\ UNCHANGED <<legacy_inhibitor_id, next_inhibitor_id>>

ServeInhibitors(c) ==
  /\ mu = None
  /\ Serve(c, "inhibitors")
  /\ CreateInhibitor \/ EnableInhibitor \/ DestroyInhibitor \/ ToggleLegacy
  /\ UNCHANGED <<tableVars, manager, proxyVars, contextVars, wireVars, dispatchVars, pc, req,
                 histVars>>

-----------------------------------------------------------------------------
(* The compositor and the user *)

User(active) ==
  /\ user_active' = active
  /\ UNCHANGED <<tableVars, inhibitVars, manager, proxyVars, contextVars, queue, acks_due,
                 dispatchVars, requestVars, histVars>>

UserActs == ~user_active /\ User(TRUE)

\* At once all that were told "idled" are told "resumed": before the user rests again.
UserRests == user_active /\ idling = {} /\ User(FALSE)

Send(n, kind) ==
  /\ dpc # "ended"
  /\ Len(queue) < MaxQueue
  /\ queue' = Append(queue, [notif |-> n, kind |-> kind])
  /\ sent' = [sent EXCEPT ![n] = @ \cup {kind}]
  /\ UNCHANGED <<tableVars, inhibitVars, manager, proxies, listener, dropped, contextVars,
                 user_active, acks_due, dispatchVars, requestVars, histVars>>

\* The user has rested for the timeout of n.
SendIdled(n) ==
  /\ ~user_active
  /\ n \in proxies \ idling
  /\ idling' = idling \cup {n}
  /\ Send(n, "idled")

SendResumed(n) ==
  /\ user_active
  /\ n \in idling
  /\ idling' = idling \ {n}
  /\ Send(n, "resumed")

-----------------------------------------------------------------------------
(* The dispatch thread: wl_display_dispatch in a loop *)

\* Steps of the dispatch thread leave the requests and the manager alone.
Aside == UNCHANGED <<mu, inhibitVars, manager, proxies, listener, idling, sent, contexts,
                     user_active, requestVars>>

DispatchGoto(at) == dpc' = at /\ UNCHANGED callback

NextEvent ==
  /\ dpc \in {"poll", "between"}
  /\ queue # <<>>
  /\ queue' = Tail(queue)
  /\ UNCHANGED <<monitors, fired, resumed, acks_due, histVars>>
  /\ Aside

\* libwayland discards the events of a destroyed proxy.
DiscardEvent ==
  /\ NextEvent
  /\ Head(queue).notif \notin proxies
  /\ DispatchGoto("between")
  /\ UNCHANGED dropped

\* So it does with the events of a proxy that has no listener yet.
DropEvent ==
  LET n == Head(queue).notif IN
  /\ NextEvent
  /\ n \in proxies
  /\ listener[n] = NoListener
  /\ dropped' = dropped \cup {n}
  /\ DispatchGoto("between")

\* The callback begins; from now on the proxy may be destroyed beside it.
TakeEvent ==
  LET e == Head(queue) IN
  /\ NextEvent
  /\ e.notif \in proxies
  /\ listener[e.notif] # NoListener
  /\ dpc' = IF listener[e.notif] = OwnContext THEN "oneshot" ELSE "manager"
  /\ callback' = [notif |-> e.notif, kind |-> e.kind, data |-> listener[e.notif]]
  /\ UNCHANGED dropped

\* poll(2) returns for delete_id events too, which have no callback here.
Wake ==
  /\ dpc = "poll"
  /\ acks_due
  /\ acks_due' = FALSE
  /\ DispatchGoto("between")
  /\ UNCHANGED <<monitors, fired, resumed, queue, dropped, histVars>>
  /\ Aside

\* while (ctx->running).
TestRunning ==
  /\ dpc = "between"
  /\ DispatchGoto(IF manager \in {"up", "cleared"} THEN "poll" ELSE "ended")
  /\ UNCHANGED <<monitors, fired, resumed, queue, acks_due, dropped, histVars>>
  /\ Aside

\* wl_display_dispatch returns -1: the compositor has gone.
LoseDisplay ==
  /\ "lost" \in Faults
  /\ dpc = "poll"
  /\ DispatchGoto("ended")
  /\ UNCHANGED <<monitors, fired, resumed, queue, acks_due, dropped, histVars>>
  /\ Aside

InCallback(at) ==
  /\ dpc = at
  /\ UNCHANGED <<queue, acks_due, dropped>>
  /\ Aside

ReturnFromCallback == dpc' = "between" /\ callback' = NoCallback

\* The monitor the callback was given.
Mon == callback.data

Idled == callback.kind = "idled"

\* set_monitor_idle reads mon->manager before it takes the mutex.
ReadManager ==
  /\ InCallback("manager")
  /\ IF monitors[Mon].manager THEN DispatchGoto("lock") ELSE ReturnFromCallback
  /\ UNCHANGED <<monitors, fired, resumed, histVars>>

\* The critical section of set_monitor_idle.
SetMonitorIdle ==
  /\ InCallback("lock")
  /\ mu = None
  /\ monitors' = [monitors EXCEPT ![Mon].is_idle = Idled]
  /\ IF monitors[Mon].is_idle = Idled THEN ReturnFromCallback ELSE DispatchGoto("report")
  /\ UNCHANGED <<fired, resumed, histVars>>

\* on_changed: idle_monitor_changed_cb broadcasts the change.
Report ==
  /\ InCallback("report")
  /\ reported' = [reported EXCEPT ![Mon] = Idled]
  /\ ReturnFromCallback
  /\ UNCHANGED <<monitors, fired, resumed, stray>>

\* Mutant: oneshot_resumed takes back what oneshot_idled has set.
SetContextOnly ==
  LET own == contexts \cap {callback.notif} IN
  /\ InCallback("oneshot")
  /\ fired' = IF Idled THEN fired \cup own ELSE fired \ own
  /\ stray' = (stray \/ own = {})
  /\ ReturnFromCallback
  /\ UNCHANGED <<monitors, resumed, reported>>

\* oneshot_idled and oneshot_resumed.  What they do to a context that is freed is
\* undefined; stray marks the behaviours that come to it.
SetContext ==
  LET own == contexts \cap {callback.notif} IN
  /\ InCallback("oneshot")
  /\ IF Idled THEN fired' = fired \cup own /\ UNCHANGED resumed
              ELSE resumed' = resumed \cup own /\ UNCHANGED fired
  /\ stray' = (stray \/ own = {})
  /\ ReturnFromCallback
  /\ UNCHANGED <<monitors, reported>>

-----------------------------------------------------------------------------
(* Shutdown: axctl_idle_manager_destroy *)

\* The section under the mutex: every notification and inhibitor is destroyed, every
\* monitor cut off from the manager.  The entries stay in the tables.
Clear ==
  LET own == UNION {ProxyOf(m) : m \in DOMAIN monitors}
      inhibiting == {i \in DOMAIN inhibitors : inhibitors[i].inhibitor}
  IN
  /\ "shutdown" \in Faults
  /\ manager = "up"
  /\ mu = None
  /\ manager' = "cleared"
  /\ ReplaceProxies(own, {})
  /\ Destroyed(own \cup inhibiting)
  /\ monitors' = [m \in DOMAIN monitors |->
                    [monitors[m] EXCEPT !.notification = NoProxy, !.manager = FALSE]]
  /\ UNCHANGED <<mu, inhibitVars, contextVars, wireVars, dispatchVars, requestVars,
                 histVars>>

Shutdown(from, to) ==
  /\ manager = from
  /\ manager' = to
  /\ UNCHANGED <<tableVars, inhibitVars, proxyVars, contextVars, wireVars, acks_due,
                 dispatchVars, requestVars, histVars>>

\* axctl_wayland_disconnect: running = 0, flush, and on to pthread_join.
StopRunning == Shutdown("cleared", "joining")

\* Mutant: the thread is not joined.
FreeAtOnce == Shutdown("joining", "freed")

\* The dispatch thread has ended: disconnect and free.
Free == dpc = "ended" /\ Shutdown("joining", "freed")

-----------------------------------------------------------------------------
(* Specifications *)

ClientStep(c) ==
  \/ CreateMonitor(c) \/ Listen(c) \/ ReadMonitor(c) \/ UpdateMonitor(c) \/ DestroyMonitor(c)
  \/ BeginWait(c) \/ Attach(c) \/ EndWait(c) \/ FreeContext(c)
  \/ ServeInhibitors(c)

DispatchStep ==
  \/ DiscardEvent \/ DropEvent \/ TakeEvent \/ Wake \/ TestRunning
  \/ ReadManager \/ SetMonitorIdle \/ Report \/ SetContext

CompositorStep == \E n \in Notifs : SendIdled(n) \/ SendResumed(n)

ShutdownStep == Clear \/ StopRunning \/ Free

Next ==
  \/ \E c \in Clients : ClientStep(c)
  \/ DispatchStep \/ LoseDisplay
  \/ UserActs \/ UserRests \/ CompositorStep
  \/ ShutdownStep

Spec == Init /\ [][Next]_vars

\* A request that has begun goes on.
Continue(c) == Listen(c) \/ UpdateMonitor(c) \/ Attach(c) \/ EndWait(c) \/ FreeContext(c)

\* The kernel runs every thread of the daemon; nothing is assumed of its peers.
DaemonSpec ==
  /\ Spec
  /\ WF_vars(DispatchStep)
  /\ \A c \in Clients : WF_vars(Continue(c))
  /\ WF_vars(StopRunning) /\ WF_vars(Free)

\* The user comes back again and again, and again and again rests for long enough.
FairSpec ==
  /\ DaemonSpec
  /\ WF_vars(UserActs) /\ WF_vars(UserRests)
  /\ \A n \in Notifs : WF_vars(SendResumed(n)) /\ SF_vars(SendIdled(n))

-----------------------------------------------------------------------------
(* Properties *)

\* An event of n waits for the dispatch thread or is in its hands.
Pending(n) ==
  \/ \E i \in DOMAIN queue : queue[i].notif = n
  \/ dpc \in {"manager", "lock", "oneshot"} /\ callback.notif = n

\* When the dispatch thread is done with the events of a monitor's present
\* notification and none was dropped, is_idle is what the compositor said last, though
\* events of earlier notifications of the monitor may still be under way
\* (refresh_monitor, set_monitor_idle).
MonitorSettles ==
  \A m \in DOMAIN monitors :
    \A n \in ProxyOf(m) :
      (sent[n] # {} /\ n \notin dropped /\ ~Pending(n)) =>
        (monitors[m].is_idle <=> n \in idling)

\* on_changed is told every change and nothing else: what it was told last is is_idle,
\* unless it is just about to be called.  So calls for one monitor alternate, also when
\* an update or a destroy comes between (set_monitor_idle, lines 143-168).
ReportsFollowState ==
  \A m \in DOMAIN monitors :
    (dpc = "report" /\ Mon = m) \/ reported[m] = monitors[m].is_idle

\* Outside im->mu every notification that is alive belongs to one monitor, which is
\* enabled and not destroyed, or to one wait in progress: none leaks, none is shared.
NoProxyLeaks ==
  LET monitored == {m \in DOMAIN monitors : ProxyOf(m) # {}}
      waiting == {c \in Clients : pc[c] \in {"attach", "wait"}}
  IN
  mu = None =>
    /\ proxies = {monitors[m].notification : m \in monitored}
                   \cup {req[c].notif : c \in waiting}
    /\ Cardinality(proxies) = Cardinality(monitored) + Cardinality(waiting)
    /\ \A m \in monitored : monitors[m].enabled /\ ~monitors[m].deleted

\* A wait that returns has seen the event it waited for on its own notification, and
\* is_idle does not answer "true" without one (lines 468-591).
WaitIsTruthful ==
  \A c \in Clients :
    LET n == req[c].notif IN
    (pc[c] = "wait" /\ WaitOver(req[c].kind, n) /\ ~stray) =>
      /\ req[c].kind = "idle" => "idled" \in sent[n]
      /\ req[c].kind = "resume" => {"idled", "resumed"} \subseteq sent[n]
      /\ n \in fired => "idled" \in sent[n]

\* The Wayland object of an inhibitor is there as long as it is enabled and no longer,
\* and the legacy toggle never holds the id of an inhibitor that was destroyed through
\* IdleInhibitorDestroy: its entry is live unless the table was full (lines 362-394,
\* 802-828).
InhibitorsMatch ==
  manager = "up" =>
    /\ \A i \in DOMAIN inhibitors :
         inhibitors[i].inhibitor <=> inhibitors[i].enabled /\ ~inhibitors[i].deleted
    /\ legacy_inhibitor_id # 0 =>
         \/ FindInhibitor(legacy_inhibitor_id) # {}
         \/ Len(inhibitors) = MaxInhibitors /\ \A i \in DOMAIN inhibitors :
                                                 inhibitors[i].id # legacy_inhibitor_id

\* The manager is freed only after the last callback has returned: clearing the back
\* pointers, which the dispatch thread reads without the mutex, would not be enough.
NoCallbackAfterFree == manager = "freed" => dpc = "ended"

\* A wait in progress hears its notification: once the dispatch thread is done with the
\* events of it, its flags say what was sent, unless an event came before the listener
\* (lines 482, 491) and was dropped.  So no wake-up is lost to a race with the callback.
WaitHears ==
  \A c \in Clients :
    LET n == req[c].notif IN
    (pc[c] = "wait" /\ n \notin dropped /\ ~Pending(n)) =>
      /\ n \in fired <=> "idled" \in sent[n]
      /\ n \in resumed <=> "resumed" \in sent[n]

\* Lines 413-414: the context of a wait is "heap-allocated to survive across threads
\* safely".  A callback that has begun should find it allocated.
ContextOutlivesCallback == dpc = "oneshot" => callback.notif \in contexts

\* wayland_client.c, lines 172-174: disconnecting unblocks the dispatch thread, which is
\* then joined.  So a shutdown should end.
ShutdownEnds == manager = "joining" ~> manager = "freed"

=============================================================================
