----------------------------- MODULE Idle_proofs -----------------------------
(***************************************************************************)
(* Theorems about Idle.tla, for every number of threads, monitors,         *)
(* inhibitors, notifications and requests, and queues of any length.       *)
(***************************************************************************)
EXTENDS Idle, SequenceTheorems, TLAPS

-----------------------------------------------------------------------------
(* The end of the manager *)

\* The dispatch thread does nothing once it has ended, and only its end lets the manager
\* be freed.
THEOREM CallbackSafety == Spec => []NoCallbackAfterFree
<1>1. Init => NoCallbackAfterFree
  BY DEF Init, NoCallbackAfterFree
<1>2. ASSUME NoCallbackAfterFree, [Next]_vars PROVE NoCallbackAfterFree'
  <2>1. ASSUME NEW c \in Clients, ClientStep(c) PROVE UNCHANGED <<manager, dpc>>
    BY <2>1
       DEF ClientStep, CreateMonitor, Listen, ReadMonitor, UpdateMonitor, DestroyMonitor,
           BeginWait, Attach, EndWait, FreeContext, ServeInhibitors, dispatchVars
  <2>2. DispatchStep \/ LoseDisplay => dpc # "ended" /\ UNCHANGED manager
    BY DEF DispatchStep, DiscardEvent, DropEvent, TakeEvent, Wake, TestRunning, LoseDisplay,
           ReadManager, SetMonitorIdle, Report, SetContext, NextEvent, InCallback, Aside
  <2>3. UserActs \/ UserRests \/ CompositorStep => UNCHANGED <<manager, dpc>>
    BY DEF UserActs, UserRests, CompositorStep, User, SendIdled, SendResumed, Send,
           dispatchVars
  <2>4. ShutdownStep => UNCHANGED dpc /\ (manager' = "freed" => dpc = "ended")
    BY DEF ShutdownStep, Clear, StopRunning, Free, Shutdown, dispatchVars
  <2> QED BY <1>2, <2>1, <2>2, <2>3, <2>4 DEF Next, NoCallbackAfterFree, vars, dispatchVars
<1> QED BY <1>1, <1>2, PTL DEF Spec

-----------------------------------------------------------------------------
(* Type correctness, and that a slot that is referred to is in the table *)

\* A listener, a request and a callback refer to slots that are in use: a slot is never
\* taken back.
ListenerTable == \A n \in Notifs : listener[n] \in DOMAIN monitors \cup {NoListener, OwnContext}

RequestTable == \A c \in Clients : pc[c] \in {"listen", "update"} => req[c].monitor \in DOMAIN monitors

CallbackTable == dpc \in {"manager", "lock", "report"} => Mon \in DOMAIN monitors

TableInv == TypeOK /\ ListenerTable /\ RequestTable /\ CallbackTable

\* The table of monitors.
LEMMA TableDomain ==
  ASSUME TableType
  PROVE  /\ DOMAIN monitors = 1 .. Len(monitors)
         /\ Len(monitors) \in Nat
         /\ DOMAIN monitors \subseteq Slots
         /\ \A m \in DOMAIN monitors : monitors[m] \in Monitor
<1>1. monitors \in Seq(Monitor) /\ Len(monitors) <= MaxMonitors
  BY DEF TableType
<1>2. DOMAIN monitors = 1 .. Len(monitors) /\ Len(monitors) \in Nat
  BY <1>1, LenProperties
<1>3. \A m \in DOMAIN monitors : monitors[m] \in Monitor
  BY <1>1, <1>2, ElementOfSeq
<1> QED BY <1>1, <1>2, <1>3, IdleAssumption DEF Slots

\* PutMonitor replaces an entry or adds one at the end.
LEMMA PutMonitorTable ==
  ASSUME TableType, NEW m \in Slots, NEW mon \in Monitor,
         m \in DOMAIN monitors \/ m = Len(monitors) + 1, PutMonitor(m, mon)
  PROVE  /\ monitors' \in Seq(Monitor)
         /\ Len(monitors') <= MaxMonitors
         /\ DOMAIN monitors' = DOMAIN monitors \cup {m}
         /\ \A k \in DOMAIN monitors' : monitors'[k] = IF k = m THEN mon ELSE monitors[k]
<1>1. monitors \in Seq(Monitor) /\ Len(monitors) <= MaxMonitors
  BY DEF TableType
<1>2. DOMAIN monitors = 1 .. Len(monitors) /\ Len(monitors) \in Nat
  BY TableDomain
<1>3. CASE m \in DOMAIN monitors
  <2>1. monitors' = [monitors EXCEPT ![m] = mon]
    BY <1>3 DEF PutMonitor
  <2>2. /\ monitors' \in Seq(Monitor)
        /\ Len(monitors') = Len(monitors)
        /\ \A k \in 1 .. Len(monitors) : monitors'[k] = IF k = m THEN mon ELSE monitors[k]
    BY <1>1, <1>2, <1>3, <2>1, ExceptSeq
  <2>3. DOMAIN monitors' = 1 .. Len(monitors')
    BY <2>2, LenProperties
  <2> QED BY <1>1, <1>2, <1>3, <2>2, <2>3
<1>4. CASE m = Len(monitors) + 1
  <2>0. m \notin DOMAIN monitors
    BY <1>2, <1>4
  <2>1. monitors' = Append(monitors, mon)
    BY <2>0 DEF PutMonitor
  <2>2. /\ monitors' \in Seq(Monitor)
        /\ Len(monitors') = Len(monitors) + 1
        /\ \A k \in 1 .. Len(monitors) : monitors'[k] = monitors[k]
        /\ monitors'[m] = mon
    BY <1>1, <1>4, <2>1, AppendProperties
  <2>3. DOMAIN monitors' = 1 .. Len(monitors')
    BY <2>2, LenProperties
  <2> QED BY <1>2, <1>4, <2>2, <2>3, IdleAssumption DEF Slots
<1> QED BY <1>3, <1>4

\* A function on 1 .. n is a sequence.
LEMMA FunctionIsSeq ==
  ASSUME NEW S, NEW n \in Nat, NEW f, f = [i \in 1 .. n |-> f[i]], \A i \in 1 .. n : f[i] \in S
  PROVE  f \in Seq(S) /\ Len(f) = n
<1>1. [i \in 1 .. n |-> f[i]] \in Seq(S)
  OBVIOUS
<1>2. f \in Seq(S)
  BY <1>1, Zenon
<1>3. DOMAIN f = 1 .. n /\ DOMAIN f = 1 .. Len(f) /\ Len(f) \in Nat
  BY <1>2, LenProperties
<1> QED BY <1>2, <1>3

LEMMA NewNotifFresh ==
  ASSUME CanCreate PROVE NewNotif \in Notifs \ InUse
BY DEF CanCreate, NewNotif

\* What notifications are replaced by are notifications.
LEMMA ReplaceTypes ==
  ASSUME ProxyType, NEW old, NEW new \in SUBSET Notifs, ReplaceProxies(old, new)
  PROVE  ProxyType'
BY DEF ProxyType, ReplaceProxies

\* A listener that is left, and one that is taken away, stays within the table.
LEMMA ReplaceListeners ==
  ASSUME ProxyType, ListenerTable, NEW old, NEW new, ReplaceProxies(old, new),
         DOMAIN monitors \subseteq DOMAIN monitors'
  PROVE  ListenerTable'
BY DEF ListenerTable, ReplaceProxies, Notifs

\* What a step leaves alone keeps its type, and a longer table its references.
LEMMA TypeUnchanged ==
  /\ TableType /\ UNCHANGED tableVars => TableType'
  /\ InhibitType /\ UNCHANGED inhibitVars => InhibitType'
  /\ ProxyType /\ UNCHANGED proxyVars => ProxyType'
  /\ ContextType /\ UNCHANGED contextVars => ContextType'
  /\ WireType /\ UNCHANGED <<wireVars, acks_due>> => WireType'
  /\ DispatchType /\ UNCHANGED <<dispatchVars, manager>> => DispatchType'
  /\ RequestType /\ UNCHANGED requestVars => RequestType'
  /\ HistType /\ UNCHANGED histVars => HistType'
<1>1. TableType /\ UNCHANGED tableVars => TableType'
  BY DEF TableType, tableVars
<1>2. InhibitType /\ UNCHANGED inhibitVars => InhibitType'
  BY DEF InhibitType, inhibitVars
<1>3. ProxyType /\ UNCHANGED proxyVars => ProxyType'
  BY DEF ProxyType, proxyVars
<1>4. ContextType /\ UNCHANGED contextVars => ContextType'
  BY DEF ContextType, contextVars
<1>5. WireType /\ UNCHANGED <<wireVars, acks_due>> => WireType'
  BY DEF WireType, wireVars
<1>6. DispatchType /\ UNCHANGED <<dispatchVars, manager>> => DispatchType'
  BY DEF DispatchType, dispatchVars
<1>7. RequestType /\ UNCHANGED requestVars => RequestType'
  BY DEF RequestType, requestVars
<1>8. HistType /\ UNCHANGED histVars => HistType'
  BY DEF HistType, histVars
<1> QED BY <1>1, <1>2, <1>3, <1>4, <1>5, <1>6, <1>7, <1>8

LEMMA ReferencesKept ==
  ASSUME DOMAIN monitors \subseteq DOMAIN monitors'
  PROVE  /\ ListenerTable /\ UNCHANGED listener => ListenerTable'
         /\ RequestTable /\ UNCHANGED <<pc, req>> => RequestTable'
         /\ CallbackTable /\ UNCHANGED dispatchVars => CallbackTable'
BY DEF ListenerTable, RequestTable, CallbackTable, Mon, dispatchVars

LEMMA TableInit == Init => TableInv
<1> SUFFICES ASSUME Init PROVE TableInv
  OBVIOUS
<1>1. TableType /\ InhibitType /\ WireType
  <2>1. <<>> \in Seq(Monitor) /\ <<>> \in Seq(Inhibitor) /\ <<>> \in Seq(Event) /\ Len(<<>>) = 0
    BY EmptySeq
  <2>2. TableType
    BY <2>1, IdleAssumption DEF Init, TableType
  <2>3. InhibitType
    BY <2>1, IdleAssumption DEF Init, InhibitType
  <2>4. WireType
    BY <2>1 DEF Init, WireType
  <2> QED BY <2>2, <2>3, <2>4
<1>2. ProxyType /\ ContextType /\ DispatchType /\ HistType
  BY DEF Init, ProxyType, ContextType, DispatchType, HistType
<1>3. RequestType
  BY IdleAssumption DEF Init, RequestType, Request, NoRequest
<1>4. ListenerTable /\ RequestTable /\ CallbackTable
  BY DEF Init, ListenerTable, RequestTable, CallbackTable
<1> QED BY <1>1, <1>2, <1>3, <1>4 DEF TableInv, TypeOK

-----------------------------------------------------------------------------
(* The steps keep the types *)

\* A request that starts is counted.
LEMMA ServeCounts ==
  ASSUME RequestType, NEW c, NEW kinds, Serve(c, kinds) PROVE ops' \in 0 .. MaxOps
<1>1. MaxOps \in Nat
  BY IdleAssumption
<1> QED BY <1>1 DEF Serve, RequestType

\* The local variables of a request about monitor m.
LEMMA MonitorRequest ==
  ASSUME NEW m \in Slots
  PROVE  /\ \A enabled \in BOOLEAN :
              [NoRequest EXCEPT !.monitor = m, !.enabled = enabled] \in Request
         /\ \A n \in Notifs : [NoRequest EXCEPT !.monitor = m, !.notif = n] \in Request
<1>1. m \in 0 .. MaxMonitors
  BY IdleAssumption DEF Slots
<1>2. NoRequest \in Request
  BY IdleAssumption DEF NoRequest, Request
<1> QED BY <1>1, <1>2 DEF Request

\* refresh_monitor, as create and update call it.
LEMMA RefreshTable ==
  ASSUME TableInv, NEW c \in Clients, NEW m \in Slots, NEW mon \in Monitor,
         m \in DOMAIN monitors \/ m = Len(monitors) + 1, Refresh(c, m, mon)
  PROVE  /\ TableType' /\ ProxyType'
         /\ acks_due' \in BOOLEAN
         /\ pc' \in [Clients -> {"ready", "update", "listen", "attach", "wait", "free"}]
         /\ req' \in [Clients -> Request]
         /\ DOMAIN monitors \subseteq DOMAIN monitors'
         /\ ListenerTable' /\ RequestTable'
<1> USE DEF TableInv, TypeOK
<1> DEFINE old == {mon.notification} \ {NoProxy}
<1>1. acks_due' \in BOOLEAN
  BY DEF Refresh, Destroyed, WireType
<1>2. CASE mon.enabled
  <2>1. /\ CanCreate
        /\ ReplaceProxies(old, {NewNotif})
        /\ PutMonitor(m, [mon EXCEPT !.notification = NewNotif, !.manager = TRUE])
        /\ mu' = c
        /\ req' = [req EXCEPT ![c] = [NoRequest EXCEPT !.monitor = m, !.notif = NewNotif]]
        /\ pc' = [pc EXCEPT ![c] = "listen"]
    BY <1>2 DEF Refresh, Goto
  <2>2. NewNotif \in Notifs
    BY <2>1, NewNotifFresh
  <2>3. [mon EXCEPT !.notification = NewNotif, !.manager = TRUE] \in Monitor
    BY <2>2 DEF Monitor
  <2>4. /\ monitors' \in Seq(Monitor)
        /\ Len(monitors') <= MaxMonitors
        /\ DOMAIN monitors' = DOMAIN monitors \cup {m}
    BY <2>1, <2>3, PutMonitorTable
  <2>5. [NoRequest EXCEPT !.monitor = m, !.notif = NewNotif] \in Request
    BY <2>2, MonitorRequest
  <2>6. /\ pc' \in [Clients -> {"ready", "update", "listen", "attach", "wait", "free"}]
        /\ req' \in [Clients -> Request]
    BY <2>1, <2>5 DEF RequestType
  <2>7. TableType'
    BY <2>1, <2>4 DEF TableType
  <2>8. ProxyType' /\ ListenerTable'
    BY <2>1, <2>2, <2>4, ReplaceTypes, ReplaceListeners
  <2>9. RequestTable'
    <3>1. req'[c].monitor = m
      BY <2>1 DEF RequestType, NoRequest
    <3> QED BY <2>1, <2>4, <3>1 DEF RequestTable, RequestType
  <2> QED BY <1>1, <2>4, <2>6, <2>7, <2>8, <2>9
<1>3. CASE ~mon.enabled
  <2>1. /\ ReplaceProxies(old, {})
        /\ PutMonitor(m, [mon EXCEPT !.notification = NoProxy])
        /\ mu' = mu
        /\ req' = [req EXCEPT ![c] = NoRequest]
        /\ pc' = [pc EXCEPT ![c] = "ready"]
    BY <1>3 DEF Refresh, Goto
  <2>2. [mon EXCEPT !.notification = NoProxy] \in Monitor
    BY DEF Monitor
  <2>3. /\ monitors' \in Seq(Monitor)
        /\ Len(monitors') <= MaxMonitors
        /\ DOMAIN monitors' = DOMAIN monitors \cup {m}
    BY <2>1, <2>2, PutMonitorTable
  <2>4. NoRequest \in Request
    BY IdleAssumption DEF NoRequest, Request
  <2>5. /\ pc' \in [Clients -> {"ready", "update", "listen", "attach", "wait", "free"}]
        /\ req' \in [Clients -> Request]
    BY <2>1, <2>4 DEF RequestType
  <2>6. TableType'
    BY <2>1, <2>3 DEF TableType
  <2>7. ProxyType' /\ ListenerTable'
    BY <2>1, <2>3, ReplaceTypes, ReplaceListeners
  <2>8. RequestTable'
    BY <2>1, <2>3 DEF RequestTable, RequestType
  <2> QED BY <1>1, <2>3, <2>5, <2>6, <2>7, <2>8
<1> QED BY <1>2, <1>3

\* The requests about monitors.
LEMMA MonitorTable ==
  ASSUME TableInv, NEW c \in Clients,
         CreateMonitor(c) \/ Listen(c) \/ ReadMonitor(c) \/ UpdateMonitor(c) \/ DestroyMonitor(c)
  PROVE  TableInv' /\ DOMAIN monitors \subseteq DOMAIN monitors'
<1> USE DEF TableInv, TypeOK
<1>0. NoRequest \in Request
  BY IdleAssumption DEF NoRequest, Request
<1>1. CASE CreateMonitor(c)
  <2>1. ops' \in 0 .. MaxOps
    BY <1>1, ServeCounts DEF CreateMonitor
  <2>2. UNCHANGED <<inhibitVars, manager, contextVars, wireVars, dispatchVars, histVars>>
    BY <1>1 DEF CreateMonitor
  <2>3. CASE UNCHANGED <<tableVars, proxyVars, acks_due, pc, req>>
    <3>1. RequestType'
      BY <2>1, <2>3 DEF RequestType
    <3> QED BY <2>2, <2>3, <3>1, TypeUnchanged, ReferencesKept DEF tableVars, proxyVars
  <2>4. CASE /\ Len(monitors) < MaxMonitors
             /\ \E enabled \in BOOLEAN : Refresh(c, Len(monitors) + 1, NewMonitor(enabled))
    <3>1. PICK enabled \in BOOLEAN : Refresh(c, Len(monitors) + 1, NewMonitor(enabled))
      BY <2>4
    <3>2. NewMonitor(enabled) \in Monitor /\ Len(monitors) + 1 \in Slots
      BY <2>4, TableDomain, IdleAssumption DEF NewMonitor, Monitor, Slots
    <3>3. /\ TableType' /\ ProxyType' /\ ListenerTable' /\ RequestTable'
          /\ acks_due' \in BOOLEAN
          /\ pc' \in [Clients -> {"ready", "update", "listen", "attach", "wait", "free"}]
          /\ req' \in [Clients -> Request]
          /\ DOMAIN monitors \subseteq DOMAIN monitors'
      BY <3>1, <3>2, RefreshTable
    <3>4. WireType' /\ RequestType'
      BY <2>1, <2>2, <3>3 DEF WireType, RequestType, wireVars
    <3> QED BY <2>2, <3>3, <3>4, TypeUnchanged, ReferencesKept
  <2> QED BY <1>1, <2>3, <2>4 DEF CreateMonitor
<1>2. CASE Listen(c)
  <2>1. UNCHANGED <<monitors, inhibitVars, manager, proxies, idling, sent, dropped,
                    contextVars, wireVars, acks_due, dispatchVars, ops, histVars>>
    BY <1>2 DEF Listen
  <2>2. req[c].monitor \in DOMAIN monitors
    BY <1>2 DEF Listen, Serving, RequestTable
  <2>3. listener' = [listener EXCEPT ![req[c].notif] = req[c].monitor]
    BY <1>2 DEF Listen
  <2>4. ProxyType' /\ ListenerTable'
    BY <2>1, <2>2, <2>3, TableDomain DEF ProxyType, ListenerTable
  <2>5. RequestType' /\ RequestTable'
    BY <1>0, <1>2 DEF Listen, Goto, RequestType, RequestTable
  <2>6. TableType'
    BY <1>2 DEF Listen, TableType
  <2> QED BY <2>1, <2>4, <2>5, <2>6, TypeUnchanged, ReferencesKept
<1>3. CASE ReadMonitor(c)
  <2>1. UNCHANGED <<tableVars, inhibitVars, manager, proxyVars, contextVars, wireVars, acks_due,
                    dispatchVars, histVars>>
    BY <1>3 DEF ReadMonitor
  <2>2. ops' \in 0 .. MaxOps
    BY <1>3, ServeCounts DEF ReadMonitor
  <2>3. RequestType' /\ RequestTable'
    <3>1. CASE UNCHANGED <<pc, req>>
      BY <2>1, <2>2, <3>1 DEF RequestType, RequestTable, tableVars
    <3>2. ASSUME NEW m \in DOMAIN monitors, NEW enabled \in BOOLEAN,
                 req' = [req EXCEPT ![c] = [NoRequest EXCEPT !.monitor = m,
                                                             !.enabled = enabled]],
                 pc' = [pc EXCEPT ![c] = "update"]
          PROVE  RequestType' /\ RequestTable'
      <4>1. [NoRequest EXCEPT !.monitor = m, !.enabled = enabled] \in Request
        BY TableDomain, MonitorRequest
      <4>2. req'[c].monitor = m
        BY <3>2 DEF NoRequest, RequestType
      <4>3. RequestType'
        BY <2>2, <3>2, <4>1 DEF RequestType
      <4>4. RequestTable'
        BY <2>1, <3>2, <4>2 DEF RequestTable, RequestType, tableVars
      <4> QED BY <4>3, <4>4
    <3> QED BY <1>3, <3>1, <3>2 DEF ReadMonitor, Goto
  <2> QED BY <2>1, <2>3, TypeUnchanged, ReferencesKept DEF tableVars, proxyVars
<1>4. CASE UpdateMonitor(c)
  <2> DEFINE m == req[c].monitor
  <2>1. UNCHANGED <<inhibitVars, manager, contextVars, wireVars, dispatchVars, ops, histVars>>
    BY <1>4 DEF UpdateMonitor
  <2>2. CASE Live(m) /\ Refresh(c, m, [monitors[m] EXCEPT !.enabled = req[c].enabled])
    <3>1. m \in DOMAIN monitors /\ m \in Slots
      BY <2>2, TableDomain DEF Live
    <3>2. [monitors[m] EXCEPT !.enabled = req[c].enabled] \in Monitor
      <4>1. req[c].enabled \in BOOLEAN /\ monitors[m] \in Monitor
        BY <3>1, TableDomain DEF RequestType, Request
      <4> QED BY <4>1 DEF Monitor
    <3>3. /\ TableType' /\ ProxyType' /\ ListenerTable' /\ RequestTable'
          /\ acks_due' \in BOOLEAN
          /\ pc' \in [Clients -> {"ready", "update", "listen", "attach", "wait", "free"}]
          /\ req' \in [Clients -> Request]
          /\ DOMAIN monitors \subseteq DOMAIN monitors'
      BY <2>2, <3>1, <3>2, RefreshTable
    <3>4. WireType' /\ RequestType'
      BY <2>1, <3>3 DEF WireType, RequestType, wireVars
    <3> QED BY <2>1, <3>3, <3>4, TypeUnchanged, ReferencesKept
  <2>3. CASE /\ req' = [req EXCEPT ![c] = NoRequest]
             /\ Goto(c, "ready")
             /\ UNCHANGED <<tableVars, proxyVars, acks_due>>
    <3>1. RequestType' /\ RequestTable'
      BY <1>0, <2>1, <2>3 DEF Goto, RequestType, RequestTable, tableVars
    <3> QED BY <2>1, <2>3, <3>1, TypeUnchanged, ReferencesKept DEF tableVars, proxyVars
  <2> QED BY <1>4, <2>2, <2>3 DEF UpdateMonitor
<1>5. CASE DestroyMonitor(c)
  <2>1. UNCHANGED <<mu, inhibitVars, manager, contextVars, wireVars, dispatchVars, pc, req,
                    histVars>>
    BY <1>5 DEF DestroyMonitor
  <2>2. RequestType'
    <3>1. ops' \in 0 .. MaxOps
      BY <1>5, ServeCounts DEF DestroyMonitor
    <3> QED BY <2>1, <3>1 DEF RequestType
  <2>3. CASE UNCHANGED <<monitors, proxyVars, acks_due>>
    BY <2>1, <2>2, <2>3, TypeUnchanged, ReferencesKept DEF tableVars, proxyVars
  <2>4. ASSUME NEW m \in DOMAIN monitors, ReplaceProxies(ProxyOf(m), {}), Destroyed(ProxyOf(m)),
               PutMonitor(m, [monitors[m] EXCEPT !.notification = NoProxy,
                                                 !.deleted = TRUE, !.manager = FALSE])
        PROVE  TableInv' /\ DOMAIN monitors \subseteq DOMAIN monitors'
    <3>1. m \in Slots /\ [monitors[m] EXCEPT !.notification = NoProxy, !.deleted = TRUE,
                                             !.manager = FALSE] \in Monitor
      BY TableDomain DEF Monitor
    <3>2. /\ monitors' \in Seq(Monitor)
          /\ Len(monitors') <= MaxMonitors
          /\ DOMAIN monitors' = DOMAIN monitors \cup {m}
      BY <2>4, <3>1, PutMonitorTable
    <3>3. TableType'
      BY <2>1, <3>2 DEF TableType
    <3>4. ProxyType' /\ ListenerTable'
      BY <2>4, <3>2, ReplaceTypes, ReplaceListeners
    <3>5. WireType'
      BY <2>1, <2>4 DEF WireType, Destroyed, wireVars
    <3> QED BY <2>1, <2>2, <3>2, <3>3, <3>4, <3>5, TypeUnchanged, ReferencesKept
  <2> QED BY <1>5, <2>3, <2>4 DEF DestroyMonitor
<1> QED BY <1>1, <1>2, <1>3, <1>4, <1>5

\* The one-shot waits; im->monitors is not theirs.
LEMMA WaitTable ==
  ASSUME TableInv, NEW c \in Clients, BeginWait(c) \/ Attach(c) \/ EndWait(c) \/ FreeContext(c)
  PROVE  TableInv' /\ UNCHANGED monitors
<1> USE DEF TableInv, TypeOK
<1>0. NoRequest \in Request
  BY IdleAssumption DEF NoRequest, Request
<1>1. CASE BeginWait(c)
  <2>1. PICK kind \in WaitKinds :
          /\ Serve(c, kind)
          /\ CanCreate
          /\ ReplaceProxies({}, {NewNotif})
          /\ contexts' = contexts \cup {NewNotif}
          /\ req' = [req EXCEPT ![c] = [NoRequest EXCEPT !.kind = kind, !.notif = NewNotif]]
          /\ pc' = [pc EXCEPT ![c] = "attach"]
          /\ UNCHANGED <<tableVars, inhibitVars, manager, fired, resumed, wireVars, acks_due,
                         dispatchVars, histVars>>
    BY <1>1 DEF BeginWait, Goto
  <2>2. NewNotif \in Notifs
    BY <2>1, NewNotifFresh
  <2>3. UNCHANGED monitors
    BY <2>1 DEF tableVars
  <2>4. ProxyType' /\ ListenerTable'
    BY <2>1, <2>2, <2>3, ReplaceTypes, ReplaceListeners
  <2>5. [NoRequest EXCEPT !.kind = kind, !.notif = NewNotif] \in Request
    BY <1>0, <2>2 DEF Request
  <2>6. RequestType' /\ RequestTable'
    <3>1. ops' \in 0 .. MaxOps
      BY <2>1, ServeCounts
    <3> QED BY <2>1, <2>3, <2>5, <3>1 DEF RequestType, RequestTable
  <2>7. ContextType'
    BY <2>1, <2>2 DEF ContextType
  <2> QED BY <2>1, <2>3, <2>4, <2>6, <2>7, TypeUnchanged, ReferencesKept
<1>2. CASE Attach(c)
  <2>1. UNCHANGED <<tableVars, inhibitVars, manager, proxies, idling, sent, dropped,
                    contextVars, wireVars, acks_due, dispatchVars, req, ops, histVars>>
    BY <1>2 DEF Attach
  <2>2. UNCHANGED monitors
    BY <2>1 DEF tableVars
  <2>3. ProxyType' /\ ListenerTable'
    BY <1>2, <2>2 DEF Attach, ProxyType, ListenerTable
  <2>4. RequestType' /\ RequestTable'
    BY <1>2, <2>2 DEF Attach, Goto, RequestType, RequestTable
  <2> QED BY <2>1, <2>2, <2>3, <2>4, TypeUnchanged, ReferencesKept
<1>3. CASE EndWait(c)
  <2>1. UNCHANGED <<tableVars, inhibitVars, manager, contextVars, wireVars, dispatchVars, req,
                    ops, histVars>>
    BY <1>3 DEF EndWait
  <2>2. UNCHANGED monitors
    BY <2>1 DEF tableVars
  <2>3. ProxyType' /\ ListenerTable'
    BY <1>3, <2>2, ReplaceTypes, ReplaceListeners DEF EndWait
  <2>4. RequestType' /\ RequestTable'
    BY <1>3, <2>2 DEF EndWait, Goto, RequestType, RequestTable
  <2>5. WireType'
    BY <1>3 DEF EndWait, Destroyed, WireType, wireVars
  <2> QED BY <2>1, <2>2, <2>3, <2>4, <2>5, TypeUnchanged, ReferencesKept
<1>4. CASE FreeContext(c)
  <2>1. UNCHANGED <<tableVars, inhibitVars, manager, proxyVars, wireVars, acks_due,
                    dispatchVars, ops, histVars>>
    BY <1>4 DEF FreeContext
  <2>2. UNCHANGED monitors
    BY <2>1 DEF tableVars
  <2>3. ContextType'
    BY <1>4 DEF FreeContext, ContextType
  <2>4. RequestType' /\ RequestTable'
    BY <1>0, <1>4, <2>2 DEF FreeContext, Goto, RequestType, RequestTable
  <2> QED BY <2>1, <2>2, <2>3, <2>4, TypeUnchanged, ReferencesKept DEF proxyVars
<1> QED BY <1>1, <1>2, <1>3, <1>4

\* An inhibitor that is new or refreshed is one.
LEMMA RefreshInhibitorType ==
  /\ \A inh \in Inhibitor : RefreshInhibitor(inh) \in Inhibitor
  /\ \A id \in Nat \ {0}, enabled \in BOOLEAN : NewInhibitor(id, enabled) \in Inhibitor
BY DEF RefreshInhibitor, NewInhibitor, Inhibitor

\* What the sections about inhibitors do to their table.
LEMMA SetInhibitorTypes ==
  ASSUME InhibitType, acks_due \in BOOLEAN, NEW i \in DOMAIN inhibitors, NEW inh \in Inhibitor,
         SetInhibitor(i, inh)
  PROVE  /\ inhibitors' \in Seq(Inhibitor) /\ Len(inhibitors') <= MaxInhibitors
         /\ acks_due' \in BOOLEAN
<1>1. inhibitors \in Seq(Inhibitor) /\ i \in 1 .. Len(inhibitors)
  BY LenProperties DEF InhibitType
<1>2. inhibitors' \in Seq(Inhibitor) /\ Len(inhibitors') = Len(inhibitors)
  BY <1>1, ExceptSeq DEF SetInhibitor
<1> QED BY <1>2 DEF SetInhibitor, Destroyed, InhibitType

LEMMA AddInhibitorTypes ==
  ASSUME InhibitType, InhibitorRoom, NEW inh \in Inhibitor
  PROVE  Append(inhibitors, inh) \in Seq(Inhibitor) /\ Len(Append(inhibitors, inh)) <= MaxInhibitors
<1>1. inhibitors \in Seq(Inhibitor) /\ Len(inhibitors) \in Nat /\ Len(inhibitors) < MaxInhibitors
  BY LenProperties DEF InhibitType, InhibitorRoom
<1>2. Append(inhibitors, inh) \in Seq(Inhibitor) /\ Len(Append(inhibitors, inh)) = Len(inhibitors) + 1
  BY <1>1, AppendProperties
<1> QED BY <1>1, <1>2, IdleAssumption

LEMMA FoundInhibitor ==
  ASSUME InhibitType, NEW id, NEW i \in FindInhibitor(id)
  PROVE  i \in DOMAIN inhibitors /\ inhibitors[i] \in Inhibitor
BY LenProperties, ElementOfSeq DEF FindInhibitor, InhibitType

LEMMA InhibitTypes ==
  ASSUME InhibitType, acks_due \in BOOLEAN,
         CreateInhibitor \/ EnableInhibitor \/ DestroyInhibitor \/ ToggleLegacy
  PROVE  InhibitType' /\ acks_due' \in BOOLEAN
<1>0. /\ inhibitors \in Seq(Inhibitor) /\ Len(inhibitors) <= MaxInhibitors
      /\ next_inhibitor_id \in Nat /\ legacy_inhibitor_id \in 0 .. next_inhibitor_id
  BY DEF InhibitType
<1>1. ASSUME NEW i \in DOMAIN inhibitors, inhibitors[i] \in Inhibitor, NEW enabled \in BOOLEAN
      PROVE  /\ RefreshInhibitor([inhibitors[i] EXCEPT !.enabled = enabled]) \in Inhibitor
             /\ [inhibitors[i] EXCEPT !.deleted = TRUE, !.inhibitor = FALSE] \in Inhibitor
  <2>1. /\ [inhibitors[i] EXCEPT !.enabled = enabled] \in Inhibitor
        /\ [inhibitors[i] EXCEPT !.deleted = TRUE, !.inhibitor = FALSE] \in Inhibitor
    BY <1>1 DEF Inhibitor
  <2> QED BY <2>1, RefreshInhibitorType
<1>2. CASE CreateInhibitor
  <2>1. PICK enabled \in BOOLEAN :
          \/ /\ InhibitorRoom
             /\ next_inhibitor_id' = next_inhibitor_id + 1
             /\ inhibitors' = Append(inhibitors, NewInhibitor(next_inhibitor_id + 1, enabled))
             /\ UNCHANGED <<legacy_inhibitor_id, acks_due>>
          \/ UNCHANGED <<inhibitors, legacy_inhibitor_id, next_inhibitor_id, acks_due>>
    BY <1>2 DEF CreateInhibitor
  <2>2. NewInhibitor(next_inhibitor_id + 1, enabled) \in Inhibitor
    BY <1>0, RefreshInhibitorType
  <2> QED BY <1>0, <2>1, <2>2, AddInhibitorTypes DEF InhibitType
<1>3. CASE EnableInhibitor
  <2>1. PICK id \in 1 .. next_inhibitor_id, enabled \in BOOLEAN :
          /\ \/ \E i \in FindInhibitor(id) :
                  SetInhibitor(i, RefreshInhibitor([inhibitors[i] EXCEPT !.enabled = enabled]))
             \/ UNCHANGED <<inhibitors, acks_due>>
          /\ UNCHANGED <<legacy_inhibitor_id, next_inhibitor_id>>
    BY <1>3 DEF EnableInhibitor
  <2>2. /\ inhibitors' \in Seq(Inhibitor) /\ Len(inhibitors') <= MaxInhibitors
        /\ acks_due' \in BOOLEAN
    BY <1>0, <1>1, <2>1, FoundInhibitor, SetInhibitorTypes
  <2> QED BY <1>0, <2>1, <2>2 DEF InhibitType
<1>4. CASE DestroyInhibitor
  <2>1. PICK id \in 1 .. next_inhibitor_id :
          /\ \/ \E i \in FindInhibitor(id) :
                  SetInhibitor(i, [inhibitors[i] EXCEPT !.deleted = TRUE, !.inhibitor = FALSE])
             \/ UNCHANGED <<inhibitors, acks_due>>
          /\ legacy_inhibitor_id' = 0 \/ legacy_inhibitor_id' = legacy_inhibitor_id
          /\ UNCHANGED next_inhibitor_id
    BY <1>4 DEF DestroyInhibitor
  <2>2. /\ inhibitors' \in Seq(Inhibitor) /\ Len(inhibitors') <= MaxInhibitors
        /\ acks_due' \in BOOLEAN
    BY <1>0, <1>1, <2>1, FoundInhibitor, SetInhibitorTypes
  <2>3. next_inhibitor_id' \in Nat /\ legacy_inhibitor_id' \in 0 .. next_inhibitor_id'
    <3>1. next_inhibitor_id' = next_inhibitor_id
      BY <2>1
    <3>2. legacy_inhibitor_id' = 0 \/ legacy_inhibitor_id' = legacy_inhibitor_id
      BY <2>1
    <3> QED BY <1>0, <3>1, <3>2
  <2> QED BY <2>2, <2>3 DEF InhibitType
<1>5. CASE ToggleLegacy
  <2>1. PICK on \in BOOLEAN :
          \/ /\ next_inhibitor_id' = next_inhibitor_id + 1
             /\ legacy_inhibitor_id' = next_inhibitor_id + 1
             /\ \/ /\ InhibitorRoom
                   /\ inhibitors' = Append(inhibitors, NewInhibitor(next_inhibitor_id + 1, on))
                \/ inhibitors' = inhibitors
             /\ UNCHANGED acks_due
          \/ /\ \/ \E i \in FindInhibitor(legacy_inhibitor_id) :
                     SetInhibitor(i, RefreshInhibitor([inhibitors[i] EXCEPT !.enabled = on]))
                \/ UNCHANGED <<inhibitors, acks_due>>
             /\ UNCHANGED <<legacy_inhibitor_id, next_inhibitor_id>>
    BY <1>5 DEF ToggleLegacy
  <2>2. NewInhibitor(next_inhibitor_id + 1, on) \in Inhibitor
    BY <1>0, RefreshInhibitorType
  <2>3. /\ inhibitors' \in Seq(Inhibitor) /\ Len(inhibitors') <= MaxInhibitors
        /\ acks_due' \in BOOLEAN
    BY <1>0, <1>1, <2>1, <2>2, FoundInhibitor, SetInhibitorTypes, AddInhibitorTypes
  <2> QED BY <1>0, <2>1, <2>3 DEF InhibitType
<1> QED BY <1>2, <1>3, <1>4, <1>5

LEMMA InhibitTable ==
  ASSUME TableInv, NEW c \in Clients, ServeInhibitors(c)
  PROVE  TableInv' /\ UNCHANGED monitors
<1> USE DEF TableInv, TypeOK
<1>1. UNCHANGED <<tableVars, manager, proxyVars, contextVars, wireVars, dispatchVars, pc, req,
                  histVars>>
  BY DEF ServeInhibitors
<1>2. InhibitType' /\ acks_due' \in BOOLEAN
  <2>1. CreateInhibitor \/ EnableInhibitor \/ DestroyInhibitor \/ ToggleLegacy
    BY DEF ServeInhibitors
  <2>2. InhibitType /\ acks_due \in BOOLEAN
    BY DEF WireType
  <2> QED BY <2>1, <2>2, InhibitTypes
<1>3. RequestType'
  <2>1. ops' \in 0 .. MaxOps
    BY ServeCounts DEF ServeInhibitors
  <2> QED BY <1>1, <2>1 DEF RequestType
<1>4. WireType'
  BY <1>1, <1>2 DEF WireType, wireVars
<1> QED BY <1>1, <1>2, <1>3, <1>4, TypeUnchanged, ReferencesKept DEF tableVars, proxyVars

\* The dispatch thread neither adds to the table nor moves a monitor in it.
LEMMA DispatchTable ==
  ASSUME TableInv, DispatchStep \/ LoseDisplay
  PROVE  TableInv' /\ DOMAIN monitors' = DOMAIN monitors
<1> USE DEF TableInv, TypeOK
<1>1. UNCHANGED <<mu, inhibitVars, manager, proxies, listener, idling, sent, contexts,
                  user_active, requestVars>>
  BY DEF DispatchStep, DiscardEvent, DropEvent, TakeEvent, Wake, TestRunning, LoseDisplay,
         ReadManager, SetMonitorIdle, Report, SetContext, NextEvent, InCallback, Aside
<1>2. ASSUME SetMonitorIdle
      PROVE  monitors' \in Seq(Monitor) /\ Len(monitors') = Len(monitors)
  <2>1. Mon \in 1 .. Len(monitors) /\ monitors[Mon] \in Monitor
    BY <1>2, TableDomain DEF SetMonitorIdle, InCallback, CallbackTable
  <2>2. [monitors[Mon] EXCEPT !.is_idle = Idled] \in Monitor
    BY <2>1 DEF Monitor, Idled
  <2>3. monitors' = [monitors EXCEPT ![Mon] = [monitors[Mon] EXCEPT !.is_idle = Idled]]
    BY <1>2 DEF SetMonitorIdle
  <2> QED BY <2>1, <2>2, <2>3, ExceptSeq DEF TableType
<1>3. SetMonitorIdle \/ UNCHANGED monitors
  BY DEF DispatchStep, DiscardEvent, DropEvent, TakeEvent, Wake, TestRunning, LoseDisplay,
         ReadManager, Report, SetContext, NextEvent
<1>4. TableType' /\ DOMAIN monitors' = DOMAIN monitors
  <2>1. CASE SetMonitorIdle
    <3>1. monitors' \in Seq(Monitor) /\ monitors \in Seq(Monitor) /\ Len(monitors') = Len(monitors)
      BY <1>2, <2>1 DEF TableType
    <3>2. DOMAIN monitors' = DOMAIN monitors
      BY <3>1, LenProperties
    <3> QED BY <1>1, <3>1, <3>2 DEF TableType
  <2>2. CASE UNCHANGED monitors
    BY <1>1, <2>2 DEF TableType
  <2> QED BY <1>3, <2>1, <2>2
<1>5. ASSUME NextEvent
      PROVE  Head(queue) \in Event /\ WireType'
  BY <1>5, HeadTailProperties DEF NextEvent, WireType, Aside
<1>6. WireType'
  <2>1. NextEvent \/ (UNCHANGED queue /\ acks_due' \in BOOLEAN)
    BY DEF DispatchStep, DiscardEvent, DropEvent, TakeEvent, Wake, TestRunning, LoseDisplay,
           ReadManager, SetMonitorIdle, Report, SetContext, InCallback, WireType
  <2> QED BY <1>1, <1>5, <2>1 DEF WireType
<1>7. ProxyType'
  <2>1. DropEvent \/ UNCHANGED dropped
    BY DEF DispatchStep, DiscardEvent, TakeEvent, Wake, TestRunning, LoseDisplay,
           ReadManager, SetMonitorIdle, Report, SetContext, InCallback
  <2>2. DropEvent => dropped' \subseteq Notifs
    BY DEF DropEvent, ProxyType
  <2> QED BY <1>1, <2>1, <2>2 DEF ProxyType
<1>8. ContextType'
  <2>1. SetContext \/ UNCHANGED <<fired, resumed>>
    BY DEF DispatchStep, DiscardEvent, DropEvent, TakeEvent, Wake, TestRunning, LoseDisplay,
           ReadManager, SetMonitorIdle, Report, NextEvent
  <2>2. SetContext => fired' \subseteq contexts /\ resumed' \subseteq contexts
    BY DEF SetContext, ContextType
  <2> QED BY <1>1, <2>1, <2>2 DEF ContextType
<1>9. HistType'
  <2>1. Report \/ UNCHANGED reported
    BY DEF DispatchStep, DiscardEvent, DropEvent, TakeEvent, Wake, TestRunning, LoseDisplay,
           ReadManager, SetMonitorIdle, SetContext, NextEvent, histVars
  <2>2. Report => reported' \in [Slots -> BOOLEAN]
    BY DEF Report, HistType, Idled
  <2>3. stray' \in BOOLEAN
    BY DEF DispatchStep, DiscardEvent, DropEvent, TakeEvent, Wake, TestRunning, LoseDisplay,
           ReadManager, SetMonitorIdle, Report, SetContext, NextEvent, histVars, HistType
  <2> QED BY <2>1, <2>2, <2>3 DEF HistType
<1>10. DispatchType' /\ CallbackTable'
  <2>1. CASE TakeEvent
    <3> DEFINE e == Head(queue)
    <3>1. e \in Event /\ e.notif \in proxies /\ listener[e.notif] # NoListener
      BY <1>5, <2>1 DEF TakeEvent
    <3>2. e.notif \in Notifs /\ e.kind \in {"idled", "resumed"}
      BY <3>1 DEF Event
    <3>3. listener[e.notif] \in Slots \cup {OwnContext}
      BY <3>1, <3>2 DEF ProxyType
    <3>4. callback' = [notif |-> e.notif, kind |-> e.kind, data |-> listener[e.notif]]
      BY <2>1 DEF TakeEvent
    <3>5. callback' \in Callback /\ callback'.data = listener[e.notif]
      BY <3>2, <3>3, <3>4 DEF Callback
    <3>6. dpc' = IF listener[e.notif] = OwnContext THEN "oneshot" ELSE "manager"
      BY <2>1 DEF TakeEvent
    <3>7. dpc' = "manager" => listener[e.notif] \in DOMAIN monitors
      BY <3>1, <3>2, <3>6 DEF ListenerTable
    <3> QED BY <1>1, <1>4, <3>5, <3>6, <3>7 DEF DispatchType, CallbackTable, Mon
  <2>2. CASE SetMonitorIdle \/ ReadManager \/ Report \/ SetContext
    <3>1. \/ dpc' = "between" /\ callback' = NoCallback
          \/ dpc \in {"manager", "lock"} /\ dpc' \in {"lock", "report"} /\ UNCHANGED callback
      BY <2>2 DEF SetMonitorIdle, ReadManager, Report, SetContext, InCallback,
                  ReturnFromCallback, DispatchGoto
    <3> QED BY <1>1, <1>4, <3>1 DEF DispatchType, CallbackTable, Mon
  <2>3. CASE DiscardEvent \/ DropEvent \/ Wake \/ TestRunning \/ LoseDisplay
    <3>1. dpc' \in {"between", "poll", "ended"} /\ UNCHANGED callback
      BY <2>3 DEF DiscardEvent, DropEvent, Wake, TestRunning, LoseDisplay, DispatchGoto
    <3> QED BY <1>1, <3>1 DEF DispatchType, CallbackTable
  <2> QED BY <2>1, <2>2, <2>3 DEF DispatchStep
<1> QED BY <1>1, <1>4, <1>6, <1>7, <1>8, <1>9, <1>10, TypeUnchanged, ReferencesKept
        DEF requestVars

\* The compositor and the user leave the daemon's tables alone.
LEMMA OutsideTable ==
  ASSUME TableInv, UserActs \/ UserRests \/ CompositorStep
  PROVE  TableInv' /\ UNCHANGED monitors
<1> USE DEF TableInv, TypeOK
<1>1. UNCHANGED <<tableVars, inhibitVars, manager, proxies, listener, dropped, contextVars,
                  acks_due, dispatchVars, requestVars, histVars>>
  BY DEF UserActs, UserRests, CompositorStep, User, SendIdled, SendResumed, Send, proxyVars
<1>2. CASE UserActs \/ UserRests
  <2>1. user_active' \in BOOLEAN /\ UNCHANGED <<queue, proxyVars>>
    BY <1>2 DEF UserActs, UserRests, User
  <2>2. WireType'
    BY <1>1, <2>1 DEF WireType
  <2> QED BY <1>1, <2>1, <2>2, TypeUnchanged, ReferencesKept DEF tableVars, requestVars
<1>3. CASE CompositorStep
  <2>1. PICK n \in Notifs : SendIdled(n) \/ SendResumed(n)
    BY <1>3 DEF CompositorStep
  <2>2. PICK kind \in {"idled", "resumed"} : Send(n, kind)
    BY <2>1 DEF SendIdled, SendResumed
  <2>3. WireType'
    <3>1. [notif |-> n, kind |-> kind] \in Event
      BY DEF Event
    <3>2. queue' \in Seq(Event)
      BY <2>2, <3>1, AppendProperties DEF Send, WireType
    <3> QED BY <1>1, <2>2, <3>2 DEF Send, WireType
  <2>4. ProxyType'
    <3>1. idling' \subseteq proxies
      BY <2>1 DEF SendIdled, SendResumed, ProxyType
    <3>2. sent' \in [Notifs -> SUBSET {"idled", "resumed"}]
      BY <2>2 DEF Send, ProxyType
    <3> QED BY <1>1, <3>1, <3>2 DEF ProxyType
  <2> QED BY <1>1, <2>3, <2>4, TypeUnchanged, ReferencesKept DEF tableVars, requestVars
<1> QED BY <1>2, <1>3

\* Shutdown keeps the entries of the tables.
LEMMA ShutdownTable ==
  ASSUME TableInv, ShutdownStep
  PROVE  TableInv' /\ DOMAIN monitors' = DOMAIN monitors
<1> USE DEF TableInv, TypeOK
<1>1. CASE Clear
  <2>1. UNCHANGED <<mu, inhibitVars, contextVars, wireVars, dispatchVars, requestVars, histVars>>
    BY <1>1 DEF Clear
  <2>2. monitors' = [m \in 1 .. Len(monitors) |->
                       [monitors[m] EXCEPT !.notification = NoProxy, !.manager = FALSE]]
    BY <1>1, TableDomain DEF Clear
  <2>3. /\ Len(monitors) \in Nat
        /\ \A m \in 1 .. Len(monitors) :
             [monitors[m] EXCEPT !.notification = NoProxy, !.manager = FALSE] \in Monitor
    BY TableDomain DEF Monitor
  <2>4. monitors' = [m \in 1 .. Len(monitors) |-> monitors'[m]]
    BY <2>2
  <2>5. monitors' \in Seq(Monitor) /\ Len(monitors') = Len(monitors)
    <3>1. \A m \in 1 .. Len(monitors) : monitors'[m] \in Monitor
      BY <2>2, <2>3
    <3> QED BY <2>3, <2>4, <3>1, FunctionIsSeq
  <2>6. TableType' /\ DOMAIN monitors' = DOMAIN monitors
    BY <2>1, <2>2, <2>5, TableDomain DEF TableType
  <2>7. ProxyType' /\ ListenerTable'
    <3>1. PICK own : ReplaceProxies(own, {})
      BY <1>1 DEF Clear
    <3> QED BY <2>6, <3>1, ReplaceTypes, ReplaceListeners
  <2>8. WireType'
    BY <1>1, <2>1 DEF Clear, Destroyed, WireType, wireVars
  <2>9. DispatchType'
    BY <1>1, <2>1 DEF Clear, DispatchType, dispatchVars
  <2> QED BY <2>1, <2>6, <2>7, <2>8, <2>9, TypeUnchanged, ReferencesKept DEF requestVars
<1>2. CASE StopRunning \/ Free
  <2>1. /\ UNCHANGED <<tableVars, inhibitVars, proxyVars, contextVars, wireVars, acks_due,
                       dispatchVars, requestVars, histVars>>
        /\ manager' \in {"joining", "freed"}
    BY <1>2 DEF StopRunning, Free, Shutdown
  <2>2. DispatchType'
    BY <2>1 DEF DispatchType, dispatchVars
  <2> QED BY <2>1, <2>2, TypeUnchanged, ReferencesKept DEF tableVars, proxyVars, requestVars
<1> QED BY <1>1, <1>2 DEF ShutdownStep

LEMMA TableStutter ==
  ASSUME TableInv, UNCHANGED vars PROVE TableInv'
BY TypeUnchanged, ReferencesKept
   DEF TableInv, TypeOK, vars, tableVars, proxyVars, requestVars

LEMMA TableStep == TableInv /\ [Next]_vars => TableInv'
<1> SUFFICES ASSUME TableInv, [Next]_vars PROVE TableInv'
  OBVIOUS
<1>1. ASSUME NEW c \in Clients, ClientStep(c) PROVE TableInv'
  BY <1>1, MonitorTable, WaitTable, InhibitTable DEF ClientStep
<1>2. CASE DispatchStep \/ LoseDisplay
  BY <1>2, DispatchTable
<1>3. CASE UserActs \/ UserRests \/ CompositorStep
  BY <1>3, OutsideTable
<1>4. CASE ShutdownStep
  BY <1>4, ShutdownTable
<1>5. CASE UNCHANGED vars
  BY <1>5, TableStutter
<1> QED BY <1>1, <1>2, <1>3, <1>4, <1>5 DEF Next

\* Idle's variables keep their types, and no listener, request or callback refers to a slot
\* of the monitor table that is not in use (idle.c never takes a slot back).
THEOREM IdleTypes == Spec => []TypeOK
<1>1. TableInv => TypeOK
  BY DEF TableInv
<1> QED BY <1>1, TableInit, TableStep, PTL DEF Spec

-----------------------------------------------------------------------------
(* What on_changed is told *)

\* A change that is about to be reported is in the table, and what was never a monitor was
\* never reported.
ReportDue == dpc = "report" => monitors[Mon].is_idle = Idled

Unreported == \A m \in Slots \ DOMAIN monitors : reported[m] = FALSE

ReportInv == TableInv /\ ReportDue /\ Unreported /\ ReportsFollowState

\* A step that neither begins nor ends a report, and that changes is_idle of no monitor.
StatesKept ==
  /\ DOMAIN monitors \subseteq DOMAIN monitors'
  /\ \A m \in DOMAIN monitors' :
       monitors'[m].is_idle = IF m \in DOMAIN monitors THEN monitors[m].is_idle ELSE FALSE

LEMMA ReportKept ==
  ASSUME ReportInv, TableInv', StatesKept, UNCHANGED reported,
         dpc' = "report" <=> dpc = "report", dpc = "report" => UNCHANGED callback
  PROVE  ReportInv'
<1>1. ReportDue'
  <2>1. CASE dpc = "report"
    <3>1. Mon \in DOMAIN monitors /\ callback' = callback /\ monitors[Mon].is_idle = Idled
      BY <2>1 DEF ReportInv, TableInv, CallbackTable, ReportDue
    <3>2. monitors'[Mon].is_idle = monitors[Mon].is_idle
      BY <3>1 DEF StatesKept
    <3> QED BY <3>1, <3>2 DEF ReportDue, Mon, Idled
  <2>2. CASE dpc' # "report"
    BY <2>2 DEF ReportDue
  <2> QED BY <2>1, <2>2
<1>2. Unreported'
  BY DEF ReportInv, Unreported, StatesKept
<1>3. ReportsFollowState'
  <2> SUFFICES ASSUME NEW m \in DOMAIN monitors', ~(dpc' = "report" /\ Mon' = m)
               PROVE  reported[m] = monitors'[m].is_idle
    BY DEF ReportsFollowState
  <2>1. CASE m \in DOMAIN monitors
    <3>1. ~(dpc = "report" /\ Mon = m)
      BY DEF Mon
    <3>2. reported[m] = monitors[m].is_idle
      BY <2>1, <3>1 DEF ReportInv, ReportsFollowState
    <3> QED BY <2>1, <3>2 DEF StatesKept
  <2>2. CASE m \notin DOMAIN monitors
    <3>1. monitors' \in Seq(Monitor) /\ Len(monitors') <= MaxMonitors
      BY DEF TableInv, TypeOK, TableType
    <3>2. m \in 1 .. Len(monitors') /\ Len(monitors') \in Nat
      BY <3>1, LenProperties
    <3>3. m \in Slots
      BY <3>1, <3>2, IdleAssumption DEF Slots
    <3> QED BY <2>2, <3>3 DEF ReportInv, Unreported, StatesKept
  <2> QED BY <2>1, <2>2
<1> QED BY <1>1, <1>2, <1>3 DEF ReportInv

\* An entry that is put in the table keeps is_idle.
LEMMA PutMonitorStates ==
  ASSUME TableType, NEW m \in Slots, NEW mon \in Monitor,
         m \in DOMAIN monitors \/ m = Len(monitors) + 1, PutMonitor(m, mon),
         mon.is_idle = IF m \in DOMAIN monitors THEN monitors[m].is_idle ELSE FALSE
  PROVE  StatesKept
BY PutMonitorTable DEF StatesKept

LEMMA RefreshStates ==
  ASSUME TableType, NEW c, NEW m \in Slots, NEW mon \in Monitor,
         m \in DOMAIN monitors \/ m = Len(monitors) + 1, Refresh(c, m, mon),
         mon.is_idle = IF m \in DOMAIN monitors THEN monitors[m].is_idle ELSE FALSE
  PROVE  StatesKept
<1>1. PICK n \in Notifs \cup {NoProxy}, managed \in BOOLEAN :
        PutMonitor(m, [mon EXCEPT !.notification = n, !.manager = managed])
  <2>1. CASE CanCreate /\ PutMonitor(m, [mon EXCEPT !.notification = NewNotif, !.manager = TRUE])
    BY <2>1, NewNotifFresh
  <2>2. CASE PutMonitor(m, [mon EXCEPT !.notification = NoProxy])
    <3>1. mon.manager \in BOOLEAN
          /\ [mon EXCEPT !.notification = NoProxy]
               = [mon EXCEPT !.notification = NoProxy, !.manager = mon.manager]
      BY DEF Monitor
    <3> QED BY <2>2, <3>1
  <2> QED BY <2>1, <2>2 DEF Refresh
<1> DEFINE new == [mon EXCEPT !.notification = n, !.manager = managed]
<1>2. new \in Monitor /\ new.is_idle = mon.is_idle
  BY DEF Monitor
<1> QED BY <1>1, <1>2, PutMonitorStates

LEMMA ClientStates ==
  ASSUME TableInv, NEW c \in Clients, ClientStep(c)
  PROVE  StatesKept /\ UNCHANGED <<reported, dpc, callback>>
<1>1. UNCHANGED <<reported, dpc, callback>>
  BY DEF ClientStep, CreateMonitor, Listen, ReadMonitor, UpdateMonitor, DestroyMonitor,
         BeginWait, Attach, EndWait, FreeContext, ServeInhibitors, dispatchVars, histVars
<1> SUFFICES StatesKept
  BY <1>1
<1>2. UNCHANGED monitors => StatesKept
  BY DEF StatesKept
<1>3. CASE CreateMonitor(c)
  <2>1. CASE UNCHANGED tableVars
    BY <1>2, <2>1 DEF tableVars
  <2>2. ASSUME Len(monitors) < MaxMonitors, NEW enabled \in BOOLEAN,
               Refresh(c, Len(monitors) + 1, NewMonitor(enabled))
        PROVE  StatesKept
    <3>1. /\ NewMonitor(enabled) \in Monitor /\ NewMonitor(enabled).is_idle = FALSE
          /\ Len(monitors) + 1 \in Slots /\ Len(monitors) + 1 \notin DOMAIN monitors
      BY <2>2, TableDomain, IdleAssumption DEF NewMonitor, Monitor, Slots, TableInv, TypeOK
    <3> QED BY <2>2, <3>1, RefreshStates DEF TableInv, TypeOK
  <2> QED BY <1>3, <2>1, <2>2 DEF CreateMonitor
<1>4. CASE UpdateMonitor(c)
  <2>1. CASE UNCHANGED tableVars
    BY <1>2, <2>1 DEF tableVars
  <2>2. ASSUME Live(req[c].monitor),
               Refresh(c, req[c].monitor,
                       [monitors[req[c].monitor] EXCEPT !.enabled = req[c].enabled])
        PROVE  StatesKept
    <3> DEFINE m == req[c].monitor
               mon == [monitors[m] EXCEPT !.enabled = req[c].enabled]
    <3>1. m \in DOMAIN monitors /\ m \in Slots /\ monitors[m] \in Monitor
      BY <2>2, TableDomain DEF Live, TableInv, TypeOK
    <3>2. req[c].enabled \in BOOLEAN
      BY DEF TableInv, TypeOK, RequestType, Request
    <3>3. mon \in Monitor /\ mon.is_idle = monitors[m].is_idle
      BY <3>1, <3>2 DEF Monitor
    <3> QED BY <2>2, <3>1, <3>3, RefreshStates DEF TableInv, TypeOK
  <2> QED BY <1>4, <2>1, <2>2 DEF UpdateMonitor
<1>5. CASE DestroyMonitor(c)
  <2>1. ASSUME NEW m \in DOMAIN monitors,
               PutMonitor(m, [monitors[m] EXCEPT !.notification = NoProxy,
                                                 !.deleted = TRUE, !.manager = FALSE])
        PROVE  StatesKept
    <3> DEFINE mon == [monitors[m] EXCEPT !.notification = NoProxy, !.deleted = TRUE,
                                          !.manager = FALSE]
    <3>1. m \in Slots /\ mon \in Monitor /\ mon.is_idle = monitors[m].is_idle
      BY TableDomain DEF Monitor, TableInv, TypeOK
    <3> QED BY <2>1, <3>1, PutMonitorStates DEF TableInv, TypeOK
  <2> QED BY <1>2, <1>5, <2>1 DEF DestroyMonitor
<1>6. CASE Listen(c) \/ ReadMonitor(c) \/ ServeInhibitors(c)
  BY <1>2, <1>6 DEF Listen, ReadMonitor, ServeInhibitors, tableVars
<1>7. CASE BeginWait(c) \/ Attach(c) \/ EndWait(c) \/ FreeContext(c)
  BY <1>2, <1>7, WaitTable
<1> QED BY <1>3, <1>4, <1>5, <1>6, <1>7 DEF ClientStep

\* The critical section of set_monitor_idle: a change is due to be reported.
LEMMA SetMonitorIdleReport ==
  ASSUME ReportInv, TableInv', DOMAIN monitors' = DOMAIN monitors, SetMonitorIdle
  PROVE  ReportInv'
<1>1. /\ dpc = "lock" /\ Mon \in DOMAIN monitors /\ UNCHANGED reported
      /\ monitors' = [monitors EXCEPT ![Mon] = [monitors[Mon] EXCEPT !.is_idle = Idled]]
  BY DEF SetMonitorIdle, InCallback, ReportInv, TableInv, CallbackTable, histVars
<1>2. monitors[Mon] \in Monitor /\ monitors \in Seq(Monitor)
  BY <1>1, TableDomain DEF ReportInv, TableInv, TypeOK, TableType
<1>3. \A m \in DOMAIN monitors :
        monitors'[m].is_idle = IF m = Mon THEN Idled ELSE monitors[m].is_idle
  BY <1>1, <1>2 DEF Monitor
<1>4. Unreported'
  BY <1>1 DEF ReportInv, Unreported
<1>5. ReportDue' /\ ReportsFollowState'
  <2>1. CASE monitors[Mon].is_idle = Idled /\ dpc' = "between"
    BY <1>1, <1>3, <2>1 DEF ReportInv, ReportDue, ReportsFollowState
  <2>2. CASE dpc' = "report" /\ UNCHANGED callback
    BY <1>1, <1>3, <2>2 DEF ReportInv, ReportDue, ReportsFollowState, Mon, Idled
  <2> QED BY <2>1, <2>2 DEF SetMonitorIdle, ReturnFromCallback, DispatchGoto
<1> QED BY <1>4, <1>5 DEF ReportInv

\* on_changed is called.
LEMMA ReportReport ==
  ASSUME ReportInv, TableInv', Report PROVE ReportInv'
<1>1. /\ dpc = "report" /\ dpc' = "between" /\ UNCHANGED monitors
      /\ reported' = [reported EXCEPT ![Mon] = Idled]
      /\ Mon \in DOMAIN monitors /\ monitors[Mon].is_idle = Idled
      /\ reported \in [Slots -> BOOLEAN] /\ DOMAIN monitors \subseteq Slots
  BY TableDomain DEF Report, InCallback, ReturnFromCallback, ReportInv, ReportDue, TableInv,
                     CallbackTable, TypeOK, HistType
<1>2. Unreported'
  BY <1>1 DEF ReportInv, Unreported
<1>3. ReportsFollowState'
  <2> SUFFICES ASSUME NEW m \in DOMAIN monitors PROVE reported'[m] = monitors[m].is_idle
    BY <1>1 DEF ReportsFollowState
  <2>1. CASE m = Mon
    BY <1>1, <2>1
  <2>2. CASE m # Mon
    BY <1>1, <2>2 DEF ReportInv, ReportsFollowState
  <2> QED BY <2>1, <2>2
<1>4. ReportDue'
  BY <1>1 DEF ReportDue
<1> QED BY <1>2, <1>3, <1>4 DEF ReportInv

LEMMA ReportInit == Init => ReportInv
<1> SUFFICES ASSUME Init PROVE ReportInv
  OBVIOUS
<1>1. TableInv /\ DOMAIN monitors = {}
  BY TableInit, TableDomain DEF Init, TableInv, TypeOK
<1>2. ReportDue /\ Unreported /\ ReportsFollowState
  BY <1>1 DEF Init, ReportDue, Unreported, ReportsFollowState
<1> QED BY <1>1, <1>2 DEF ReportInv

LEMMA ReportStep == ReportInv /\ [Next]_vars => ReportInv'
<1> SUFFICES ASSUME ReportInv, [Next]_vars PROVE ReportInv'
  OBVIOUS
<1>0. TableInv /\ TableInv'
  BY TableStep DEF ReportInv
<1>1. UNCHANGED monitors => StatesKept
  BY DEF StatesKept
<1>2. ASSUME NEW c \in Clients, ClientStep(c) PROVE ReportInv'
  BY <1>0, <1>2, ClientStates, ReportKept
<1>3. CASE SetMonitorIdle
  BY <1>0, <1>3, DispatchTable, SetMonitorIdleReport DEF DispatchStep
<1>4. CASE Report
  BY <1>0, <1>4, ReportReport
<1>5. CASE \/ DiscardEvent \/ DropEvent \/ TakeEvent \/ Wake \/ TestRunning \/ LoseDisplay
           \/ ReadManager \/ SetContext
  <2>1. UNCHANGED <<monitors, reported>> /\ dpc # "report" /\ dpc' # "report"
    BY <1>5 DEF DiscardEvent, DropEvent, TakeEvent, Wake, TestRunning, LoseDisplay, ReadManager,
                SetContext, NextEvent, InCallback, ReturnFromCallback, DispatchGoto, histVars
  <2> QED BY <1>0, <1>1, <2>1, ReportKept
<1>6. CASE UserActs \/ UserRests \/ CompositorStep
  <2>1. UNCHANGED <<monitors, reported, dpc, callback>>
    BY <1>6 DEF UserActs, UserRests, CompositorStep, User, SendIdled, SendResumed, Send,
                tableVars, histVars, dispatchVars
  <2> QED BY <1>0, <1>1, <2>1, ReportKept
<1>7. CASE ShutdownStep
  <2>1. UNCHANGED <<reported, dpc, callback>>
    BY <1>7 DEF ShutdownStep, Clear, StopRunning, Free, Shutdown, histVars, dispatchVars
  <2>2. StatesKept
    <3>1. CASE Clear
      <4>1. monitors' = [m \in DOMAIN monitors |->
                           [monitors[m] EXCEPT !.notification = NoProxy, !.manager = FALSE]]
        BY <3>1 DEF Clear
      <4>2. \A m \in DOMAIN monitors : monitors[m] \in Monitor
        BY <1>0, TableDomain DEF TableInv, TypeOK
      <4>3. \A m \in DOMAIN monitors : monitors'[m].is_idle = monitors[m].is_idle
        BY <4>1, <4>2 DEF Monitor
      <4> QED BY <4>1, <4>3 DEF StatesKept
    <3>2. CASE StopRunning \/ Free
      BY <1>1, <3>2 DEF StopRunning, Free, Shutdown, tableVars
    <3> QED BY <1>7, <3>1, <3>2 DEF ShutdownStep
  <2> QED BY <1>0, <2>1, <2>2, ReportKept
<1>8. CASE UNCHANGED vars
  <2>1. UNCHANGED <<monitors, reported, dpc, callback>>
    BY <1>8 DEF vars, tableVars, histVars, dispatchVars
  <2> QED BY <1>0, <1>1, <2>1, ReportKept
<1> QED BY <1>2, <1>3, <1>4, <1>5, <1>6, <1>7, <1>8 DEF Next, DispatchStep

\* Whatever the requests do to a monitor between, on_changed is told its changes one by
\* one: two calls for the same monitor never say the same (set_monitor_idle).
THEOREM ReportsAlternate == Spec => []ReportsFollowState
<1>1. ReportInv => ReportsFollowState
  BY DEF ReportInv
<1> QED BY <1>1, ReportInit, ReportStep, PTL DEF Spec

=============================================================================
