-------------------------- MODULE IdleProxies_proofs --------------------------
(***************************************************************************)
(* Theorems about the Wayland objects of Idle.tla: inhibitors, which       *)
(* notification belongs to whom, and what becomes of the events of a       *)
(* notification, for every value of the constants.                         *)
(***************************************************************************)
EXTENDS Idle_proofs, FiniteSetTheorems

-----------------------------------------------------------------------------
(* Inhibitors *)

\* The ids of inhibitors are different and have been given out.
InhibitorIds ==
  \A i \in DOMAIN inhibitors :
    /\ inhibitors[i].id <= next_inhibitor_id
    /\ \A j \in DOMAIN inhibitors : inhibitors[j].id = inhibitors[i].id => j = i

ObjectsMatch ==
  \A i \in DOMAIN inhibitors :
    inhibitors[i].inhibitor <=> inhibitors[i].enabled /\ ~inhibitors[i].deleted

LegacyFound ==
  legacy_inhibitor_id # 0 =>
    \/ FindInhibitor(legacy_inhibitor_id) # {}
    \/ Len(inhibitors) = MaxInhibitors /\ \A i \in DOMAIN inhibitors :
                                            inhibitors[i].id # legacy_inhibitor_id

InhibitInv == InhibitType /\ InhibitorIds /\ ObjectsMatch /\ LegacyFound

LEMMA InhibitorDomain ==
  ASSUME InhibitType
  PROVE  /\ inhibitors \in Seq(Inhibitor)
         /\ DOMAIN inhibitors = 1 .. Len(inhibitors)
         /\ Len(inhibitors) \in Nat
         /\ \A i \in DOMAIN inhibitors : inhibitors[i] \in Inhibitor
BY LenProperties, ElementOfSeq DEF InhibitType

\* An inhibitor with the next id is added at the end.
LEMMA AddedInhibitor ==
  ASSUME InhibitInv, InhibitorRoom, NEW enabled \in BOOLEAN,
         inhibitors' = Append(inhibitors, NewInhibitor(next_inhibitor_id + 1, enabled)),
         next_inhibitor_id' = next_inhibitor_id + 1
  PROVE  /\ InhibitorIds' /\ ObjectsMatch'
         /\ \A id : FindInhibitor(id) \subseteq FindInhibitor(id)'
         /\ FindInhibitor(next_inhibitor_id)' # {}
<1> DEFINE new == NewInhibitor(next_inhibitor_id + 1, enabled)
           n == Len(inhibitors) + 1
<1>1. next_inhibitor_id \in Nat /\ Len(inhibitors) \in Nat /\ inhibitors \in Seq(Inhibitor)
  BY InhibitorDomain DEF InhibitInv, InhibitType
<1>2. /\ new.id = next_inhibitor_id + 1 /\ (new.inhibitor <=> new.enabled)
      /\ ~new.deleted /\ new \in Inhibitor
  <2>1. next_inhibitor_id + 1 \in Nat \ {0}
    BY <1>1
  <2>2. new \in Inhibitor
    BY <2>1, RefreshInhibitorType
  <2>3. /\ new.id = next_inhibitor_id + 1 /\ ~new.deleted
        /\ new.inhibitor = enabled /\ new.enabled = enabled
    BY DEF NewInhibitor, RefreshInhibitor
  <2> QED BY <2>2, <2>3
<1> HIDE DEF new
<1>3. /\ DOMAIN inhibitors' = DOMAIN inhibitors \cup {n}
      /\ n \notin DOMAIN inhibitors
      /\ inhibitors'[n] = new
      /\ \A i \in DOMAIN inhibitors : inhibitors'[i] = inhibitors[i]
  <2>1. inhibitors' = Append(inhibitors, new)
    BY DEF new
  <2>2. /\ inhibitors' \in Seq(Inhibitor) /\ Len(inhibitors') = n /\ inhibitors'[n] = new
        /\ \A i \in 1 .. Len(inhibitors) : inhibitors'[i] = inhibitors[i]
    BY <1>1, <1>2, <2>1, AppendProperties
  <2>3. DOMAIN inhibitors' = 1 .. n /\ DOMAIN inhibitors = 1 .. Len(inhibitors)
    BY <1>1, <2>2, LenProperties
  <2> QED BY <1>1, <2>2, <2>3
<1>4. \A i \in DOMAIN inhibitors : inhibitors[i].id \in Nat /\ inhibitors[i].id <= next_inhibitor_id
  BY InhibitorDomain DEF InhibitInv, InhibitorIds, Inhibitor
<1>5. InhibitorIds'
  BY <1>1, <1>2, <1>3, <1>4 DEF InhibitInv, InhibitorIds
<1>6. ObjectsMatch'
  BY <1>2, <1>3 DEF InhibitInv, ObjectsMatch
<1>7. \A id : FindInhibitor(id) \subseteq FindInhibitor(id)'
  BY <1>3 DEF FindInhibitor
<1>8. n \in FindInhibitor(next_inhibitor_id)'
  BY <1>2, <1>3 DEF FindInhibitor
<1> QED BY <1>5, <1>6, <1>7, <1>8

\* An entry is replaced by one with the same id.
LEMMA ReplacedInhibitor ==
  ASSUME InhibitInv, NEW i \in DOMAIN inhibitors, NEW inh \in Inhibitor,
         inh.id = inhibitors[i].id, inh.inhibitor <=> inh.enabled /\ ~inh.deleted,
         inhibitors' = [inhibitors EXCEPT ![i] = inh], UNCHANGED next_inhibitor_id
  PROVE  /\ InhibitorIds' /\ ObjectsMatch' /\ Len(inhibitors') = Len(inhibitors)
         /\ DOMAIN inhibitors' = DOMAIN inhibitors
         /\ \A k \in DOMAIN inhibitors : inhibitors'[k].id = inhibitors[k].id
         /\ \A k \in DOMAIN inhibitors \ {i} : inhibitors'[k] = inhibitors[k]
         /\ inhibitors'[i] = inh
<1>1. inhibitors \in Seq(Inhibitor) /\ i \in 1 .. Len(inhibitors)
  BY InhibitorDomain DEF InhibitInv
<1>2. /\ inhibitors' \in Seq(Inhibitor) /\ Len(inhibitors') = Len(inhibitors)
      /\ DOMAIN inhibitors' = DOMAIN inhibitors
      /\ inhibitors'[i] = inh
      /\ \A k \in DOMAIN inhibitors \ {i} : inhibitors'[k] = inhibitors[k]
  BY <1>1, ExceptSeq, LenProperties
<1>3. \A k \in DOMAIN inhibitors : inhibitors'[k].id = inhibitors[k].id
  BY <1>2
<1>4. InhibitorIds'
  BY <1>2, <1>3 DEF InhibitInv, InhibitorIds
<1>5. ObjectsMatch'
  BY <1>2 DEF InhibitInv, ObjectsMatch
<1> QED BY <1>2, <1>3, <1>4, <1>5

\* The legacy inhibitor is found as before as long as no entry with its id is deleted.
LEMMA LegacyKept ==
  ASSUME InhibitInv, NEW i \in DOMAIN inhibitors, NEW inh \in Inhibitor,
         inh.id = inhibitors[i].id, inh.inhibitor <=> inh.enabled /\ ~inh.deleted,
         inhibitors' = [inhibitors EXCEPT ![i] = inh],
         UNCHANGED <<next_inhibitor_id, legacy_inhibitor_id>>,
         inh.deleted => inh.id # legacy_inhibitor_id
  PROVE  LegacyFound'
<1>1. /\ Len(inhibitors') = Len(inhibitors)
      /\ DOMAIN inhibitors' = DOMAIN inhibitors
      /\ \A k \in DOMAIN inhibitors : inhibitors'[k].id = inhibitors[k].id
      /\ \A k \in DOMAIN inhibitors \ {i} : inhibitors'[k] = inhibitors[k]
      /\ inhibitors'[i] = inh
  BY ReplacedInhibitor
<1>2. ASSUME NEW k \in FindInhibitor(legacy_inhibitor_id)
      PROVE  k \in FindInhibitor(legacy_inhibitor_id)'
  <2>1. k \in DOMAIN inhibitors /\ inhibitors[k].id = legacy_inhibitor_id /\ ~inhibitors[k].deleted
    BY DEF FindInhibitor
  <2>2. ~inhibitors'[k].deleted
    <3>1. CASE k = i
      <4>1. inh.deleted \in BOOLEAN
        BY DEF Inhibitor
      <4> QED BY <1>1, <2>1, <3>1, <4>1
    <3>2. CASE k # i
      BY <1>1, <2>1, <3>2
    <3> QED BY <3>1, <3>2
  <2> QED BY <1>1, <2>1, <2>2 DEF FindInhibitor
<1> QED BY <1>1, <1>2 DEF InhibitInv, LegacyFound

\* What is found is an entry that is not deleted.
LEMMA FoundEntry ==
  ASSUME InhibitInv, NEW id, NEW i \in FindInhibitor(id)
  PROVE  /\ i \in DOMAIN inhibitors /\ inhibitors[i] \in Inhibitor
         /\ ~inhibitors[i].deleted /\ inhibitors[i].id = id
BY InhibitorDomain DEF InhibitInv, FindInhibitor

LEMMA InhibitUnchanged ==
  ASSUME InhibitInv, UNCHANGED inhibitVars
  PROVE  InhibitorIds' /\ ObjectsMatch' /\ LegacyFound'
BY DEF InhibitInv, InhibitorIds, ObjectsMatch, LegacyFound, FindInhibitor, inhibitVars

LEMMA InhibitStep ==
  ASSUME InhibitInv, CreateInhibitor \/ EnableInhibitor \/ DestroyInhibitor \/ ToggleLegacy
  PROVE  InhibitorIds' /\ ObjectsMatch' /\ LegacyFound'
<1>0. UNCHANGED inhibitVars => InhibitorIds' /\ ObjectsMatch' /\ LegacyFound'
  BY InhibitUnchanged
<1>1. CASE CreateInhibitor
  <2>1. CASE UNCHANGED inhibitVars
    BY <1>0, <2>1
  <2>2. ASSUME InhibitorRoom, NEW enabled \in BOOLEAN,
               next_inhibitor_id' = next_inhibitor_id + 1,
               inhibitors' = Append(inhibitors, NewInhibitor(next_inhibitor_id + 1, enabled)),
               UNCHANGED legacy_inhibitor_id
        PROVE  InhibitorIds' /\ ObjectsMatch' /\ LegacyFound'
    <3>1. /\ InhibitorIds' /\ ObjectsMatch'
          /\ \A id : FindInhibitor(id) \subseteq FindInhibitor(id)'
      BY <2>2, AddedInhibitor
    <3>2. Len(inhibitors) # MaxInhibitors
      <4>1. Len(inhibitors) \in Nat /\ MaxInhibitors \in Nat
        BY InhibitorDomain, IdleAssumption DEF InhibitInv
      <4>2. Len(inhibitors) < MaxInhibitors
        BY <2>2 DEF InhibitorRoom
      <4> QED BY <4>1, <4>2
    <3>3. LegacyFound'
      BY <2>2, <3>1, <3>2 DEF InhibitInv, LegacyFound
    <3> QED BY <3>1, <3>3
  <2> QED BY <1>1, <2>1, <2>2 DEF CreateInhibitor, inhibitVars
<1>2. CASE EnableInhibitor
  <2>1. CASE UNCHANGED inhibitVars
    BY <1>0, <2>1
  <2>2. ASSUME NEW id, NEW enabled \in BOOLEAN, NEW i \in FindInhibitor(id),
               SetInhibitor(i, RefreshInhibitor([inhibitors[i] EXCEPT !.enabled = enabled])),
               UNCHANGED <<legacy_inhibitor_id, next_inhibitor_id>>
        PROVE  InhibitorIds' /\ ObjectsMatch' /\ LegacyFound'
    <3> DEFINE inh == RefreshInhibitor([inhibitors[i] EXCEPT !.enabled = enabled])
    <3>1. /\ i \in DOMAIN inhibitors /\ inh \in Inhibitor /\ inh.id = inhibitors[i].id
          /\ ~inh.deleted /\ (inh.inhibitor <=> inh.enabled /\ ~inh.deleted)
      <4>1. i \in DOMAIN inhibitors /\ inhibitors[i] \in Inhibitor /\ ~inhibitors[i].deleted
        BY FoundEntry
      <4> QED BY <4>1 DEF RefreshInhibitor, Inhibitor
    <3>2. inhibitors' = [inhibitors EXCEPT ![i] = inh]
      BY <2>2 DEF SetInhibitor
    <3> HIDE DEF inh
    <3> QED BY <2>2, <3>1, <3>2, ReplacedInhibitor, LegacyKept
  <2> QED BY <1>2, <2>1, <2>2 DEF EnableInhibitor, inhibitVars
<1>3. CASE DestroyInhibitor
  <2>1. CASE UNCHANGED inhibitVars
    BY <1>0, <2>1
  <2>2. ASSUME NEW id, NEW i \in FindInhibitor(id),
               SetInhibitor(i, [inhibitors[i] EXCEPT !.deleted = TRUE, !.inhibitor = FALSE]),
               legacy_inhibitor_id' = IF legacy_inhibitor_id = id THEN 0 ELSE legacy_inhibitor_id,
               UNCHANGED next_inhibitor_id
        PROVE  InhibitorIds' /\ ObjectsMatch' /\ LegacyFound'
    <3> DEFINE inh == [inhibitors[i] EXCEPT !.deleted = TRUE, !.inhibitor = FALSE]
    <3>1. /\ i \in DOMAIN inhibitors /\ inh \in Inhibitor /\ inh.id = inhibitors[i].id
          /\ inh.id = id /\ (inh.inhibitor <=> inh.enabled /\ ~inh.deleted)
      <4>1. i \in DOMAIN inhibitors /\ inhibitors[i] \in Inhibitor /\ inhibitors[i].id = id
        BY FoundEntry
      <4> QED BY <4>1 DEF Inhibitor
    <3>2. inhibitors' = [inhibitors EXCEPT ![i] = inh]
      BY <2>2 DEF SetInhibitor
    <3> HIDE DEF inh
    <3>3. InhibitorIds' /\ ObjectsMatch'
      BY <2>2, <3>1, <3>2, ReplacedInhibitor
    <3>4. LegacyFound'
      <4>1. CASE legacy_inhibitor_id = id
        BY <2>2, <4>1 DEF LegacyFound
      <4>2. CASE legacy_inhibitor_id # id
        BY <2>2, <3>1, <3>2, <4>2, LegacyKept
      <4> QED BY <4>1, <4>2
    <3> QED BY <3>3, <3>4
  <2> QED BY <1>3, <2>1, <2>2 DEF DestroyInhibitor, inhibitVars
<1>4. CASE ToggleLegacy
  <2>1. CASE UNCHANGED inhibitVars
    BY <1>0, <2>1
  <2>2. ASSUME NEW on \in BOOLEAN, InhibitorRoom,
               next_inhibitor_id' = next_inhibitor_id + 1,
               legacy_inhibitor_id' = next_inhibitor_id + 1,
               inhibitors' = Append(inhibitors, NewInhibitor(next_inhibitor_id + 1, on))
        PROVE  InhibitorIds' /\ ObjectsMatch' /\ LegacyFound'
    <3>1. /\ InhibitorIds' /\ ObjectsMatch'
          /\ FindInhibitor(next_inhibitor_id)' # {}
      BY <2>2, AddedInhibitor
    <3>2. LegacyFound'
      BY <2>2, <3>1 DEF LegacyFound, FindInhibitor
    <3> QED BY <3>1, <3>2
  <2>3. ASSUME ~InhibitorRoom, next_inhibitor_id' = next_inhibitor_id + 1,
               legacy_inhibitor_id' = next_inhibitor_id + 1, inhibitors' = inhibitors
        PROVE  InhibitorIds' /\ ObjectsMatch' /\ LegacyFound'
    <3>1. Len(inhibitors) = MaxInhibitors /\ next_inhibitor_id \in Nat
      <4>1. Len(inhibitors) \in Nat /\ MaxInhibitors \in Nat
        BY InhibitorDomain, IdleAssumption DEF InhibitInv
      <4>2. next_inhibitor_id \in Nat /\ Len(inhibitors) <= MaxInhibitors
        BY DEF InhibitInv, InhibitType
      <4>3. ~(Len(inhibitors) < MaxInhibitors)
        BY <2>3 DEF InhibitorRoom
      <4> QED BY <4>1, <4>2, <4>3
    <3>2. \A i \in DOMAIN inhibitors : inhibitors[i].id \in Nat
                                       /\ inhibitors[i].id <= next_inhibitor_id
      BY InhibitorDomain DEF InhibitInv, InhibitorIds, Inhibitor
    <3> QED BY <2>3, <3>1, <3>2 DEF InhibitInv, InhibitorIds, ObjectsMatch, LegacyFound
  <2>4. ASSUME NEW on \in BOOLEAN, NEW i \in FindInhibitor(legacy_inhibitor_id),
               SetInhibitor(i, RefreshInhibitor([inhibitors[i] EXCEPT !.enabled = on])),
               UNCHANGED <<legacy_inhibitor_id, next_inhibitor_id>>
        PROVE  InhibitorIds' /\ ObjectsMatch' /\ LegacyFound'
    <3> DEFINE inh == RefreshInhibitor([inhibitors[i] EXCEPT !.enabled = on])
    <3>1. /\ i \in DOMAIN inhibitors /\ inh \in Inhibitor /\ inh.id = inhibitors[i].id
          /\ ~inh.deleted /\ (inh.inhibitor <=> inh.enabled /\ ~inh.deleted)
      <4>1. i \in DOMAIN inhibitors /\ inhibitors[i] \in Inhibitor /\ ~inhibitors[i].deleted
        BY FoundEntry
      <4> QED BY <4>1 DEF RefreshInhibitor, Inhibitor
    <3>2. inhibitors' = [inhibitors EXCEPT ![i] = inh]
      BY <2>4 DEF SetInhibitor
    <3> HIDE DEF inh
    <3> QED BY <2>4, <3>1, <3>2, ReplacedInhibitor, LegacyKept
  <2> QED BY <1>4, <2>1, <2>2, <2>3, <2>4 DEF ToggleLegacy, inhibitVars
<1> QED BY <1>1, <1>2, <1>3, <1>4

\* The Wayland object of an inhibitor is there exactly while it is enabled and not
\* destroyed, and the legacy toggle finds its inhibitor unless the table was full when it was
\* first used, whatever ids the other requests create and destroy (refresh_inhibitor,
\* axctl_idle_inhibit, axctl_idle_inhibitor_destroy).
THEOREM InhibitorsAlwaysMatch == Spec => []InhibitorsMatch
<1> DEFINE Inv == TableInv /\ InhibitorIds /\ ObjectsMatch /\ LegacyFound
<1>1. Init => Inv
  <2> SUFFICES ASSUME Init PROVE Inv
    OBVIOUS
  <2>1. TableInv /\ DOMAIN inhibitors = {}
    BY TableInit, InhibitorDomain DEF Init, TableInv, TypeOK
  <2> QED BY <2>1 DEF Init, InhibitorIds, ObjectsMatch, LegacyFound
<1>2. Inv /\ [Next]_vars => Inv'
  <2> SUFFICES ASSUME Inv, [Next]_vars PROVE Inv'
    OBVIOUS
  <2>1. TableInv' /\ InhibitInv
    BY TableStep DEF InhibitInv, TableInv, TypeOK
  <2>2. \/ CreateInhibitor \/ EnableInhibitor \/ DestroyInhibitor \/ ToggleLegacy
        \/ UNCHANGED inhibitVars
    <3>1. ASSUME NEW c \in Clients, ClientStep(c)
          PROVE  \/ CreateInhibitor \/ EnableInhibitor \/ DestroyInhibitor \/ ToggleLegacy
                 \/ UNCHANGED inhibitVars
      BY <3>1 DEF ClientStep, CreateMonitor, Listen, ReadMonitor, UpdateMonitor, DestroyMonitor,
                  BeginWait, Attach, EndWait, FreeContext, ServeInhibitors
    <3>2. DispatchStep \/ LoseDisplay => UNCHANGED inhibitVars
      BY DEF DispatchStep, DiscardEvent, DropEvent, TakeEvent, Wake, TestRunning, LoseDisplay,
             ReadManager, SetMonitorIdle, Report, SetContext, NextEvent, InCallback, Aside
    <3>3. UserActs \/ UserRests \/ CompositorStep \/ ShutdownStep => UNCHANGED inhibitVars
      BY DEF UserActs, UserRests, CompositorStep, User, SendIdled, SendResumed, Send,
             ShutdownStep, Clear, StopRunning, Free, Shutdown
    <3> QED BY <3>1, <3>2, <3>3 DEF Next, vars
  <2> QED BY <2>1, <2>2, InhibitStep, InhibitUnchanged
<1>3. Inv => InhibitorsMatch
  BY DEF InhibitorsMatch, ObjectsMatch, LegacyFound
<1> QED BY <1>1, <1>2, <1>3, PTL DEF Spec

-----------------------------------------------------------------------------
(* Which notification belongs to whom *)

Monitored == {m \in DOMAIN monitors : monitors[m].notification # NoProxy}

Waiting == {c \in Clients : pc[c] \in {"attach", "wait"}}

\* The requests that have a context.
Holding == {c \in Clients : pc[c] \in {"attach", "wait", "free"}}

\* A monitor's notification is alive and its own, and its listener, if there is one yet, is
\* the monitor, which is enabled and has not been cut off.
MonitorOwns ==
  \A m \in Monitored :
    /\ monitors[m].notification \in proxies \ contexts
    /\ monitors[m].enabled /\ ~monitors[m].deleted /\ monitors[m].manager
    /\ listener[monitors[m].notification] \in {m, NoListener}
    /\ \A k \in Monitored : monitors[k].notification = monitors[m].notification => k = m

\* A wait's context is its own, and its notification is alive until it ends.
WaitOwns ==
  \A c \in Holding :
    /\ req[c].notif \in contexts
    /\ req[c].notif \in proxies <=> c \in Waiting
    /\ pc[c] = "attach" => listener[req[c].notif] = NoListener
    /\ pc[c] = "wait" => listener[req[c].notif] = OwnContext
    /\ \A d \in Holding : req[d].notif = req[c].notif => d = c

AllOwned ==
  \A n \in proxies : \/ \E m \in Monitored : monitors[m].notification = n
                     \/ \E c \in Waiting : req[c].notif = n

\* Who is about to attach a listener to a monitor's notification holds im->mu.
Listening ==
  \A c \in Clients :
    pc[c] = "listen" =>
      /\ mu = c
      /\ req[c].monitor \in Monitored
      /\ req[c].notif = monitors[req[c].monitor].notification

\* Nothing is left of a notification that is destroyed.
Clean == \A n \in Notifs \ proxies : listener[n] = NoListener /\ sent[n] = {} /\ n \notin dropped

\* A callback whose notification is still alive is run for its owner.
InHand ==
  /\ dpc \in {"manager", "lock"} /\ callback.notif \in proxies =>
       Mon \in Monitored /\ monitors[Mon].notification = callback.notif
  /\ dpc = "oneshot" /\ callback.notif \in proxies => callback.notif \in contexts

OwnersInv == MonitorOwns /\ WaitOwns /\ AllOwned /\ Listening /\ Clean /\ InHand

HoldersKept ==
  \A d \in Clients :
    (d \in Holding \/ pc'[d] \in {"attach", "wait", "free"}) =>
      pc'[d] = pc[d] /\ req'[d] = req[d]

\* A monitor's notification is replaced, by a new one or by none.
LEMMA MonitorChange ==
  ASSUME TableInv, OwnersInv, NEW m \in Slots, NEW n \in Notifs \cup {NoProxy}, NEW old,
         IF m \in DOMAIN monitors THEN old = {monitors[m].notification} \ {NoProxy} ELSE old = {},
         ReplaceProxies(old, {n} \ {NoProxy}),
         n \notin InUse \/ n = NoProxy,
         DOMAIN monitors' = DOMAIN monitors \cup {m},
         \A k \in DOMAIN monitors \ {m} : monitors'[k] = monitors[k],
         monitors'[m].notification = n,
         n # NoProxy => monitors'[m].enabled /\ ~monitors'[m].deleted /\ monitors'[m].manager,
         mu = None, UNCHANGED <<contexts, dpc, callback>>, HoldersKept,
         \A d \in Clients : pc'[d] = "listen" =>
           mu' = d /\ req'[d].monitor = m /\ req'[d].notif = n /\ n # NoProxy
  PROVE  OwnersInv'
<1> USE DEF Monitored, NoProxy, NoListener
<1>1. /\ proxies' = (proxies \ old) \cup ({n} \ {0})
      /\ \A k \in Notifs : listener'[k] = IF k \in old THEN 0 ELSE listener[k]
      /\ \A k \in Notifs : sent'[k] = IF k \in old THEN {} ELSE sent[k]
      /\ dropped' = dropped \ old
  BY DEF ReplaceProxies
<1>2. n # 0 => n \in Notifs /\ n \notin proxies /\ n \notin contexts /\ n # callback.notif
  BY DEF InUse
<1>3. 0 \notin Notifs /\ proxies \subseteq Notifs /\ contexts \subseteq Notifs
  BY DEF TableInv, TypeOK, ProxyType, ContextType, Notifs
<1>4. \A k \in Monitored \ {m} : monitors[k].notification \notin old
  BY DEF OwnersInv, MonitorOwns
<1>5. \A k \in old : k \notin contexts
  BY DEF OwnersInv, MonitorOwns
<1>6. \A k \in Monitored' : k = m \/ (k \in Monitored /\ monitors'[k] = monitors[k])
  OBVIOUS
<1>7. \A k \in Monitored \ {m} : k \in Monitored'
  OBVIOUS
<1>8. m \in Monitored' <=> n # 0
  OBVIOUS
<1>9. MonitorOwns'
  <2> SUFFICES ASSUME NEW k \in Monitored'
               PROVE  /\ monitors'[k].notification \in proxies' \ contexts'
                      /\ monitors'[k].enabled /\ ~monitors'[k].deleted /\ monitors'[k].manager
                      /\ listener'[monitors'[k].notification] \in {k, 0}
                      /\ \A j \in Monitored' :
                           monitors'[j].notification = monitors'[k].notification => j = k
    BY DEF MonitorOwns
  <2>1. CASE k = m
    <3>1. n # 0 /\ monitors'[k].notification = n
      BY <1>8, <2>1
    <3>2. n \in proxies' \ contexts'
      BY <1>1, <1>2, <3>1
    <3>3. listener'[n] = 0
      BY <1>1, <1>2, <3>1 DEF OwnersInv, Clean
    <3>4. \A j \in Monitored' : monitors'[j].notification = n => j = m
      BY <1>2, <1>6, <3>1 DEF OwnersInv, MonitorOwns
    <3> QED BY <2>1, <3>1, <3>2, <3>3, <3>4
  <2>2. CASE k # m
    <3>1. k \in Monitored /\ monitors'[k] = monitors[k]
      BY <1>6, <2>2
    <3> DEFINE p == monitors[k].notification
    <3>2. /\ p \in proxies \ contexts /\ p \notin old
          /\ monitors[k].enabled /\ ~monitors[k].deleted /\ monitors[k].manager
          /\ listener[p] \in {k, 0}
          /\ \A j \in Monitored : monitors[j].notification = p => j = k
      BY <1>4, <2>2, <3>1 DEF OwnersInv, MonitorOwns
    <3>3. p \in proxies' \ contexts' /\ p # n
      BY <1>1, <1>2, <3>2
    <3>4. listener'[p] = listener[p]
      BY <1>1, <1>3, <3>2
    <3>5. \A j \in Monitored' : monitors'[j].notification = p => j = k
      BY <1>6, <3>2, <3>3
    <3> QED BY <3>1, <3>2, <3>3, <3>4, <3>5
  <2> QED BY <2>1, <2>2
<1>10. /\ Waiting' = Waiting /\ Holding' = Holding
       /\ \A c \in Holding : pc'[c] = pc[c] /\ req'[c] = req[c]
  BY DEF HoldersKept, Holding, Waiting
<1>11. WaitOwns'
  <2> SUFFICES ASSUME NEW c \in Holding
               PROVE  /\ req[c].notif \in contexts
                      /\ req[c].notif \in proxies' <=> c \in Waiting
                      /\ pc[c] = "attach" => listener'[req[c].notif] = 0
                      /\ pc[c] = "wait" => listener'[req[c].notif] = OwnContext
                      /\ \A d \in Holding : req[d].notif = req[c].notif => d = c
    BY <1>10 DEF WaitOwns
  <2>1. /\ req[c].notif \in contexts
        /\ req[c].notif \in proxies <=> c \in Waiting
        /\ pc[c] = "attach" => listener[req[c].notif] = 0
        /\ pc[c] = "wait" => listener[req[c].notif] = OwnContext
        /\ \A d \in Holding : req[d].notif = req[c].notif => d = c
    BY DEF OwnersInv, WaitOwns
  <2>2. req[c].notif \notin old /\ req[c].notif # n
    BY <1>2, <1>3, <1>5, <2>1
  <2> QED BY <1>1, <1>3, <2>1, <2>2
<1>12. AllOwned'
  <2> SUFFICES ASSUME NEW k \in proxies'
               PROVE  \/ \E j \in Monitored' : monitors'[j].notification = k
                      \/ \E c \in Waiting' : req'[c].notif = k
    BY DEF AllOwned
  <2>1. CASE k = n /\ n # 0
    BY <1>8, <2>1
  <2>2. CASE k \in proxies \ old
    <3>1. CASE \E j \in Monitored : monitors[j].notification = k
      <4>1. PICK j \in Monitored : monitors[j].notification = k
        BY <3>1
      <4>2. j # m
        BY <2>2, <4>1
      <4> QED BY <1>7, <4>1, <4>2
    <3>2. CASE \E c \in Waiting : req[c].notif = k
      BY <1>10, <3>2 DEF Waiting, Holding
    <3> QED BY <2>2, <3>1, <3>2 DEF OwnersInv, AllOwned
  <2> QED BY <1>1, <2>1, <2>2
<1>13. Listening'
  BY <1>8 DEF Listening
<1>14. Clean'
  <2> SUFFICES ASSUME NEW k \in Notifs, k \notin proxies'
               PROVE  listener'[k] = 0 /\ sent'[k] = {} /\ k \notin dropped'
    BY DEF Clean
  <2>1. CASE k \in old
    BY <1>1, <2>1
  <2>2. CASE k \notin old
    BY <1>1, <2>2 DEF OwnersInv, Clean
  <2> QED BY <2>1, <2>2
<1>15. InHand'
  <2>1. callback.notif \in proxies' => callback.notif \in proxies /\ callback.notif \notin old
    BY <1>1, <1>2
  <2>2. ASSUME dpc \in {"manager", "lock"}, callback.notif \in proxies'
        PROVE  Mon \in Monitored' /\ monitors'[Mon].notification = callback.notif
    <3>1. Mon \in Monitored /\ monitors[Mon].notification = callback.notif
      BY <2>1, <2>2 DEF OwnersInv, InHand
    <3>2. Mon # m
      BY <2>1, <2>2, <3>1
    <3> QED BY <1>7, <3>1, <3>2
  <2> QED BY <2>1, <2>2 DEF OwnersInv, InHand, Mon
<1> QED BY <1>9, <1>11, <1>12, <1>13, <1>14, <1>15 DEF OwnersInv

\* A step that changes no owner.  The table may change in is_idle and in entries that have
\* no notification.
LEMMA OwnersKept ==
  ASSUME OwnersInv,
         UNCHANGED <<proxies, contexts, listener, mu>>, HoldersKept,
         DOMAIN monitors' = DOMAIN monitors,
         \A m \in DOMAIN monitors :
           /\ monitors'[m].notification = monitors[m].notification
           /\ monitors'[m].enabled = monitors[m].enabled
           /\ monitors'[m].deleted = monitors[m].deleted
           /\ monitors'[m].manager = monitors[m].manager,
         \A d \in Clients : pc'[d] = "listen" => pc[d] = "listen" /\ req'[d] = req[d],
         \A n \in Notifs \ proxies : sent'[n] = sent[n] /\ (n \in dropped' => n \in dropped),
         InHand'
  PROVE  OwnersInv'
<1>1. Monitored' = Monitored
  BY DEF Monitored
<1>2. \A m \in Monitored :
        /\ monitors'[m].notification = monitors[m].notification
        /\ monitors'[m].enabled = monitors[m].enabled
        /\ monitors'[m].deleted = monitors[m].deleted
        /\ monitors'[m].manager = monitors[m].manager
  BY DEF Monitored
<1>3. MonitorOwns'
  BY <1>1, <1>2 DEF OwnersInv, MonitorOwns
<1>4. /\ Waiting' = Waiting /\ Holding' = Holding
      /\ \A c \in Holding : pc'[c] = pc[c] /\ req'[c] = req[c]
  BY DEF HoldersKept, Holding, Waiting
<1>5. WaitOwns'
  BY <1>4 DEF OwnersInv, WaitOwns
<1>6. AllOwned'
  <2>1. Waiting \subseteq Holding
    BY DEF Waiting, Holding
  <2> QED BY <1>1, <1>2, <1>4, <2>1 DEF OwnersInv, AllOwned
<1>7. Listening'
  BY <1>1, <1>2 DEF OwnersInv, Listening
<1>8. Clean'
  BY DEF OwnersInv, Clean
<1> QED BY <1>3, <1>5, <1>6, <1>7, <1>8 DEF OwnersInv

LEMMA ListenOwners ==
  ASSUME TableInv, OwnersInv, NEW c \in Clients, Listen(c) PROVE OwnersInv'
<1> DEFINE m == req[c].monitor
           n == req[c].notif
<1>1. /\ m \in Monitored /\ n = monitors[m].notification
      /\ pc[c] = "listen" /\ mu = c
  BY DEF OwnersInv, Listening, Listen, Serving
<1>2. /\ listener' = [listener EXCEPT ![n] = m]
      /\ mu' = None /\ req' = [req EXCEPT ![c] = NoRequest] /\ pc' = [pc EXCEPT ![c] = "ready"]
      /\ UNCHANGED <<monitors, proxies, sent, dropped, contexts, dpc, callback>>
  BY DEF Listen, Goto, contextVars, dispatchVars
<1>3. n \in proxies \ contexts /\ n \in Notifs /\ proxies \subseteq Notifs
  BY <1>1 DEF OwnersInv, MonitorOwns, TableInv, TypeOK, ProxyType
<1>4. \A k \in Notifs : listener'[k] = IF k = n THEN m ELSE listener[k]
  BY <1>2 DEF TableInv, TypeOK, ProxyType
<1>5. /\ \A d \in Clients \ {c} : pc'[d] = pc[d] /\ req'[d] = req[d]
      /\ pc'[c] = "ready"
  BY <1>2 DEF TableInv, TypeOK, RequestType
<1>6. Waiting' = Waiting /\ Holding' = Holding /\ c \notin Holding /\ c \notin Waiting
  BY <1>1, <1>5 DEF Waiting, Holding
<1>7. Monitored' = Monitored
  BY <1>2 DEF Monitored
<1>8. MonitorOwns'
  <2> SUFFICES ASSUME NEW k \in Monitored
               PROVE  /\ monitors[k].notification \in proxies \ contexts
                      /\ monitors[k].enabled /\ ~monitors[k].deleted /\ monitors[k].manager
                      /\ listener'[monitors[k].notification] \in {k, NoListener}
                      /\ \A j \in Monitored :
                           monitors[j].notification = monitors[k].notification => j = k
    BY <1>2, <1>7 DEF MonitorOwns
  <2>1. /\ monitors[k].notification \in proxies \ contexts
        /\ monitors[k].enabled /\ ~monitors[k].deleted /\ monitors[k].manager
        /\ listener[monitors[k].notification] \in {k, NoListener}
        /\ \A j \in Monitored :
             monitors[j].notification = monitors[k].notification => j = k
    BY DEF OwnersInv, MonitorOwns
  <2> QED BY <1>1, <1>3, <1>4, <2>1
<1>9. WaitOwns'
  <2>1. \A d \in Holding : req[d].notif \in contexts /\ req[d].notif \in Notifs
    BY DEF OwnersInv, WaitOwns, TableInv, TypeOK, ContextType
  <2>2. \A d \in Holding : listener'[req[d].notif] = listener[req[d].notif]
    BY <1>3, <1>4, <2>1
  <2>3. \A d \in Holding : d # c /\ pc'[d] = pc[d] /\ req'[d] = req[d]
    BY <1>5, <1>6 DEF Holding
  <2> QED BY <1>2, <1>6, <2>2, <2>3 DEF OwnersInv, WaitOwns
<1>10. AllOwned'
  <2>1. \A d \in Waiting : req'[d] = req[d]
    BY <1>5, <1>6 DEF Waiting
  <2> QED BY <1>2, <1>6, <1>7, <2>1 DEF OwnersInv, AllOwned
<1>11. Listening'
  BY <1>1, <1>5 DEF OwnersInv, Listening
<1>12. Clean'
  BY <1>2, <1>3, <1>4 DEF OwnersInv, Clean
<1>13. InHand'
  BY <1>2, <1>7 DEF OwnersInv, InHand, Mon
<1> QED BY <1>8, <1>9, <1>10, <1>11, <1>12, <1>13 DEF OwnersInv

LEMMA BeginWaitOwners ==
  ASSUME TableInv, OwnersInv, NEW c \in Clients, BeginWait(c) PROVE OwnersInv'
<1> DEFINE n == NewNotif
<1>1. PICK kind \in WaitKinds :
        /\ pc[c] = "ready" /\ CanCreate /\ ReplaceProxies({}, {n})
        /\ contexts' = contexts \cup {n}
        /\ req' = [req EXCEPT ![c] = [NoRequest EXCEPT !.kind = kind, !.notif = n]]
        /\ pc' = [pc EXCEPT ![c] = "attach"]
        /\ UNCHANGED <<mu, monitors, dpc, callback>>
  BY DEF BeginWait, Serve, Serving, Goto, tableVars, dispatchVars
<1>2. /\ n \in Notifs /\ n \notin proxies /\ n \notin contexts /\ n # callback.notif
  BY <1>1, NewNotifFresh DEF InUse
<1>3. /\ proxies' = proxies \cup {n}
      /\ \A k \in Notifs : listener'[k] = listener[k] /\ sent'[k] = sent[k]
      /\ dropped' = dropped
      /\ proxies \subseteq Notifs /\ contexts \subseteq Notifs
  BY <1>1 DEF ReplaceProxies, TableInv, TypeOK, ProxyType, ContextType
<1>4. /\ \A d \in Clients \ {c} : pc'[d] = pc[d] /\ req'[d] = req[d]
      /\ pc'[c] = "attach" /\ req'[c].notif = n
  BY <1>1 DEF TableInv, TypeOK, RequestType, NoRequest
<1> HIDE DEF n
<1>5. /\ Waiting' = Waiting \cup {c} /\ Holding' = Holding \cup {c}
      /\ c \notin Holding /\ c \notin Waiting
  BY <1>1, <1>4 DEF Waiting, Holding
<1>6. Monitored' = Monitored
  BY <1>1 DEF Monitored
<1>7. MonitorOwns'
  <2>1. \A k \in Monitored : monitors[k].notification \in proxies \ contexts
    BY DEF OwnersInv, MonitorOwns
  <2>2. \A k \in Monitored : /\ monitors[k].notification \in proxies' \ contexts'
                             /\ listener'[monitors[k].notification] = listener[monitors[k].notification]
    BY <1>1, <1>2, <1>3, <2>1
  <2> QED BY <1>1, <1>6, <2>2 DEF OwnersInv, MonitorOwns
<1>8. WaitOwns'
  <2> SUFFICES ASSUME NEW d \in Holding'
               PROVE  /\ req'[d].notif \in contexts'
                      /\ req'[d].notif \in proxies' <=> d \in Waiting'
                      /\ pc'[d] = "attach" => listener'[req'[d].notif] = NoListener
                      /\ pc'[d] = "wait" => listener'[req'[d].notif] = OwnContext
                      /\ \A e \in Holding' : req'[e].notif = req'[d].notif => e = d
    BY DEF WaitOwns
  <2>0. \A e \in Holding : e # c /\ req'[e] = req[e] /\ req[e].notif \in contexts
                          /\ req[e].notif # n
    BY <1>2, <1>4, <1>5 DEF Holding, OwnersInv, WaitOwns
  <2>1. CASE d = c
    <3>1. listener'[n] = NoListener
      BY <1>2, <1>3 DEF OwnersInv, Clean
    <3> QED BY <1>1, <1>3, <1>4, <1>5, <2>0, <2>1, <3>1
  <2>2. CASE d # c
    <3>1. d \in Holding
      BY <1>5, <2>2
    <3>2. /\ req[d].notif \in contexts
          /\ req[d].notif \in proxies <=> d \in Waiting
          /\ pc[d] = "attach" => listener[req[d].notif] = NoListener
          /\ pc[d] = "wait" => listener[req[d].notif] = OwnContext
          /\ \A e \in Holding : req[e].notif = req[d].notif => e = d
      BY <3>1 DEF OwnersInv, WaitOwns
    <3>3. pc'[d] = pc[d] /\ req'[d] = req[d] /\ req[d].notif # n /\ req[d].notif \in Notifs
      BY <1>3, <1>4, <2>0, <3>1 DEF Holding
    <3> QED BY <1>1, <1>3, <1>4, <1>5, <2>2, <3>2, <3>3
  <2> QED BY <2>1, <2>2
<1>9. AllOwned'
  <2>1. \A d \in Waiting : req'[d] = req[d]
    BY <1>4, <1>5 DEF Waiting
  <2> QED BY <1>1, <1>3, <1>4, <1>5, <1>6, <2>1 DEF OwnersInv, AllOwned
<1>10. Listening'
  BY <1>1, <1>4, <1>6 DEF OwnersInv, Listening
<1>11. Clean'
  BY <1>3 DEF OwnersInv, Clean
<1>12. InHand'
  BY <1>1, <1>2, <1>3, <1>6 DEF OwnersInv, InHand, Mon
<1> QED BY <1>7, <1>8, <1>9, <1>10, <1>11, <1>12 DEF OwnersInv

LEMMA AttachOwners ==
  ASSUME TableInv, OwnersInv, NEW c \in Clients, Attach(c) PROVE OwnersInv'
<1> DEFINE n == req[c].notif
<1>1. /\ pc[c] = "attach" /\ pc' = [pc EXCEPT ![c] = "wait"]
      /\ listener' = [listener EXCEPT ![n] = OwnContext]
      /\ UNCHANGED <<mu, monitors, proxies, sent, dropped, contexts, req, dpc, callback>>
  BY DEF Attach, Serving, Goto, tableVars, contextVars, dispatchVars
<1>2. /\ \A d \in Clients \ {c} : pc'[d] = pc[d]
      /\ pc'[c] = "wait"
  BY <1>1 DEF TableInv, TypeOK, RequestType
<1>3. Waiting' = Waiting /\ Holding' = Holding /\ c \in Waiting /\ c \in Holding
  BY <1>1, <1>2 DEF Waiting, Holding
<1>4. n \in contexts /\ n \in proxies /\ n \in Notifs
  BY <1>3 DEF OwnersInv, WaitOwns, TableInv, TypeOK, ContextType
<1>5. \A k \in Notifs : listener'[k] = IF k = n THEN OwnContext ELSE listener[k]
  BY <1>1 DEF TableInv, TypeOK, ProxyType
<1>6. Monitored' = Monitored
  BY <1>1 DEF Monitored
<1>7. MonitorOwns'
  <2>1. \A k \in Monitored : monitors[k].notification \in proxies \ contexts
    BY DEF OwnersInv, MonitorOwns
  <2>2. \A k \in Monitored : listener'[monitors[k].notification] = listener[monitors[k].notification]
    BY <1>4, <1>5, <2>1 DEF TableInv, TypeOK, ProxyType
  <2> QED BY <1>1, <1>6, <2>2 DEF OwnersInv, MonitorOwns
<1>8. WaitOwns'
  <2>1. \A d \in Holding \ {c} : req[d].notif # n /\ req[d].notif \in Notifs
    BY <1>3 DEF OwnersInv, WaitOwns, TableInv, TypeOK, ContextType
  <2>2. \A d \in Holding \ {c} : listener'[req[d].notif] = listener[req[d].notif] /\ pc'[d] = pc[d]
    BY <1>2, <1>5, <2>1 DEF Holding
  <2> QED BY <1>1, <1>2, <1>3, <1>4, <1>5, <2>2 DEF OwnersInv, WaitOwns
<1>9. AllOwned' /\ Listening'
  BY <1>1, <1>2, <1>3, <1>6 DEF OwnersInv, AllOwned, Listening
<1>10. Clean'
  BY <1>1, <1>4, <1>5 DEF OwnersInv, Clean
<1>11. InHand'
  BY <1>1, <1>6 DEF OwnersInv, InHand, Mon
<1> QED BY <1>7, <1>8, <1>9, <1>10, <1>11 DEF OwnersInv

LEMMA EndWaitOwners ==
  ASSUME TableInv, OwnersInv, NEW c \in Clients, EndWait(c) PROVE OwnersInv'
<1> DEFINE n == req[c].notif
<1>1. /\ pc[c] = "wait" /\ pc' = [pc EXCEPT ![c] = "free"]
      /\ ReplaceProxies({n}, {})
      /\ UNCHANGED <<mu, monitors, contexts, req, dpc, callback>>
  BY DEF EndWait, Serving, Goto, tableVars, contextVars, dispatchVars
<1>2. /\ \A d \in Clients \ {c} : pc'[d] = pc[d]
      /\ pc'[c] = "free"
  BY <1>1 DEF TableInv, TypeOK, RequestType
<1>3. Waiting' = Waiting \ {c} /\ Holding' = Holding /\ c \in Waiting /\ c \in Holding
  BY <1>1, <1>2 DEF Waiting, Holding
<1>4. n \in contexts /\ n \in proxies /\ n \in Notifs
  BY <1>3 DEF OwnersInv, WaitOwns, TableInv, TypeOK, ContextType
<1>5. /\ proxies' = proxies \ {n}
      /\ \A k \in Notifs : listener'[k] = IF k = n THEN NoListener ELSE listener[k]
      /\ \A k \in Notifs : sent'[k] = IF k = n THEN {} ELSE sent[k]
      /\ dropped' = dropped \ {n}
  BY <1>1 DEF ReplaceProxies
<1>6. Monitored' = Monitored
  BY <1>1 DEF Monitored
<1>7. MonitorOwns'
  <2>1. \A k \in Monitored : monitors[k].notification \in proxies \ contexts
    BY DEF OwnersInv, MonitorOwns
  <2>2. \A k \in Monitored : /\ monitors[k].notification \in proxies' \ contexts'
                             /\ listener'[monitors[k].notification] = listener[monitors[k].notification]
    BY <1>1, <1>4, <1>5, <2>1 DEF TableInv, TypeOK, ProxyType
  <2> QED BY <1>1, <1>6, <2>2 DEF OwnersInv, MonitorOwns
<1>8. \A d \in Holding \ {c} : req[d].notif # n /\ req[d].notif \in Notifs
  BY <1>3 DEF OwnersInv, WaitOwns, TableInv, TypeOK, ContextType
<1>9. WaitOwns'
  <2>1. \A d \in Holding \ {c} : /\ listener'[req[d].notif] = listener[req[d].notif]
                                 /\ req[d].notif \in proxies' <=> req[d].notif \in proxies
                                 /\ pc'[d] = pc[d] /\ (d \in Waiting' <=> d \in Waiting)
    BY <1>2, <1>3, <1>5, <1>8 DEF Holding
  <2> SUFFICES ASSUME NEW d \in Holding
               PROVE  /\ req[d].notif \in contexts
                      /\ req[d].notif \in proxies' <=> d \in Waiting'
                      /\ pc'[d] = "attach" => listener'[req[d].notif] = NoListener
                      /\ pc'[d] = "wait" => listener'[req[d].notif] = OwnContext
                      /\ \A e \in Holding : req[e].notif = req[d].notif => e = d
    BY <1>1, <1>3 DEF WaitOwns
  <2>2. /\ req[d].notif \in contexts
        /\ req[d].notif \in proxies <=> d \in Waiting
        /\ pc[d] = "attach" => listener[req[d].notif] = NoListener
        /\ pc[d] = "wait" => listener[req[d].notif] = OwnContext
        /\ \A e \in Holding : req[e].notif = req[d].notif => e = d
    BY DEF OwnersInv, WaitOwns
  <2>3. CASE d = c
    BY <1>2, <1>3, <1>5, <2>2, <2>3
  <2>4. CASE d # c
    BY <2>1, <2>2, <2>4
  <2> QED BY <2>3, <2>4
<1>10. AllOwned'
  BY <1>1, <1>3, <1>5, <1>6 DEF OwnersInv, AllOwned
<1>11. Listening'
  BY <1>1, <1>2, <1>6 DEF OwnersInv, Listening
<1>12. Clean'
  BY <1>5 DEF OwnersInv, Clean
<1>13. InHand'
  BY <1>1, <1>5, <1>6 DEF OwnersInv, InHand, Mon
<1> QED BY <1>7, <1>9, <1>10, <1>11, <1>12, <1>13 DEF OwnersInv

LEMMA FreeContextOwners ==
  ASSUME TableInv, OwnersInv, NEW c \in Clients, FreeContext(c) PROVE OwnersInv'
<1> DEFINE n == req[c].notif
<1>1. /\ pc[c] = "free" /\ pc' = [pc EXCEPT ![c] = "ready"]
      /\ req' = [req EXCEPT ![c] = NoRequest]
      /\ contexts' = contexts \ {n}
      /\ UNCHANGED <<mu, monitors, proxies, listener, sent, dropped, dpc, callback>>
  BY DEF FreeContext, Serving, Goto, tableVars, proxyVars, dispatchVars
<1>2. /\ \A d \in Clients \ {c} : pc'[d] = pc[d] /\ req'[d] = req[d]
      /\ pc'[c] = "ready"
  BY <1>1 DEF TableInv, TypeOK, RequestType
<1>3. Waiting' = Waiting /\ Holding' = Holding \ {c} /\ c \in Holding /\ c \notin Waiting
  BY <1>1, <1>2 DEF Waiting, Holding
<1>4. n \notin proxies
  BY <1>3 DEF OwnersInv, WaitOwns
<1>5. Monitored' = Monitored
  BY <1>1 DEF Monitored
<1>6. MonitorOwns'
  BY <1>1, <1>5 DEF OwnersInv, MonitorOwns
<1>7. \A d \in Holding \ {c} : /\ req[d].notif # n
                               /\ pc'[d] = pc[d] /\ req'[d] = req[d]
  BY <1>2, <1>3 DEF OwnersInv, WaitOwns, Holding
<1>8. WaitOwns'
  BY <1>1, <1>3, <1>7 DEF OwnersInv, WaitOwns
<1>9. AllOwned'
  <2>1. \A d \in Waiting : req'[d] = req[d]
    BY <1>2, <1>3 DEF Waiting
  <2> QED BY <1>1, <1>3, <1>5, <2>1 DEF OwnersInv, AllOwned
<1>10. Listening'
  BY <1>1, <1>2, <1>5 DEF OwnersInv, Listening
<1>11. Clean'
  BY <1>1 DEF OwnersInv, Clean
<1>12. InHand'
  BY <1>1, <1>4, <1>5 DEF OwnersInv, InHand, Mon
<1> QED BY <1>6, <1>8, <1>9, <1>10, <1>11, <1>12 DEF OwnersInv

LEMMA ClearOwners ==
  ASSUME TableInv, OwnersInv, Clear PROVE OwnersInv'
<1> DEFINE own == UNION {ProxyOf(m) : m \in DOMAIN monitors}
<1>1. /\ mu = None /\ ReplaceProxies(own, {})
      /\ monitors' = [m \in DOMAIN monitors |->
                        [monitors[m] EXCEPT !.notification = NoProxy, !.manager = FALSE]]
      /\ UNCHANGED <<mu, contexts, pc, req, dpc, callback>>
  BY DEF Clear, contextVars, requestVars, dispatchVars
<1>2. \A n : n \in own <=> \E m \in Monitored : monitors[m].notification = n
  BY DEF ProxyOf, Monitored
<1> HIDE DEF own
<1>3. Monitored' = {}
  <2>1. \A m \in DOMAIN monitors : monitors[m] \in Monitor
    BY TableDomain DEF TableInv, TypeOK
  <2>2. DOMAIN monitors' = DOMAIN monitors
    BY <1>1
  <2>3. \A m \in DOMAIN monitors : monitors'[m].notification = NoProxy
    BY <1>1, <2>1 DEF Monitor
  <2> QED BY <2>2, <2>3 DEF Monitored
<1>4. Waiting' = Waiting /\ Holding' = Holding
  BY <1>1 DEF Waiting, Holding
<1>5. own \cap contexts = {}
  BY <1>2 DEF OwnersInv, MonitorOwns
<1>6. /\ proxies' = proxies \ own
      /\ \A k \in Notifs : listener'[k] = IF k \in own THEN NoListener ELSE listener[k]
      /\ \A k \in Notifs : sent'[k] = IF k \in own THEN {} ELSE sent[k]
      /\ dropped' = dropped \ own
  BY <1>1 DEF ReplaceProxies
<1>7. MonitorOwns'
  BY <1>3 DEF MonitorOwns
<1>8. WaitOwns'
  <2>1. \A d \in Holding : /\ req[d].notif \in Notifs /\ req[d].notif \notin own
    BY <1>5 DEF OwnersInv, WaitOwns, TableInv, TypeOK, ContextType
  <2>2. \A d \in Holding : /\ listener'[req[d].notif] = listener[req[d].notif]
                           /\ req[d].notif \in proxies' <=> req[d].notif \in proxies
    BY <1>6, <2>1
  <2> SUFFICES ASSUME NEW d \in Holding
               PROVE  /\ req[d].notif \in contexts
                      /\ req[d].notif \in proxies' <=> d \in Waiting
                      /\ pc[d] = "attach" => listener'[req[d].notif] = NoListener
                      /\ pc[d] = "wait" => listener'[req[d].notif] = OwnContext
                      /\ \A e \in Holding : req[e].notif = req[d].notif => e = d
    BY <1>1, <1>4 DEF WaitOwns
  <2> QED BY <2>2 DEF OwnersInv, WaitOwns
<1>9. AllOwned'
  BY <1>1, <1>2, <1>4, <1>6 DEF OwnersInv, AllOwned
<1>10. Listening'
  BY <1>1, IdleAssumption DEF OwnersInv, Listening
<1>11. Clean'
  BY <1>6 DEF OwnersInv, Clean
<1>12. InHand'
  BY <1>1, <1>2, <1>6 DEF OwnersInv, InHand, Mon
<1> QED BY <1>7, <1>8, <1>9, <1>10, <1>11, <1>12 DEF OwnersInv

\* The dispatch thread takes an event into its hands for the owner of the notification.
LEMMA DispatchOwners ==
  ASSUME TableInv, OwnersInv, DispatchStep \/ LoseDisplay PROVE OwnersInv'
<1>1. UNCHANGED <<mu, proxies, listener, sent, contexts, pc, req>>
  BY DEF DispatchStep, DiscardEvent, DropEvent, TakeEvent, Wake, TestRunning, LoseDisplay,
         ReadManager, SetMonitorIdle, Report, SetContext, NextEvent, InCallback, Aside,
         requestVars
<1>2. \A n \in Notifs \ proxies : n \in dropped' => n \in dropped
  <2>1. DropEvent \/ UNCHANGED dropped
    BY DEF DispatchStep, DiscardEvent, TakeEvent, Wake, TestRunning, LoseDisplay,
           ReadManager, SetMonitorIdle, Report, SetContext, InCallback
  <2> QED BY <2>1 DEF DropEvent
<1>3. /\ DOMAIN monitors' = DOMAIN monitors
      /\ \A m \in DOMAIN monitors :
           /\ monitors'[m].notification = monitors[m].notification
           /\ monitors'[m].enabled = monitors[m].enabled
           /\ monitors'[m].deleted = monitors[m].deleted
           /\ monitors'[m].manager = monitors[m].manager
  <2>1. CASE SetMonitorIdle
    <3>1. /\ monitors' = [monitors EXCEPT ![Mon] = [monitors[Mon] EXCEPT !.is_idle = Idled]]
          /\ Mon \in DOMAIN monitors
      BY <2>1 DEF SetMonitorIdle, InCallback, TableInv, CallbackTable
    <3>2. monitors[Mon] \in Monitor /\ monitors \in Seq(Monitor)
      BY <3>1, TableDomain DEF TableInv, TypeOK, TableType
    <3>3. DOMAIN monitors' = DOMAIN monitors
      BY <3>1
    <3>4. \A m \in DOMAIN monitors :
            monitors'[m] = IF m = Mon THEN [monitors[Mon] EXCEPT !.is_idle = Idled] ELSE monitors[m]
      BY <3>1
    <3> QED BY <3>2, <3>3, <3>4 DEF Monitor
  <2>2. UNCHANGED monitors \/ SetMonitorIdle
    BY DEF DispatchStep, DiscardEvent, DropEvent, TakeEvent, Wake, TestRunning, LoseDisplay,
           ReadManager, Report, SetContext, NextEvent
  <2> QED BY <2>1, <2>2
<1>4. Monitored' = Monitored
  BY <1>3 DEF Monitored
<1>5. HoldersKept
  BY <1>1 DEF HoldersKept
<1>6. InHand'
  <2>1. CASE TakeEvent
    <3> DEFINE n == Head(queue).notif
    <3>1. /\ n \in proxies /\ listener[n] # NoListener
          /\ dpc' = IF listener[n] = OwnContext THEN "oneshot" ELSE "manager"
          /\ callback'.notif = n /\ callback'.data = listener[n]
      BY <2>1 DEF TakeEvent
    <3> HIDE DEF n
    <3>2. CASE \E m \in Monitored : monitors[m].notification = n
      <4>1. PICK m \in Monitored : monitors[m].notification = n
        BY <3>2
      <4>2. listener[n] = m /\ m \in Slots
        BY <3>1, <4>1, TableDomain DEF OwnersInv, MonitorOwns, Monitored, TableInv, TypeOK
      <4>3. dpc' = "manager"
        BY <3>1, <4>2 DEF Slots, OwnContext
      <4> QED BY <1>3, <1>4, <3>1, <4>1, <4>2, <4>3 DEF InHand, Mon, Monitored
    <3>3. CASE \E c \in Waiting : req[c].notif = n
      <4>1. PICK c \in Waiting : req[c].notif = n
        BY <3>3
      <4>2. n \in contexts /\ listener[n] \in {NoListener, OwnContext}
        BY <4>1 DEF OwnersInv, WaitOwns, Waiting, Holding
      <4>3. dpc' = "oneshot"
        BY <3>1, <4>2
      <4> QED BY <1>1, <3>1, <4>2, <4>3 DEF InHand
    <3> QED BY <3>1, <3>2, <3>3 DEF OwnersInv, AllOwned
  <2>2. CASE ReadManager \/ SetMonitorIdle
    <3>1. \/ dpc' = "between"
          \/ dpc \in {"manager", "lock"} /\ dpc' \in {"lock", "report"} /\ UNCHANGED callback
      BY <2>2 DEF ReadManager, SetMonitorIdle, InCallback, DispatchGoto, ReturnFromCallback
    <3> QED BY <1>1, <1>3, <1>4, <3>1 DEF OwnersInv, InHand, Mon, Monitored
  <2>3. CASE dpc' \in {"between", "poll", "ended"}
    BY <2>3 DEF InHand
  <2> QED BY <2>1, <2>2, <2>3
          DEF DispatchStep, DiscardEvent, DropEvent, Wake, TestRunning, LoseDisplay, Report,
              SetContext, DispatchGoto, ReturnFromCallback
<1> QED BY <1>1, <1>2, <1>3, <1>5, <1>6, OwnersKept

-----------------------------------------------------------------------------
(* What becomes of the events of a notification *)

Queued(n) == \E i \in DOMAIN queue : queue[i].notif = n

\* What is under way has been sent, and "idled" is sent before "resumed".
SentInv ==
  /\ \A i \in DOMAIN queue :
       queue[i].notif \in proxies => queue[i].kind \in sent[queue[i].notif]
  /\ dpc \in {"manager", "lock", "oneshot"} /\ callback.notif \in proxies =>
       callback.kind \in sent[callback.notif]
  /\ \A n \in idling : "idled" \in sent[n]
  /\ \A n \in proxies : "resumed" \in sent[n] => "idled" \in sent[n]

\* The last event of a notification in the queue says what the compositor said last.
LastInv ==
  \A i \in DOMAIN queue :
    (queue[i].notif \in proxies
      /\ \A j \in DOMAIN queue : queue[j].notif = queue[i].notif => j <= i) =>
      (queue[i].kind = "idled" <=> queue[i].notif \in idling)

\* When none is in the queue, the callback in hand for the monitor is one of its present
\* notification and says so; when there is no such callback either, the monitor does.
SettleInv ==
  \A m \in Monitored :
    LET n == monitors[m].notification IN
    sent[n] # {} /\ n \notin dropped /\ ~Queued(n) =>
      IF dpc \in {"manager", "lock"} /\ Mon = m
      THEN callback.notif = n /\ (Idled <=> n \in idling)
      ELSE monitors[m].is_idle <=> n \in idling

\* A flag is set only by an event that was sent; an event that was sent has set the flag or
\* is under way to it.
Heard(n, kind, flag) ==
  /\ n \in flag => kind \in sent[n]
  /\ kind \in sent[n] /\ n \notin dropped =>
       \/ n \in flag
       \/ \E i \in DOMAIN queue : queue[i].notif = n /\ queue[i].kind = kind
       \/ dpc = "oneshot" /\ callback.notif = n /\ callback.kind = kind

HearInv ==
  \A c \in Waiting : Heard(req[c].notif, "idled", fired) /\ Heard(req[c].notif, "resumed", resumed)

EventInv == SentInv /\ LastInv /\ SettleInv /\ HearInv

\* A step that destroys the notifications old and creates new ones, and neither sends nor
\* handles an event.
Carried(old, new) ==
  /\ new \subseteq Notifs \ InUse
  /\ proxies' = (proxies \ old) \cup new
  /\ idling' = idling \ old
  /\ \A n \in Notifs : sent'[n] = IF n \in old THEN {} ELSE sent[n]
  /\ dropped' = dropped \ old
  /\ UNCHANGED <<queue, dpc, callback>>
  /\ \A m \in Monitored' :
       \/ monitors'[m].notification \in new
       \/ /\ m \in Monitored
          /\ monitors'[m].notification = monitors[m].notification
          /\ monitors'[m].is_idle = monitors[m].is_idle
  /\ \A c \in Waiting' :
       \/ req'[c].notif \in new
       \/ c \in Waiting /\ req'[c].notif = req[c].notif
  /\ \A n \in proxies' : (n \in fired' <=> n \in fired) /\ (n \in resumed' <=> n \in resumed)

\* The events of the other notifications are as they were; of a new one there is none.
LEMMA EventsCarried ==
  ASSUME TableInv, OwnersInv, EventInv, OwnersInv', NEW old, NEW new, Carried(old, new)
  PROVE  EventInv'
<1>1. /\ new \subseteq Notifs \ InUse
      /\ proxies' = (proxies \ old) \cup new
      /\ idling' = idling \ old
      /\ \A n \in Notifs : sent'[n] = IF n \in old THEN {} ELSE sent[n]
      /\ dropped' = dropped \ old
      /\ queue' = queue /\ dpc' = dpc /\ callback' = callback
  BY DEF Carried
<1>2. proxies \subseteq Notifs /\ idling \subseteq proxies /\ fired \subseteq contexts
      /\ resumed \subseteq contexts
  BY DEF TableInv, TypeOK, ProxyType, ContextType
<1>3. \A n \in new : /\ n \in Notifs /\ n \notin proxies /\ n \notin idling /\ n \notin contexts
                     /\ n # callback.notif
                     /\ \A i \in DOMAIN queue : queue[i].notif # n
                     /\ sent'[n] = {}
  <2>1. \A n \in new : /\ n \in Notifs /\ n \notin proxies /\ n \notin contexts /\ n # callback.notif
                       /\ \A i \in DOMAIN queue : queue[i].notif # n
    BY <1>1 DEF InUse
  <2>2. \A n \in new : sent[n] = {}
    BY <2>1 DEF OwnersInv, Clean
  <2> QED BY <1>1, <1>2, <2>1, <2>2
<1>4. \A n \in proxies' \ new : n \in proxies /\ n \in Notifs /\ n \notin old /\ sent'[n] = sent[n]
  BY <1>1, <1>2
<1>5. SentInv'
  <2>1. ASSUME NEW i \in DOMAIN queue, queue[i].notif \in proxies'
        PROVE  queue[i].kind \in sent'[queue[i].notif]
    BY <1>3, <1>4, <2>1 DEF EventInv, SentInv
  <2>2. ASSUME dpc \in {"manager", "lock", "oneshot"}, callback.notif \in proxies'
        PROVE  callback.kind \in sent'[callback.notif]
    BY <1>3, <1>4, <2>2 DEF EventInv, SentInv
  <2>3. \A n \in idling' : n \in Notifs /\ n \notin old /\ n \in idling
    BY <1>1, <1>2
  <2>4. \A n \in idling' : "idled" \in sent'[n]
    BY <1>1, <2>3 DEF EventInv, SentInv
  <2>5. \A n \in proxies' : "resumed" \in sent'[n] => "idled" \in sent'[n]
    BY <1>3, <1>4 DEF EventInv, SentInv
  <2> QED BY <1>1, <2>1, <2>2, <2>4, <2>5 DEF SentInv
<1>6. LastInv'
  <2> SUFFICES ASSUME NEW i \in DOMAIN queue, queue[i].notif \in proxies',
                      \A j \in DOMAIN queue : queue[j].notif = queue[i].notif => j <= i
               PROVE  queue[i].kind = "idled" <=> queue[i].notif \in idling'
    BY <1>1 DEF LastInv
  <2>1. queue[i].notif \in proxies /\ queue[i].notif \notin old
    BY <1>3, <1>4
  <2> QED BY <1>1, <2>1 DEF EventInv, LastInv
<1>7. SettleInv'
  <2> SUFFICES ASSUME NEW m \in Monitored', NEW n, n = monitors'[m].notification,
                      sent'[n] # {}, n \notin dropped', ~Queued(n)'
               PROVE  IF dpc \in {"manager", "lock"} /\ Mon = m
                      THEN callback.notif = n /\ (Idled <=> n \in idling')
                      ELSE monitors'[m].is_idle <=> n \in idling'
    BY <1>1 DEF SettleInv, Mon, Idled
  <2>1. n \in proxies' /\ n \notin new
    BY <1>3 DEF OwnersInv, MonitorOwns
  <2>2. n \in proxies /\ n \notin old /\ sent'[n] = sent[n]
    BY <1>4, <2>1
  <2>3. m \in Monitored /\ n = monitors[m].notification /\ monitors'[m].is_idle = monitors[m].is_idle
    BY <2>1 DEF Carried
  <2>4. n \notin dropped /\ ~Queued(n) /\ (n \in idling' <=> n \in idling)
    BY <1>1, <2>2 DEF Queued
  <2> QED BY <2>2, <2>3, <2>4 DEF EventInv, SettleInv
<1>8. HearInv'
  <2> SUFFICES ASSUME NEW c \in Waiting', NEW n, n = req'[c].notif
               PROVE  Heard(n, "idled", fired)' /\ Heard(n, "resumed", resumed)'
    BY DEF HearInv
  <2>1. n \in proxies'
    BY DEF OwnersInv, WaitOwns, Waiting, Holding
  <2>2. /\ n \in fired' <=> n \in fired
        /\ n \in resumed' <=> n \in resumed
    BY <2>1 DEF Carried
  <2>3. CASE n \in new
    BY <1>2, <1>3, <2>2, <2>3 DEF Heard
  <2>4. CASE n \notin new
    <3>1. n \notin old /\ sent'[n] = sent[n]
      BY <1>4, <2>1, <2>4
    <3>2. c \in Waiting /\ n = req[c].notif
      BY <2>4 DEF Carried
    <3>3. Heard(n, "idled", fired) /\ Heard(n, "resumed", resumed)
      BY <3>2 DEF EventInv, HearInv
    <3> QED BY <1>1, <2>2, <3>1, <3>3 DEF Heard
  <2> QED BY <2>3, <2>4
<1> QED BY <1>5, <1>6, <1>7, <1>8 DEF EventInv

\* A step that leaves the notifications, their owners and their flags alone.
LEMMA NothingCarried ==
  ASSUME TableInv,
         UNCHANGED <<proxies, idling, sent, dropped, queue, dpc, callback, fired, resumed>>,
         HoldersKept,
         DOMAIN monitors' = DOMAIN monitors,
         \A m \in DOMAIN monitors : /\ monitors'[m].notification = monitors[m].notification
                                    /\ monitors'[m].is_idle = monitors[m].is_idle
  PROVE  Carried({}, {})
BY DEF Carried, HoldersKept, Monitored, Waiting, Holding, TableInv, TypeOK, ProxyType

\* refresh_monitor, whether it creates a notification or not.
LEMMA RefreshCarried ==
  ASSUME TableInv, OwnersInv, NEW c \in Clients, NEW m \in Slots, NEW mon \in Monitor,
         m \in DOMAIN monitors \/ m = Len(monitors) + 1, Refresh(c, m, mon),
         IF m \in DOMAIN monitors
         THEN mon.notification = monitors[m].notification /\ mon.is_idle = monitors[m].is_idle
         ELSE mon.notification = NoProxy,
         ~mon.deleted, pc[c] \in {"ready", "update"}, mu = None,
         UNCHANGED <<contextVars, wireVars, dispatchVars>>
  PROVE  OwnersInv' /\ \E old, new : Carried(old, new)
<1> DEFINE old == {mon.notification} \ {NoProxy}
<1>1. PICK n \in Notifs \cup {NoProxy}, managed \in BOOLEAN :
        /\ ReplaceProxies(old, {n} \ {NoProxy})
        /\ n = NoProxy \/ n \notin InUse
        /\ PutMonitor(m, [mon EXCEPT !.notification = n, !.manager = managed])
        /\ n # NoProxy => mon.enabled /\ managed
        /\ \/ /\ n # NoProxy /\ mu' = c
              /\ req' = [req EXCEPT ![c] = [NoRequest EXCEPT !.monitor = m, !.notif = n]]
              /\ pc' = [pc EXCEPT ![c] = "listen"]
           \/ /\ n = NoProxy /\ req' = [req EXCEPT ![c] = NoRequest]
              /\ pc' = [pc EXCEPT ![c] = "ready"]
  <2>1. CASE mon.enabled
    <3>1. /\ CanCreate /\ ReplaceProxies(old, {NewNotif})
          /\ PutMonitor(m, [mon EXCEPT !.notification = NewNotif, !.manager = TRUE])
          /\ mu' = c
          /\ req' = [req EXCEPT ![c] = [NoRequest EXCEPT !.monitor = m, !.notif = NewNotif]]
          /\ pc' = [pc EXCEPT ![c] = "listen"]
      BY <2>1 DEF Refresh, Goto
    <3>2. NewNotif \in Notifs \ InUse /\ NewNotif # NoProxy
      BY <3>1, NewNotifFresh DEF Notifs, NoProxy
    <3>3. {NewNotif} \ {NoProxy} = {NewNotif}
      BY <3>2
    <3> QED BY <2>1, <3>1, <3>2, <3>3
  <2>2. CASE ~mon.enabled
    <3>1. /\ ReplaceProxies(old, {}) /\ PutMonitor(m, [mon EXCEPT !.notification = NoProxy])
          /\ req' = [req EXCEPT ![c] = NoRequest] /\ pc' = [pc EXCEPT ![c] = "ready"]
      BY <2>2 DEF Refresh, Goto
    <3>2. [mon EXCEPT !.notification = NoProxy]
            = [mon EXCEPT !.notification = NoProxy, !.manager = mon.manager]
          /\ mon.manager \in BOOLEAN
      BY DEF Monitor
    <3>3. {NoProxy} \ {NoProxy} = {}
      OBVIOUS
    <3> QED BY <3>1, <3>2, <3>3
  <2> QED BY <2>1, <2>2
<1> DEFINE entry == [mon EXCEPT !.notification = n, !.manager = managed]
<1>2. /\ entry \in Monitor /\ entry.notification = n /\ entry.manager = managed
      /\ entry.enabled = mon.enabled /\ entry.deleted = mon.deleted /\ entry.is_idle = mon.is_idle
  BY DEF Monitor
<1> HIDE DEF entry
<1>3. /\ DOMAIN monitors' = DOMAIN monitors \cup {m}
      /\ \A k \in DOMAIN monitors' : monitors'[k] = IF k = m THEN entry ELSE monitors[k]
  <2>1. PutMonitor(m, entry)
    BY <1>1 DEF entry
  <2> QED BY <1>2, <2>1, PutMonitorTable DEF TableInv, TypeOK
<1>4. monitors'[m] = entry
  BY <1>3
<1>5. /\ \A d \in Clients \ {c} : pc'[d] = pc[d] /\ req'[d] = req[d]
      /\ \/ /\ n # NoProxy /\ mu' = c /\ pc'[c] = "listen"
            /\ req'[c].monitor = m /\ req'[c].notif = n
         \/ n = NoProxy /\ pc'[c] = "ready"
  <2>0. pc \in [Clients -> {"ready", "update", "listen", "attach", "wait", "free"}]
        /\ req \in [Clients -> Request]
    BY DEF TableInv, TypeOK, RequestType
  <2>1. CASE /\ n # NoProxy /\ mu' = c
             /\ req' = [req EXCEPT ![c] = [NoRequest EXCEPT !.monitor = m, !.notif = n]]
             /\ pc' = [pc EXCEPT ![c] = "listen"]
    <3>1. req'[c] = [NoRequest EXCEPT !.monitor = m, !.notif = n]
      BY <2>0, <2>1
    <3>2. req'[c].monitor = m /\ req'[c].notif = n
      BY <3>1 DEF NoRequest
    <3> QED BY <2>0, <2>1, <3>2
  <2>2. CASE /\ n = NoProxy /\ req' = [req EXCEPT ![c] = NoRequest]
             /\ pc' = [pc EXCEPT ![c] = "ready"]
    BY <2>0, <2>2
  <2> QED BY <1>1, <2>1, <2>2
<1>6. HoldersKept
  BY <1>5 DEF HoldersKept, Holding
<1>7. IF m \in DOMAIN monitors THEN old = {monitors[m].notification} \ {NoProxy} ELSE old = {}
  OBVIOUS
<1>8. \A d \in Clients : pc[d] # "listen"
  BY IdleAssumption DEF OwnersInv, Listening
<1>9. \A d \in Clients : pc'[d] = "listen" =>
        mu' = d /\ req'[d].monitor = m /\ req'[d].notif = n /\ n # NoProxy
  BY <1>5, <1>8
<1>10. n # NoProxy => monitors'[m].enabled /\ ~monitors'[m].deleted /\ monitors'[m].manager
  BY <1>1, <1>2, <1>4
<1>11. UNCHANGED <<contexts, fired, resumed, queue, dpc, callback>>
  BY DEF contextVars, wireVars, dispatchVars
<1>12. OwnersInv'
  <2>1. \A k \in DOMAIN monitors \ {m} : monitors'[k] = monitors[k]
    BY <1>3
  <2>2. monitors'[m].notification = n
    BY <1>2, <1>4
  <2>3. /\ n \in Notifs \cup {NoProxy}
        /\ n \notin InUse \/ n = NoProxy
        /\ ReplaceProxies(old, {n} \ {NoProxy})
    BY <1>1
  <2>4. mu = None /\ UNCHANGED <<contexts, dpc, callback>>
    BY <1>11
  <2>5. DOMAIN monitors' = DOMAIN monitors \cup {m}
    BY <1>3
  <2> QED BY <1>6, <1>7, <1>9, <1>10, <2>1, <2>2, <2>3, <2>4, <2>5, MonitorChange
<1>13. Carried(old, {n} \ {NoProxy})
  <2>1. {n} \ {NoProxy} \subseteq Notifs \ InUse
    BY <1>1
  <2>2. /\ proxies' = (proxies \ old) \cup ({n} \ {NoProxy})
        /\ idling' = idling \ old
        /\ \A k \in Notifs : sent'[k] = IF k \in old THEN {} ELSE sent[k]
        /\ dropped' = dropped \ old
    BY <1>1 DEF ReplaceProxies
  <2>3. ASSUME NEW k \in Monitored'
        PROVE  \/ monitors'[k].notification \in {n} \ {NoProxy}
               \/ /\ k \in Monitored
                  /\ monitors'[k].notification = monitors[k].notification
                  /\ monitors'[k].is_idle = monitors[k].is_idle
    BY <1>2, <1>3, <1>4 DEF Monitored
  <2>4. \A d \in Waiting' : d \in Waiting /\ req'[d].notif = req[d].notif
    BY <1>6 DEF HoldersKept, Waiting, Holding
  <2> QED BY <1>11, <2>1, <2>2, <2>3, <2>4 DEF Carried
<1> QED BY <1>12, <1>13

LEMMA MonitorCarried ==
  ASSUME TableInv, OwnersInv, NEW c \in Clients,
         CreateMonitor(c) \/ Listen(c) \/ ReadMonitor(c) \/ UpdateMonitor(c) \/ DestroyMonitor(c)
  PROVE  OwnersInv' /\ \E old, new : Carried(old, new)
<1>1. CASE /\ UNCHANGED <<monitors, mu, proxyVars, contextVars, wireVars, dispatchVars>>
           /\ \A d \in Clients \ {c} : pc'[d] = pc[d] /\ req'[d] = req[d]
           /\ pc[c] \in {"ready", "update"} /\ pc'[c] \in {"ready", "update"}
  <2>1. HoldersKept
    BY <1>1 DEF HoldersKept, Holding
  <2>2. InHand'
    BY <1>1 DEF OwnersInv, InHand, Monitored, Mon, dispatchVars, proxyVars, contextVars
  <2>3. OwnersInv'
    BY <1>1, <2>1, <2>2, OwnersKept DEF proxyVars, contextVars
  <2>4. Carried({}, {})
    BY <1>1, <2>1, NothingCarried DEF proxyVars, contextVars, wireVars, dispatchVars
  <2> QED BY <2>3, <2>4
<1>2. CASE CreateMonitor(c)
  <2>1. /\ pc[c] = "ready" /\ mu = None
        /\ UNCHANGED <<contextVars, wireVars, dispatchVars>>
    BY <1>2 DEF CreateMonitor, Serve, Serving
  <2>2. CASE UNCHANGED <<tableVars, proxyVars, acks_due, pc, req>>
    BY <1>1, <2>1, <2>2 DEF tableVars
  <2>3. ASSUME Len(monitors) < MaxMonitors, NEW enabled \in BOOLEAN,
               Refresh(c, Len(monitors) + 1, NewMonitor(enabled))
        PROVE  OwnersInv' /\ \E old, new : Carried(old, new)
    <3>1. /\ Len(monitors) + 1 \in Slots /\ Len(monitors) + 1 \notin DOMAIN monitors
      BY <2>3, TableDomain, IdleAssumption DEF Slots, TableInv, TypeOK
    <3>2. /\ NewMonitor(enabled) \in Monitor /\ NewMonitor(enabled).notification = NoProxy
          /\ ~NewMonitor(enabled).deleted
      BY DEF NewMonitor, Monitor
    <3> QED BY <2>1, <2>3, <3>1, <3>2, RefreshCarried
  <2> QED BY <1>2, <2>2, <2>3 DEF CreateMonitor
<1>3. CASE UpdateMonitor(c)
  <2>1. /\ pc[c] = "update" /\ mu = None
        /\ UNCHANGED <<contextVars, wireVars, dispatchVars>>
    BY <1>3 DEF UpdateMonitor, Serving
  <2>2. CASE /\ req' = [req EXCEPT ![c] = NoRequest] /\ Goto(c, "ready")
             /\ UNCHANGED <<tableVars, proxyVars, acks_due>>
    <3>1. /\ \A d \in Clients \ {c} : pc'[d] = pc[d] /\ req'[d] = req[d]
          /\ pc'[c] = "ready"
      BY <2>2 DEF Goto, TableInv, TypeOK, RequestType
    <3> QED BY <1>1, <2>1, <2>2, <3>1 DEF tableVars
  <2>3. ASSUME Live(req[c].monitor),
               Refresh(c, req[c].monitor,
                       [monitors[req[c].monitor] EXCEPT !.enabled = req[c].enabled])
        PROVE  OwnersInv' /\ \E old, new : Carried(old, new)
    <3> DEFINE m == req[c].monitor
               mon == [monitors[m] EXCEPT !.enabled = req[c].enabled]
    <3>1. m \in DOMAIN monitors /\ m \in Slots /\ monitors[m] \in Monitor /\ ~monitors[m].deleted
      BY <2>3, TableDomain DEF Live, TableInv, TypeOK
    <3>2. req[c].enabled \in BOOLEAN
      BY DEF TableInv, TypeOK, RequestType, Request
    <3>3. /\ mon \in Monitor /\ mon.is_idle = monitors[m].is_idle
          /\ mon.notification = monitors[m].notification /\ ~mon.deleted
      BY <3>1, <3>2 DEF Monitor
    <3> QED BY <2>1, <2>3, <3>1, <3>3, RefreshCarried
  <2> QED BY <1>3, <2>2, <2>3 DEF UpdateMonitor
<1>4. CASE DestroyMonitor(c)
  <2>1. /\ pc[c] = "ready" /\ mu = None
        /\ UNCHANGED <<mu, contextVars, wireVars, dispatchVars, pc, req>>
    BY <1>4 DEF DestroyMonitor, Serve, Serving
  <2>2. CASE UNCHANGED <<monitors, proxyVars, acks_due>>
    BY <1>1, <2>1, <2>2
  <2>3. ASSUME NEW m \in DOMAIN monitors, ReplaceProxies(ProxyOf(m), {}),
               PutMonitor(m, [monitors[m] EXCEPT !.notification = NoProxy,
                                                 !.deleted = TRUE, !.manager = FALSE])
        PROVE  OwnersInv' /\ \E old, new : Carried(old, new)
    <3> DEFINE mon == [monitors[m] EXCEPT !.notification = NoProxy, !.deleted = TRUE,
                                          !.manager = FALSE]
    <3>1. m \in Slots /\ mon \in Monitor /\ mon.notification = NoProxy
      BY TableDomain DEF Monitor, TableInv, TypeOK
    <3>2. PutMonitor(m, mon)
      BY <2>3
    <3> HIDE DEF mon
    <3>3. /\ DOMAIN monitors' = DOMAIN monitors \cup {m}
          /\ \A k \in DOMAIN monitors' : monitors'[k] = IF k = m THEN mon ELSE monitors[k]
      BY <3>1, <3>2, PutMonitorTable DEF TableInv, TypeOK
    <3>4. HoldersKept /\ \A d \in Clients : pc'[d] # "listen"
      BY <2>1, IdleAssumption DEF HoldersKept, OwnersInv, Listening
    <3>5. UNCHANGED <<contexts, fired, resumed, queue, dpc, callback>>
      BY <2>1 DEF contextVars, wireVars, dispatchVars
    <3>6. ReplaceProxies(ProxyOf(m), {NoProxy} \ {NoProxy})
      <4>1. {NoProxy} \ {NoProxy} = {}
        OBVIOUS
      <4> QED BY <2>3, <4>1
    <3>7. ProxyOf(m) = {monitors[m].notification} \ {NoProxy}
      BY DEF ProxyOf
    <3>8. OwnersInv'
      BY <2>1, <3>1, <3>3, <3>4, <3>5, <3>6, <3>7, MonitorChange
    <3>9. Carried(ProxyOf(m), {})
      <4>1. /\ proxies' = (proxies \ ProxyOf(m)) \cup {}
            /\ idling' = idling \ ProxyOf(m)
            /\ \A k \in Notifs : sent'[k] = IF k \in ProxyOf(m) THEN {} ELSE sent[k]
            /\ dropped' = dropped \ ProxyOf(m)
        BY <2>3 DEF ReplaceProxies
      <4>2. \A k \in Monitored' : k \in Monitored /\ monitors'[k] = monitors[k]
        BY <3>1, <3>3 DEF Monitored
      <4>3. \A d \in Waiting' : d \in Waiting /\ req'[d].notif = req[d].notif
        BY <2>1 DEF Waiting
      <4> QED BY <3>5, <4>1, <4>2, <4>3 DEF Carried
    <3> QED BY <3>8, <3>9
  <2> QED BY <1>4, <2>2, <2>3 DEF DestroyMonitor
<1>5. CASE Listen(c)
  <2>1. OwnersInv'
    BY <1>5, ListenOwners
  <2>2. /\ UNCHANGED <<monitors, proxies, idling, sent, dropped, queue, dpc, callback,
                       fired, resumed>>
        /\ pc[c] = "listen" /\ pc' = [pc EXCEPT ![c] = "ready"]
        /\ req' = [req EXCEPT ![c] = NoRequest]
    BY <1>5 DEF Listen, Serving, Goto, contextVars, wireVars, dispatchVars
  <2>3. HoldersKept
    BY <2>2 DEF HoldersKept, Holding, TableInv, TypeOK, RequestType
  <2>4. Carried({}, {})
    BY <2>2, <2>3, NothingCarried
  <2> QED BY <2>1, <2>4
<1>6. CASE ReadMonitor(c)
  <2>1. /\ UNCHANGED <<tableVars, proxyVars, contextVars, wireVars, dispatchVars>>
        /\ pc[c] = "ready"
        /\ \/ UNCHANGED <<pc, req>>
           \/ /\ \E r : req' = [req EXCEPT ![c] = r]
              /\ pc' = [pc EXCEPT ![c] = "update"]
    BY <1>6 DEF ReadMonitor, Serve, Serving, Goto
  <2>2. /\ \A d \in Clients \ {c} : pc'[d] = pc[d] /\ req'[d] = req[d]
        /\ pc'[c] \in {"ready", "update"}
    BY <2>1 DEF TableInv, TypeOK, RequestType
  <2> QED BY <1>1, <2>1, <2>2 DEF tableVars
<1> QED BY <1>2, <1>3, <1>4, <1>5, <1>6

\* The one-shot waits.
LEMMA WaitCarried ==
  ASSUME TableInv, OwnersInv, NEW c \in Clients,
         BeginWait(c) \/ Attach(c) \/ EndWait(c) \/ FreeContext(c)
  PROVE  OwnersInv' /\ \E old, new : Carried(old, new)
<1>0. OwnersInv'
  BY BeginWaitOwners, AttachOwners, EndWaitOwners, FreeContextOwners
<1>1. pc \in [Clients -> {"ready", "update", "listen", "attach", "wait", "free"}]
      /\ req \in [Clients -> Request]
  BY DEF TableInv, TypeOK, RequestType
<1>2. CASE BeginWait(c)
  <2>1. PICK kind \in WaitKinds :
          /\ CanCreate /\ ReplaceProxies({}, {NewNotif})
          /\ req' = [req EXCEPT ![c] = [NoRequest EXCEPT !.kind = kind, !.notif = NewNotif]]
          /\ pc' = [pc EXCEPT ![c] = "attach"]
          /\ UNCHANGED <<monitors, queue, dpc, callback, fired, resumed>>
    BY <1>2 DEF BeginWait, Goto, tableVars, wireVars, dispatchVars
  <2>2. {NewNotif} \subseteq Notifs \ InUse
    BY <2>1, NewNotifFresh
  <2>3. /\ proxies' = (proxies \ {}) \cup {NewNotif}
        /\ idling' = idling \ {}
        /\ \A k \in Notifs : sent'[k] = IF k \in {} THEN {} ELSE sent[k]
        /\ dropped' = dropped \ {}
    BY <2>1 DEF ReplaceProxies
  <2>4. req'[c].notif = NewNotif /\ \A d \in Clients \ {c} : pc'[d] = pc[d] /\ req'[d] = req[d]
    BY <1>1, <2>1 DEF NoRequest
  <2>5. \A d \in Waiting' : req'[d].notif \in {NewNotif}
                            \/ (d \in Waiting /\ req'[d].notif = req[d].notif)
    BY <2>4 DEF Waiting
  <2>6. Monitored' = Monitored
    BY <2>1 DEF Monitored
  <2> QED BY <1>0, <2>1, <2>2, <2>3, <2>5, <2>6 DEF Carried
<1>3. CASE Attach(c)
  <2>1. /\ UNCHANGED <<monitors, proxies, idling, sent, dropped, queue, dpc, callback,
                       fired, resumed, req>>
        /\ pc[c] = "attach" /\ pc' = [pc EXCEPT ![c] = "wait"]
    BY <1>3 DEF Attach, Serving, Goto, tableVars, contextVars, wireVars, dispatchVars
  <2>2. \A d \in Waiting' : d \in Waiting
    BY <1>1, <2>1 DEF Waiting
  <2>3. Monitored' = Monitored
    BY <2>1 DEF Monitored
  <2> QED BY <1>0, <2>1, <2>2, <2>3 DEF Carried
<1>4. CASE EndWait(c)
  <2>1. /\ UNCHANGED <<monitors, queue, dpc, callback, fired, resumed, req>>
        /\ pc' = [pc EXCEPT ![c] = "free"]
        /\ ReplaceProxies({req[c].notif}, {})
    BY <1>4 DEF EndWait, Goto, tableVars, contextVars, wireVars, dispatchVars
  <2>2. \A d \in Waiting' : d \in Waiting
    BY <1>1, <2>1 DEF Waiting
  <2>3. Monitored' = Monitored
    BY <2>1 DEF Monitored
  <2>4. /\ proxies' = (proxies \ {req[c].notif}) \cup {}
        /\ idling' = idling \ {req[c].notif}
        /\ \A k \in Notifs : sent'[k] = IF k \in {req[c].notif} THEN {} ELSE sent[k]
        /\ dropped' = dropped \ {req[c].notif}
    BY <2>1 DEF ReplaceProxies
  <2>5. Carried({req[c].notif}, {})
    BY <2>1, <2>2, <2>3, <2>4 DEF Carried
  <2> QED BY <1>0, <2>5
<1>5. CASE FreeContext(c)
  <2>1. /\ UNCHANGED <<monitors, proxies, idling, sent, dropped, queue, dpc, callback>>
        /\ pc[c] = "free" /\ pc' = [pc EXCEPT ![c] = "ready"]
        /\ req' = [req EXCEPT ![c] = NoRequest]
        /\ fired' = fired \ {req[c].notif} /\ resumed' = resumed \ {req[c].notif}
    BY <1>5 DEF FreeContext, Serving, Goto, tableVars, proxyVars, wireVars, dispatchVars
  <2>2. \A d \in Waiting' : d \in Waiting /\ req'[d] = req[d]
    BY <1>1, <2>1 DEF Waiting
  <2>3. Monitored' = Monitored
    BY <2>1 DEF Monitored
  <2>4. req[c].notif \notin proxies
    BY <2>1 DEF OwnersInv, WaitOwns, Holding, Waiting
  <2>5. \A n \in proxies' : (n \in fired' <=> n \in fired) /\ (n \in resumed' <=> n \in resumed)
    BY <2>1, <2>4
  <2>6. /\ proxies' = (proxies \ {}) \cup {}
        /\ idling' = idling \ {}
        /\ \A k \in Notifs : sent'[k] = IF k \in {} THEN {} ELSE sent[k]
        /\ dropped' = dropped \ {}
    BY <2>1
  <2>7. Carried({}, {})
    BY <2>1, <2>2, <2>3, <2>5, <2>6 DEF Carried
  <2> QED BY <1>0, <2>7
<1> QED BY <1>2, <1>3, <1>4, <1>5

\* Steps that change no notification, no owner and no event: inhibitors, the user, the rest
\* of the shutdown.
LEMMA StillCarried ==
  ASSUME TableInv, OwnersInv,
         UNCHANGED <<monitors, mu, proxyVars, contextVars, queue, dispatchVars, pc, req>>
  PROVE  OwnersInv' /\ \E old, new : Carried(old, new)
<1>1. HoldersKept
  BY DEF HoldersKept
<1>2. InHand'
  BY DEF OwnersInv, InHand, Monitored, Mon, dispatchVars, proxyVars, contextVars
<1>3. OwnersInv'
  BY <1>1, <1>2, OwnersKept DEF proxyVars, contextVars
<1>4. Carried({}, {})
  BY <1>1, NothingCarried DEF proxyVars, contextVars, dispatchVars
<1> QED BY <1>3, <1>4

LEMMA ClearCarried ==
  ASSUME TableInv, OwnersInv, Clear
  PROVE  OwnersInv' /\ \E old, new : Carried(old, new)
<1> DEFINE own == UNION {ProxyOf(m) : m \in DOMAIN monitors}
<1>1. /\ ReplaceProxies(own, {})
      /\ monitors' = [m \in DOMAIN monitors |->
                        [monitors[m] EXCEPT !.notification = NoProxy, !.manager = FALSE]]
      /\ UNCHANGED <<pc, req, queue, dpc, callback, fired, resumed>>
  BY DEF Clear, contextVars, requestVars, dispatchVars, wireVars
<1> HIDE DEF own
<1>2. Monitored' = {}
  <2>1. \A m \in DOMAIN monitors : monitors[m] \in Monitor
    BY TableDomain DEF TableInv, TypeOK
  <2>2. \A m \in DOMAIN monitors : monitors'[m].notification = NoProxy
    BY <1>1, <2>1 DEF Monitor
  <2> QED BY <1>1, <2>2 DEF Monitored
<1>3. /\ proxies' = (proxies \ own) \cup {}
      /\ idling' = idling \ own
      /\ \A k \in Notifs : sent'[k] = IF k \in own THEN {} ELSE sent[k]
      /\ dropped' = dropped \ own
  BY <1>1 DEF ReplaceProxies
<1>4. Carried(own, {})
  BY <1>1, <1>2, <1>3 DEF Carried, Waiting
<1> QED BY <1>4, ClearOwners

\* Whatever neither sends nor handles an event.
LEMMA QuietCarried ==
  ASSUME TableInv, OwnersInv,
         \/ \E c \in Clients : ClientStep(c)
         \/ UserActs \/ UserRests \/ ShutdownStep \/ UNCHANGED vars
  PROVE  OwnersInv' /\ \E old, new : Carried(old, new)
<1>1. ASSUME NEW c \in Clients, ClientStep(c)
      PROVE  OwnersInv' /\ \E old, new : Carried(old, new)
  <2>1. CASE ServeInhibitors(c)
    BY <2>1, StillCarried DEF ServeInhibitors, tableVars, wireVars
  <2> QED BY <1>1, <2>1, MonitorCarried, WaitCarried DEF ClientStep
<1>2. CASE UserActs \/ UserRests \/ UNCHANGED vars
  BY <1>2, StillCarried DEF UserActs, UserRests, User, vars, tableVars, requestVars, wireVars
<1>3. CASE ShutdownStep
  <2>1. CASE StopRunning \/ Free
    BY <2>1, StillCarried DEF StopRunning, Free, Shutdown, tableVars, requestVars, wireVars
  <2> QED BY <1>3, <2>1, ClearCarried DEF ShutdownStep
<1> QED BY <1>1, <1>2, <1>3

\* The compositor sends an event of a notification that is alive.
LEMMA SendEvents ==
  ASSUME TableInv, OwnersInv, EventInv, CompositorStep PROVE OwnersInv' /\ EventInv'
<1>1. PICK n \in Notifs, kind \in {"idled", "resumed"} :
        /\ Send(n, kind)
        /\ n \in proxies
        /\ \/ kind = "idled" /\ idling' = idling \cup {n}
           \/ kind = "resumed" /\ n \in idling /\ idling' = idling \ {n}
  <2>1. PICK n \in Notifs : SendIdled(n) \/ SendResumed(n)
    BY DEF CompositorStep
  <2>2. n \in proxies
    BY <2>1 DEF SendIdled, SendResumed, TableInv, TypeOK, ProxyType
  <2>3. CASE SendIdled(n)
    BY <2>2, <2>3 DEF SendIdled
  <2>4. CASE SendResumed(n)
    BY <2>2, <2>4 DEF SendResumed
  <2> QED BY <2>1, <2>3, <2>4
<1> DEFINE k == Len(queue) + 1
           e == [notif |-> n, kind |-> kind]
<1>2. /\ queue' = Append(queue, e)
      /\ \A p \in Notifs : sent'[p] = IF p = n THEN sent[n] \cup {kind} ELSE sent[p]
      /\ UNCHANGED <<mu, monitors, proxies, listener, dropped, contexts, fired, resumed,
                     dpc, callback, pc, req>>
  BY <1>1 DEF Send, tableVars, contextVars, dispatchVars, requestVars, TableInv, TypeOK, ProxyType
<1>3. /\ k \in Nat
      /\ DOMAIN queue' = DOMAIN queue \cup {k}
      /\ queue'[k].notif = n /\ queue'[k].kind = kind
      /\ \A i \in DOMAIN queue : queue'[i] = queue[i] /\ i \in Nat /\ i < k
  <2>1. queue \in Seq(Event) /\ e \in Event
    BY <1>1 DEF TableInv, TypeOK, WireType, Event
  <2>2. /\ queue' \in Seq(Event) /\ Len(queue') = k /\ queue'[k] = e
        /\ \A i \in 1 .. Len(queue) : queue'[i] = queue[i]
    BY <1>2, <2>1, AppendProperties
  <2>3. DOMAIN queue = 1 .. Len(queue) /\ DOMAIN queue' = 1 .. k /\ Len(queue) \in Nat
    BY <2>1, <2>2, LenProperties
  <2> QED BY <2>2, <2>3
<1> HIDE DEF k, e
<1>4. proxies \subseteq Notifs /\ idling \subseteq proxies
  BY DEF TableInv, TypeOK, ProxyType
<1>5. OwnersInv'
  <2>1. HoldersKept
    BY <1>2 DEF HoldersKept
  <2>2. InHand'
    BY <1>2 DEF OwnersInv, InHand, Monitored, Mon
  <2> QED BY <1>1, <1>2, <2>1, <2>2, OwnersKept
<1>6. SentInv'
  <2>1. ASSUME NEW i \in DOMAIN queue', queue'[i].notif \in proxies
        PROVE  queue'[i].kind \in sent'[queue'[i].notif]
    BY <1>2, <1>3, <1>4, <2>1 DEF EventInv, SentInv
  <2>2. ASSUME dpc \in {"manager", "lock", "oneshot"}, callback.notif \in proxies
        PROVE  callback.kind \in sent'[callback.notif]
    BY <1>2, <1>4, <2>2 DEF EventInv, SentInv
  <2>3. ASSUME NEW p \in idling' PROVE "idled" \in sent'[p]
    <3>1. p \in Notifs
      BY <1>1, <1>4
    <3> QED BY <1>1, <1>2, <3>1 DEF EventInv, SentInv
  <2>4. ASSUME NEW p \in proxies, "resumed" \in sent'[p] PROVE "idled" \in sent'[p]
    <3>1. CASE p = n /\ kind = "resumed"
      BY <1>1, <1>2, <3>1 DEF EventInv, SentInv
    <3>2. CASE p # n \/ kind = "idled"
      BY <1>1, <1>2, <1>4, <2>4, <3>2 DEF EventInv, SentInv
    <3> QED BY <1>1, <3>1, <3>2
  <2> QED BY <1>2, <2>1, <2>2, <2>3, <2>4 DEF SentInv
<1>7. LastInv'
  <2> SUFFICES ASSUME NEW i \in DOMAIN queue', queue'[i].notif \in proxies,
                      \A j \in DOMAIN queue' : queue'[j].notif = queue'[i].notif => j <= i
               PROVE  queue'[i].kind = "idled" <=> queue'[i].notif \in idling'
    BY <1>2 DEF LastInv
  <2>1. CASE i = k
    BY <1>1, <1>3, <2>1
  <2>2. CASE i # k
    <3>1. i \in DOMAIN queue /\ queue'[i] = queue[i] /\ i < k /\ i \in Nat
      BY <1>3, <2>2
    <3>2. queue[i].notif # n
      BY <1>3, <3>1
    <3>3. \A j \in DOMAIN queue : queue[j].notif = queue[i].notif => j <= i
      BY <1>3, <3>1
    <3>4. queue[i].kind = "idled" <=> queue[i].notif \in idling
      BY <3>1, <3>3 DEF EventInv, LastInv
    <3> QED BY <1>1, <3>1, <3>2, <3>4
  <2> QED BY <2>1, <2>2
<1>8. SettleInv'
  <2> SUFFICES ASSUME NEW m \in Monitored, NEW p, p = monitors[m].notification,
                      sent'[p] # {}, p \notin dropped, ~Queued(p)'
               PROVE  IF dpc \in {"manager", "lock"} /\ Mon = m
                      THEN callback.notif = p /\ (Idled <=> p \in idling')
                      ELSE monitors[m].is_idle <=> p \in idling'
    BY <1>2 DEF SettleInv, Mon, Idled, Monitored
  <2>1. p # n
    BY <1>3 DEF Queued
  <2>2. ~Queued(p)
    BY <1>3 DEF Queued
  <2>3. p \in Notifs /\ sent'[p] = sent[p] /\ (p \in idling' <=> p \in idling)
    BY <1>1, <1>2, <1>4, <2>1 DEF OwnersInv, MonitorOwns
  <2> QED BY <2>2, <2>3 DEF EventInv, SettleInv
<1>9. HearInv'
  <2> SUFFICES ASSUME NEW c \in Waiting, NEW p, p = req[c].notif
               PROVE  Heard(p, "idled", fired)' /\ Heard(p, "resumed", resumed)'
    BY <1>2 DEF HearInv, Waiting
  <2>1. Heard(p, "idled", fired) /\ Heard(p, "resumed", resumed)
    BY DEF EventInv, HearInv
  <2>2. p \in Notifs
    BY <1>4 DEF OwnersInv, WaitOwns, Holding, Waiting
  <2>3. CASE p # n
    BY <1>2, <1>3, <2>1, <2>2, <2>3 DEF Heard
  <2>4. CASE p = n
    BY <1>2, <1>3, <2>1, <2>4 DEF Heard
  <2> QED BY <2>3, <2>4
<1> QED BY <1>5, <1>6, <1>7, <1>8, <1>9 DEF EventInv

\* The dispatch thread takes an event from the queue.
LEMMA TailOfQueue ==
  ASSUME TableInv, NextEvent
  PROVE  /\ 1 \in DOMAIN queue /\ queue[1] = Head(queue) /\ Head(queue) \in Event
         /\ \A i \in DOMAIN queue \ {1} : i - 1 \in DOMAIN queue' /\ queue'[i - 1] = queue[i]
         /\ \A i \in DOMAIN queue' : i + 1 \in DOMAIN queue \ {1} /\ queue'[i] = queue[i + 1]
         /\ \A i \in DOMAIN queue \cup DOMAIN queue' : i \in Nat \ {0}
<1>1. queue \in Seq(Event) /\ queue # <<>> /\ queue' = Tail(queue)
  BY DEF NextEvent, TableInv, TypeOK, WireType
<1>2. Len(queue) \in Nat /\ Len(queue) >= 1 /\ DOMAIN queue = 1 .. Len(queue)
  BY <1>1, LenProperties, EmptySeq
<1>3. /\ Head(queue) \in Event /\ queue' \in Seq(Event)
      /\ Len(queue') = Len(queue) - 1
      /\ \A i \in 1 .. Len(queue') : queue'[i] = queue[i + 1]
  BY <1>1, <1>2, HeadTailProperties
<1>4. DOMAIN queue' = 1 .. Len(queue')
  BY <1>3, LenProperties
<1>5. Head(queue) = queue[1]
  BY <1>1
<1> QED BY <1>2, <1>3, <1>4, <1>5

\* What a step of the dispatch thread leaves alone.
LEMMA DispatchKeeps ==
  ASSUME TableInv, OwnersInv, DispatchStep \/ LoseDisplay
  PROVE  /\ UNCHANGED <<proxies, listener, idling, sent, contexts, pc, req>>
         /\ Monitored' = Monitored /\ Waiting' = Waiting
         /\ \A m \in Monitored : monitors'[m].notification = monitors[m].notification
         /\ proxies \subseteq Notifs /\ NoProxy \notin proxies
         /\ SetMonitorIdle \/ UNCHANGED monitors
<1>1. UNCHANGED <<proxies, listener, idling, sent, contexts, pc, req>>
  BY DEF DispatchStep, DiscardEvent, DropEvent, TakeEvent, Wake, TestRunning, LoseDisplay,
         ReadManager, SetMonitorIdle, Report, SetContext, NextEvent, InCallback, Aside,
         requestVars
<1>2. SetMonitorIdle \/ UNCHANGED monitors
  BY DEF DispatchStep, DiscardEvent, DropEvent, TakeEvent, Wake, TestRunning, LoseDisplay,
         ReadManager, Report, SetContext, NextEvent
<1>3. /\ DOMAIN monitors' = DOMAIN monitors
      /\ \A m \in DOMAIN monitors : monitors'[m].notification = monitors[m].notification
  <2>1. CASE SetMonitorIdle
    <3>1. /\ monitors' = [monitors EXCEPT ![Mon] = [monitors[Mon] EXCEPT !.is_idle = Idled]]
          /\ Mon \in DOMAIN monitors /\ monitors[Mon] \in Monitor
      BY <2>1, TableDomain DEF SetMonitorIdle, InCallback, TableInv, CallbackTable, TypeOK
    <3> QED BY <3>1 DEF Monitor
  <2> QED BY <1>2, <2>1
<1>4. proxies \subseteq Notifs /\ NoProxy \notin proxies
  BY DEF TableInv, TypeOK, ProxyType, Notifs, NoProxy
<1> QED BY <1>1, <1>2, <1>3, <1>4 DEF Monitored, Waiting

\* Taking an event from the queue: it is handed over, or dropped, or its notification is gone.
LEMMA DequeuedEvents ==
  ASSUME TableInv, OwnersInv, OwnersInv', EventInv, DiscardEvent \/ DropEvent \/ TakeEvent
  PROVE  EventInv'
<1> DEFINE e == Head(queue)
<1>1. /\ dpc \in {"poll", "between"} /\ NextEvent
      /\ UNCHANGED <<monitors, fired, resumed>>
  BY DEF DiscardEvent, DropEvent, TakeEvent, NextEvent
<1>2. /\ 1 \in DOMAIN queue /\ queue[1] = e /\ e \in Event
      /\ \A i \in DOMAIN queue \ {1} : i - 1 \in DOMAIN queue' /\ queue'[i - 1] = queue[i]
      /\ \A i \in DOMAIN queue' : i + 1 \in DOMAIN queue \ {1} /\ queue'[i] = queue[i + 1]
      /\ \A i \in DOMAIN queue \cup DOMAIN queue' : i \in Nat \ {0}
  BY <1>1, TailOfQueue
<1>3. /\ UNCHANGED <<proxies, listener, idling, sent, contexts, pc, req>>
      /\ Monitored' = Monitored /\ Waiting' = Waiting
      /\ proxies \subseteq Notifs
  BY DispatchKeeps DEF DispatchStep
<1>4. \/ dpc' = "between" /\ e.notif \notin proxies /\ UNCHANGED dropped
      \/ dpc' = "between" /\ e.notif \in dropped' /\ dropped \subseteq dropped'
      \/ /\ e.notif \in proxies /\ listener[e.notif] # NoListener
         /\ dpc' = IF listener[e.notif] = OwnContext THEN "oneshot" ELSE "manager"
         /\ callback' = [notif |-> e.notif, kind |-> e.kind, data |-> listener[e.notif]]
         /\ UNCHANGED dropped
  BY DEF DiscardEvent, DropEvent, TakeEvent, DispatchGoto
<1>5. dropped \subseteq dropped'
  BY <1>4
<1> HIDE DEF e
<1>6. SentInv'
  <2>1. ASSUME NEW i \in DOMAIN queue', queue'[i].notif \in proxies
        PROVE  queue'[i].kind \in sent[queue'[i].notif]
    BY <1>2, <2>1 DEF EventInv, SentInv
  <2>2. ASSUME dpc' \in {"manager", "lock", "oneshot"}, callback'.notif \in proxies
        PROVE  callback'.kind \in sent[callback'.notif]
    <3>1. callback'.notif = e.notif /\ callback'.kind = e.kind
      BY <1>4, <2>2
    <3> QED BY <1>2, <2>2, <3>1 DEF EventInv, SentInv
  <2> QED BY <1>3, <2>1, <2>2 DEF EventInv, SentInv
<1>7. LastInv'
  <2> SUFFICES ASSUME NEW i \in DOMAIN queue', queue'[i].notif \in proxies,
                      \A j \in DOMAIN queue' : queue'[j].notif = queue'[i].notif => j <= i
               PROVE  queue'[i].kind = "idled" <=> queue'[i].notif \in idling
    BY <1>3 DEF LastInv
  <2>1. i + 1 \in DOMAIN queue /\ queue'[i] = queue[i + 1] /\ i \in Nat
    BY <1>2
  <2>2. ASSUME NEW j \in DOMAIN queue, queue[j].notif = queue[i + 1].notif PROVE j <= i + 1
    <3>1. CASE j = 1
      BY <2>1, <3>1
    <3>2. CASE j # 1
      <4>1. j - 1 \in DOMAIN queue' /\ queue'[j - 1] = queue[j] /\ j \in Nat
        BY <1>2, <3>2
      <4>2. j - 1 <= i
        BY <2>1, <2>2, <4>1
      <4> QED BY <2>1, <4>1, <4>2
    <3> QED BY <3>1, <3>2
  <2> QED BY <2>1, <2>2 DEF EventInv, LastInv
<1>8. SettleInv'
  <2> SUFFICES ASSUME NEW m \in Monitored, NEW n, n = monitors[m].notification,
                      sent[n] # {}, n \notin dropped', ~Queued(n)'
               PROVE  IF dpc' \in {"manager", "lock"} /\ Mon' = m
                      THEN callback'.notif = n /\ (Idled' <=> n \in idling)
                      ELSE monitors[m].is_idle <=> n \in idling
    BY <1>1, <1>3 DEF SettleInv
  <2>1. n \in proxies /\ listener[n] \in {m, NoListener} /\ m # OwnContext
    BY TableDomain DEF OwnersInv, MonitorOwns, Monitored, TableInv, TypeOK, Slots, OwnContext
  <2>2. \A i \in DOMAIN queue \ {1} : queue[i].notif # n
    BY <1>2 DEF Queued
  <2>3. CASE e.notif = n
    <3>1. \A j \in DOMAIN queue : queue[j].notif = queue[1].notif => j <= 1
      BY <1>2, <2>2, <2>3
    <3>2. e.kind = "idled" <=> n \in idling
      BY <1>2, <2>1, <2>3, <3>1 DEF EventInv, LastInv
    <3>3. dpc' = "manager" /\ callback' = [notif |-> n, kind |-> e.kind, data |-> m]
      BY <1>4, <2>1, <2>3
    <3> QED BY <3>2, <3>3 DEF Mon, Idled
  <2>4. CASE e.notif # n
    <3>1. ~Queued(n)
      BY <1>2, <2>2, <2>4 DEF Queued
    <3>2. monitors[m].is_idle <=> n \in idling
      BY <1>1, <1>5, <3>1 DEF EventInv, SettleInv
    <3>3. ~(dpc' \in {"manager", "lock"} /\ Mon' = m)
      <4> SUFFICES ASSUME dpc' \in {"manager", "lock"}, Mon' = m PROVE FALSE
        OBVIOUS
      <4>1. e.notif \in proxies /\ callback'.notif = e.notif
        BY <1>4
      <4>2. monitors'[Mon'].notification = e.notif
        BY <1>3, <4>1 DEF OwnersInv, InHand
      <4> QED BY <1>1, <2>4, <4>2
    <3> QED BY <3>2, <3>3
  <2> QED BY <2>3, <2>4
<1>9. HearInv'
  <2> SUFFICES ASSUME NEW c \in Waiting, NEW n, n = req[c].notif
               PROVE  Heard(n, "idled", fired)' /\ Heard(n, "resumed", resumed)'
    BY <1>3 DEF HearInv
  <2>1. /\ n \in proxies /\ pc[c] \in {"attach", "wait"}
        /\ listener[n] \in {NoListener, OwnContext}
    BY DEF OwnersInv, WaitOwns, Waiting, Holding
  <2>2. ASSUME NEW kind \in {"idled", "resumed"}, NEW i \in DOMAIN queue,
               queue[i].notif = n, queue[i].kind = kind, n \notin dropped'
        PROVE  \/ \E j \in DOMAIN queue' : queue'[j].notif = n /\ queue'[j].kind = kind
               \/ dpc' = "oneshot" /\ callback'.notif = n /\ callback'.kind = kind
    <3>1. CASE i = 1
      <4>1. e.notif = n /\ e.kind = kind
        BY <1>2, <2>2, <3>1
      <4> QED BY <1>4, <2>1, <2>2, <4>1
    <3>2. CASE i # 1
      BY <1>2, <2>2, <3>2
    <3> QED BY <3>1, <3>2
  <2>3. Heard(n, "idled", fired) /\ Heard(n, "resumed", resumed)
    BY DEF EventInv, HearInv
  <2>4. Heard(n, "idled", fired)'
    BY <1>1, <1>3, <1>5, <2>2, <2>3 DEF Heard
  <2>5. Heard(n, "resumed", resumed)'
    BY <1>1, <1>3, <1>5, <2>2, <2>3 DEF Heard
  <2> QED BY <2>4, <2>5
<1> QED BY <1>6, <1>7, <1>8, <1>9 DEF EventInv

\* The rest of what the dispatch thread does: it runs a callback or looks for work.
LEMMA HandledEvents ==
  ASSUME TableInv, OwnersInv, EventInv,
         \/ Wake \/ TestRunning \/ LoseDisplay
         \/ ReadManager \/ SetMonitorIdle \/ Report \/ SetContext
  PROVE  EventInv'
<1>1. /\ UNCHANGED <<proxies, idling, sent, contexts, pc, req>>
      /\ Monitored' = Monitored /\ Waiting' = Waiting
      /\ \A m \in Monitored : monitors'[m].notification = monitors[m].notification
      /\ proxies \subseteq Notifs /\ NoProxy \notin proxies
  BY DispatchKeeps DEF DispatchStep
<1>2. UNCHANGED <<queue, dropped>>
  BY DEF Wake, TestRunning, LoseDisplay, ReadManager, SetMonitorIdle, Report, SetContext,
         InCallback
<1>3. dpc' \in {"manager", "lock", "oneshot"} =>
        dpc = "manager" /\ dpc' = "lock" /\ callback' = callback
  BY DEF Wake, TestRunning, LoseDisplay, ReadManager, SetMonitorIdle, Report, SetContext,
         InCallback, DispatchGoto, ReturnFromCallback
<1>4. SentInv'
  BY <1>1, <1>2, <1>3 DEF EventInv, SentInv
<1>5. LastInv'
  BY <1>1, <1>2 DEF EventInv, LastInv
<1>6. SettleInv'
  <2> SUFFICES ASSUME NEW m \in Monitored, NEW n, n = monitors[m].notification,
                      sent[n] # {}, n \notin dropped, ~Queued(n)
               PROVE  IF dpc' \in {"manager", "lock"} /\ Mon' = m
                      THEN callback'.notif = n /\ (Idled' <=> n \in idling)
                      ELSE monitors'[m].is_idle <=> n \in idling
    BY <1>1, <1>2 DEF SettleInv, Queued
  <2>1. IF dpc \in {"manager", "lock"} /\ Mon = m
        THEN callback.notif = n /\ (Idled <=> n \in idling)
        ELSE monitors[m].is_idle <=> n \in idling
    BY DEF EventInv, SettleInv
  <2>2. CASE Wake \/ TestRunning \/ LoseDisplay \/ Report \/ SetContext
    <3>1. dpc \notin {"manager", "lock"} /\ UNCHANGED monitors
      BY <2>2 DEF Wake, TestRunning, LoseDisplay, Report, SetContext, InCallback
    <3> QED BY <1>3, <2>1, <3>1
  <2>3. CASE ReadManager
    <3>1. dpc = "manager" /\ UNCHANGED monitors
      BY <2>3 DEF ReadManager, InCallback
    <3>2. CASE monitors[Mon].manager
      <4>1. dpc' = "lock" /\ callback' = callback
        BY <2>3, <3>2 DEF ReadManager, DispatchGoto
      <4> QED BY <2>1, <3>1, <4>1 DEF Mon, Idled
    <3>3. CASE ~monitors[Mon].manager
      <4>1. dpc' = "between"
        BY <2>3, <3>3 DEF ReadManager, ReturnFromCallback
      <4>2. m # Mon
        BY <3>3 DEF OwnersInv, MonitorOwns
      <4> QED BY <2>1, <3>1, <4>1, <4>2
    <3> QED BY <3>2, <3>3
  <2>4. CASE SetMonitorIdle
    <3>1. /\ dpc = "lock" /\ dpc' \notin {"manager", "lock"}
          /\ monitors' = [monitors EXCEPT ![Mon].is_idle = Idled]
      BY <1>3, <2>4 DEF SetMonitorIdle, InCallback
    <3>2. m \in DOMAIN monitors /\ monitors[m] \in Monitor
      BY TableDomain DEF Monitored, TableInv, TypeOK
    <3>3. monitors'[m].is_idle = IF m = Mon THEN Idled ELSE monitors[m].is_idle
      BY <3>1, <3>2 DEF Monitor
    <3> QED BY <2>1, <3>1, <3>3
  <2> QED BY <2>2, <2>3, <2>4
<1>7. HearInv'
  <2> SUFFICES ASSUME NEW c \in Waiting, NEW n, n = req[c].notif
               PROVE  Heard(n, "idled", fired)' /\ Heard(n, "resumed", resumed)'
    BY <1>1 DEF HearInv
  <2>1. n \in proxies /\ n \in contexts
    BY DEF OwnersInv, WaitOwns, Waiting, Holding
  <2>2. Heard(n, "idled", fired) /\ Heard(n, "resumed", resumed)
    BY DEF EventInv, HearInv
  <2>3. CASE SetContext
    <3>1. /\ dpc = "oneshot"
          /\ IF Idled THEN fired' = fired \cup (contexts \cap {callback.notif}) /\ resumed' = resumed
                      ELSE resumed' = resumed \cup (contexts \cap {callback.notif}) /\ fired' = fired
      BY <2>3 DEF SetContext, InCallback
    <3>2. callback.notif = n => /\ callback.kind \in {"idled", "resumed"}
                                /\ callback.kind \in sent[n]
      <4>1. callback.notif = n => callback # NoCallback
        BY <1>1, <2>1 DEF NoCallback
      <4>2. callback \in Callback \cup {NoCallback}
        BY DEF TableInv, TypeOK, DispatchType
      <4> QED BY <2>1, <3>1, <4>1, <4>2 DEF Callback, EventInv, SentInv
    <3>3. Heard(n, "idled", fired)'
      BY <1>1, <1>2, <2>1, <2>2, <3>1, <3>2 DEF Heard, Idled
    <3>4. Heard(n, "resumed", resumed)'
      BY <1>1, <1>2, <2>1, <2>2, <3>1, <3>2 DEF Heard, Idled
    <3> QED BY <3>3, <3>4
  <2>4. CASE ~SetContext
    <3>1. dpc # "oneshot" /\ UNCHANGED <<fired, resumed>>
      BY <2>4 DEF Wake, TestRunning, LoseDisplay, ReadManager, SetMonitorIdle, Report, InCallback
    <3> QED BY <1>1, <1>2, <2>2, <3>1 DEF Heard
  <2> QED BY <2>3, <2>4
<1> QED BY <1>4, <1>5, <1>6, <1>7 DEF EventInv
-----------------------------------------------------------------------------
(* The invariant *)

NotifInv == TableInv /\ OwnersInv /\ EventInv

LEMMA NotifInit == Init => NotifInv
<1> SUFFICES ASSUME Init PROVE NotifInv
  OBVIOUS
<1>1. TableInv
  BY TableInit
<1>2. /\ monitors = <<>> /\ queue = <<>> /\ proxies = {} /\ contexts = {} /\ idling = {}
      /\ dropped = {} /\ dpc = "poll" /\ mu = None
      /\ listener = [n \in Notifs |-> NoListener] /\ sent = [n \in Notifs |-> {}]
      /\ pc = [c \in Clients |-> "ready"]
  BY DEF Init
<1>3. Monitored = {} /\ Waiting = {} /\ Holding = {} /\ DOMAIN queue = {}
  BY <1>2 DEF Monitored, Waiting, Holding
<1>4. OwnersInv
  BY <1>2, <1>3
     DEF OwnersInv, MonitorOwns, WaitOwns, AllOwned, Listening, Clean, InHand
<1>5. EventInv
  BY <1>2, <1>3 DEF EventInv, SentInv, LastInv, SettleInv, HearInv
<1> QED BY <1>1, <1>4, <1>5 DEF NotifInv

LEMMA NotifStep == NotifInv /\ [Next]_vars => NotifInv'
<1> SUFFICES ASSUME TableInv, OwnersInv, EventInv, [Next]_vars
             PROVE  TableInv' /\ OwnersInv' /\ EventInv'
  BY DEF NotifInv
<1>1. TableInv'
  BY TableStep
<1>2. CASE \/ \E c \in Clients : ClientStep(c)
           \/ UserActs \/ UserRests \/ ShutdownStep \/ UNCHANGED vars
  <2>1. OwnersInv' /\ \E old, new : Carried(old, new)
    BY <1>2, QuietCarried
  <2> QED BY <1>1, <2>1, EventsCarried
<1>3. CASE CompositorStep
  BY <1>1, <1>3, SendEvents
<1>4. CASE DispatchStep \/ LoseDisplay
  <2>1. OwnersInv'
    BY <1>4, DispatchOwners
  <2>2. \/ DiscardEvent \/ DropEvent \/ TakeEvent
        \/ Wake \/ TestRunning \/ LoseDisplay
        \/ ReadManager \/ SetMonitorIdle \/ Report \/ SetContext
    BY <1>4 DEF DispatchStep
  <2> QED BY <1>1, <2>1, <2>2, DequeuedEvents, HandledEvents
<1> QED BY <1>2, <1>3, <1>4 DEF Next

\* However refresh_monitor replaces notifications under the dispatch thread's feet, a monitor
\* whose events are all handled has the state the compositor told it last
\* (refresh_monitor, set_monitor_idle).
THEOREM MonitorsSettle == Spec => []MonitorSettles
<1>1. NotifInv => MonitorSettles
  <2> SUFFICES ASSUME NotifInv, NEW m \in DOMAIN monitors, NEW n \in ProxyOf(m),
                      sent[n] # {}, n \notin dropped, ~Pending(n)
               PROVE  monitors[m].is_idle <=> n \in idling
    BY DEF MonitorSettles
  <2>1. m \in Monitored /\ n = monitors[m].notification
    BY DEF ProxyOf, Monitored
  <2>2. ~Queued(n) /\ ~(dpc \in {"manager", "lock"} /\ callback.notif = n)
    BY DEF Pending, Queued
  <2> QED BY <2>1, <2>2 DEF NotifInv, EventInv, SettleInv
<1> QED BY <1>1, NotifInit, NotifStep, PTL DEF Spec

\* No wake-up is lost to a race of axctl_idle_wait, axctl_idle_wait_resume or
\* axctl_idle_is_idle with oneshot_idled and oneshot_resumed: an event that was sent after
\* the listener was attached sets its flag.
THEOREM WaitsHear == Spec => []WaitHears
<1>1. NotifInv => WaitHears
  <2> SUFFICES ASSUME NotifInv, NEW c \in Clients, NEW n, n = req[c].notif,
                      pc[c] = "wait", n \notin dropped, ~Pending(n)
               PROVE  /\ n \in fired <=> "idled" \in sent[n]
                      /\ n \in resumed <=> "resumed" \in sent[n]
    BY DEF WaitHears
  <2>1. c \in Waiting
    BY DEF Waiting
  <2> QED BY <2>1 DEF NotifInv, EventInv, HearInv, Heard, Pending
<1> QED BY <1>1, NotifInit, NotifStep, PTL DEF Spec

\* A wait returns only for an event the compositor has sent to its own notification, and a
\* wait for resume only after both.
THEOREM WaitsAreTruthful == Spec => []WaitIsTruthful
<1>1. NotifInv => WaitIsTruthful
  <2> SUFFICES ASSUME NotifInv, NEW c \in Clients, NEW n, n = req[c].notif,
                      pc[c] = "wait", WaitOver(req[c].kind, n)
               PROVE  /\ req[c].kind = "idle" => "idled" \in sent[n]
                      /\ req[c].kind = "resume" => {"idled", "resumed"} \subseteq sent[n]
                      /\ n \in fired => "idled" \in sent[n]
    BY DEF WaitIsTruthful
  <2>1. c \in Waiting /\ c \in Holding
    BY DEF Waiting, Holding
  <2>2. n \in proxies
    BY <2>1 DEF NotifInv, OwnersInv, WaitOwns
  <2>3. /\ n \in fired => "idled" \in sent[n]
        /\ n \in resumed => "resumed" \in sent[n]
        /\ "resumed" \in sent[n] => "idled" \in sent[n]
    BY <2>1, <2>2 DEF NotifInv, EventInv, HearInv, Heard, SentInv
  <2> QED BY <2>3 DEF WaitOver
<1> QED BY <1>1, NotifInit, NotifStep, PTL DEF Spec

\* A set that is the image of another one to one is as large.
LEMMA ImageSize ==
  ASSUME NEW S, NEW T, NEW f \in [S -> T], IsFiniteSet(T),
         \A t \in T : \E s \in S : f[s] = t,
         \A r, s \in S : f[r] = f[s] => r = s
  PROVE  IsFiniteSet(S) /\ Cardinality(S) = Cardinality(T)
<1>1. f \in Injection(S, T) /\ f \in Surjection(S, T)
  BY DEF Injection, Surjection, IsInjective
<1> QED BY <1>1, FS_Injection

\* Create, update, destroy and the three kinds of waits neither leak a notification nor share
\* one: each that is alive has one owner, and every owner one notification.
THEOREM ProxiesNeverLeak == Spec => []NoProxyLeaks
<1>1. NotifInv => NoProxyLeaks
  <2> SUFFICES ASSUME NotifInv PROVE NoProxyLeaks
    OBVIOUS
  <2> DEFINE monitored == {m \in DOMAIN monitors : ProxyOf(m) # {}}
             waiting == {c \in Clients : pc[c] \in {"attach", "wait"}}
             A == {monitors[m].notification : m \in monitored}
             B == {req[c].notif : c \in waiting}
             f == [m \in monitored |-> monitors[m].notification]
             g == [c \in waiting |-> req[c].notif]
  <2>1. monitored = Monitored /\ waiting = Waiting
    BY DEF Monitored, Waiting, ProxyOf
  <2>2. /\ \A m \in monitored :
             /\ monitors[m].notification \in proxies \ contexts
             /\ monitors[m].enabled /\ ~monitors[m].deleted
             /\ \A k \in monitored : monitors[k].notification = monitors[m].notification => k = m
        /\ \A c \in waiting :
             /\ req[c].notif \in contexts /\ req[c].notif \in proxies
             /\ \A d \in waiting : req[d].notif = req[c].notif => d = c
        /\ \A n \in proxies : \/ \E m \in monitored : monitors[m].notification = n
                              \/ \E c \in waiting : req[c].notif = n
    BY <2>1 DEF NotifInv, OwnersInv, MonitorOwns, WaitOwns, AllOwned, Waiting, Holding
  <2>3. proxies = A \cup B /\ A \cap B = {}
    BY <2>2
  <2>4. IsFiniteSet(proxies)
    <3>1. IsFiniteSet(Notifs)
      BY FS_Interval, IdleAssumption DEF Notifs
    <3>2. proxies \in SUBSET Notifs
      BY DEF NotifInv, TableInv, TypeOK, ProxyType
    <3> QED BY <3>1, <3>2, FS_Subset
  <2>5. IsFiniteSet(A) /\ IsFiniteSet(B)
    <3>1. A \in SUBSET proxies /\ B \in SUBSET proxies
      BY <2>3
    <3> QED BY <2>4, <3>1, FS_Subset
  <2>6. Cardinality(monitored) = Cardinality(A)
    <3>1. /\ f \in [monitored -> A]
          /\ \A t \in A : \E m \in monitored : f[m] = t
          /\ \A k, m \in monitored : f[k] = f[m] => k = m
      BY <2>2
    <3> HIDE DEF monitored, waiting, A, B, f, g
    <3> QED BY <2>5, <3>1, ImageSize
  <2>7. Cardinality(waiting) = Cardinality(B)
    <3>1. /\ g \in [waiting -> B]
          /\ \A t \in B : \E c \in waiting : g[c] = t
          /\ \A c, d \in waiting : g[c] = g[d] => c = d
      BY <2>2
    <3> HIDE DEF monitored, waiting, A, B, f, g
    <3> QED BY <2>5, <3>1, ImageSize
  <2>8. Cardinality(A \cup B) = Cardinality(A) + Cardinality(B)
    <3>1. Cardinality(A \cup B) = Cardinality(A) + Cardinality(B) - Cardinality(A \cap B)
      BY <2>5, FS_Union
    <3>2. Cardinality(A \cap B) = 0
      BY <2>3, FS_EmptySet
    <3>3. Cardinality(A) \in Nat /\ Cardinality(B) \in Nat
      BY <2>5, FS_CardinalityType
    <3> QED BY <3>1, <3>2, <3>3
  <2>9. Cardinality(proxies) = Cardinality(monitored) + Cardinality(waiting)
    BY <2>3, <2>6, <2>7, <2>8
  <2> QED BY <2>2, <2>3, <2>9 DEF NoProxyLeaks
<1> QED BY <1>1, NotifInit, NotifStep, PTL DEF Spec
=============================================================================
