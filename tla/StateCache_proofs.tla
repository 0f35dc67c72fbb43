-------------------------- MODULE StateCache_proofs --------------------------
(***************************************************************************)
(* Theorems about StateCache.tla, for every set of windows and workspaces, *)
(* both compositors, every number of changes and of failed requests.       *)
(***************************************************************************)
EXTENDS StateCache, FiniteSetTheorems, SequenceTheorems, WellFoundedInduction, TLAPS

-----------------------------------------------------------------------------
(* The list of windows *)

\* A nonempty set of indices has a smallest one.
LEMMA SmallestIndex ==
  ASSUME NEW T \in SUBSET Nat, T # {}
  PROVE  \E x \in T : \A y \in T : x <= y
<1> DEFINE Less == OpToRel(<, Nat)
<1>1. \A x, y \in Nat : y < x => <<y, x>> \in Less
  BY Zenon DEF OpToRel
<1>2. IsWellFoundedOn(Less, Nat)
  BY NatLessThanWellFounded, Zenon
<1> HIDE DEF Less
<1>3. PICK x \in T : \A y \in T : ~(<<y, x>> \in Less)
  BY <1>2, WFMin, Zenon
<1>4. \A y \in T : ~(y < x)
  BY <1>1, <1>3, Zenon
<1>5. \A y \in T : x <= y
  BY <1>4
<1> QED BY <1>3, <1>5

LEMMA WindowList ==
  ASSUME windows \in Seq(Entries)
  PROVE  /\ DOMAIN windows = 1 .. Len(windows) /\ Len(windows) \in Nat
         /\ \A i \in DOMAIN windows : windows[i] \in Entries /\ windows[i].id \in Windows
<1>1. DOMAIN windows = 1 .. Len(windows) /\ Len(windows) \in Nat
  BY LenProperties
<1>2. \A i \in DOMAIN windows : windows[i] \in Entries
  BY <1>1, ElementOfSeq
<1> QED BY <1>1, <1>2 DEF Entries

\* The loops of cache.c find an entry with the id when there is one.
LEMMA FirstIndexFinds ==
  ASSUME windows \in Seq(Entries), NEW id \in Ids
  PROVE  FirstIndex(id) \in DOMAIN windows /\ windows[FirstIndex(id)].id = id
<1> DEFINE T == {i \in DOMAIN windows : windows[i].id = id}
<1>1. T \in SUBSET Nat /\ T # {}
  BY WindowList DEF Ids
<1>2. PICK n \in T : \A i \in T : n <= i
  BY <1>1, SmallestIndex
<1>3. \A j \in 1 .. n - 1 : windows[j].id # id
  BY <1>2, WindowList
<1> QED BY <1>2, <1>3 DEF FirstIndex

\* Removing moves the entries behind the one that goes.
LEMMA RemovedWindow ==
  ASSUME windows \in Seq(Entries), NEW id, RemoveWindow(id)
  PROVE  \/ id \notin Ids /\ UNCHANGED windows
         \/ \E n \in DOMAIN windows :
              /\ windows[n].id = id
              /\ windows' \in Seq(Entries)
              /\ Len(windows') = Len(windows) - 1
              /\ \A i \in DOMAIN windows' : windows'[i] = windows[IF i < n THEN i ELSE i + 1]
<1>1. CASE id \notin Ids
  BY <1>1 DEF RemoveWindow
<1>2. CASE id \in Ids
  <2> DEFINE n == FirstIndex(id)
             s1 == SubSeq(windows, 1, n - 1)
             s2 == SubSeq(windows, n + 1, Len(windows))
  <2>1. n \in 1 .. Len(windows) /\ windows[n].id = id /\ Len(windows) \in Nat
    BY <1>2, FirstIndexFinds, WindowList
  <2>2. windows' = s1 \o s2
    BY <1>2 DEF RemoveWindow, RemoveAt
  <2> HIDE DEF n
  <2>3. \A i \in 1 .. Len(windows) : windows[i] \in Entries
    BY ElementOfSeq
  <2>4. /\ s1 \in Seq(Entries) /\ Len(s1) = n - 1
        /\ \A i \in 1 .. n - 1 : s1[i] = windows[i]
    <3>1. \A i \in 1 .. n - 1 : windows[i] \in Entries
      BY <2>1, <2>3
    <3>2. /\ s1 \in Seq(Entries) /\ Len(s1) = IF 1 <= n - 1 THEN (n - 1) - 1 + 1 ELSE 0
          /\ \A i \in 1 .. (n - 1) - 1 + 1 : s1[i] = windows[1 + i - 1]
      BY <2>1, <3>1, SubSeqProperties
    <3> QED BY <2>1, <3>2
  <2>5. /\ s2 \in Seq(Entries) /\ Len(s2) = Len(windows) - n
        /\ \A i \in 1 .. Len(windows) - n : s2[i] = windows[n + i]
    <3>1. \A i \in n + 1 .. Len(windows) : windows[i] \in Entries
      BY <2>1, <2>3
    <3>2. /\ s2 \in Seq(Entries)
          /\ Len(s2) = IF n + 1 <= Len(windows) THEN Len(windows) - (n + 1) + 1 ELSE 0
          /\ \A i \in 1 .. Len(windows) - (n + 1) + 1 : s2[i] = windows[(n + 1) + i - 1]
      BY <2>1, <3>1, SubSeqProperties
    <3> QED BY <2>1, <3>2
  <2> HIDE DEF s1, s2
  <2>6. /\ windows' \in Seq(Entries) /\ Len(windows') = Len(s1) + Len(s2)
        /\ \A i \in 1 .. Len(s1) + Len(s2) :
             windows'[i] = IF i <= Len(s1) THEN s1[i] ELSE s2[i - Len(s1)]
    BY <2>2, <2>4, <2>5, ConcatProperties
  <2>7. DOMAIN windows' = 1 .. Len(windows) - 1 /\ Len(windows') = Len(windows) - 1
    BY <2>1, <2>4, <2>5, <2>6, LenProperties
  <2>8. ASSUME NEW i \in 1 .. Len(windows) - 1
        PROVE  windows'[i] = windows[IF i < n THEN i ELSE i + 1]
    <3>1. CASE i < n
      BY <2>1, <2>4, <2>5, <2>6, <3>1
    <3>2. CASE ~(i < n)
      <4>1. windows'[i] = s2[i - (n - 1)]
        BY <2>1, <2>4, <2>5, <2>6, <3>2
      <4>2. i - (n - 1) \in 1 .. Len(windows) - n /\ n + (i - (n - 1)) = i + 1
        BY <2>1, <3>2
      <4> QED BY <2>5, <3>2, <4>1, <4>2
    <3> QED BY <3>1, <3>2
  <2>9. n \in DOMAIN windows
    BY <2>1, WindowList
  <2> QED BY <2>1, <2>6, <2>7, <2>8, <2>9
<1> QED BY <1>1, <1>2

\* An entry that is left was there before, each once; only one entry with the id goes.
LEMMA LeftWindows ==
  ASSUME windows \in Seq(Entries), NEW id, RemoveWindow(id)
  PROVE  /\ windows' \in Seq(Entries)
         /\ \A i \in DOMAIN windows' : \E k \in DOMAIN windows : windows'[i] = windows[k]
         /\ \A w : w # id => (w \in Ids' <=> w \in Ids)
         /\ \A w : (\A i, j \in DOMAIN windows : windows[i].id = w /\ windows[j].id = w => i = j)
                     => /\ \A i, j \in DOMAIN windows' :
                             windows'[i].id = w /\ windows'[j].id = w => i = j
                        /\ w = id => w \notin Ids'
<1>1. CASE id \notin Ids /\ UNCHANGED windows
  BY <1>1 DEF Ids
<1>2. ASSUME NEW n \in DOMAIN windows, windows[n].id = id,
             windows' \in Seq(Entries), Len(windows') = Len(windows) - 1,
             \A i \in DOMAIN windows' : windows'[i] = windows[IF i < n THEN i ELSE i + 1]
      PROVE  /\ \A i \in DOMAIN windows' : \E k \in DOMAIN windows : windows'[i] = windows[k]
             /\ \A w : w # id => (w \in Ids' <=> w \in Ids)
             /\ \A w : (\A i, j \in DOMAIN windows : windows[i].id = w /\ windows[j].id = w => i = j)
                         => /\ \A i, j \in DOMAIN windows' :
                                 windows'[i].id = w /\ windows'[j].id = w => i = j
                            /\ w = id => w \notin Ids'
  <2> DEFINE from(i) == IF i < n THEN i ELSE i + 1
  <2>1. /\ DOMAIN windows = 1 .. Len(windows) /\ Len(windows) \in Nat
        /\ DOMAIN windows' = 1 .. Len(windows) - 1
    BY <1>2, LenProperties
  <2>2. \A i \in DOMAIN windows' :
          from(i) \in DOMAIN windows \ {n} /\ windows'[i] = windows[from(i)]
    BY <1>2, <2>1
  <2>3. \A k \in DOMAIN windows \ {n} : \E i \in DOMAIN windows' : from(i) = k
    <3> SUFFICES ASSUME NEW k \in DOMAIN windows \ {n}
                 PROVE  \E i \in DOMAIN windows' : from(i) = k
      OBVIOUS
    <3>1. CASE k < n
      <4>1. k \in DOMAIN windows' /\ from(k) = k
        BY <2>1, <3>1
      <4> QED BY <4>1
    <3>2. CASE ~(k < n)
      <4>1. k - 1 \in DOMAIN windows' /\ from(k - 1) = k
        BY <2>1, <3>2
      <4> QED BY <4>1
    <3> QED BY <3>1, <3>2
  <2>4. \A i, j \in DOMAIN windows' : from(i) = from(j) => i = j
    BY <2>1
  <2> HIDE DEF from
  <2>5. \A w : w # id => (w \in Ids' <=> w \in Ids)
    BY <1>2, <2>2, <2>3 DEF Ids
  <2>6. ASSUME NEW w, \A i, j \in DOMAIN windows : windows[i].id = w /\ windows[j].id = w => i = j
        PROVE  /\ \A i, j \in DOMAIN windows' : windows'[i].id = w /\ windows'[j].id = w => i = j
               /\ w = id => w \notin Ids'
    <3>1. \A i, j \in DOMAIN windows' : windows'[i].id = w /\ windows'[j].id = w => i = j
      BY <2>2, <2>4, <2>6
    <3>2. ASSUME w = id, NEW i \in DOMAIN windows', windows'[i].id = w PROVE FALSE
      BY <1>2, <2>2, <2>6, <3>2
    <3> QED BY <3>1, <3>2 DEF Ids
  <2>7. \A i \in DOMAIN windows' : \E k \in DOMAIN windows : windows'[i] = windows[k]
    BY <2>2
  <2> QED BY <2>5, <2>6, <2>7
<1>3. CASE \E n \in DOMAIN windows :
              /\ windows[n].id = id
              /\ windows' \in Seq(Entries)
              /\ Len(windows') = Len(windows) - 1
              /\ \A i \in DOMAIN windows' : windows'[i] = windows[IF i < n THEN i ELSE i + 1]
  BY <1>2, <1>3
<1> QED BY <1>1, <1>3, RemovedWindow

LEMMA AddedWindow ==
  ASSUME windows \in Seq(Entries), NEW e \in Entries, AddWindow(e)
  PROVE  /\ windows' \in Seq(Entries)
         /\ \A i \in DOMAIN windows' : \/ i \in DOMAIN windows /\ windows'[i] = windows[i]
                                       \/ i = Len(windows) + 1 /\ windows'[i] = e
         /\ Ids' = Ids \cup {e.id}
<1>1. /\ windows' \in Seq(Entries) /\ Len(windows') = Len(windows) + 1
      /\ windows'[Len(windows) + 1] = e
      /\ \A i \in 1 .. Len(windows) : windows'[i] = windows[i]
  BY AppendProperties DEF AddWindow
<1>2. /\ DOMAIN windows = 1 .. Len(windows) /\ Len(windows) \in Nat
      /\ DOMAIN windows' = 1 .. Len(windows) + 1
  BY <1>1, LenProperties
<1>3. DOMAIN windows' = DOMAIN windows \cup {Len(windows) + 1}
  BY <1>2
<1>4. \A i \in DOMAIN windows : windows'[i] = windows[i]
  BY <1>1, <1>2
<1>5. Ids' = Ids \cup {e.id}
  BY <1>1, <1>3, <1>4 DEF Ids
<1> QED BY <1>1, <1>3, <1>4, <1>5

\* The other calls of cache.c change entries where they are.
LEMMA UpdatedWindow ==
  ASSUME windows \in Seq(Entries), NEW id,
         \/ \E ws \in Workspaces : UpdateWorkspace(id, ws)
         \/ \E f \in BOOLEAN : UpdateFloating(id, f)
  PROVE  /\ windows' \in Seq(Entries) /\ DOMAIN windows' = DOMAIN windows
         /\ \A i \in DOMAIN windows : /\ windows'[i].id = windows[i].id
                                      /\ windows'[i].focused = windows[i].focused
         /\ Ids' = Ids
<1>1. CASE UNCHANGED windows
  BY <1>1 DEF Ids
<1>2. CASE id \in Ids /\ windows' # windows
  <2> DEFINE n == FirstIndex(id)
  <2>1. n \in 1 .. Len(windows) /\ DOMAIN windows = 1 .. Len(windows) /\ windows[n] \in Entries
    BY <1>2, FirstIndexFinds, WindowList
  <2>2. PICK e \in Entries : /\ windows' = [windows EXCEPT ![n] = e]
                             /\ e.id = windows[n].id /\ e.focused = windows[n].focused
    <3>1. CASE \E ws \in Workspaces : UpdateWorkspace(id, ws)
      <4>1. PICK ws \in Workspaces : UpdateWorkspace(id, ws)
        BY <3>1
      <4>2. windows' = [windows EXCEPT ![n] = [windows[n] EXCEPT !.ws = ws]]
        BY <1>2, <4>1 DEF UpdateWorkspace
      <4>3. /\ [windows[n] EXCEPT !.ws = ws] \in Entries
            /\ [windows[n] EXCEPT !.ws = ws].id = windows[n].id
            /\ [windows[n] EXCEPT !.ws = ws].focused = windows[n].focused
        BY <2>1 DEF Entries
      <4> QED BY <4>2, <4>3
    <3>2. CASE \E f \in BOOLEAN : UpdateFloating(id, f)
      <4>1. PICK f \in BOOLEAN : UpdateFloating(id, f)
        BY <3>2
      <4>2. windows' = [windows EXCEPT ![n] = [windows[n] EXCEPT !.floating = f]]
        BY <1>2, <4>1 DEF UpdateFloating
      <4>3. /\ [windows[n] EXCEPT !.floating = f] \in Entries
            /\ [windows[n] EXCEPT !.floating = f].id = windows[n].id
            /\ [windows[n] EXCEPT !.floating = f].focused = windows[n].focused
        BY <2>1 DEF Entries
      <4> QED BY <4>2, <4>3
    <3> QED BY <3>1, <3>2
  <2> HIDE DEF n
  <2>3. /\ windows' \in Seq(Entries) /\ Len(windows') = Len(windows)
        /\ \A i \in 1 .. Len(windows) : windows'[i] = IF i = n THEN e ELSE windows[i]
    BY <2>1, <2>2, ExceptSeq
  <2>4. DOMAIN windows' = DOMAIN windows
    BY <2>1, <2>3, LenProperties
  <2> QED BY <2>1, <2>2, <2>3, <2>4 DEF Ids
<1>3. id \in Ids \/ UNCHANGED windows
  BY DEF UpdateWorkspace, UpdateFloating
<1> QED BY <1>1, <1>2, <1>3

LEMMA MarkedWindows ==
  ASSUME windows \in Seq(Entries), NEW id, MarkFocused(id)
  PROVE  /\ windows' \in Seq(Entries) /\ DOMAIN windows' = DOMAIN windows
         /\ \A i \in DOMAIN windows :
              /\ windows'[i] = [windows[i] EXCEPT !.focused = (windows[i].id = id)]
              /\ windows'[i].id = windows[i].id
              /\ windows'[i].focused <=> windows'[i].id = id
         /\ Ids' = Ids
<1>1. /\ DOMAIN windows = 1 .. Len(windows) /\ Len(windows) \in Nat
      /\ \A i \in DOMAIN windows : windows[i] \in Entries
  BY WindowList
<1>2. /\ windows' = [i \in 1 .. Len(windows) |->
                       [windows[i] EXCEPT !.focused = (windows[i].id = id)]]
      /\ DOMAIN windows' = DOMAIN windows
  BY <1>1 DEF MarkFocused
<1>3. \A i \in 1 .. Len(windows) :
        /\ windows'[i] = [windows[i] EXCEPT !.focused = (windows[i].id = id)]
        /\ windows'[i] \in Entries
        /\ windows'[i].id = windows[i].id
        /\ windows'[i].focused <=> windows'[i].id = id
  BY <1>1, <1>2 DEF Entries
<1>4. windows' \in Seq(Entries)
  <2>1. windows' \in [1 .. Len(windows) -> Entries]
    BY <1>2, <1>3
  <2> QED BY <1>1, <2>1
<1> QED BY <1>1, <1>2, <1>3, <1>4 DEF Ids

\* A list names every open window once.
LEMMA ListedWindows ==
  ASSUME DOMAIN win \subseteq Windows, \A w \in DOMAIN win : win[w] \in Attributes,
         windows' = Listing
  PROVE  /\ windows' \in Seq(Entries)
         /\ \A i \in DOMAIN windows' :
              /\ windows'[i].id \in DOMAIN win
              /\ windows'[i] = Entry(windows'[i].id, win[windows'[i].id], windows'[i].focused)
              /\ windows'[i].focused <=> backend = "niri" /\ windows'[i].id = focus
         /\ \A w \in DOMAIN win : \E i \in DOMAIN windows' : windows'[i].id = w
         /\ \A i, j \in DOMAIN windows' : windows'[i].id = windows'[j].id => i = j
<1> DEFINE entry(w) == Entry(w, win[w], backend = "niri" /\ focus = w)
           S == {entry(w) : w \in DOMAIN win}
           n == Cardinality(S)
           f == [w \in DOMAIN win |-> entry(w)]
<1>1. \A w \in DOMAIN win :
        /\ entry(w) \in Entries /\ entry(w).id = w
        /\ entry(w).focused <=> backend = "niri" /\ w = focus
        /\ entry(w) = Entry(w, win[w], entry(w).focused)
  <2> SUFFICES ASSUME NEW w \in DOMAIN win
               PROVE  /\ entry(w) \in Entries /\ entry(w).id = w
                      /\ entry(w).focused <=> backend = "niri" /\ w = focus
                      /\ entry(w) = Entry(w, win[w], entry(w).focused)
    OBVIOUS
  <2>1. w \in Windows /\ win[w] \in Attributes
    OBVIOUS
  <2> QED BY <2>1 DEF Entry, Entries, Attributes
<1> HIDE DEF entry
<1>2. IsFiniteSet(S)
  <2>1. IsFiniteSet(DOMAIN win)
    BY FS_Subset, ConstantsAssumption
  <2>2. f \in Surjection(DOMAIN win, S)
    BY DEF Surjection
  <2> QED BY <2>1, <2>2, FS_Surjection
<1>3. n \in Nat /\ ExistsBijection(1 .. n, S)
  BY <1>2, FS_CardinalityType
<1>4. PICK g \in [1 .. n -> S] : IsInjective(g)
  BY <1>3 DEF ExistsBijection, Bijection, Injection
<1>5. windows' \in [1 .. n -> S] /\ IsInjective(windows')
  <2>1. windows' = SetToSeq(S)
    BY DEF Listing, entry
  <2> HIDE DEF S, n
  <2>2. SetToSeq(S) \in [1 .. Cardinality(S) -> S] /\ IsInjective(SetToSeq(S))
    BY <1>4 DEF SetToSeq, n
  <2> QED BY <2>1, <2>2 DEF n
<1> HIDE DEF n
<1>6. DOMAIN windows' = 1 .. n /\ \A i \in 1 .. n : windows'[i] \in S
  BY <1>5
<1>7. windows' \in Seq(Entries)
  <2>1. \A i \in 1 .. n : windows'[i] \in Entries
    BY <1>1, <1>6
  <2>2. windows' \in [1 .. n -> Entries]
    BY <1>5, <2>1
  <2> QED BY <1>3, <2>2
<1>8. \A i \in DOMAIN windows' : \E w \in DOMAIN win : windows'[i] = entry(w)
  BY <1>6
<1>9. \A i, j \in DOMAIN windows' : windows'[i].id = windows'[j].id => i = j
  BY <1>1, <1>5, <1>8 DEF IsInjective
<1>10. \A w \in DOMAIN win : \E i \in DOMAIN windows' : windows'[i].id = w
  <2>1. windows' \in Injection(1 .. n, S)
    BY <1>5 DEF Injection
  <2>2. Cardinality(1 .. n) = n
    BY <1>3, FS_Interval
  <2>3. windows' \in Surjection(1 .. n, S)
    BY <1>2, <2>1, <2>2, FS_Injection DEF n
  <2> QED BY <1>1, <1>6, <2>3 DEF Surjection
<1>11. ASSUME NEW i \in DOMAIN windows'
       PROVE  /\ windows'[i].id \in DOMAIN win
              /\ windows'[i] = Entry(windows'[i].id, win[windows'[i].id], windows'[i].focused)
              /\ windows'[i].focused <=> backend = "niri" /\ windows'[i].id = focus
  <2>1. PICK w \in DOMAIN win : windows'[i] = entry(w)
    BY <1>8
  <2>2. windows'[i].id = w
    BY <1>1, <2>1
  <2> QED BY <1>1, <2>1, <2>2
<1> QED BY <1>7, <1>9, <1>10, <1>11
-----------------------------------------------------------------------------
(* Events and what the compositor tells *)

LEMMA EventFields ==
  ASSUME NEW e \in Event
  PROVE  /\ e.type \in EventTypes
         /\ e.type = "created" => e.window \in Entries
         /\ e.type = "closed" => e.id \in Windows
         /\ e.type = "focused" => e.id \in Windows \cup {Nothing}
         /\ e.type = "moved" => e.id \in Windows /\ e.ws \in Workspaces
         /\ e.type = "floating" => e.id \in Windows /\ e.floating \in BOOLEAN
BY DEF Event, EventTypes

Told(events) ==
  IF connected THEN queue' = queue \o events /\ lastEvent' = Last(events).type
               ELSE UNCHANGED <<queue, lastEvent>>

\* The kinds of changes, each with the event e that tells it.
Opened(e) ==
  \E w \in Windows \ DOMAIN win :
    /\ DOMAIN win' = DOMAIN win \cup {w} /\ focus' = focus
    /\ e.type = "created" /\ e.window.id = w /\ ~e.window.focused

Shut(e) ==
  \E w \in DOMAIN win \ {focus} :
    /\ DOMAIN win' = DOMAIN win \ {w} /\ focus' = focus
    /\ e.type = "closed" /\ e.id = w

Refocused(e) == DOMAIN win' = DOMAIN win /\ e.type = "focused" /\ e.id = focus'

Changed(e) ==
  /\ DOMAIN win' = DOMAIN win /\ focus' = focus
  /\ \/ /\ backend = "niri" /\ e.type = "created" /\ e.window.id \in DOMAIN win
        /\ e.window.focused <=> e.window.id = focus
     \/ e.type \in {"moved", "floating", "fullscreen", "refresh"}

FocusedShut(e) ==
  /\ focus \in DOMAIN win /\ DOMAIN win' = DOMAIN win \ {focus} /\ focus' = Nothing
  /\ e.type = "closed" /\ e.id = focus

CompositorType ==
  /\ DOMAIN win \subseteq Windows
  /\ \A w \in DOMAIN win : win[w] \in Attributes
  /\ focus \in DOMAIN win \cup {Nothing}
  /\ active \in Workspaces
  /\ closed \subseteq Windows
  /\ ops \in 0 .. MaxOps

LEMMA CreatedEvent ==
  ASSUME NEW w \in Windows, NEW ws \in Workspaces
  PROVE  /\ Created(w, ws) \in Event /\ Created(w, ws).type = "created"
         /\ Created(w, ws).window.id = w
         /\ Created(w, ws).window.focused <=> backend = "niri" /\ focus = w
<1>1. EventWindow(w, ws) \in Entries
  BY DEF EventWindow, Entry, Entries
<1> QED BY <1>1 DEF Created, Event, EventWindow, Entry

\* Whatever the compositor does, it tells one event, or two when the focused window closes.
LEMMA CompositorTells ==
  ASSUME TypeOK, Compositor
  PROVE  /\ UNCHANGED <<backend, cacheVars, connected, refreshVars>>
         /\ CompositorType'
         /\ \E e \in Event :
              \/ Told(<<e>>) /\ (Opened(e) \/ Shut(e) \/ Refocused(e) \/ Changed(e))
              \/ Told(<<e, Focused(Nothing)>>) /\ FocusedShut(e)
<1> DEFINE Goal == /\ UNCHANGED <<backend, cacheVars, connected, refreshVars>>
                   /\ CompositorType'
                   /\ \E e \in Event :
                        \/ Told(<<e>>) /\ (Opened(e) \/ Shut(e) \/ Refocused(e) \/ Changed(e))
                        \/ Told(<<e, Focused(Nothing)>>) /\ FocusedShut(e)
<1>0. CompositorType /\ Nothing \notin Windows /\ MaxOps \in Nat
  BY ConstantsAssumption DEF TypeOK, CompositorType
<1>1. ASSUME NEW events, Tell(events)
      PROVE  /\ UNCHANGED <<backend, cacheVars, connected, refreshVars>>
             /\ Told(events) /\ ops' \in 0 .. MaxOps
  BY <1>0, <1>1 DEF Tell, Told, CompositorType
<1>2. ASSUME NEW w \in Windows, NEW ws \in Workspaces, NEW f \in BOOLEAN, OpenWindow(w, ws, f)
      PROVE  Goal
  <2>1. /\ Tell(<<Created(w, ws)>>) /\ w \notin DOMAIN win
        /\ UNCHANGED <<focus, active, closed>>
        /\ win' = [v \in DOMAIN win \cup {w} |->
                     IF v = w THEN [ws |-> ws, floating |-> f, fullscreen |-> FALSE]
                              ELSE win[v]]
    BY <1>2 DEF OpenWindow
  <2>2. CompositorType'
    BY <1>0, <1>1, <2>1 DEF CompositorType, Attributes
  <2>3. Opened(Created(w, ws)) /\ Created(w, ws) \in Event
    BY <1>0, <2>1, CreatedEvent DEF Opened, CompositorType
  <2> QED BY <1>1, <2>1, <2>2, <2>3
<1>3. ASSUME NEW w \in Windows, CloseWindow(w) PROVE Goal
  <2>1. /\ w \in DOMAIN win /\ win' = [v \in DOMAIN win \ {w} |-> win[v]]
        /\ closed' = closed \cup {w} /\ active' = active
    BY <1>3 DEF CloseWindow
  <2>2. Closed(w) \in Event /\ Closed(w).type = "closed" /\ Closed(w).id = w
    BY DEF Closed, Event
  <2>3. CASE focus = w /\ focus' = Nothing /\ Tell(<<Closed(w), Focused(Nothing)>>)
    <3>1. CompositorType'
      BY <1>0, <1>1, <2>1, <2>3 DEF CompositorType
    <3>2. FocusedShut(Closed(w))
      BY <2>1, <2>2, <2>3 DEF FocusedShut
    <3> QED BY <1>1, <2>2, <2>3, <3>1, <3>2
  <2>4. CASE focus # w /\ UNCHANGED focus /\ Tell(<<Closed(w)>>)
    <3>1. CompositorType'
      BY <1>0, <1>1, <2>1, <2>4 DEF CompositorType
    <3>2. Shut(Closed(w))
      BY <2>1, <2>2, <2>4 DEF Shut
    <3> QED BY <1>1, <2>2, <2>4, <3>1, <3>2
  <2> QED BY <1>3, <2>3, <2>4 DEF CloseWindow
<1>4. ASSUME NEW w \in Windows, FocusWindow(w) PROVE Goal
  <2>1. /\ w \in DOMAIN win /\ focus' = w /\ Tell(<<Focused(w)>>)
        /\ UNCHANGED <<win, active, closed>>
    BY <1>4 DEF FocusWindow
  <2>2. CompositorType'
    BY <1>0, <1>1, <2>1 DEF CompositorType
  <2>3. Refocused(Focused(w)) /\ Focused(w) \in Event
    BY <2>1 DEF Refocused, Focused, Event
  <2> QED BY <1>1, <2>1, <2>2, <2>3
<1>5. ASSUME NEW w \in DOMAIN win, NEW e \in Event, NEW a \in Attributes,
             win' = [win EXCEPT ![w] = a], UNCHANGED <<focus, active, closed>>, Tell(<<e>>),
             \/ e \in {Created(w, a.ws), Created(w, win[w].ws)} /\ backend = "niri"
             \/ e.type \in {"moved", "floating", "fullscreen"}
      PROVE  Goal
  <2>1. CompositorType'
    BY <1>0, <1>1, <1>5 DEF CompositorType
  <2>2. w \in Windows /\ a.ws \in Workspaces /\ win[w].ws \in Workspaces /\ DOMAIN win' = DOMAIN win
    BY <1>0, <1>5 DEF CompositorType, Attributes
  <2>3. Changed(e)
    BY <1>5, <2>2, CreatedEvent DEF Changed
  <2> QED BY <1>1, <1>5, <2>1, <2>3
<1>6. ASSUME NEW w \in Windows, NEW ws \in Workspaces, MoveWindow(w, ws) PROVE Goal
  <2> DEFINE a == [win[w] EXCEPT !.ws = ws]
  <2>1. /\ w \in DOMAIN win /\ win' = [win EXCEPT ![w] = a]
        /\ UNCHANGED <<focus, active, closed>> /\ Tell(<<Moved(w, ws)>>)
    BY <1>6 DEF MoveWindow
  <2>2. a \in Attributes /\ a.ws = ws
    BY <1>0, <2>1 DEF CompositorType, Attributes
  <2>3. \/ Moved(w, ws) = Created(w, a.ws) /\ backend = "niri"
        \/ Moved(w, ws).type = "moved" /\ Moved(w, ws) \in Event
    BY <2>2 DEF Moved, Event
  <2>4. Moved(w, ws) \in Event
    BY <2>2, <2>3, CreatedEvent
  <2> HIDE DEF a
  <2> QED BY <1>5, <2>1, <2>2, <2>3, <2>4
<1>7. ASSUME NEW w \in Windows, ToggleFloating(w) PROVE Goal
  <2> DEFINE a == [win[w] EXCEPT !.floating = ~win[w].floating]
             e == Floated(w, ~win[w].floating)
  <2>1. /\ w \in DOMAIN win /\ win' = [win EXCEPT ![w] = a]
        /\ UNCHANGED <<focus, active, closed>> /\ Tell(<<e>>)
    BY <1>7 DEF ToggleFloating
  <2>2. a \in Attributes /\ win[w].ws \in Workspaces
    BY <1>0, <2>1 DEF CompositorType, Attributes
  <2>3. \/ e = Created(w, win[w].ws) /\ backend = "niri"
        \/ e.type = "floating" /\ e \in Event
    BY DEF Floated, Event
  <2>4. e \in Event
    BY <2>2, <2>3, CreatedEvent
  <2> HIDE DEF a, e
  <2> QED BY <1>5, <2>1, <2>2, <2>3, <2>4
<1>8. ASSUME NEW w \in Windows, ToggleFullscreen(w) PROVE Goal
  <2> DEFINE a == [win[w] EXCEPT !.fullscreen = ~win[w].fullscreen]
             e == Fullscreened(w)
  <2>1. /\ w \in DOMAIN win /\ win' = [win EXCEPT ![w] = a]
        /\ UNCHANGED <<focus, active, closed>> /\ Tell(<<e>>)
    BY <1>8 DEF ToggleFullscreen
  <2>2. a \in Attributes /\ win[w].ws \in Workspaces
    BY <1>0, <2>1 DEF CompositorType, Attributes
  <2>3. \/ e = Created(w, win[w].ws) /\ backend = "niri"
        \/ e.type = "fullscreen" /\ e \in Event
    BY DEF Fullscreened, Event
  <2>4. e \in Event
    BY <2>2, <2>3, CreatedEvent
  <2> HIDE DEF a, e
  <2> QED BY <1>5, <2>1, <2>2, <2>3, <2>4
<1>9. ASSUME NEW ws \in Workspaces, SwitchWorkspace(ws) PROVE Goal
  <2>1. active' = ws /\ Tell(<<Refresh>>) /\ UNCHANGED <<win, focus, closed>>
    BY <1>9 DEF SwitchWorkspace
  <2>2. CompositorType'
    BY <1>0, <1>1, <2>1 DEF CompositorType
  <2>3. Changed(Refresh) /\ Refresh \in Event
    BY <2>1 DEF Changed, Refresh, Event
  <2> QED BY <1>1, <2>1, <2>2, <2>3
<1> HIDE DEF Goal
<1>10. Goal
  BY <1>2, <1>3, <1>4, <1>6, <1>7, <1>8, <1>9 DEF Compositor
<1> QED BY <1>10 DEF Goal
\* The queue grows at its end and shrinks at its head.
LEMMA QueueDomain ==
  ASSUME queue \in Seq(Event)
  PROVE  /\ DOMAIN queue = 1 .. Len(queue) /\ Len(queue) \in Nat
         /\ \A i \in DOMAIN queue : queue[i] \in Event
         /\ queue # <<>> => 1 \in DOMAIN queue /\ Len(queue) \in DOMAIN queue
         /\ queue = <<>> => DOMAIN queue = {}
<1>1. DOMAIN queue = 1 .. Len(queue) /\ Len(queue) \in Nat
  BY LenProperties
<1>2. \A i \in DOMAIN queue : queue[i] \in Event
  BY <1>1, ElementOfSeq
<1>3. queue # <<>> => Len(queue) >= 1
  BY EmptySeq
<1> QED BY <1>1, <1>2, <1>3

LEMMA ToldOne ==
  ASSUME queue \in Seq(Event), connected, NEW e \in Event, Told(<<e>>)
  PROVE  LET n == Len(queue) + 1 IN
         /\ queue' \in Seq(Event) /\ Len(queue') = n /\ queue' # <<>>
         /\ DOMAIN queue' = DOMAIN queue \cup {n} /\ queue'[n] = e
         /\ \A i \in DOMAIN queue : queue'[i] = queue[i] /\ i \in Nat /\ i < n
         /\ lastEvent' = e.type
<1>1. <<e>> \in Seq(Event) /\ Len(<<e>>) = 1 /\ <<e>>[1] = e
  OBVIOUS
<1>2. queue' = queue \o <<e>> /\ lastEvent' = e.type
  BY <1>1 DEF Told, Last
<1>3. DOMAIN queue = 1 .. Len(queue) /\ Len(queue) \in Nat
  BY QueueDomain
<1>4. /\ queue' \in Seq(Event) /\ Len(queue') = Len(queue) + 1
      /\ \A i \in 1 .. Len(queue) + 1 :
           queue'[i] = IF i <= Len(queue) THEN queue[i] ELSE <<e>>[i - Len(queue)]
  BY <1>1, <1>2, ConcatProperties
<1>5. queue'[Len(queue) + 1] = e
  <2>1. queue'[Len(queue) + 1] = <<e>>[(Len(queue) + 1) - Len(queue)]
    BY <1>3, <1>4
  <2> QED BY <1>1, <1>3, <2>1
<1>6. DOMAIN queue' = DOMAIN queue \cup {Len(queue) + 1} /\ queue' # <<>>
  BY <1>3, <1>4, LenProperties
<1> QED BY <1>2, <1>3, <1>4, <1>5, <1>6

LEMMA ToldTwo ==
  ASSUME queue \in Seq(Event), connected, NEW e \in Event, NEW f \in Event, Told(<<e, f>>)
  PROVE  LET n == Len(queue) + 1 IN
         /\ queue' \in Seq(Event) /\ Len(queue') = n + 1 /\ queue' # <<>>
         /\ DOMAIN queue' = DOMAIN queue \cup {n, n + 1}
         /\ queue'[n] = e /\ queue'[n + 1] = f
         /\ \A i \in DOMAIN queue : queue'[i] = queue[i] /\ i \in Nat /\ i < n
         /\ lastEvent' = f.type
<1>1. /\ <<e, f>> \in Seq(Event) /\ Len(<<e, f>>) = 2
      /\ <<e, f>>[1] = e /\ <<e, f>>[2] = f
  OBVIOUS
<1>2. queue' = queue \o <<e, f>> /\ lastEvent' = f.type
  BY <1>1 DEF Told, Last
<1>3. DOMAIN queue = 1 .. Len(queue) /\ Len(queue) \in Nat
  BY QueueDomain
<1>4. /\ queue' \in Seq(Event) /\ Len(queue') = Len(queue) + 2
      /\ \A i \in 1 .. Len(queue) + 2 :
           queue'[i] = IF i <= Len(queue) THEN queue[i] ELSE <<e, f>>[i - Len(queue)]
  BY <1>1, <1>2, ConcatProperties
<1>5. queue'[Len(queue) + 1] = e /\ queue'[(Len(queue) + 1) + 1] = f
  <2>1. /\ queue'[Len(queue) + 1] = <<e, f>>[(Len(queue) + 1) - Len(queue)]
        /\ queue'[Len(queue) + 2] = <<e, f>>[(Len(queue) + 2) - Len(queue)]
    BY <1>3, <1>4
  <2> QED BY <1>1, <1>3, <2>1
<1>6. DOMAIN queue' = DOMAIN queue \cup {Len(queue) + 1, (Len(queue) + 1) + 1} /\ queue' # <<>>
  BY <1>3, <1>4, LenProperties
<1> QED BY <1>2, <1>3, <1>4, <1>5, <1>6

LEMMA NextOfQueue ==
  ASSUME queue \in Seq(Event), queue # <<>>, queue' = Tail(queue)
  PROVE  /\ 1 \in DOMAIN queue /\ queue[1] = Head(queue) /\ Head(queue) \in Event
         /\ queue' \in Seq(Event) /\ Len(queue') = Len(queue) - 1
         /\ \A i \in DOMAIN queue \ {1} : i - 1 \in DOMAIN queue' /\ queue'[i - 1] = queue[i]
         /\ \A i \in DOMAIN queue' : i + 1 \in DOMAIN queue \ {1} /\ queue'[i] = queue[i + 1]
         /\ \A i \in DOMAIN queue \cup DOMAIN queue' : i \in Nat \ {0}
<1>1. DOMAIN queue = 1 .. Len(queue) /\ Len(queue) \in Nat /\ 1 \in DOMAIN queue
  BY QueueDomain
<1>2. /\ Head(queue) \in Event /\ queue' \in Seq(Event) /\ Len(queue') = Len(queue) - 1
      /\ \A i \in 1 .. Len(queue') : queue'[i] = queue[i + 1]
  BY HeadTailProperties
<1>3. DOMAIN queue' = 1 .. Len(queue) - 1
  BY <1>2, LenProperties
<1>4. Head(queue) = queue[1]
  OBVIOUS
<1> QED BY <1>1, <1>2, <1>3, <1>4

-----------------------------------------------------------------------------
(* Types *)

LEMMA TypeInit == Init => TypeOK
<1> SUFFICES ASSUME Init PROVE TypeOK
  OBVIOUS
<1>1. <<>> \in Seq(Event) /\ <<>> \in Seq(Entries)
  BY EmptySeq
<1>2. DOMAIN win \subseteq Windows /\ \A w \in DOMAIN win : win[w] \in Attributes
  <2>1. PICK open \in SUBSET Windows, ws \in Workspaces :
          win = [w \in open |-> [ws |-> ws, floating |-> FALSE, fullscreen |-> FALSE]]
    BY DEF Init
  <2> QED BY <2>1 DEF Attributes
<1>3. focus \in DOMAIN win \cup {Nothing} /\ active \in Workspaces /\ backend \in Backends
  BY DEF Init
<1>4. /\ closed = {} /\ ops = 0 /\ queue = <<>> /\ windows = <<>> /\ workspaces = Nothing
      /\ monitors = Nothing /\ connected = FALSE /\ step = 1 /\ failed = FALSE /\ failures = 0
      /\ synced = FALSE /\ overtaken = {} /\ lastEvent = "none"
  BY DEF Init
<1>5. connected \in BOOLEAN /\ failed \in BOOLEAN /\ synced \in BOOLEAN
  BY <1>4
<1>6. ops \in 0 .. MaxOps /\ failures \in 0 .. MaxFailures /\ step \in 0 .. 4
  BY <1>4, ConstantsAssumption
<1> QED BY <1>1, <1>2, <1>3, <1>4, <1>5, <1>6 DEF TypeOK

\* A request that fails is counted; the event thread waits for the next one.
LEMMA FailTypes ==
  ASSUME TypeOK, RefreshStep
  PROVE  failed' \in BOOLEAN /\ failures' \in 0 .. MaxFailures /\ step' \in 0 .. 4
<1>1. MaxFailures \in Nat /\ failures \in 0 .. MaxFailures /\ failed \in BOOLEAN /\ step \in 0 .. 4
  BY ConstantsAssumption DEF TypeOK
<1>2. \/ UNCHANGED <<failed, failures>>
      \/ failed' = TRUE /\ failures < MaxFailures /\ failures' = failures + 1
  BY DEF RefreshStep, ListWindows, MarkActiveWindow, ListWorkspaces, ListMonitors, Fail
<1>3. step \in {1, 2, 3, 4} /\ step' = (step + 1) % 5
  BY DEF RefreshStep
<1>4. step' \in 0 .. 4
  BY <1>3
<1>5. failures' \in 0 .. MaxFailures
  BY <1>1, <1>2
<1>6. failed' \in BOOLEAN
  BY <1>1, <1>2
<1> QED BY <1>4, <1>5, <1>6

\* A refresh writes to one part of the cache at a time.
LEMMA RefreshWrites ==
  ASSUME TypeOK, RefreshStep
  PROVE  /\ UNCHANGED <<backend, compositorVars, queue, connected, lastEvent>>
         /\ \/ /\ step = 1 /\ step' = 2
               /\ \/ windows' = Listing /\ overtaken' = Announced \cap DOMAIN win /\ failed' = failed
                  \/ UNCHANGED <<windows, overtaken>> /\ failed' = TRUE
               /\ UNCHANGED <<workspaces, monitors, synced>>
            \/ /\ step = 2 /\ step' = 3
               /\ \/ /\ IF focus = Nothing THEN UNCHANGED windows ELSE MarkFocused(focus)
                     /\ failed' = failed
                  \/ UNCHANGED windows /\ failed' = TRUE
               /\ UNCHANGED <<workspaces, monitors, synced, overtaken>>
            \/ /\ step = 3 /\ step' = 4
               /\ \/ workspaces' = active /\ failed' = failed
                  \/ workspaces' \in {workspaces, Nothing} /\ failed' = TRUE
               /\ UNCHANGED <<windows, monitors, synced, overtaken>>
            \/ /\ step = 4 /\ step' = 0
               /\ \/ monitors' = active /\ failed' = failed
                  \/ UNCHANGED monitors /\ failed' = TRUE
               /\ synced' = (connected /\ ~failed')
               /\ UNCHANGED <<windows, workspaces, overtaken>>
<1>1. UNCHANGED <<backend, compositorVars, queue, connected, lastEvent>>
  BY DEF RefreshStep
<1>2. CASE step = 1 /\ ListWindows
  <2>1. step' = 2 /\ UNCHANGED synced
    BY <1>2 DEF RefreshStep
  <2> QED BY <1>1, <1>2, <2>1 DEF ListWindows, Fail, cacheVars
<1>3. CASE step = 2 /\ MarkActiveWindow /\ UNCHANGED overtaken
  <2>1. step' = 3 /\ UNCHANGED synced
    BY <1>3 DEF RefreshStep
  <2> QED BY <1>1, <1>3, <2>1 DEF MarkActiveWindow, Fail, cacheVars
<1>4. CASE step = 3 /\ ListWorkspaces /\ UNCHANGED overtaken
  <2>1. step' = 4 /\ UNCHANGED synced
    BY <1>4 DEF RefreshStep
  <2> QED BY <1>1, <1>4, <2>1 DEF ListWorkspaces, Fail, cacheVars
<1>5. CASE step = 4 /\ ListMonitors /\ UNCHANGED overtaken
  <2>1. step' = 0 /\ synced' = (connected /\ ~failed')
    BY <1>5 DEF RefreshStep
  <2> QED BY <1>1, <1>5, <2>1 DEF ListMonitors, Fail, cacheVars
<1> QED BY <1>2, <1>3, <1>4, <1>5 DEF RefreshStep

LEMMA TypeStep == TypeOK /\ [Next]_vars => TypeOK'
<1> SUFFICES ASSUME TypeOK, [Next]_vars PROVE TypeOK'
  OBVIOUS
<1>1. /\ queue \in Seq(Event) /\ windows \in Seq(Entries) /\ CompositorType
      /\ Nothing \notin Windows
  BY ConstantsAssumption DEF TypeOK, CompositorType
<1>2. CASE Compositor
  <2>1. UNCHANGED <<backend, cacheVars, connected, refreshVars>> /\ CompositorType'
    BY <1>2, CompositorTells
  <2>2. queue' \in Seq(Event) /\ lastEvent' \in EventTypes \cup {"none"}
    <3>1. PICK e \in Event : Told(<<e>>) \/ Told(<<e, Focused(Nothing)>>)
      BY <1>2, CompositorTells
    <3>2. Focused(Nothing) \in Event /\ Focused(Nothing).type = "focused"
      BY DEF Focused, Event
    <3>3. CASE ~connected
      BY <1>1, <3>1, <3>3 DEF Told, TypeOK
    <3>4. CASE connected
      BY <1>1, <3>1, <3>2, <3>4, ToldOne, ToldTwo, EventFields DEF EventTypes
    <3> QED BY <3>3, <3>4 DEF TypeOK
  <2> QED BY <2>1, <2>2 DEF TypeOK, CompositorType, cacheVars, refreshVars
<1>3. CASE RefreshStep
  <2>1. failed' \in BOOLEAN /\ failures' \in 0 .. MaxFailures /\ step' \in 0 .. 4
    BY <1>3, FailTypes
  <2>2. windows' \in Seq(Entries)
    BY <1>1, <1>3, RefreshWrites, ListedWindows, MarkedWindows DEF CompositorType
  <2>3. /\ workspaces' \in Workspaces \cup {Nothing} /\ monitors' \in Workspaces \cup {Nothing}
        /\ synced' \in BOOLEAN /\ overtaken' \subseteq Windows
    BY <1>1, <1>3, RefreshWrites DEF TypeOK
  <2> QED BY <1>3, <2>1, <2>2, <2>3, RefreshWrites DEF TypeOK, compositorVars
<1>4. CASE Connect
  BY <1>4 DEF Connect, TypeOK, compositorVars, cacheVars, refreshVars
<1>5. CASE HandleEvent
  <2> DEFINE e == Head(queue)
  <2>1. /\ Apply(e) /\ e \in Event /\ queue' \in Seq(Event)
    BY <1>1, <1>5, NextOfQueue DEF HandleEvent
  <2>2. windows' \in Seq(Entries)
    <3>1. CASE e.type = "created" /\ AddWindow(e.window)
      BY <1>1, <2>1, <3>1, EventFields, AddedWindow
    <3>2. CASE e.type = "closed" /\ RemoveWindow(e.id)
      BY <1>1, <3>2, LeftWindows
    <3>3. CASE e.type = "focused" /\ MarkFocused(e.id)
      BY <1>1, <3>3, MarkedWindows
    <3>4. CASE e.type = "moved" /\ UpdateWorkspace(e.id, e.ws)
      BY <1>1, <2>1, <3>4, EventFields, UpdatedWindow
    <3>5. CASE e.type = "floating" /\ UpdateFloating(e.id, e.floating)
      BY <1>1, <2>1, <3>5, EventFields, UpdatedWindow
    <3> QED BY <1>1, <2>1, <3>1, <3>2, <3>3, <3>4, <3>5 DEF Apply
  <2>3. /\ UNCHANGED <<backend, win, focus, active, closed, ops, workspaces, monitors, connected>>
        /\ UNCHANGED <<failures, synced, overtaken, lastEvent>>
        /\ step' \in {step, 1}
    BY <1>5 DEF HandleEvent, compositorVars
  <2>4. failed' \in BOOLEAN
    BY <1>5 DEF HandleEvent, TypeOK
  <2> QED BY <2>1, <2>2, <2>3, <2>4 DEF TypeOK
<1>6. CASE Finished \/ UNCHANGED vars
  BY <1>6 DEF Finished, TypeOK, vars, compositorVars, cacheVars, refreshVars
<1> QED BY <1>2, <1>3, <1>4, <1>5, <1>6 DEF Next, Daemon

\* StateCache's variables keep their types; in particular the loops of cache.c, which change
\* the list in place, leave no hole in it.
THEOREM StateCacheTypes == Spec => []TypeOK
BY TypeInit, TypeStep, PTL DEF Spec

-----------------------------------------------------------------------------
(* What the unread events say *)

CreatedAt(w, i) == queue[i].type = "created" /\ queue[i].window.id = w

ClosedAt(w, i) == queue[i].type = "closed" /\ queue[i].id = w

FocusedAt(i) == queue[i].type = "focused"

\* No focus event comes after i.
LastFocus(i) == \A j \in DOMAIN queue : FocusedAt(j) => j <= i

Unconnected == ~connected => queue = <<>> /\ lastEvent = "none" /\ ~synced

LastTold == queue # <<>> => lastEvent = queue[Len(queue)].type

FocusTold == \A i \in DOMAIN queue : FocusedAt(i) /\ LastFocus(i) => queue[i].id = focus

\* A new window behind the last focus event has the mark it should have.
MarkTold ==
  \A i \in DOMAIN queue :
    queue[i].type = "created" /\ LastFocus(i) =>
      (queue[i].window.focused <=> queue[i].window.id = focus)

\* The last event of a window's life says whether it is open.
OpenTold ==
  \A w \in DOMAIN win : \A i \in DOMAIN queue :
    ClosedAt(w, i) => \E j \in DOMAIN queue : j > i /\ CreatedAt(w, j)

ClosedTold ==
  \A w \in Windows \ DOMAIN win : \A i \in DOMAIN queue :
    CreatedAt(w, i) => \E j \in DOMAIN queue : j > i /\ ClosedAt(w, j)

\* With Hyprland a window is not created twice without being closed in between.
Alternate ==
  backend = "hyprland" =>
    \A w \in Windows : \A i, j \in DOMAIN queue :
      CreatedAt(w, i) /\ CreatedAt(w, j) /\ i < j =>
        \E k \in DOMAIN queue : i < k /\ k < j /\ ClosedAt(w, k)

WireInv ==
  /\ Unconnected /\ LastTold /\ FocusTold /\ MarkTold
  /\ OpenTold /\ ClosedTold /\ Alternate

LEMMA WireInit == Init => WireInv
<1> SUFFICES ASSUME Init PROVE WireInv
  OBVIOUS
<1>1. queue = <<>> /\ DOMAIN queue = {} /\ lastEvent = "none" /\ synced = FALSE
  BY DEF Init
<1> QED BY <1>1 DEF WireInv, Unconnected, LastTold, FocusTold, MarkTold, OpenTold, ClosedTold,
                    Alternate

LEMMA WireKept ==
  ASSUME WireInv, UNCHANGED <<backend, win, focus, queue, lastEvent>>,
         connected => connected', ~connected' => ~synced'
  PROVE  WireInv'
BY DEF WireInv, Unconnected, LastTold, FocusTold, MarkTold, OpenTold, ClosedTold, Alternate,
       LastFocus, FocusedAt, CreatedAt, ClosedAt

LEMMA WireTold ==
  ASSUME TypeOK, WireInv, NEW e \in Event, Told(<<e>>), connected, UNCHANGED <<backend, connected>>,
         Opened(e) \/ Shut(e) \/ Refocused(e) \/ Changed(e)
  PROVE  WireInv'
<1> DEFINE n == Len(queue) + 1
<1>1. /\ DOMAIN queue' = DOMAIN queue \cup {n} /\ queue'[n] = e /\ Len(queue') = n
      /\ \A i \in DOMAIN queue : queue'[i] = queue[i] /\ i \in Nat /\ i < n
      /\ lastEvent' = e.type
  BY ToldOne DEF TypeOK
<1>2. n \in Nat /\ n \notin DOMAIN queue
  BY <1>1, QueueDomain DEF TypeOK
<1> HIDE DEF n
<1>3. Unconnected' /\ LastTold'
  BY <1>1 DEF Unconnected, LastTold
<1>4. \A i \in DOMAIN queue : LastFocus(i)' => LastFocus(i) /\ e.type # "focused"
  BY <1>1, <1>2 DEF LastFocus, FocusedAt
<1>5. e.type # "focused" => focus' = focus
  BY DEF Opened, Shut, Refocused, Changed
<1>6. FocusTold'
  <2> SUFFICES ASSUME NEW i \in DOMAIN queue', FocusedAt(i)', LastFocus(i)'
               PROVE  queue'[i].id = focus'
    BY DEF FocusTold
  <2>1. CASE i = n
    BY <1>1, <2>1 DEF FocusedAt, Opened, Shut, Refocused, Changed
  <2>2. CASE i \in DOMAIN queue
    BY <1>1, <1>4, <1>5, <2>2 DEF WireInv, FocusTold, FocusedAt
  <2> QED BY <1>1, <2>1, <2>2
<1>7. MarkTold'
  <2> SUFFICES ASSUME NEW i \in DOMAIN queue', queue'[i].type = "created", LastFocus(i)'
               PROVE  queue'[i].window.focused <=> queue'[i].window.id = focus'
    BY DEF MarkTold
  <2>1. CASE i = n
    BY <1>1, <2>1, ConstantsAssumption DEF Opened, Shut, Refocused, Changed, TypeOK
  <2>2. CASE i \in DOMAIN queue
    BY <1>1, <1>4, <1>5, <2>2 DEF WireInv, MarkTold
  <2> QED BY <1>1, <2>1, <2>2
<1>8. OpenTold'
  <2> SUFFICES ASSUME NEW w \in DOMAIN win', NEW i \in DOMAIN queue', ClosedAt(w, i)'
               PROVE  \E j \in DOMAIN queue' : j > i /\ CreatedAt(w, j)'
    BY DEF OpenTold
  <2>1. CASE i = n
    BY <1>1, <2>1 DEF ClosedAt, Opened, Shut, Refocused, Changed
  <2>2. CASE i \in DOMAIN queue /\ w \in DOMAIN win
    <3>1. PICK j \in DOMAIN queue : j > i /\ CreatedAt(w, j)
      BY <1>1, <2>2 DEF WireInv, OpenTold, ClosedAt
    <3> QED BY <1>1, <3>1 DEF CreatedAt
  <2>3. CASE i \in DOMAIN queue /\ w \notin DOMAIN win
    <3>1. e.type = "created" /\ e.window.id = w
      BY <2>3 DEF Opened, Shut, Refocused, Changed
    <3> QED BY <1>1, <2>3, <3>1 DEF CreatedAt
  <2> QED BY <1>1, <2>1, <2>2, <2>3
<1>9. ClosedTold'
  <2> SUFFICES ASSUME NEW w \in Windows \ DOMAIN win', NEW i \in DOMAIN queue', CreatedAt(w, i)'
               PROVE  \E j \in DOMAIN queue' : j > i /\ ClosedAt(w, j)'
    BY DEF ClosedTold
  <2>1. CASE i = n
    BY <1>1, <2>1 DEF CreatedAt, Opened, Shut, Refocused, Changed
  <2>2. CASE i \in DOMAIN queue /\ w \notin DOMAIN win
    <3>1. PICK j \in DOMAIN queue : j > i /\ ClosedAt(w, j)
      BY <1>1, <2>2 DEF WireInv, ClosedTold, CreatedAt
    <3> QED BY <1>1, <3>1 DEF ClosedAt
  <2>3. CASE i \in DOMAIN queue /\ w \in DOMAIN win
    <3>1. e.type = "closed" /\ e.id = w
      BY <2>3 DEF Opened, Shut, Refocused, Changed
    <3> QED BY <1>1, <2>3, <3>1 DEF ClosedAt
  <2> QED BY <1>1, <2>1, <2>2, <2>3
<1>10. Alternate'
  <2> SUFFICES ASSUME backend = "hyprland", NEW w \in Windows,
                      NEW i \in DOMAIN queue', NEW j \in DOMAIN queue',
                      CreatedAt(w, i)', CreatedAt(w, j)', i < j
               PROVE  \E k \in DOMAIN queue' : i < k /\ k < j /\ ClosedAt(w, k)'
    BY DEF Alternate
  <2>1. i \in DOMAIN queue
    BY <1>1, <1>2
  <2>2. CreatedAt(w, i)
    BY <1>1, <2>1 DEF CreatedAt
  <2>3. CASE j \in DOMAIN queue
    <3>1. PICK k \in DOMAIN queue : i < k /\ k < j /\ ClosedAt(w, k)
      BY <1>1, <2>1, <2>2, <2>3 DEF WireInv, Alternate, CreatedAt
    <3> QED BY <1>1, <3>1 DEF ClosedAt
  <2>4. CASE j = n
    <3>1. w \notin DOMAIN win
      BY <1>1, <2>4 DEF CreatedAt, Opened, Shut, Refocused, Changed
    <3>2. PICK k \in DOMAIN queue : k > i /\ ClosedAt(w, k)
      BY <2>1, <2>2, <3>1 DEF WireInv, ClosedTold
    <3> QED BY <1>1, <2>1, <2>4, <3>2 DEF ClosedAt
  <2> QED BY <1>1, <2>3, <2>4
<1> QED BY <1>3, <1>6, <1>7, <1>8, <1>9, <1>10 DEF WireInv

\* The focused window closes.
LEMMA WireToldTwo ==
  ASSUME TypeOK, WireInv, NEW e \in Event, Told(<<e, Focused(Nothing)>>), connected,
         UNCHANGED <<backend, connected>>, FocusedShut(e)
  PROVE  WireInv'
<1> DEFINE n == Len(queue) + 1
<1>1. /\ DOMAIN queue' = DOMAIN queue \cup {n, n + 1} /\ Len(queue') = n + 1
      /\ queue'[n] = e /\ queue'[n + 1].type = "focused" /\ queue'[n + 1].id = Nothing
      /\ \A i \in DOMAIN queue : queue'[i] = queue[i] /\ i \in Nat /\ i < n
      /\ lastEvent' = "focused"
  <2>1. /\ Focused(Nothing) \in Event /\ Focused(Nothing).type = "focused"
        /\ Focused(Nothing).id = Nothing
    BY DEF Focused, Event
  <2>2. queue \in Seq(Event)
    BY DEF TypeOK
  <2> QED BY <2>1, <2>2, ToldTwo
<1>2. n \in Nat /\ n \notin DOMAIN queue
  BY <1>1, QueueDomain DEF TypeOK
<1> HIDE DEF n
<1>3. Unconnected' /\ LastTold'
  BY <1>1 DEF Unconnected, LastTold
<1>4. e.type = "closed" /\ e.id = focus /\ focus' = Nothing /\ focus \in DOMAIN win
      /\ DOMAIN win' = DOMAIN win \ {focus}
  BY DEF FocusedShut
<1>5. \A i \in DOMAIN queue' : LastFocus(i)' => i = n + 1
  BY <1>1, <1>2 DEF LastFocus, FocusedAt
<1>6. FocusTold' /\ MarkTold'
  BY <1>1, <1>4, <1>5 DEF FocusTold, MarkTold
<1>7. OpenTold'
  <2> SUFFICES ASSUME NEW w \in DOMAIN win', NEW i \in DOMAIN queue', ClosedAt(w, i)'
               PROVE  \E j \in DOMAIN queue' : j > i /\ CreatedAt(w, j)'
    BY DEF OpenTold
  <2>1. i \in DOMAIN queue /\ w \in DOMAIN win
    BY <1>1, <1>4 DEF ClosedAt
  <2>2. PICK j \in DOMAIN queue : j > i /\ CreatedAt(w, j)
    BY <1>1, <2>1 DEF WireInv, OpenTold, ClosedAt
  <2> QED BY <1>1, <2>2 DEF CreatedAt
<1>8. ClosedTold'
  <2> SUFFICES ASSUME NEW w \in Windows \ DOMAIN win', NEW i \in DOMAIN queue', CreatedAt(w, i)'
               PROVE  \E j \in DOMAIN queue' : j > i /\ ClosedAt(w, j)'
    BY DEF ClosedTold
  <2>1. i \in DOMAIN queue
    BY <1>1, <1>4 DEF CreatedAt
  <2>2. CASE w \notin DOMAIN win
    <3>1. PICK j \in DOMAIN queue : j > i /\ ClosedAt(w, j)
      BY <1>1, <2>1, <2>2 DEF WireInv, ClosedTold, CreatedAt
    <3> QED BY <1>1, <3>1 DEF ClosedAt
  <2>3. CASE w = focus
    BY <1>1, <1>4, <2>1, <2>3 DEF ClosedAt
  <2> QED BY <1>4, <2>2, <2>3
<1>9. Alternate'
  <2> SUFFICES ASSUME backend = "hyprland", NEW w \in Windows,
                      NEW i \in DOMAIN queue', NEW j \in DOMAIN queue',
                      CreatedAt(w, i)', CreatedAt(w, j)', i < j
               PROVE  \E k \in DOMAIN queue' : i < k /\ k < j /\ ClosedAt(w, k)'
    BY DEF Alternate
  <2>1. i \in DOMAIN queue /\ j \in DOMAIN queue
    BY <1>1, <1>4 DEF CreatedAt
  <2>2. PICK k \in DOMAIN queue : i < k /\ k < j /\ ClosedAt(w, k)
    BY <1>1, <2>1 DEF WireInv, Alternate, CreatedAt
  <2> QED BY <1>1, <2>2 DEF ClosedAt
<1> QED BY <1>3, <1>6, <1>7, <1>8, <1>9 DEF WireInv

\* An event is read.
LEMMA WireNext ==
  ASSUME TypeOK, WireInv, HandleEvent PROVE WireInv'
<1>1. /\ queue \in Seq(Event) /\ queue # <<>> /\ queue' = Tail(queue) /\ connected
      /\ UNCHANGED <<backend, win, focus, connected, synced, lastEvent>>
  BY DEF HandleEvent, TypeOK, compositorVars
<1>2. /\ \A i \in DOMAIN queue \ {1} : i - 1 \in DOMAIN queue' /\ queue'[i - 1] = queue[i]
      /\ \A i \in DOMAIN queue' : i + 1 \in DOMAIN queue \ {1} /\ queue'[i] = queue[i + 1]
      /\ \A i \in DOMAIN queue \cup DOMAIN queue' : i \in Nat \ {0}
      /\ queue' \in Seq(Event) /\ Len(queue') = Len(queue) - 1
  BY <1>1, NextOfQueue
<1>3. Unconnected' /\ LastTold'
  <2>1. ASSUME queue' # <<>> PROVE queue'[Len(queue')].type = lastEvent
    <3>1. DOMAIN queue' = 1 .. Len(queue') /\ Len(queue') \in Nat /\ Len(queue') # 0
      BY <1>2, <2>1, LenProperties, EmptySeq
    <3>2. Len(queue') \in DOMAIN queue' /\ Len(queue) = Len(queue') + 1
      BY <1>2, <3>1, QueueDomain DEF TypeOK
    <3> QED BY <1>1, <1>2, <3>2 DEF WireInv, LastTold
  <2> QED BY <1>1, <2>1 DEF Unconnected, LastTold
<1>4. ASSUME NEW i \in DOMAIN queue', LastFocus(i)' PROVE LastFocus(i + 1)
  <2> SUFFICES ASSUME NEW j \in DOMAIN queue, FocusedAt(j) PROVE j <= i + 1
    BY DEF LastFocus
  <2>1. CASE j = 1
    BY <1>2, <2>1
  <2>2. CASE j # 1
    <3>1. j - 1 \in DOMAIN queue' /\ FocusedAt(j - 1)'
      BY <1>2, <2>2 DEF FocusedAt
    <3>2. j - 1 <= i
      BY <1>4, <3>1 DEF LastFocus
    <3> QED BY <1>2, <3>2
  <2> QED BY <2>1, <2>2
<1>5. FocusTold' /\ MarkTold'
  BY <1>1, <1>2, <1>4 DEF WireInv, FocusTold, MarkTold, FocusedAt
<1>6. OpenTold'
  <2> SUFFICES ASSUME NEW w \in DOMAIN win, NEW i \in DOMAIN queue', ClosedAt(w, i)'
               PROVE  \E j \in DOMAIN queue' : j > i /\ CreatedAt(w, j)'
    BY <1>1 DEF OpenTold
  <2>1. PICK j \in DOMAIN queue : j > i + 1 /\ CreatedAt(w, j)
    BY <1>2 DEF WireInv, OpenTold, ClosedAt
  <2>2. j - 1 \in DOMAIN queue' /\ j - 1 > i /\ CreatedAt(w, j - 1)'
    BY <1>2, <2>1 DEF CreatedAt
  <2> QED BY <2>2
<1>7. ClosedTold'
  <2> SUFFICES ASSUME NEW w \in Windows \ DOMAIN win, NEW i \in DOMAIN queue', CreatedAt(w, i)'
               PROVE  \E j \in DOMAIN queue' : j > i /\ ClosedAt(w, j)'
    BY <1>1 DEF ClosedTold
  <2>1. PICK j \in DOMAIN queue : j > i + 1 /\ ClosedAt(w, j)
    BY <1>2 DEF WireInv, ClosedTold, CreatedAt
  <2>2. j - 1 \in DOMAIN queue' /\ j - 1 > i /\ ClosedAt(w, j - 1)'
    BY <1>2, <2>1 DEF ClosedAt
  <2> QED BY <2>2
<1>8. Alternate'
  <2> SUFFICES ASSUME backend = "hyprland", NEW w \in Windows,
                      NEW i \in DOMAIN queue', NEW j \in DOMAIN queue',
                      CreatedAt(w, i)', CreatedAt(w, j)', i < j
               PROVE  \E k \in DOMAIN queue' : i < k /\ k < j /\ ClosedAt(w, k)'
    BY <1>1 DEF Alternate
  <2>1. /\ i + 1 \in DOMAIN queue /\ j + 1 \in DOMAIN queue /\ i + 1 < j + 1
        /\ CreatedAt(w, i + 1) /\ CreatedAt(w, j + 1)
    BY <1>2 DEF CreatedAt
  <2>2. PICK k \in DOMAIN queue : i + 1 < k /\ k < j + 1 /\ ClosedAt(w, k)
    BY <2>1 DEF WireInv, Alternate
  <2>3. k - 1 \in DOMAIN queue' /\ i < k - 1 /\ k - 1 < j /\ ClosedAt(w, k - 1)'
    BY <1>2, <2>2 DEF ClosedAt
  <2> QED BY <2>3
<1> QED BY <1>3, <1>5, <1>6, <1>7, <1>8 DEF WireInv

LEMMA WireStep == TypeOK /\ WireInv /\ [Next]_vars => WireInv'
<1> SUFFICES ASSUME TypeOK, WireInv, [Next]_vars PROVE WireInv'
  OBVIOUS
<1>1. CASE Compositor
  <2>1. PICK e \in Event :
          \/ Told(<<e>>) /\ (Opened(e) \/ Shut(e) \/ Refocused(e) \/ Changed(e))
          \/ Told(<<e, Focused(Nothing)>>) /\ FocusedShut(e)
    BY <1>1, CompositorTells
  <2>2. UNCHANGED <<backend, connected, synced>>
    BY <1>1, CompositorTells DEF refreshVars
  <2>3. CASE connected
    BY <2>1, <2>2, <2>3, WireTold, WireToldTwo
  <2>4. CASE ~connected
    <3>1. UNCHANGED <<queue, lastEvent>> /\ queue = <<>> /\ DOMAIN queue = {}
      BY <2>1, <2>4 DEF Told, WireInv, Unconnected
    <3> QED BY <2>2, <2>4, <3>1 DEF WireInv, Unconnected, LastTold, FocusTold, MarkTold,
                                   OpenTold, ClosedTold, Alternate
  <2> QED BY <2>3, <2>4
<1>2. CASE RefreshStep
  <2>1. UNCHANGED <<backend, win, focus, queue, lastEvent, connected>>
    BY <1>2 DEF RefreshStep, compositorVars
  <2>2. synced' = (IF step = 4 THEN connected /\ ~failed' ELSE synced)
    BY <1>2 DEF RefreshStep
  <2>3. ~connected => ~synced
    BY DEF WireInv, Unconnected
  <2> QED BY <2>1, <2>2, <2>3, WireKept
<1>3. CASE Connect \/ Finished \/ UNCHANGED vars
  <2>1. /\ UNCHANGED <<backend, win, focus, queue, lastEvent>>
        /\ connected => connected'
        /\ ~connected' => ~synced'
    BY <1>3 DEF Connect, Finished, vars, compositorVars, refreshVars, WireInv, Unconnected
  <2> QED BY <2>1, WireKept
<1> QED BY <1>1, <1>2, <1>3, WireNext DEF Next, Daemon

-----------------------------------------------------------------------------
(* What one step does to the cache and the queue *)

\* The cache was filled by a list of windows that the event thread was there for.
Listed == synced \/ (connected /\ step \in {2, 3, 4} /\ ~failed)

\* The refresh that the cache shows, or the one under way so far, has had every answer.
Fresh == connected /\ ((step = 0 /\ synced) \/ (step \in {2, 3, 4} /\ ~failed))

LEMMA QueueGrows ==
  ASSUME TypeOK, Compositor, connected
  PROVE  /\ queue' # <<>>
         /\ \E e \in Event, n \in Nat :
              /\ n \in DOMAIN queue' /\ n \notin DOMAIN queue /\ queue'[n] = e
              /\ \A i \in DOMAIN queue : i \in DOMAIN queue' /\ queue'[i] = queue[i] /\ i < n
              /\ \/ /\ DOMAIN queue' = DOMAIN queue \cup {n}
                    /\ Opened(e) \/ Shut(e) \/ Refocused(e) \/ Changed(e)
                 \/ /\ DOMAIN queue' = DOMAIN queue \cup {n, n + 1}
                    /\ queue'[n + 1].type = "focused"
                    /\ FocusedShut(e)
<1> DEFINE n == Len(queue) + 1
<1>1. PICK e \in Event :
        \/ Told(<<e>>) /\ (Opened(e) \/ Shut(e) \/ Refocused(e) \/ Changed(e))
        \/ Told(<<e, Focused(Nothing)>>) /\ FocusedShut(e)
  BY CompositorTells
<1>2. /\ queue \in Seq(Event) /\ Focused(Nothing) \in Event
      /\ Focused(Nothing).type = "focused"
  BY DEF TypeOK, Focused, Event
<1>3. n \in Nat /\ n \notin DOMAIN queue
  BY <1>2, QueueDomain
<1>4. CASE Told(<<e>>) /\ (Opened(e) \/ Shut(e) \/ Refocused(e) \/ Changed(e))
  <2>1. /\ queue' # <<>> /\ DOMAIN queue' = DOMAIN queue \cup {n} /\ queue'[n] = e
        /\ \A i \in DOMAIN queue : queue'[i] = queue[i] /\ i < n
    BY <1>2, <1>4, ToldOne
  <2> QED BY <1>3, <1>4, <2>1
<1>5. CASE Told(<<e, Focused(Nothing)>>) /\ FocusedShut(e)
  <2>1. /\ queue' # <<>> /\ DOMAIN queue' = DOMAIN queue \cup {n, n + 1} /\ queue'[n] = e
        /\ queue'[n + 1].type = "focused"
        /\ \A i \in DOMAIN queue : queue'[i] = queue[i] /\ i < n
    BY <1>2, <1>5, ToldTwo
  <2> QED BY <1>3, <1>5, <2>1
<1> QED BY <1>1, <1>4, <1>5

\* The event thread takes the first event; a refresh begins, or the cache changes.
LEMMA EventHandled ==
  ASSUME TypeOK, HandleEvent
  PROVE  /\ connected /\ step = 0
         /\ UNCHANGED <<backend, win, focus, active, workspaces, monitors, connected>>
         /\ UNCHANGED <<synced, overtaken, lastEvent>>
         /\ 1 \in DOMAIN queue /\ queue[1] \in Event /\ Apply(queue[1])
         /\ IF queue[1].type = "refresh" THEN step' = 1 ELSE step' = 0 /\ failed' = failed
         /\ queue' = <<>> => Len(queue) = 1
         /\ \A i \in DOMAIN queue \ {1} : i - 1 \in DOMAIN queue' /\ queue'[i - 1] = queue[i]
         /\ \A i \in DOMAIN queue' : i + 1 \in DOMAIN queue \ {1} /\ queue'[i] = queue[i + 1]
         /\ \A i \in DOMAIN queue \cup DOMAIN queue' : i \in Nat \ {0}
<1>1. queue \in Seq(Event) /\ queue # <<>> /\ queue' = Tail(queue)
  BY DEF HandleEvent, TypeOK
<1>2. /\ connected /\ step = 0 /\ Apply(Head(queue))
      /\ UNCHANGED <<backend, win, focus, active, workspaces, monitors, connected>>
      /\ UNCHANGED <<synced, overtaken, lastEvent>>
      /\ IF Head(queue).type = "refresh" THEN step' = 1 ELSE step' = 0 /\ failed' = failed
  BY DEF HandleEvent, compositorVars
<1>3. queue' = <<>> => Len(queue) = 1
  <2>1. Len(queue') = Len(queue) - 1 /\ Len(queue) \in Nat
    BY <1>1, NextOfQueue, QueueDomain
  <2>2. queue' = <<>> => Len(queue') = 0
    BY EmptySeq
  <2> QED BY <2>1, <2>2
<1>4. Head(queue) = queue[1]
  BY <1>1, NextOfQueue
<1> QED BY <1>1, <1>2, <1>3, <1>4, NextOfQueue

\* Only a window's own events take it into the cache or out of it.
LEMMA AppliedTo ==
  ASSUME windows \in Seq(Entries), NEW e \in Event, Apply(e)
  PROVE  /\ windows' \in Seq(Entries)
         /\ \A w : \/ w \in Ids' <=> w \in Ids
                   \/ e.type = "created" /\ e.window.id = w
                   \/ e.type = "closed" /\ e.id = w
         /\ e.type = "created" => e.window.id \in Ids'
<1>1. CASE e.type = "created" /\ AddWindow(e.window)
  <2>1. e.window \in Entries
    BY <1>1, EventFields
  <2> QED BY <1>1, <2>1, AddedWindow
<1>2. CASE e.type = "closed" /\ RemoveWindow(e.id)
  BY <1>2, LeftWindows
<1>3. CASE e.type = "focused" /\ MarkFocused(e.id)
  BY <1>3, MarkedWindows
<1>4. CASE e.type = "moved" /\ UpdateWorkspace(e.id, e.ws)
  <2>1. e.ws \in Workspaces
    BY <1>4, EventFields
  <2> QED BY <1>4, <2>1, UpdatedWindow
<1>5. CASE e.type = "floating" /\ UpdateFloating(e.id, e.floating)
  <2>1. e.floating \in BOOLEAN
    BY <1>5, EventFields
  <2> QED BY <1>5, <2>1, UpdatedWindow
<1>6. CASE e.type \in {"fullscreen", "refresh"} /\ UNCHANGED windows
  BY <1>6 DEF Ids
<1> QED BY <1>1, <1>2, <1>3, <1>4, <1>5, <1>6 DEF Apply

-----------------------------------------------------------------------------
(* No open window is missing *)

NoneMissing ==
  Listed => \A w \in DOMAIN win : w \in Ids \/ \E i \in DOMAIN queue : CreatedAt(w, i)

\* Why no window is lost: a list names all windows that are open; a window that opens later
\* is told to the event thread, which is there; and one that was told closed and is open
\* again has been told open behind that.
LEMMA MissingStep ==
  ASSUME TypeOK, WireInv, NoneMissing, [Next]_vars PROVE NoneMissing'
<1>1. windows \in Seq(Entries) /\ (~connected => ~synced)
  BY DEF TypeOK, WireInv, Unconnected
<1>2. CASE Compositor
  <2>1. UNCHANGED <<windows, connected, step, failed, synced>>
    BY <1>2, CompositorTells DEF cacheVars, refreshVars
  <2>2. (Listed' <=> Listed) /\ Ids' = Ids
    BY <2>1 DEF Listed, Ids
  <2>3. SUFFICES ASSUME Listed, NEW w \in DOMAIN win', w \notin Ids
                 PROVE  \E i \in DOMAIN queue' : CreatedAt(w, i)'
    BY <2>2 DEF NoneMissing
  <2>4. connected
    BY <1>1, <2>3 DEF Listed
  <2>5. PICK e \in Event, n \in Nat :
          /\ n \in DOMAIN queue' /\ queue'[n] = e
          /\ \A i \in DOMAIN queue : i \in DOMAIN queue' /\ queue'[i] = queue[i]
          /\ Opened(e) \/ Shut(e) \/ Refocused(e) \/ Changed(e) \/ FocusedShut(e)
    BY <1>2, <2>4, QueueGrows
  <2>6. CASE w \in DOMAIN win
    <3>1. PICK i \in DOMAIN queue : CreatedAt(w, i)
      BY <2>3, <2>6 DEF NoneMissing
    <3> QED BY <2>5, <3>1 DEF CreatedAt
  <2>7. CASE w \notin DOMAIN win
    <3>1. e.type = "created" /\ e.window.id = w
      BY <2>3, <2>5, <2>7 DEF Opened, Shut, Refocused, Changed, FocusedShut
    <3> QED BY <2>5, <3>1 DEF CreatedAt
  <2> QED BY <2>6, <2>7
<1>3. CASE RefreshStep
  <2>1. UNCHANGED <<win, queue, connected>>
    BY <1>3 DEF RefreshStep, compositorVars
  <2>2. CASE step = 1 /\ windows' = Listing
    <3>1. \A w \in DOMAIN win : w \in Ids'
      BY <2>2, ListedWindows DEF TypeOK, Ids
    <3> QED BY <2>1, <3>1 DEF NoneMissing
  <2>3. CASE Ids' = Ids /\ (Listed' => Listed)
    BY <2>1, <2>3 DEF NoneMissing, CreatedAt
  <2>4. \/ step = 1 /\ windows' = Listing
        \/ Ids' = Ids /\ (Listed' => Listed)
    <3>1. CASE /\ step = 1 /\ step' = 2 /\ UNCHANGED synced
               /\ windows' = Listing \/ (UNCHANGED windows /\ failed' = TRUE)
      BY <3>1 DEF Listed, Ids
    <3>2. CASE /\ step = 2 /\ step' = 3 /\ UNCHANGED synced /\ failed' \in {failed, TRUE}
               /\ MarkFocused(focus) \/ UNCHANGED windows
      <4>1. Ids' = Ids
        BY <1>1, <3>2, MarkedWindows DEF Ids
      <4> QED BY <2>1, <3>2, <4>1 DEF Listed
    <3>3. CASE step = 3 /\ step' = 4 /\ UNCHANGED <<synced, windows>> /\ failed' \in {failed, TRUE}
      BY <2>1, <3>3 DEF Listed, Ids
    <3>4. CASE /\ step = 4 /\ step' = 0 /\ UNCHANGED windows /\ failed' \in {failed, TRUE}
               /\ synced' = (connected /\ ~failed')
      BY <2>1, <3>4 DEF Listed, Ids
    <3> QED BY <1>3, <3>1, <3>2, <3>3, <3>4, RefreshWrites
  <2> QED BY <2>2, <2>3, <2>4
<1>4. CASE Connect
  <2>1. ~Listed'
    BY <1>1, <1>4 DEF Connect, Listed, refreshVars
  <2> QED BY <2>1 DEF NoneMissing
<1>5. CASE HandleEvent
  <2> DEFINE e == queue[1]
  <2>1. SUFFICES ASSUME Listed', NEW w \in DOMAIN win', w \notin Ids'
                 PROVE  \E i \in DOMAIN queue' : CreatedAt(w, i)'
    BY DEF NoneMissing
  <2>2. Listed /\ w \in DOMAIN win /\ 1 \in DOMAIN queue /\ e \in Event /\ Apply(e)
    BY <1>5, <2>1, EventHandled DEF Listed
  <2>3. \A i \in DOMAIN queue : i # 1 => i - 1 \in DOMAIN queue' /\ queue'[i - 1] = queue[i]
    BY <1>5, EventHandled
  <2>4. PICK i \in DOMAIN queue : i # 1 /\ CreatedAt(w, i)
    <3>1. CASE e.type = "closed" /\ e.id = w
      <4>1. ClosedAt(w, 1)
        BY <3>1 DEF ClosedAt
      <4>2. PICK j \in DOMAIN queue : j > 1 /\ CreatedAt(w, j)
        BY <2>2, <4>1 DEF WireInv, OpenTold
      <4> QED BY <4>2
    <3>2. CASE w \notin Ids /\ ~(e.type = "created" /\ e.window.id = w)
      <4>1. PICK j \in DOMAIN queue : CreatedAt(w, j)
        BY <2>2, <3>2 DEF NoneMissing
      <4> QED BY <3>2, <4>1 DEF CreatedAt
    <3>3. e.type = "created" => e.window.id # w
      BY <1>1, <2>1, <2>2, AppliedTo
    <3> QED BY <1>1, <2>1, <2>2, <3>1, <3>2, <3>3, AppliedTo
  <2>5. CreatedAt(w, i - 1)' /\ i - 1 \in DOMAIN queue'
    BY <1>5, <2>3, <2>4, EventHandled DEF CreatedAt
  <2> QED BY <2>5
<1>6. CASE Finished \/ UNCHANGED vars
  BY <1>6 DEF Finished, vars, compositorVars, cacheVars, refreshVars, NoneMissing, Listed, Ids,
              CreatedAt
<1> QED BY <1>2, <1>3, <1>4, <1>5, <1>6 DEF Next, Daemon

\* The four requests of a refresh that has been answered so far.
LEMMA RefreshAnswered ==
  ASSUME TypeOK, RefreshStep, ~failed'
  PROVE  /\ ~failed /\ step \in {1, 2, 3, 4}
         /\ step = 1 => windows' = Listing /\ overtaken' = Announced \cap DOMAIN win /\ step' = 2
         /\ step = 2 => /\ step' = 3
                        /\ IF focus = Nothing THEN UNCHANGED windows ELSE MarkFocused(focus)
         /\ step = 3 => step' = 4 /\ UNCHANGED windows /\ workspaces' = active
         /\ step = 4 => step' = 0 /\ UNCHANGED <<windows, workspaces>> /\ monitors' = active
         /\ step # 1 => UNCHANGED overtaken
<1>1. step \in {1, 2, 3, 4} /\ step' = (step + 1) % 5
  BY DEF RefreshStep
<1>2. ~Fail
  BY DEF Fail
<1>3. CASE step = 1
  <2>1. ListWindows
    BY <1>3 DEF RefreshStep
  <2> QED BY <1>1, <1>2, <1>3, <2>1 DEF ListWindows
<1>4. CASE step = 2
  <2>1. MarkActiveWindow /\ UNCHANGED overtaken
    BY <1>4 DEF RefreshStep
  <2> QED BY <1>1, <1>2, <1>4, <2>1 DEF MarkActiveWindow
<1>5. CASE step = 3
  <2>1. ListWorkspaces /\ UNCHANGED overtaken
    BY <1>5 DEF RefreshStep
  <2> QED BY <1>1, <1>2, <1>5, <2>1 DEF ListWorkspaces
<1>6. CASE step = 4
  <2>1. ListMonitors /\ UNCHANGED overtaken
    BY <1>6 DEF RefreshStep
  <2> QED BY <1>1, <1>2, <1>6, <2>1 DEF ListMonitors
<1> QED BY <1>1, <1>3, <1>4, <1>5, <1>6

-----------------------------------------------------------------------------
(* The mark of the focus *)

\* Without an unread focus event the marks are right.  The list of Hyprland marks none, so
\* they are right only once the active window has been asked for.
Marked ==
  Fresh /\ (\A i \in DOMAIN queue : ~FocusedAt(i)) =>
    \A i \in DOMAIN windows :
      windows[i].focused <=> windows[i].id = focus /\ (step = 2 => backend = "niri")

LEMMA MarkedStep ==
  ASSUME TypeOK, WireInv, Marked, [Next]_vars PROVE Marked'
<1>1. /\ windows \in Seq(Entries) /\ (~connected => ~synced)
      /\ \A i \in DOMAIN windows : windows[i].id # Nothing
  BY WindowList, ConstantsAssumption DEF TypeOK, WireInv, Unconnected
<1>2. CASE Compositor
  <2>1. UNCHANGED <<backend, windows, connected, step, failed, synced>>
    BY <1>2, CompositorTells DEF cacheVars, refreshVars
  <2>2. SUFFICES ASSUME Fresh, \A i \in DOMAIN queue' : ~FocusedAt(i)'
                 PROVE  focus' = focus /\ \A i \in DOMAIN queue : ~FocusedAt(i)
    BY <2>1 DEF Marked, Fresh
  <2>3. connected
    BY <2>2 DEF Fresh
  <2>4. PICK e \in Event, n \in Nat :
          /\ n \in DOMAIN queue' /\ queue'[n] = e
          /\ \A i \in DOMAIN queue : i \in DOMAIN queue' /\ queue'[i] = queue[i]
          /\ \/ /\ DOMAIN queue' = DOMAIN queue \cup {n}
                /\ Opened(e) \/ Shut(e) \/ Refocused(e) \/ Changed(e)
             \/ /\ DOMAIN queue' = DOMAIN queue \cup {n, n + 1}
                /\ queue'[n + 1].type = "focused"
    BY <1>2, <2>3, QueueGrows
  <2>5. \A i \in DOMAIN queue : ~FocusedAt(i)
    BY <2>2, <2>4 DEF FocusedAt
  <2>6. e.type # "focused" /\ (Opened(e) \/ Shut(e) \/ Refocused(e) \/ Changed(e))
    BY <2>2, <2>4 DEF FocusedAt
  <2> QED BY <2>5, <2>6 DEF Opened, Shut, Refocused, Changed
<1>3. CASE RefreshStep
  <2>1. UNCHANGED <<backend, focus, queue, connected>>
    BY <1>3 DEF RefreshStep, compositorVars
  <2>2. SUFFICES ASSUME ~failed', Fresh', \A i \in DOMAIN queue : ~FocusedAt(i)
                 PROVE  \A i \in DOMAIN windows' :
                          windows'[i].focused <=>
                            windows'[i].id = focus /\ (step' = 2 => backend = "niri")
    <3>1. Fresh' => ~failed'
      <4>1. step' = 0 => step = 4
        BY <1>3 DEF RefreshStep
      <4>2. synced' /\ step = 4 => ~failed'
        BY <1>3 DEF RefreshStep
      <4> QED BY <4>1, <4>2 DEF Fresh
    <3> QED BY <2>1, <3>1 DEF Marked, FocusedAt
  <2>3. CASE step = 1
    <3>1. windows' = Listing /\ step' = 2
      BY <1>3, <2>2, <2>3, RefreshAnswered
    <3>2. \A i \in DOMAIN windows' :
            windows'[i].focused <=> backend = "niri" /\ windows'[i].id = focus
      BY <3>1, ListedWindows DEF TypeOK
    <3> QED BY <3>1, <3>2
  <2>4. CASE step # 1
    <3>1. /\ step \in {2, 3, 4} /\ step' # 2
          /\ IF step = 2 /\ focus # Nothing THEN MarkFocused(focus) ELSE UNCHANGED windows
      BY <1>3, <2>2, <2>4, RefreshAnswered
    <3>2. CASE step = 2 /\ focus # Nothing
      BY <1>1, <3>1, <3>2, MarkedWindows
    <3>3. CASE ~(step = 2 /\ focus # Nothing)
      <4>1. UNCHANGED windows
        BY <3>1, <3>3
      <4>2. Fresh
        BY <1>3, <2>1, <2>2, <3>1, RefreshAnswered DEF Fresh
      <4>3. \A i \in DOMAIN windows :
              windows[i].focused <=> windows[i].id = focus /\ (step = 2 => backend = "niri")
        BY <2>2, <4>2 DEF Marked
      <4> QED BY <1>1, <3>1, <3>3, <4>1, <4>3
    <3> QED BY <3>2, <3>3
  <2> QED BY <2>3, <2>4
<1>4. CASE Connect
  <2>1. ~Fresh'
    BY <1>1, <1>4 DEF Connect, Fresh, refreshVars
  <2> QED BY <2>1 DEF Marked
<1>5. CASE HandleEvent
  <2> DEFINE e == queue[1]
  <2>1. SUFFICES ASSUME Fresh', \A i \in DOMAIN queue' : ~FocusedAt(i)'
                 PROVE  \A i \in DOMAIN windows' : windows'[i].focused <=> windows'[i].id = focus
    <3>1. step' # 2 /\ focus' = focus
      BY <1>5, EventHandled
    <3> QED BY <3>1 DEF Marked
  <2>2. Fresh /\ step = 0 /\ 1 \in DOMAIN queue /\ e \in Event /\ Apply(e)
    BY <1>5, <2>1, EventHandled DEF Fresh
  <2>3. \A i \in DOMAIN queue : FocusedAt(i) => i = 1
    <3> SUFFICES ASSUME NEW i \in DOMAIN queue, FocusedAt(i), i # 1 PROVE FALSE
      OBVIOUS
    <3>1. i - 1 \in DOMAIN queue' /\ queue'[i - 1] = queue[i]
      BY <1>5, EventHandled
    <3>2. queue'[i - 1].type = "focused"
      BY <3>1 DEF FocusedAt
    <3> QED BY <2>1, <3>1, <3>2 DEF FocusedAt
  <2>4. LastFocus(1)
    BY <1>5, <2>3, EventHandled DEF LastFocus
  <2>5. CASE e.type = "focused" /\ MarkFocused(e.id)
    <3>1. e.id = focus
      BY <2>2, <2>4, <2>5 DEF WireInv, FocusTold, FocusedAt
    <3> QED BY <1>1, <2>5, <3>1, MarkedWindows
  <2>6. CASE e.type # "focused"
    <3>1. \A i \in DOMAIN windows : windows[i].focused <=> windows[i].id = focus
      BY <2>2, <2>3, <2>6 DEF Marked, FocusedAt
    <3>2. CASE e.type = "created" /\ AddWindow(e.window)
      <4>1. e.window \in Entries
        BY <2>2, <3>2, EventFields
      <4>2. e.window.focused <=> e.window.id = focus
        BY <2>2, <2>4, <3>2 DEF WireInv, MarkTold
      <4> QED BY <1>1, <3>1, <3>2, <4>1, <4>2, AddedWindow
    <3>3. CASE e.type = "closed" /\ RemoveWindow(e.id)
      BY <1>1, <3>1, <3>3, LeftWindows
    <3>4. CASE e.type = "moved" /\ UpdateWorkspace(e.id, e.ws)
      <4>1. e.ws \in Workspaces
        BY <2>2, <3>4, EventFields
      <4> QED BY <1>1, <3>1, <3>4, <4>1, UpdatedWindow
    <3>5. CASE e.type = "floating" /\ UpdateFloating(e.id, e.floating)
      <4>1. e.floating \in BOOLEAN
        BY <2>2, <3>5, EventFields
      <4> QED BY <1>1, <3>1, <3>5, <4>1, UpdatedWindow
    <3>6. CASE UNCHANGED windows
      BY <3>1, <3>6
    <3> QED BY <2>2, <2>6, <3>2, <3>3, <3>4, <3>5, <3>6 DEF Apply
  <2> QED BY <2>2, <2>5, <2>6 DEF Apply
<1>6. CASE Finished \/ UNCHANGED vars
  BY <1>6 DEF Finished, vars, compositorVars, cacheVars, refreshVars, Marked, Fresh, FocusedAt
<1> QED BY <1>2, <1>3, <1>4, <1>5, <1>6 DEF Next, Daemon

-----------------------------------------------------------------------------
(* What a refresh repairs *)

\* The list of windows as it was when the compositor was asked: every open window, once,
\* with its attributes.
Faithful ==
  /\ \A w \in DOMAIN win : w \in Ids
  /\ \A i, j \in DOMAIN windows : windows[i].id = windows[j].id => i = j
  /\ \A i \in DOMAIN windows :
       /\ windows[i].id \in DOMAIN win
       /\ windows[i] = Entry(windows[i].id, win[windows[i].id], windows[i].focused)

Repaired ==
  Fresh /\ queue = <<>> /\ lastEvent = "refresh" =>
    /\ Faithful
    /\ step \in {4, 0} => workspaces = active
    /\ step = 0 => monitors = active

\* A mark changes nothing else in an entry.
LEMMA FaithfulMarks ==
  ASSUME TypeOK, Faithful, MarkFocused(focus), UNCHANGED win
  PROVE  Faithful'
<1>1. /\ DOMAIN windows' = DOMAIN windows /\ Ids' = Ids
      /\ \A i \in DOMAIN windows :
           /\ windows'[i] = [windows[i] EXCEPT !.focused = (windows[i].id = focus)]
           /\ windows'[i].id = windows[i].id
  BY MarkedWindows DEF TypeOK
<1>2. ASSUME NEW i \in DOMAIN windows
      PROVE  windows'[i] = Entry(windows'[i].id, win[windows'[i].id], windows'[i].focused)
  <2>1. windows[i] = Entry(windows[i].id, win[windows[i].id], windows[i].focused)
    BY DEF Faithful
  <2> QED BY <1>1, <2>1 DEF Entry
<1> QED BY <1>1, <1>2 DEF Faithful

LEMMA RepairedStep ==
  ASSUME TypeOK, WireInv, Repaired, [Next]_vars PROVE Repaired'
<1>1. ~connected => ~synced
  BY DEF WireInv, Unconnected
<1>2. CASE Compositor
  <2>1. UNCHANGED <<connected, step, failed, synced>>
    BY <1>2, CompositorTells DEF cacheVars, refreshVars
  <2>2. Fresh' => queue' # <<>>
    BY <1>2, <2>1, QueueGrows DEF Fresh
  <2> QED BY <2>2 DEF Repaired
<1>3. CASE RefreshStep
  <2>1. UNCHANGED <<win, active, queue, connected, lastEvent>>
    BY <1>3 DEF RefreshStep, compositorVars
  <2>2. Fresh' => ~failed'
    <3>1. step' = 0 => step = 4
      BY <1>3 DEF RefreshStep
    <3>2. synced' /\ step = 4 => ~failed'
      BY <1>3 DEF RefreshStep
    <3> QED BY <3>1, <3>2 DEF Fresh
  <2>3. SUFFICES ASSUME Fresh', ~failed', queue = <<>>, lastEvent = "refresh"
                 PROVE  /\ Faithful'
                        /\ step' \in {4, 0} => workspaces' = active'
                        /\ step' = 0 => monitors' = active'
    BY <2>1, <2>2 DEF Repaired
  <2>4. CASE step = 1
    <3>1. windows' = Listing /\ step' = 2
      BY <1>3, <2>3, <2>4, RefreshAnswered
    <3>2. /\ \A w \in DOMAIN win : \E i \in DOMAIN windows' : windows'[i].id = w
          /\ \A i, j \in DOMAIN windows' : windows'[i].id = windows'[j].id => i = j
          /\ \A i \in DOMAIN windows' :
               /\ windows'[i].id \in DOMAIN win
               /\ windows'[i] = Entry(windows'[i].id, win[windows'[i].id], windows'[i].focused)
      BY <3>1, ListedWindows DEF TypeOK
    <3> QED BY <2>1, <3>1, <3>2 DEF Faithful, Ids
  <2>5. CASE step # 1
    <3>1. /\ step \in {2, 3, 4} /\ ~failed
          /\ step = 2 => step' = 3
          /\ step = 3 => step' = 4 /\ workspaces' = active
          /\ step = 4 => step' = 0 /\ workspaces' = workspaces /\ monitors' = active
          /\ IF step = 2 /\ focus # Nothing THEN MarkFocused(focus) ELSE UNCHANGED windows
      BY <1>3, <2>3, <2>5, RefreshAnswered
    <3>2. Fresh
      BY <2>1, <2>3, <3>1 DEF Fresh
    <3>3. Faithful /\ (step = 4 => workspaces = active)
      BY <2>3, <3>1, <3>2 DEF Repaired
    <3>4. Faithful'
      <4>1. CASE UNCHANGED windows
        BY <2>1, <3>3, <4>1 DEF Faithful, Ids, Entry
      <4>2. CASE MarkFocused(focus)
        BY <2>1, <3>3, <4>2, FaithfulMarks
      <4> QED BY <3>1, <4>1, <4>2
    <3> QED BY <2>1, <3>1, <3>3, <3>4
  <2> QED BY <2>4, <2>5
<1>4. CASE Connect
  <2>1. ~Fresh'
    BY <1>1, <1>4 DEF Connect, Fresh, refreshVars
  <2> QED BY <2>1 DEF Repaired
<1>5. CASE HandleEvent
  <2>1. SUFFICES ASSUME Fresh', queue' = <<>>, lastEvent' = "refresh" PROVE FALSE
    BY DEF Repaired
  <2>2. lastEvent = "refresh" /\ Len(queue) = 1 /\ 1 \in DOMAIN queue
    BY <1>5, <2>1, EventHandled
  <2>3. queue[1].type = "refresh"
    <3>1. queue # <<>>
      BY <1>5 DEF HandleEvent
    <3> QED BY <2>2, <3>1 DEF WireInv, LastTold
  <2>4. step' = 1
    BY <1>5, <2>3, EventHandled
  <2> QED BY <2>1, <2>4 DEF Fresh
<1>6. CASE Finished \/ UNCHANGED vars
  <2>1. /\ UNCHANGED <<win, active, queue, windows, workspaces, monitors, connected>>
        /\ UNCHANGED <<step, failed, synced, lastEvent>>
    BY <1>6 DEF Finished, vars, compositorVars, cacheVars, refreshVars
  <2>2. Faithful' = Faithful
    BY <2>1 DEF Faithful, Ids, Entry
  <2>3. Fresh' = Fresh
    BY <2>1 DEF Fresh
  <2> QED BY <2>1, <2>2, <2>3 DEF Repaired
<1> QED BY <1>2, <1>3, <1>4, <1>5, <1>6 DEF Next, Daemon

-----------------------------------------------------------------------------
(* Ghosts *)

Once(w) == \A i, j \in DOMAIN windows : windows[i].id = w /\ windows[j].id = w => i = j

\* No unread event is about the life of w.
Untold(w) == \A i \in DOMAIN queue : ~CreatedAt(w, i) /\ ~ClosedAt(w, i)

\* The next event about the life of w tells that it opened.
ToOpen(w) ==
  \E i \in DOMAIN queue :
    CreatedAt(w, i) /\ \A k \in DOMAIN queue : k < i => ~ClosedAt(w, k)

GhostFree(w) ==
  /\ Once(w)
  /\ ToOpen(w) => w \notin Ids
  /\ Untold(w) => (w \in Ids <=> w \in DOMAIN win)

Ghosts == Listed /\ backend = "hyprland" => \A w \in Windows \ overtaken : GhostFree(w)

\* The compositor's next event: a window opens only when it is closed and known to be so.
LEMMA GhostsTold ==
  ASSUME TypeOK, WireInv, Compositor, connected, backend = "hyprland",
         NEW w \in Windows, GhostFree(w)
  PROVE  GhostFree(w)'
<1>1. Once(w)' /\ Ids' = Ids
  <2>1. windows' = windows
    BY CompositorTells DEF cacheVars
  <2> QED BY <2>1 DEF GhostFree, Once, Ids
<1>2. PICK e \in Event, n \in Nat :
        /\ n \in DOMAIN queue' /\ n \notin DOMAIN queue /\ queue'[n] = e
        /\ \A i \in DOMAIN queue : i \in DOMAIN queue' /\ queue'[i] = queue[i] /\ i < n
        /\ \/ /\ DOMAIN queue' = DOMAIN queue \cup {n}
              /\ Opened(e) \/ Shut(e) \/ Refocused(e) \/ Changed(e)
           \/ /\ DOMAIN queue' = DOMAIN queue \cup {n, n + 1}
              /\ queue'[n + 1].type = "focused"
              /\ FocusedShut(e)
  BY QueueGrows
<1>3. e.type = "created" /\ e.window.id = w => w \notin DOMAIN win
  BY <1>2 DEF Opened, Shut, Refocused, Changed, FocusedShut
<1>4. \/ w \in DOMAIN win' <=> w \in DOMAIN win
      \/ e.type = "closed" /\ e.id = w
      \/ e.type = "created" /\ e.window.id = w
  <2>1. CASE Opened(e)
    BY <2>1 DEF Opened
  <2>2. CASE Shut(e)
    BY <2>2 DEF Shut
  <2>3. CASE Refocused(e) \/ Changed(e)
    BY <2>3 DEF Refocused, Changed
  <2>4. CASE FocusedShut(e)
    BY <2>4 DEF FocusedShut
  <2> QED BY <1>2, <2>1, <2>2, <2>3, <2>4
<1>5. ASSUME ToOpen(w)' PROVE w \notin Ids
  <2>1. PICK i \in DOMAIN queue' :
          /\ queue'[i].type = "created" /\ queue'[i].window.id = w
          /\ \A k \in DOMAIN queue' : k < i => ~(queue'[k].type = "closed" /\ queue'[k].id = w)
    BY <1>5 DEF ToOpen, CreatedAt, ClosedAt
  <2>2. CASE i \in DOMAIN queue
    <3>1. ToOpen(w)
      BY <1>2, <2>1, <2>2 DEF ToOpen, CreatedAt, ClosedAt
    <3> QED BY <3>1 DEF GhostFree
  <2>3. CASE i = n
    <3>1. w \notin DOMAIN win
      BY <1>2, <1>3, <2>1, <2>3
    <3>2. \A k \in DOMAIN queue : ~ClosedAt(w, k)
      BY <1>2, <2>1, <2>3 DEF ClosedAt
    <3>3. \A k \in DOMAIN queue : ~CreatedAt(w, k)
      BY <3>1, <3>2 DEF WireInv, ClosedTold
    <3>4. Untold(w)
      BY <3>2, <3>3 DEF Untold
    <3> QED BY <3>1, <3>4 DEF GhostFree
  <2> QED BY <1>2, <2>1, <2>2, <2>3
<1>6. ASSUME Untold(w)' PROVE w \in Ids <=> w \in DOMAIN win'
  <2>1. \A i \in DOMAIN queue' : /\ ~(queue'[i].type = "created" /\ queue'[i].window.id = w)
                                 /\ ~(queue'[i].type = "closed" /\ queue'[i].id = w)
    BY <1>6 DEF Untold, CreatedAt, ClosedAt
  <2>2. Untold(w)
    BY <1>2, <2>1 DEF Untold, CreatedAt, ClosedAt
  <2>3. w \in DOMAIN win' <=> w \in DOMAIN win
    BY <1>2, <1>4, <2>1
  <2> QED BY <2>2, <2>3 DEF GhostFree
<1> QED BY <1>1, <1>5, <1>6 DEF GhostFree

\* A new list: a window whose opening is already told but not read is one that it overtook.
LEMMA GhostsListed ==
  ASSUME TypeOK, windows' = Listing, UNCHANGED <<win, queue>>,
         NEW w \in Windows, w \notin Announced \cap DOMAIN win
  PROVE  GhostFree(w)'
<1>1. /\ \A i \in DOMAIN windows' : windows'[i].id \in DOMAIN win
      /\ \A v \in DOMAIN win : \E i \in DOMAIN windows' : windows'[i].id = v
      /\ \A i, j \in DOMAIN windows' : windows'[i].id = windows'[j].id => i = j
  BY ListedWindows DEF TypeOK
<1>2. Once(w)'
  BY <1>1 DEF Once
<1>3. w \in Ids' <=> w \in DOMAIN win
  BY <1>1 DEF Ids
<1>4. ToOpen(w)' => w \in Announced
  BY DEF ToOpen, CreatedAt, Announced
<1> QED BY <1>2, <1>3, <1>4 DEF GhostFree

\* What an event does to the entries of a window that is not its own.
LEMMA OthersOnce ==
  ASSUME windows \in Seq(Entries), NEW e \in Event, Apply(e), NEW w \in Windows, Once(w),
         ~(e.type = "created" /\ e.window.id = w)
  PROVE  Once(w)'
<1>1. CASE e.type = "created" /\ AddWindow(e.window)
  <2>1. e.window \in Entries
    BY <1>1, EventFields
  <2>2. \A i \in DOMAIN windows' : windows'[i].id = w => i \in DOMAIN windows /\ windows[i].id = w
    BY <1>1, <2>1, AddedWindow
  <2> QED BY <2>2 DEF Once
<1>2. CASE e.type = "closed" /\ RemoveWindow(e.id)
  <2>1. \A i, j \in DOMAIN windows' : windows'[i].id = w /\ windows'[j].id = w => i = j
    BY <1>2, LeftWindows DEF Once
  <2> QED BY <2>1 DEF Once
<1>3. CASE \A i \in DOMAIN windows' : i \in DOMAIN windows /\ windows'[i].id = windows[i].id
  BY <1>3 DEF Once
<1>4. CASE e.type = "focused" /\ MarkFocused(e.id)
  BY <1>3, <1>4, MarkedWindows
<1>5. CASE e.type = "moved" /\ UpdateWorkspace(e.id, e.ws)
  <2>1. e.ws \in Workspaces
    BY <1>5, EventFields
  <2> QED BY <1>3, <1>5, <2>1, UpdatedWindow
<1>6. CASE e.type = "floating" /\ UpdateFloating(e.id, e.floating)
  <2>1. e.floating \in BOOLEAN
    BY <1>6, EventFields
  <2> QED BY <1>3, <1>6, <2>1, UpdatedWindow
<1>7. CASE UNCHANGED windows
  BY <1>3, <1>7
<1> QED BY <1>1, <1>2, <1>4, <1>5, <1>6, <1>7 DEF Apply

\* An event is read.  One that opens w finds no entry of it, and leaves one; one that closes
\* w finds one at most, and leaves none.
LEMMA GhostsRead ==
  ASSUME TypeOK, WireInv, HandleEvent, backend = "hyprland", NEW w \in Windows, GhostFree(w)
  PROVE  GhostFree(w)'
<1> DEFINE e == queue[1]
<1>1. /\ windows \in Seq(Entries) /\ 1 \in DOMAIN queue /\ e \in Event /\ Apply(e)
      /\ win' = win
  BY EventHandled DEF TypeOK
<1>2. /\ \A i \in DOMAIN queue : i # 1 => i - 1 \in DOMAIN queue' /\ queue'[i - 1] = queue[i]
      /\ \A i \in DOMAIN queue' : i + 1 \in DOMAIN queue /\ queue'[i] = queue[i + 1]
      /\ \A i \in DOMAIN queue : i \in Nat \ {0}
      /\ \A i \in DOMAIN queue' : i \in Nat \ {0}
  BY EventHandled
<1>3. ASSUME NEW j \in DOMAIN queue, j > 1, CreatedAt(w, j) \/ ClosedAt(w, j)
      PROVE  ~Untold(w)'
  <2>1. /\ j - 1 \in DOMAIN queue'
        /\ \/ queue'[j - 1].type = "created" /\ queue'[j - 1].window.id = w
           \/ queue'[j - 1].type = "closed" /\ queue'[j - 1].id = w
    BY <1>2, <1>3 DEF CreatedAt, ClosedAt
  <2> QED BY <2>1 DEF Untold, CreatedAt, ClosedAt
<1>4. ASSUME ToOpen(w)'
      PROVE  \E j \in DOMAIN queue : /\ j > 1 /\ CreatedAt(w, j)
                                     /\ \A k \in DOMAIN queue : 1 < k /\ k < j => ~ClosedAt(w, k)
  <2>1. PICK i \in DOMAIN queue' :
          /\ queue'[i].type = "created" /\ queue'[i].window.id = w
          /\ \A k \in DOMAIN queue' : k < i => ~(queue'[k].type = "closed" /\ queue'[k].id = w)
    BY <1>4 DEF ToOpen, CreatedAt, ClosedAt
  <2>2. i + 1 \in DOMAIN queue /\ i + 1 > 1 /\ CreatedAt(w, i + 1)
    BY <1>2, <2>1 DEF CreatedAt
  <2>3. ASSUME NEW k \in DOMAIN queue, 1 < k, k < i + 1 PROVE ~ClosedAt(w, k)
    <3>1. k - 1 \in DOMAIN queue' /\ queue'[k - 1] = queue[k] /\ k - 1 < i
      BY <1>2, <2>3
    <3> QED BY <2>1, <3>1 DEF ClosedAt
  <2> QED BY <2>2, <2>3
<1>5. CASE CreatedAt(w, 1)
  <2>1. w \notin Ids
    <3>1. ToOpen(w)
      BY <1>1, <1>2, <1>5 DEF ToOpen
    <3> QED BY <3>1 DEF GhostFree
  <2>2. Once(w)' /\ w \in Ids'
    <3>1. e.type = "created" /\ e.window.id = w /\ e.window \in Entries /\ AddWindow(e.window)
      BY <1>1, <1>5, EventFields DEF CreatedAt, Apply
    <3>2. \A i \in DOMAIN windows' : i \in DOMAIN windows \/ i = Len(windows) + 1
      BY <1>1, <3>1, AddedWindow
    <3>3. \A i \in DOMAIN windows : i \in DOMAIN windows' => windows'[i].id # w
      <4>1. \A i \in DOMAIN windows : windows[i].id # w /\ i # Len(windows) + 1
        BY <1>1, <2>1, WindowList DEF Ids
      <4> QED BY <1>1, <3>1, <4>1, AddedWindow
    <3>4. Once(w)'
      BY <3>2, <3>3 DEF Once
    <3> QED BY <1>1, <3>1, <3>4, AddedWindow
  <2>3. ~ToOpen(w)'
    <3> SUFFICES ASSUME ToOpen(w)' PROVE FALSE
      OBVIOUS
    <3>1. PICK j \in DOMAIN queue : /\ j > 1 /\ CreatedAt(w, j)
                                    /\ \A k \in DOMAIN queue : 1 < k /\ k < j => ~ClosedAt(w, k)
      BY <1>4
    <3> QED BY <1>1, <1>5, <3>1 DEF WireInv, Alternate
  <2>4. Untold(w)' => w \in DOMAIN win
    BY <1>1, <1>3, <1>5 DEF WireInv, ClosedTold
  <2> QED BY <1>1, <2>2, <2>3, <2>4 DEF GhostFree
<1>6. CASE ClosedAt(w, 1)
  <2>1. e.type = "closed" /\ e.id = w /\ RemoveWindow(w)
    BY <1>1, <1>6 DEF ClosedAt, Apply
  <2>2. \A i, j \in DOMAIN windows : windows[i].id = w /\ windows[j].id = w => i = j
    BY DEF GhostFree, Once
  <2>3. w \notin Ids'
    BY <1>1, <2>1, <2>2, LeftWindows
  <2>4. Once(w)'
    BY <1>1, <2>1, OthersOnce DEF GhostFree
  <2>5. Untold(w)' => w \notin DOMAIN win
    BY <1>1, <1>3, <1>6 DEF WireInv, OpenTold
  <2> QED BY <1>1, <2>3, <2>4, <2>5 DEF GhostFree
<1>7. CASE ~CreatedAt(w, 1) /\ ~ClosedAt(w, 1)
  <2>1. /\ ~(e.type = "created" /\ e.window.id = w)
        /\ ~(e.type = "closed" /\ e.id = w)
    BY <1>7 DEF CreatedAt, ClosedAt
  <2>2. w \in Ids' <=> w \in Ids
    BY <1>1, <2>1, AppliedTo
  <2>3. Once(w)'
    BY <1>1, <2>1, OthersOnce DEF GhostFree
  <2>4. ToOpen(w)' => ToOpen(w)
    <3> SUFFICES ASSUME ToOpen(w)' PROVE ToOpen(w)
      OBVIOUS
    <3>1. PICK j \in DOMAIN queue : /\ j > 1 /\ CreatedAt(w, j)
                                    /\ \A k \in DOMAIN queue : 1 < k /\ k < j => ~ClosedAt(w, k)
      BY <1>4
    <3>2. \A k \in DOMAIN queue : k < j => ~ClosedAt(w, k)
      BY <1>2, <1>7, <3>1
    <3> QED BY <3>1, <3>2 DEF ToOpen
  <2>5. Untold(w)' => Untold(w)
    <3> SUFFICES ASSUME Untold(w)', NEW j \in DOMAIN queue, CreatedAt(w, j) \/ ClosedAt(w, j)
                 PROVE  FALSE
      BY DEF Untold
    <3>1. j > 1
      BY <1>2, <1>7
    <3> QED BY <1>3, <3>1
  <2> QED BY <1>1, <2>2, <2>3, <2>4, <2>5 DEF GhostFree
<1> QED BY <1>5, <1>6, <1>7

LEMMA GhostsStep ==
  ASSUME TypeOK, WireInv, Ghosts, [Next]_vars PROVE Ghosts'
<1>1. windows \in Seq(Entries) /\ (~connected => ~synced)
  BY DEF TypeOK, WireInv, Unconnected
<1>2. CASE Compositor
  <2>1. UNCHANGED <<backend, connected, step, failed, synced, overtaken>>
    BY <1>2, CompositorTells DEF refreshVars
  <2>2. Listed' => Listed /\ connected
    BY <1>1, <2>1 DEF Listed
  <2> QED BY <1>2, <2>1, <2>2, GhostsTold DEF Ghosts
<1>3. CASE RefreshStep
  <2>1. UNCHANGED <<backend, win, queue, connected>>
    BY <1>3 DEF RefreshStep, compositorVars
  <2>2. SUFFICES ASSUME Listed', backend = "hyprland", NEW w \in Windows, w \notin overtaken'
                 PROVE  GhostFree(w)'
    BY <2>1 DEF Ghosts
  <2>3. ASSUME Ids' = Ids, \A i \in DOMAIN windows' : i \in DOMAIN windows
                                                   /\ windows'[i].id = windows[i].id,
               overtaken' = overtaken, Listed
        PROVE  GhostFree(w)'
    <3>1. GhostFree(w)
      BY <2>2, <2>3 DEF Ghosts
    <3>2. Once(w)'
      BY <2>3, <3>1 DEF GhostFree, Once
    <3> QED BY <2>1, <2>3, <3>1, <3>2 DEF GhostFree, ToOpen, Untold, CreatedAt, ClosedAt
  <2>4. CASE step = 1 /\ windows' = Listing /\ overtaken' = Announced \cap DOMAIN win
    BY <2>1, <2>2, <2>4, GhostsListed
  <2>5. CASE UNCHANGED <<windows, overtaken>> /\ Listed
    BY <2>3, <2>5 DEF Ids
  <2>6. CASE MarkFocused(focus) /\ UNCHANGED overtaken /\ Listed
    BY <1>1, <2>3, <2>6, MarkedWindows
  <2>7. Listed \/ (step = 1 /\ windows' = Listing /\ overtaken' = Announced \cap DOMAIN win)
    <3>1. /\ synced' = (IF step = 4 THEN connected /\ ~failed' ELSE synced)
          /\ step' = (step + 1) % 5 /\ step \in {1, 2, 3, 4}
      BY <1>3 DEF RefreshStep
    <3>2. CASE failed'
      <4>1. synced
        BY <2>2, <3>1, <3>2 DEF Listed
      <4> QED BY <4>1 DEF Listed
    <3>3. CASE ~failed'
      <4>1. /\ ~failed
            /\ step = 1 => windows' = Listing /\ overtaken' = Announced \cap DOMAIN win
        BY <1>3, <3>3, RefreshAnswered
      <4> QED BY <2>1, <2>2, <3>1, <3>3, <4>1 DEF Listed
    <3> QED BY <3>2, <3>3
  <2>8. \/ step = 1 /\ windows' = Listing /\ overtaken' = Announced \cap DOMAIN win
        \/ UNCHANGED <<windows, overtaken>>
        \/ MarkFocused(focus) /\ UNCHANGED overtaken
    <3>1. CASE step = 1 /\ ListWindows
      BY <3>1 DEF ListWindows, Fail, cacheVars
    <3>2. CASE UNCHANGED overtaken /\ (MarkActiveWindow \/ ListWorkspaces \/ ListMonitors)
      BY <3>2 DEF MarkActiveWindow, ListWorkspaces, ListMonitors, Fail, cacheVars
    <3> QED BY <1>3, <3>1, <3>2 DEF RefreshStep
  <2> QED BY <2>4, <2>5, <2>6, <2>7, <2>8
<1>4. CASE Connect
  <2>1. ~Listed'
    BY <1>1, <1>4 DEF Connect, Listed, refreshVars
  <2> QED BY <2>1 DEF Ghosts
<1>5. CASE HandleEvent
  <2>1. (Listed' => Listed) /\ UNCHANGED <<backend, overtaken>>
    BY <1>5, EventHandled DEF Listed
  <2> QED BY <1>5, <2>1, GhostsRead DEF Ghosts
<1>6. CASE Finished \/ UNCHANGED vars
  <2>1. UNCHANGED <<backend, win, windows, queue, connected, step, failed, synced, overtaken>>
    BY <1>6 DEF Finished, vars, compositorVars, cacheVars, refreshVars
  <2> QED BY <2>1 DEF Ghosts, Listed, GhostFree, Once, ToOpen, Untold, Ids, CreatedAt, ClosedAt
<1> QED BY <1>2, <1>3, <1>4, <1>5, <1>6 DEF Next, Daemon

-----------------------------------------------------------------------------
(* Theorems *)

CacheInv == TypeOK /\ WireInv /\ NoneMissing /\ Marked /\ Repaired /\ Ghosts

LEMMA CacheInvInit == Init => CacheInv
<1> SUFFICES ASSUME Init PROVE CacheInv
  OBVIOUS
<1>1. connected = FALSE /\ synced = FALSE
  BY DEF Init
<1>2. ~Listed /\ ~Fresh
  BY <1>1 DEF Listed, Fresh
<1> QED BY <1>2, TypeInit, WireInit DEF CacheInv, NoneMissing, Marked, Repaired, Ghosts

LEMMA CacheInvStep == CacheInv /\ [Next]_vars => CacheInv'
BY TypeStep, WireStep, MissingStep, MarkedStep, RepairedStep, GhostsStep DEF CacheInv

LEMMA CacheInvAlways == Spec => []CacheInv
BY CacheInvInit, CacheInvStep, PTL DEF Spec

\* Once a refresh has succeeded no open window is missing from the cache for good: it is
\* there, or the event that announces it is still to be read.
THEOREM NoWindowIsLost == Spec => []NoLostWindow
<1>1. CacheInv => NoLostWindow
  BY DEF CacheInv, NoneMissing, NoLostWindow, Listed, CreatedAt
<1> QED BY <1>1, CacheInvAlways, PTL

\* When all events have been read the focused window is the one marked, however the marks of
\* a refresh and of the events before it were interleaved.
THEOREM TheFocusConverges == Spec => []FocusConverges
<1>1. CacheInv => FocusConverges
  <2> SUFFICES ASSUME CacheInv, connected, step = 0, queue = <<>>, synced
               PROVE  FocusedIds = {focus} \cap Ids
    BY DEF FocusConverges, AtRest
  <2>1. Fresh /\ DOMAIN queue = {}
    BY DEF Fresh
  <2>2. \A i \in DOMAIN windows : windows[i].focused <=> windows[i].id = focus
    BY <2>1 DEF CacheInv, Marked
  <2> QED BY <2>2 DEF FocusedIds, Ids
<1> QED BY <1>1, CacheInvAlways, PTL

\* With Hyprland a window listed twice, or listed and not open, was listed before its
\* opening was read.
THEOREM GhostsAreOvertaken == Spec => []GhostsWereOvertaken
<1>1. CacheInv => GhostsWereOvertaken
  <2> SUFFICES ASSUME CacheInv, backend = "hyprland", connected, step = 0, queue = <<>>, synced,
                      NEW i \in DOMAIN windows, NEW j \in DOMAIN windows,
                      windows[i].id \notin overtaken
               PROVE  /\ windows[i].id = windows[j].id => i = j
                      /\ windows[i].id \in DOMAIN win
    BY DEF GhostsWereOvertaken, AtRest
  <2>1. windows[i].id \in Windows
    BY WindowList DEF CacheInv, TypeOK
  <2>2. GhostFree(windows[i].id)
    BY <2>1 DEF CacheInv, Ghosts, Listed
  <2>3. Untold(windows[i].id) /\ windows[i].id \in Ids
    BY DEF Untold, Ids
  <2> QED BY <2>2, <2>3 DEF GhostFree, Once
<1> QED BY <1>1, CacheInvAlways, PTL

\* When the last event was one that refreshes, and every request was answered, the cache
\* shows the compositor as it is, whatever it showed before.
THEOREM ARefreshRepairs == Spec => []RefreshRepairs
<1>1. CacheInv => RefreshRepairs
  <2> SUFFICES ASSUME CacheInv, connected, step = 0, queue = <<>>, synced, lastEvent = "refresh"
               PROVE  /\ {windows[i] : i \in DOMAIN windows} =
                           {Entry(w, win[w], focus = w) : w \in DOMAIN win}
                      /\ Len(windows) = Cardinality(DOMAIN win)
                      /\ workspaces = active
                      /\ monitors = active
    BY DEF RefreshRepairs, AtRest
  <2>1. Fresh /\ DOMAIN queue = {}
    BY DEF Fresh
  <2>2. /\ \A i \in DOMAIN windows : windows[i].focused <=> windows[i].id = focus
        /\ Faithful /\ workspaces = active /\ monitors = active
    BY <2>1 DEF CacheInv, Marked, Repaired
  <2>3. \A i \in DOMAIN windows :
          /\ windows[i].id \in DOMAIN win
          /\ windows[i] = Entry(windows[i].id, win[windows[i].id], focus = windows[i].id)
    <3> SUFFICES ASSUME NEW i \in DOMAIN windows
                 PROVE  /\ windows[i].id \in DOMAIN win
                        /\ windows[i] = Entry(windows[i].id, win[windows[i].id],
                                              focus = windows[i].id)
      OBVIOUS
    <3>1. /\ windows[i].id \in DOMAIN win
          /\ windows[i] = Entry(windows[i].id, win[windows[i].id], windows[i].focused)
      BY <2>2 DEF Faithful
    <3>2. windows[i].focused = (focus = windows[i].id)
      <4>1. windows[i].focused \in BOOLEAN
        BY WindowList DEF CacheInv, TypeOK, Entries
      <4> QED BY <2>2, <4>1
    <3> QED BY <3>1, <3>2
  <2>4. \A w \in DOMAIN win : \E i \in DOMAIN windows : windows[i].id = w
    BY <2>2 DEF Faithful, Ids
  <2>5. {windows[i] : i \in DOMAIN windows} = {Entry(w, win[w], focus = w) : w \in DOMAIN win}
    BY <2>3, <2>4
  <2>6. Len(windows) = Cardinality(DOMAIN win)
    <3> DEFINE f == [i \in 1 .. Len(windows) |-> windows[i].id]
    <3>1. DOMAIN windows = 1 .. Len(windows) /\ Len(windows) \in Nat
      BY WindowList DEF CacheInv, TypeOK
    <3>2. f \in Bijection(1 .. Len(windows), DOMAIN win)
      <4>1. f \in [1 .. Len(windows) -> DOMAIN win]
        BY <2>3, <3>1
      <4>2. \A i, j \in 1 .. Len(windows) : f[i] = f[j] => i = j
        BY <2>2, <3>1 DEF Faithful
      <4>3. \A w \in DOMAIN win : \E i \in 1 .. Len(windows) : f[i] = w
        BY <2>4, <3>1
      <4> HIDE DEF f
      <4> QED BY <4>1, <4>2, <4>3 DEF Bijection, Injection, Surjection, IsInjective
    <3> HIDE DEF f
    <3>3. IsFiniteSet(1 .. Len(windows)) /\ Cardinality(1 .. Len(windows)) = Len(windows)
      <4>1. Len(windows) \in Int /\ 1 \in Int
        BY <3>1
      <4>2. /\ IsFiniteSet(1 .. Len(windows))
            /\ Cardinality(1 .. Len(windows)) =
                 IF 1 > Len(windows) THEN 0 ELSE Len(windows) - 1 + 1
        BY <4>1, FS_Interval
      <4> QED BY <3>1, <4>2
    <3>4. Cardinality(1 .. Len(windows)) = Cardinality(DOMAIN win)
      BY <3>2, <3>3, FS_Bijection DEF ExistsBijection
    <3> QED BY <3>3, <3>4
  <2> QED BY <2>2, <2>5, <2>6
<1> QED BY <1>1, CacheInvAlways, PTL
=============================================================================
