------------------------- MODULE BroadcastFeed_proofs -------------------------
(***************************************************************************)
(* Theorems about what the connections of Broadcast.tla hear: the order of *)
(* the notifications, the state they bring, and the feed of EventFeed.tla  *)
(* that they implement.  They rest on the invariants of Broadcast_proofs.  *)
(***************************************************************************)
EXTENDS Broadcast_proofs, WellFoundedInduction

-----------------------------------------------------------------------------
(* Numbers and streams *)

\* A nonempty set of numbers has a smallest one.
LEMMA SmallestNumber ==
  ASSUME NEW T \in SUBSET Nat, T # {}
  PROVE  \E x \in T : \A y \in T : x <= y
<1> DEFINE Less == OpToRel(<, Nat)
<1>1. \A x, y \in Nat : y < x => <<y, x>> \in Less
  BY Zenon DEF OpToRel
<1>2. IsWellFoundedOn(Less, Nat)
  BY NatLessThanWellFounded, Zenon
<1> HIDE DEF Less
<1>3. PICK x \in T : \A y \in T : ~(<<y, x>> \in Less)
  BY <1>2, WFMin, Zenon
<1>4. \A y \in T : ~(y < x)
  BY <1>1, <1>3, Zenon
<1>5. \A y \in T : x <= y
  BY <1>4
<1> QED BY <1>3, <1>5

LEMMA AppendedMessage ==
  ASSUME NEW s \in Seq(Messages), NEW m \in Messages
  PROVE  /\ DOMAIN s = 1 .. Len(s) /\ Len(s) \in Nat
         /\ \A i \in DOMAIN s : s[i] \in Messages
         /\ DOMAIN Append(s, m) = 1 .. Len(s) + 1
         /\ Append(s, m)[Len(s) + 1] = m
         /\ \A i \in DOMAIN s : Append(s, m)[i] = s[i]
<1>1. DOMAIN s = 1 .. Len(s) /\ Len(s) \in Nat
  OBVIOUS
<1>2. \A i \in DOMAIN s : s[i] \in Messages
  OBVIOUS
<1>3. DOMAIN Append(s, m) = 1 .. Len(s) + 1 /\ Append(s, m)[Len(s) + 1] = m
  OBVIOUS
<1>4. \A i \in DOMAIN s : Append(s, m)[i] = s[i]
  BY <1>1
<1> QED BY <1>1, <1>2, <1>3, <1>4

LEMMA StreamOf ==
  ASSUME TypeInv, NEW c \in Sessions
  PROVE  /\ stream[c] \in Seq(Messages)
         /\ DOMAIN stream[c] = 1 .. Len(stream[c]) /\ Len(stream[c]) \in Nat
         /\ \A i \in DOMAIN stream[c] : stream[c][i] \in Messages
                                     /\ stream[c][i].state \in Dumps
<1>1. stream[c] \in Seq(Messages)
  BY DEF TypeInv, TypeOK, SockType
<1>2. \A i \in DOMAIN stream[c] : stream[c][i] \in Messages
  BY <1>1
<1> QED BY <1>1, <1>2 DEF Messages

\* A write of a text reaches the stream of the connection that has the descriptor.
LEMMA TextArrives ==
  ASSUME TypeInv, NEW f, NEW m \in Messages, WriteText(f, m), NEW c \in Sessions
  PROVE  stream'[c] = IF Reaches(f, c) THEN Append(stream[c], m) ELSE stream[c]
BY DEF WriteText

-----------------------------------------------------------------------------
(* The order of the notifications *)

\* The broadcaster is between the lock and the unlock.
Writing(b) == bpc[b] \in {"build", "text", "newline"}

\* What a connection has heard is not newer than the cache, nor than what the broadcaster
\* that comes next has copied of it.
HeardIsPast ==
  \A c \in Sessions : \A i \in DOMAIN stream[c] :
    stream[c][i].kind = "event" =>
      /\ Len(stream[c][i].state) = PartCount
      /\ \A p \in Parts : stream[c][i].state[p] <= cache[p]
      /\ \A b \in Broadcasters : Writing(b) =>
           \A p \in 1 .. Len(bdump[b]) : stream[c][i].state[p] <= bdump[b][p]

CopiedIsPast ==
  \A b \in Broadcasters : Writing(b) =>
    /\ \A p \in 1 .. Len(bdump[b]) : bdump[b][p] <= cache[p]
    /\ bpc[b] # "build" => Len(bdump[b]) = PartCount

OrderInv == HeardIsPast /\ CopiedIsPast /\ NoticesInOrder

LEMMA OrderInit == Init => OrderInv
<1> SUFFICES ASSUME Init PROVE OrderInv
  OBVIOUS
<1>1. /\ \A c \in Sessions : stream[c] = <<>> /\ DOMAIN stream[c] = {}
      /\ \A b \in Broadcasters : bpc[b] = "wait"
  BY DEF Init
<1> QED BY <1>1 DEF OrderInv, HeardIsPast, CopiedIsPast, NoticesInOrder, Writing

\* The stamps of the parts.
LEMMA StampsOf ==
  ASSUME TypeInv
  PROVE  /\ \A p \in Parts : cache[p] \in Nat
         /\ \A b \in Broadcasters : /\ bdump[b] \in Seq(Nat) /\ Len(bdump[b]) \in 0 .. PartCount
                                    /\ \A p \in 1 .. Len(bdump[b]) : bdump[b][p] \in Nat /\ p \in Parts
         /\ \A c \in Sessions : \A i \in DOMAIN stream[c] :
              Len(stream[c][i].state) = PartCount => \A p \in Parts : stream[c][i].state[p] \in Nat
<1>1. \A p \in Parts : cache[p] \in Nat
  BY DEF TypeInv, TypeOK, CacheType
<1>2. \A d \in Dumps : /\ d \in Seq(Nat) /\ Len(d) \in 0 .. PartCount
                       /\ \A p \in 1 .. Len(d) : d[p] \in Nat /\ p \in Parts
  BY ConstantsAssumption DEF Dumps, Parts
<1>3. \A b \in Broadcasters : bdump[b] \in Dumps
  BY DEF TypeInv, TypeOK, CastType
<1>4. \A c \in Sessions : \A i \in DOMAIN stream[c] : stream[c][i].state \in Dumps
  BY StreamOf
<1> QED BY <1>1, <1>2, <1>3, <1>4 DEF Parts

\* A step in which nothing is sent, nothing copied, and no list becomes older.
LEMMA OrderFrame ==
  ASSUME TypeInv, OrderInv, UNCHANGED stream,
         \A p \in Parts : cache'[p] \in Nat /\ cache[p] <= cache'[p],
         \A b \in Broadcasters : Writing(b)' =>
           \/ bdump'[b] = <<>> /\ bpc'[b] = "build"
           \/ Writing(b) /\ bdump'[b] = bdump[b] /\ (bpc'[b] # "build" => bpc[b] # "build")
  PROVE  OrderInv'
<1>1. NoticesInOrder'
  BY DEF OrderInv, NoticesInOrder
<1>2. CopiedIsPast'
  <2> SUFFICES ASSUME NEW b \in Broadcasters, Writing(b)'
               PROVE  /\ \A p \in 1 .. Len(bdump'[b]) : bdump'[b][p] <= cache'[p]
                      /\ bpc'[b] # "build" => Len(bdump'[b]) = PartCount
    BY DEF CopiedIsPast
  <2>1. CASE bdump'[b] = <<>> /\ bpc'[b] = "build"
    BY <2>1
  <2>2. CASE Writing(b) /\ bdump'[b] = bdump[b] /\ (bpc'[b] # "build" => bpc[b] # "build")
    <3>1. \A p \in 1 .. Len(bdump[b]) : p \in Parts /\ bdump[b][p] \in Nat /\ bdump[b][p] <= cache[p]
      BY <2>2, StampsOf DEF OrderInv, CopiedIsPast
    <3>2. \A p \in 1 .. Len(bdump[b]) : bdump[b][p] <= cache'[p]
      <4>1. \A p \in Parts : cache[p] \in Nat /\ cache'[p] \in Nat /\ cache[p] <= cache'[p]
        BY StampsOf
      <4> QED BY <3>1, <4>1
    <3>3. bpc'[b] # "build" => Len(bdump[b]) = PartCount
      BY <2>2 DEF OrderInv, CopiedIsPast
    <3> QED BY <2>2, <3>2, <3>3
  <2> QED BY <2>1, <2>2
<1>3. HeardIsPast'
  <2> SUFFICES ASSUME NEW c \in Sessions, NEW i \in DOMAIN stream[c], stream[c][i].kind = "event"
               PROVE  /\ Len(stream[c][i].state) = PartCount
                      /\ \A p \in Parts : stream[c][i].state[p] <= cache'[p]
                      /\ \A b \in Broadcasters : Writing(b)' =>
                           \A p \in 1 .. Len(bdump'[b]) : stream[c][i].state[p] <= bdump'[b][p]
    BY DEF HeardIsPast
  <2>1. /\ Len(stream[c][i].state) = PartCount
        /\ \A p \in Parts : stream[c][i].state[p] <= cache[p]
        /\ \A b \in Broadcasters : Writing(b) =>
             \A p \in 1 .. Len(bdump[b]) : stream[c][i].state[p] <= bdump[b][p]
    BY DEF OrderInv, HeardIsPast
  <2>2. \A p \in Parts : stream[c][i].state[p] <= cache'[p]
    <3>1. \A p \in Parts : stream[c][i].state[p] \in Nat /\ cache[p] \in Nat
      BY <2>1, StampsOf
    <3> QED BY <2>1, <3>1
  <2> QED BY <2>1, <2>2
<1> QED BY <1>1, <1>2, <1>3 DEF OrderInv

\* A list is copied: it is not older than what has been heard of it.
LEMMA OrderBuild ==
  ASSUME TypeInv, OrderInv, NEW b \in Broadcasters, BuildNotice(b)
  PROVE  OrderInv'
<1> DEFINE n == Len(bdump[b])
           d == Append(bdump[b], cache[n + 1])
<1>1. /\ bpc[b] = "build" /\ UNCHANGED <<stream, cache>>
      /\ bdump' = [bdump EXCEPT ![b] = d]
      /\ bpc' = IF Len(d) = PartCount THEN [bpc EXCEPT ![b] = "text"] ELSE bpc
  BY DEF BuildNotice, cacheVars, sockVars, TypeInv, TypeOK, CastType
<1>2. n \in Nat /\ n < PartCount /\ bdump[b] \in Seq(Nat)
  BY <1>1, StampsOf DEF TypeInv, NoticePartial
<1>3. n + 1 \in Parts /\ cache[n + 1] \in Nat
  BY <1>2, StampsOf, ConstantsAssumption DEF Parts
<1>4. /\ Len(d) = n + 1 /\ d[n + 1] = cache[n + 1]
      /\ \A i \in 1 .. n : d[i] = bdump[b][i]
  BY <1>2, <1>3
<1> HIDE DEF n, d
<1>5. /\ bdump'[b] = d
      /\ \A a \in Broadcasters \ {b} : bdump'[a] = bdump[a] /\ bpc'[a] = bpc[a]
      /\ bpc'[b] = IF n + 1 = PartCount THEN "text" ELSE "build"
  BY <1>1, <1>4 DEF TypeInv, TypeOK, CastType
<1>6. Writing(b) /\ \A a \in Broadcasters : Writing(a)' => Writing(a)
  BY <1>1, <1>5 DEF Writing
<1>7. CopiedIsPast'
  <2> SUFFICES ASSUME NEW a \in Broadcasters, Writing(a)'
               PROVE  /\ \A p \in 1 .. Len(bdump'[a]) : bdump'[a][p] <= cache[p]
                      /\ bpc'[a] # "build" => Len(bdump'[a]) = PartCount
    BY <1>1 DEF CopiedIsPast
  <2>1. CASE a = b
    <3>1. \A p \in 1 .. n : bdump[b][p] <= cache[p]
      BY <1>6 DEF OrderInv, CopiedIsPast, n
    <3>2. \A p \in 1 .. n + 1 : d[p] <= cache[p]
      BY <1>2, <1>3, <1>4, <3>1
    <3> QED BY <1>4, <1>5, <2>1, <3>2
  <2>2. CASE a # b
    BY <1>5, <1>6, <2>2 DEF OrderInv, CopiedIsPast
  <2> QED BY <2>1, <2>2
<1>8. HeardIsPast'
  <2> SUFFICES ASSUME NEW c \in Sessions, NEW i \in DOMAIN stream[c], stream[c][i].kind = "event",
                      NEW a \in Broadcasters, Writing(a)'
               PROVE  \A p \in 1 .. Len(bdump'[a]) : stream[c][i].state[p] <= bdump'[a][p]
    BY <1>1 DEF OrderInv, HeardIsPast
  <2>1. /\ \A p \in Parts : stream[c][i].state[p] <= cache[p]
        /\ \A p \in 1 .. Len(bdump[a]) : stream[c][i].state[p] <= bdump[a][p]
    BY <1>6 DEF OrderInv, HeardIsPast
  <2>2. CASE a = b
    BY <1>2, <1>3, <1>4, <1>5, <2>1, <2>2 DEF n
  <2>3. CASE a # b
    BY <1>5, <2>1, <2>3
  <2> QED BY <2>2, <2>3
<1>9. NoticesInOrder'
  BY <1>1 DEF OrderInv, NoticesInOrder
<1> QED BY <1>7, <1>8, <1>9 DEF OrderInv


\* A notification is written: what was heard before is not newer than it.
LEMMA OrderSend ==
  ASSUME TypeInv, LoopInv, OrderInv, NEW b \in Broadcasters, SendText(b)
  PROVE  OrderInv'
<1> DEFINE m == Message("event", bdump[b])
           f == client_fds[cursor[b]]
<1>1. /\ bpc[b] = "text" /\ bpc' = [bpc EXCEPT ![b] = "newline"]
      /\ UNCHANGED <<cache, bdump>> /\ WriteText(f, m)
  BY DEF SendText, cacheVars
<1>2. m \in Messages /\ m.kind = "event" /\ m.state = bdump[b] /\ bdump[b] \in Dumps
  BY DEF TypeInv, TypeOK, CastType, Message, Messages, Kinds
<1> HIDE DEF m, f
<1>3. /\ Writing(b) /\ \A a \in Broadcasters : Writing(a)' => a = b
      /\ \A a \in Broadcasters \ {b} : bpc'[a] = bpc[a]
  <2>1. /\ bpc'[b] = "newline"
        /\ \A a \in Broadcasters \ {b} : bpc'[a] = bpc[a]
    BY <1>1 DEF TypeInv, TypeOK, CastType
  <2>2. \A a \in Broadcasters : Writing(a) => a = b
    BY <1>1 DEF Writing, LoopInv, MutexHeld
  <2> QED BY <1>1, <2>1, <2>2 DEF Writing
<1>4. /\ Len(bdump[b]) = PartCount
      /\ \A p \in Parts : bdump[b][p] <= cache[p] /\ bdump[b][p] \in Nat /\ p \in 1 .. Len(bdump[b])
  <2>1. Len(bdump[b]) = PartCount /\ \A p \in 1 .. Len(bdump[b]) : bdump[b][p] <= cache[p]
    BY <1>1, <1>3 DEF OrderInv, CopiedIsPast
  <2> QED BY <2>1, StampsOf DEF Parts
<1>5. CopiedIsPast'
  <2> SUFFICES ASSUME NEW a \in Broadcasters, Writing(a)'
               PROVE  /\ \A p \in 1 .. Len(bdump[a]) : bdump[a][p] <= cache[p]
                      /\ Len(bdump[a]) = PartCount
    BY <1>1 DEF CopiedIsPast
  <2>1. a = b
    BY <1>3
  <2>2. \A p \in 1 .. Len(bdump[b]) : bdump[b][p] <= cache[p]
    BY <1>4 DEF Parts
  <2> QED BY <1>4, <2>1, <2>2
<1>6. ASSUME NEW c \in Sessions, NEW i \in DOMAIN stream[c], stream[c][i].kind = "event"
      PROVE  /\ Len(stream[c][i].state) = PartCount
             /\ \A p \in Parts : stream[c][i].state[p] <= cache[p]
             /\ \A p \in Parts : stream[c][i].state[p] <= bdump[b][p]
  BY <1>3, <1>4, <1>6 DEF OrderInv, HeardIsPast
<1>7. ASSUME NEW c \in Sessions
      PROVE  \/ stream'[c] = stream[c]
             \/ /\ DOMAIN stream'[c] = 1 .. Len(stream[c]) + 1
                /\ stream'[c][Len(stream[c]) + 1] = m
                /\ \A i \in DOMAIN stream[c] : stream'[c][i] = stream[c][i]
  <2>1. stream'[c] = stream[c] \/ stream'[c] = Append(stream[c], m)
    BY <1>1, <1>2, TextArrives
  <2>2. stream[c] \in Seq(Messages)
    BY StreamOf
  <2>3. /\ DOMAIN Append(stream[c], m) = 1 .. Len(stream[c]) + 1
        /\ Append(stream[c], m)[Len(stream[c]) + 1] = m
        /\ \A i \in DOMAIN stream[c] : Append(stream[c], m)[i] = stream[c][i]
    BY <1>2, <2>2, AppendedMessage
  <2> QED BY <2>1, <2>3
<1>8. HeardIsPast'
  <2> SUFFICES ASSUME NEW c \in Sessions, NEW i \in DOMAIN stream'[c], stream'[c][i].kind = "event"
               PROVE  /\ Len(stream'[c][i].state) = PartCount
                      /\ \A p \in Parts : stream'[c][i].state[p] <= cache[p]
                      /\ \A p \in Parts : stream'[c][i].state[p] <= bdump[b][p]
    BY <1>1, <1>3, <1>4 DEF HeardIsPast, Parts
  <2>1. CASE i \in DOMAIN stream[c] /\ stream'[c][i] = stream[c][i]
    BY <1>6, <2>1
  <2>2. CASE stream'[c][i] = m
    <3>1. \A p \in Parts : bdump[b][p] <= bdump[b][p]
      BY <1>4
    <3> QED BY <1>2, <1>4, <2>2, <3>1
  <2>3. i \in DOMAIN stream[c] \/ i = Len(stream[c]) + 1
    BY <1>7, StreamOf
  <2> QED BY <1>7, <2>1, <2>2, <2>3, StreamOf
<1>9. NoticesInOrder'
  <2> SUFFICES ASSUME NEW c \in Sessions, NEW i \in DOMAIN stream'[c], NEW j \in DOMAIN stream'[c],
                      i < j, stream'[c][i].kind = "event", stream'[c][j].kind = "event",
                      NEW p \in Parts
               PROVE  stream'[c][i].state[p] <= stream'[c][j].state[p]
    BY DEF NoticesInOrder
  <2>1. CASE stream'[c] = stream[c]
    BY <2>1 DEF OrderInv, NoticesInOrder
  <2>2. CASE /\ DOMAIN stream'[c] = 1 .. Len(stream[c]) + 1
             /\ stream'[c][Len(stream[c]) + 1] = m
             /\ \A k \in DOMAIN stream[c] : stream'[c][k] = stream[c][k]
    <3>1. i \in DOMAIN stream[c] /\ (j \in DOMAIN stream[c] \/ j = Len(stream[c]) + 1)
      BY <2>2, StreamOf
    <3>2. CASE j \in DOMAIN stream[c]
      BY <2>2, <3>1, <3>2 DEF OrderInv, NoticesInOrder
    <3>3. CASE j = Len(stream[c]) + 1
      BY <1>2, <1>6, <2>2, <3>1, <3>3
    <3> QED BY <3>1, <3>2, <3>3
  <2> QED BY <1>7, <2>1, <2>2
<1> QED BY <1>5, <1>8, <1>9 DEF OrderInv

\* A connection thread writes what is not a notification.
LEMMA OrderReply ==
  ASSUME TypeInv, OrderInv, NEW c \in Sessions, ReplyText(c)
  PROVE  OrderInv'
<1> DEFINE m == Message(pc[c], IF pc[c] = "reply" THEN <<>> ELSE sdump[c])
<1>1. /\ WriteText(fd[c], m) /\ pc[c] \in {"State.Dump", "subscribed", "reply"}
      /\ UNCHANGED <<cache, bpc, bdump>>
  BY DEF ReplyText, cacheVars, castVars
<1>2. m \in Messages /\ m.kind # "event"
  <2>1. <<>> \in Dumps /\ sdump[c] \in Dumps
    BY ConstantsAssumption DEF TypeInv, TypeOK, ConnType, Dumps
  <2> QED BY <1>1, <2>1 DEF Message, Messages, Kinds
<1> HIDE DEF m
<1>3. ASSUME NEW a \in Sessions, NEW i \in DOMAIN stream'[a], stream'[a][i].kind = "event"
      PROVE  i \in DOMAIN stream[a] /\ stream'[a][i] = stream[a][i]
  <2>1. CASE stream'[a] = stream[a]
    BY <2>1
  <2>2. CASE stream'[a] = Append(stream[a], m)
    <3>1. /\ DOMAIN stream[a] = 1 .. Len(stream[a]) /\ Len(stream[a]) \in Nat
          /\ DOMAIN stream'[a] = 1 .. Len(stream[a]) + 1
          /\ stream'[a][Len(stream[a]) + 1] = m
          /\ \A k \in DOMAIN stream[a] : stream'[a][k] = stream[a][k]
      BY <1>2, <2>2, StreamOf, AppendedMessage
    <3>2. i # Len(stream[a]) + 1
      BY <1>2, <1>3, <3>1
    <3>3. i \in DOMAIN stream[a]
      BY <3>1, <3>2
    <3> QED BY <3>1, <3>3
  <2> QED BY <1>1, <1>2, <2>1, <2>2, TextArrives
<1>4. HeardIsPast'
  BY <1>1, <1>3 DEF OrderInv, HeardIsPast, Writing
<1>5. NoticesInOrder'
  BY <1>3 DEF OrderInv, NoticesInOrder
<1>6. CopiedIsPast'
  BY <1>1 DEF OrderInv, CopiedIsPast, Writing
<1> QED BY <1>4, <1>5, <1>6 DEF OrderInv

\* The broadcasters but for the one that copies or sends.
LEMMA OrderCast ==
  ASSUME TypeInv, OrderInv, NEW b \in Broadcasters,
         \/ ApplyEvent \/ StartRefresh \/ RefreshStep
         \/ NotifyIdle(b) \/ EnterBroadcast(b) \/ SendNewline(b)
  PROVE  OrderInv'
<1>t. CastType /\ CacheType /\ NoticePartial /\ TypeInv'
  BY CastTypeStep DEF TypeInv, TypeOK
<1>1. UNCHANGED stream
  BY DEF ApplyEvent, StartRefresh, RefreshStep, RefreshUntil, NotifyIdle, EnterBroadcast,
     DecideBroadcast, SendNewline, NewlineThen, WriteNewline, sockVars
<1>2. \A p \in Parts : cache'[p] \in Nat /\ cache[p] <= cache'[p]
  <2>1. UNCHANGED cache \/ \E q : cache' = [cache EXCEPT ![q] = @ + 1]
    BY DEF ApplyEvent, StartRefresh, RefreshStep, RefreshUntil, NotifyIdle, EnterBroadcast,
       DecideBroadcast, SendNewline, NewlineThen, cacheVars
  <2>2. \A p \in Parts : cache[p] \in Nat
    BY StampsOf
  <2>3. \A p \in Parts : cache'[p] = cache[p] \/ cache'[p] = cache[p] + 1
    BY <1>t, <2>1 DEF CacheType
  <2> QED BY <2>2, <2>3
<1>3. ASSUME NEW a \in Broadcasters, Writing(a)'
      PROVE  \/ bdump'[a] = <<>> /\ bpc'[a] = "build"
             \/ Writing(a) /\ bdump'[a] = bdump[a] /\ (bpc'[a] # "build" => bpc[a] # "build")
  <2>1. CASE ApplyEvent \/ StartRefresh \/ RefreshStep \/ NotifyIdle(b)
    BY <1>t, <1>3, <2>1, ConstantsAssumption
       DEF ApplyEvent, StartRefresh, RefreshStep, RefreshUntil, NotifyIdle, Start, Writing,
           CastType
  <2>2. CASE EnterBroadcast(b)
    <3>1. /\ bpc[b] = "enter" /\ bdump' = bdump
          /\ bpc' = [bpc EXCEPT ![b] = "wait"] \/ bpc' = [bpc EXCEPT ![b] = "build"]
      BY <2>2 DEF EnterBroadcast, DecideBroadcast
    <3>2. bdump[b] = <<>>
      BY <1>t, <3>1 DEF NoticePartial
    <3> QED BY <1>t, <1>3, <3>1, <3>2 DEF Writing, CastType
  <2>3. CASE SendNewline(b)
    <3>1. /\ bpc[b] = "newline"
          /\ \/ bpc' = [bpc EXCEPT ![b] = "text"] /\ bdump' = bdump
             \/ bpc' = [bpc EXCEPT ![b] = "wait"] /\ bdump' = [bdump EXCEPT ![b] = <<>>]
      BY <2>3 DEF SendNewline, NewlineThen
    <3> QED BY <1>t, <1>3, <3>1 DEF Writing, CastType
  <2> QED BY <2>1, <2>2, <2>3
<1> QED BY <1>1, <1>2, <1>3, OrderFrame

LEMMA OrderStep == TypeInv /\ LoopInv /\ OrderInv /\ [Next]_vars => OrderInv'
<1> SUFFICES ASSUME TypeInv, LoopInv, OrderInv, [Next]_vars PROVE OrderInv'
  OBVIOUS
<1>1. ASSUME UNCHANGED <<stream, cache, bpc, bdump>> PROVE OrderInv'
  BY <1>1 DEF OrderInv, HeardIsPast, CopiedIsPast, NoticesInOrder, Writing
<1>2. CASE ApplyEvent \/ StartRefresh
  BY <1>2, OrderCast, ConstantsAssumption
<1>3. ASSUME NEW b \in Broadcasters, NotifyIdle(b) \/ CastStep(b) PROVE OrderInv'
  BY <1>3, OrderCast, OrderBuild, OrderSend DEF CastStep
<1>4. ASSUME NEW c \in Sessions,
             \/ Accept(c) \/ ReadSubscribe(c) \/ ReadCall(c) \/ ConnStep(c)
             \/ Stall(c) \/ HangUp(c)
      PROVE  OrderInv'
  <2>1. CASE ReplyText(c)
    BY <2>1, OrderReply
  <2>2. CASE ~ReplyText(c)
    <3>1. UNCHANGED <<stream, cache, bpc, bdump>>
      BY <1>4, <2>2
         DEF Accept, ReadSubscribe, ReadCall, ConnStep, AddClient, BuildDump, ReplyNewline,
             WriteNewline, ReadEof, RemoveClient, CloseFd, Stall, HangUp, cacheVars,
             castVars, sockVars
    <3> QED BY <1>1, <3>1
  <2> QED BY <2>1, <2>2
<1>5. CASE UNCHANGED vars
  BY <1>1, <1>5 DEF vars, cacheVars, castVars, sockVars
<1> QED BY <1>2, <1>3, <1>4, <1>5 DEF Next, Finished

\* Whatever the clients do and however many threads broadcast, a connection never hears
\* an older list after a newer one.
THEOREM NoticesStayInOrder == Spec => []NoticesInOrder
<1>1. Spec => []OrderInv
  BY OrderInit, OrderStep, TypeInvariant, LoopInvariant, PTL DEF Spec
<1>2. OrderInv => NoticesInOrder
  BY DEF OrderInv
<1> QED BY <1>1, <1>2, PTL

-----------------------------------------------------------------------------
(* The members *)

IsMember(c) == joinedAt[c] # NotMember

\* A connection thread leaves its loop only when the client has hung up.
LeavingGone ==
  \A c \in Sessions : pc[c] \in {"removing", "closing", "closed"} => client[c] = "gone"

AbsentFirst == \A c \in Sessions : pc[c] = "none" <=> client[c] = "absent"

MemberPast == \A c \in Sessions : IsMember(c) => pc[c] # "none"

\* A member stays in the table until its thread takes it out, also when the descriptor
\* is listed more than once.
MembersListed ==
  \A c \in Sessions : IsMember(c) /\ pc[c] \notin {"closing", "closed"} => fd[c] \in Listed

\* A line is unfinished only while the thread answers.
HalfOnly == \A c \in Sessions : half[c] => pc[c] \in {"State.Dump", "subscribed", "reply"}

MemberInv ==
  FdsDistinct /\ LeavingGone /\ AbsentFirst /\ MemberPast /\ MembersListed /\ HalfOnly

LEMMA MemberInit == Init => MemberInv
BY DEF Init, MemberInv, FdsDistinct, LeavingGone, AbsentFirst, MemberPast, MembersListed,
       HalfOnly, IsMember, IsOpen

\* Without takes one entry out and loses none of the others.
LEMMA WithoutKeeps ==
  ASSUME NEW s \in Seq(Fds), NEW f, \E i \in DOMAIN s : s[i] = f,
         NEW k \in DOMAIN s, s[k] # f
  PROVE  \E i \in DOMAIN Without(s, f) : Without(s, f)[i] = s[k]
<1> DEFINE T == {i \in DOMAIN s : s[i] = f}
<1>1. DOMAIN s = 1 .. Len(s) /\ Len(s) \in Nat
  OBVIOUS
<1>2. PICK x \in T : \A y \in T : x <= y
  <2>1. T \in SUBSET Nat /\ T # {}
    BY <1>1
  <2> QED BY <2>1, SmallestNumber
<1>3. \A j \in 1 .. x - 1 : s[j] # f
  BY <1>1, <1>2
<1>4. FirstIndex(s, f) \in DOMAIN s /\ s[FirstIndex(s, f)] = f
  BY <1>2, <1>3 DEF FirstIndex
<1>n. PICK n \in DOMAIN s : n = FirstIndex(s, f) /\ s[n] = f
  BY <1>4
<1>5. n \in 1 .. Len(s) /\ k \in 1 .. Len(s) /\ k # n
  BY <1>1, <1>n
<1>6. /\ DOMAIN Without(s, f) = 1 .. Len(s) - 1
      /\ \A i \in 1 .. Len(s) - 1 : Without(s, f)[i] = IF i = n THEN s[Len(s)] ELSE s[i]
  BY <1>n DEF Without
<1>7. CASE k = Len(s)
  <2>1. n \in 1 .. Len(s) - 1
    BY <1>1, <1>5, <1>7
  <2>2. Without(s, f)[n] = s[Len(s)]
    BY <1>6, <2>1, Zenon
  <2> QED BY <1>6, <1>7, <2>1, <2>2
<1>8. CASE k # Len(s)
  <2>1. k \in 1 .. Len(s) - 1
    BY <1>1, <1>5, <1>8
  <2>2. Without(s, f)[k] = s[k]
    BY <1>5, <1>6, <2>1, Zenon
  <2> QED BY <1>6, <2>1, <2>2
<1> QED BY <1>7, <1>8

\* A step of a broadcaster leaves alone what makes a connection a member.
LEMMA CastKeepsMembers ==
  ASSUME NEW b \in Broadcasters,
         \/ ApplyEvent \/ StartRefresh \/ NotifyIdle(b) \/ CastStep(b)
  PROVE  UNCHANGED <<client_fds, pc, fd, half, sdump, client, asked, joinedAt>>
BY DEF ApplyEvent, StartRefresh, NotifyIdle, CastStep, RefreshStep, RefreshUntil,
   EnterBroadcast, DecideBroadcast, BuildNotice, SendText, SendNewline, NewlineThen,
   tableVars, connVars, clientVars, histVars

LEMMA MemberFrame ==
  ASSUME MemberInv, UNCHANGED <<client_fds, pc, fd, half, client, joinedAt>>
  PROVE  MemberInv'
BY DEF MemberInv, FdsDistinct, LeavingGone, AbsentFirst, MemberPast, MembersListed, HalfOnly,
   IsMember, Listed, IsOpen

LEMMA MemberStep ==
  ASSUME TypeInv, MemberInv, [Next]_vars
  PROVE  MemberInv'
<1> USE ConstantsAssumption
<1>t. /\ client_fds \in Seq(Fds)
      /\ ConnType /\ ClientType /\ HistType
  BY DEF TypeInv, TypeOK, TableType
<1>1. ASSUME NEW b \in Broadcasters,
             \/ ApplyEvent \/ StartRefresh \/ NotifyIdle(b) \/ CastStep(b)
      PROVE  MemberInv'
  BY <1>1, CastKeepsMembers, MemberFrame
<1>2. ASSUME NEW c \in Sessions, Accept(c) PROVE MemberInv'
  <2>1. /\ pc[c] = "none" /\ pc' = [pc EXCEPT ![c] = "reading"]
        /\ client' = [client EXCEPT ![c] = "reading"]
        /\ UNCHANGED <<client_fds, half, joinedAt>>
        /\ \A d \in Sessions \ {c} : fd'[d] = fd[d]
    BY <1>2, <1>t DEF Accept, Goto, tableVars, histVars, ConnType
  <2>2. ~IsMember(c)
    BY <2>1 DEF MemberInv, MemberPast
  <2>3. LeavingGone' /\ AbsentFirst' /\ MemberPast'
    BY <2>1, <2>2, <1>t
       DEF MemberInv, LeavingGone, AbsentFirst, MemberPast, IsMember, ConnType, ClientType
  <2>4. MembersListed'
    BY <2>1, <2>2, <1>t DEF MemberInv, MembersListed, IsMember, Listed, ConnType
  <2>5. HalfOnly'
    BY <2>1, <1>t DEF MemberInv, HalfOnly, ConnType
  <2>6. PICK f \in FreeFds : fd' = [fd EXCEPT ![c] = f]
    BY <1>2 DEF Accept
  <2>7. FdsDistinct'
    BY <2>1, <2>6, <1>t DEF FreeFds, MemberInv, FdsDistinct, IsOpen, ConnType
  <2> QED BY <2>3, <2>4, <2>5, <2>7 DEF MemberInv
<1>3. ASSUME NEW c \in Sessions, ReadSubscribe(c) \/ ReadCall(c) PROVE MemberInv'
  <2>1. /\ pc[c] = "reading"
        /\ UNCHANGED <<client_fds, fd, half, client, joinedAt>>
        /\ \E p \in {"adding", "reply"} : pc' = [pc EXCEPT ![c] = p]
    BY <1>3 DEF ReadSubscribe, ReadCall, Goto, tableVars, histVars
  <2>2. FdsDistinct' /\ LeavingGone' /\ AbsentFirst' /\ MemberPast'
    BY <2>1, <1>t DEF MemberInv, FdsDistinct, LeavingGone, AbsentFirst, MemberPast, IsMember,
       IsOpen, ConnType
  <2>3. MembersListed' /\ HalfOnly'
    BY <2>1, <1>t DEF MemberInv, MembersListed, HalfOnly, IsMember, Listed, ConnType
  <2> QED BY <2>2, <2>3 DEF MemberInv
<1>4. ASSUME NEW c \in Sessions, AddClient(c) PROVE MemberInv'
  <2>1. /\ pc[c] = "adding" /\ pc' = [pc EXCEPT ![c] = "dumping"]
        /\ UNCHANGED <<fd, half, client>>
        /\ \/ UNCHANGED <<client_fds, joinedAt>>
           \/ /\ client_fds' = Append(client_fds, fd[c])
              /\ \A d \in Sessions \ {c} : joinedAt'[d] = joinedAt[d]
    BY <1>4, <1>t DEF AddClient, Goto, ListFd, clientVars, HistType
  <2>2. fd[c] \in Fds
    BY <2>1 DEF TypeInv, OpenHaveFds, IsOpen
  <2>3. FdsDistinct' /\ LeavingGone' /\ AbsentFirst' /\ HalfOnly'
    BY <2>1, <1>t DEF MemberInv, FdsDistinct, LeavingGone, AbsentFirst, HalfOnly, IsOpen,
       ConnType
  <2>4. MemberPast'
    BY <2>1, <1>t DEF MemberInv, MemberPast, IsMember, ConnType
  <2>5. CASE UNCHANGED <<client_fds, joinedAt>>
    <3>1. MembersListed'
      BY <2>1, <2>5, <1>t DEF MemberInv, MembersListed, IsMember, Listed, ConnType
    <3> QED BY <2>3, <2>4, <3>1 DEF MemberInv
  <2>6. CASE /\ client_fds' = Append(client_fds, fd[c])
             /\ \A d \in Sessions \ {c} : joinedAt'[d] = joinedAt[d]
    <3>1. Listed' = Listed \cup {fd[c]}
      BY <2>2, <2>6, <1>t DEF Listed
    <3>2. MembersListed'
      BY <2>1, <2>6, <3>1, <1>t DEF MemberInv, MembersListed, IsMember, ConnType
    <3> QED BY <2>3, <2>4, <3>2 DEF MemberInv
  <2> QED BY <2>1, <2>5, <2>6
<1>5. ASSUME NEW c \in Sessions, BuildDump(c) PROVE MemberInv'
  <2>1. /\ pc[c] = "dumping"
        /\ pc' = [pc EXCEPT ![c] = "State.Dump"] \/ UNCHANGED pc
        /\ UNCHANGED <<client_fds, fd, half, client, joinedAt>>
    BY <1>5 DEF BuildDump, tableVars, clientVars, histVars
  <2> QED
    BY <2>1, <1>t DEF MemberInv, FdsDistinct, LeavingGone, AbsentFirst, MemberPast,
       MembersListed, HalfOnly, IsMember, Listed, IsOpen, ConnType
<1>6. ASSUME NEW c \in Sessions, ReplyText(c) PROVE MemberInv'
  <2>1. /\ pc[c] \in {"State.Dump", "subscribed", "reply"}
        /\ half' = [half EXCEPT ![c] = TRUE]
        /\ UNCHANGED <<client_fds, pc, fd, client, joinedAt>>
    BY <1>6 DEF ReplyText, tableVars, clientVars, histVars
  <2> QED
    BY <2>1, <1>t DEF MemberInv, FdsDistinct, LeavingGone, AbsentFirst, MemberPast,
       MembersListed, HalfOnly, IsMember, Listed, IsOpen, ConnType
<1>7. ASSUME NEW c \in Sessions, ReplyNewline(c) PROVE MemberInv'
  <2>1. /\ pc[c] \in {"State.Dump", "subscribed", "reply"}
        /\ half' = [half EXCEPT ![c] = FALSE]
        /\ \E p \in {"subscribed", "reply", "reading"} : pc' = [pc EXCEPT ![c] = p]
        /\ UNCHANGED <<client_fds, fd, client, joinedAt>>
    BY <1>7 DEF ReplyNewline, Goto, tableVars, clientVars, histVars
  <2>2. FdsDistinct' /\ LeavingGone' /\ AbsentFirst' /\ MemberPast'
    BY <2>1, <1>t DEF MemberInv, FdsDistinct, LeavingGone, AbsentFirst, MemberPast, IsMember,
       IsOpen, ConnType
  <2>3. MembersListed' /\ HalfOnly'
    BY <2>1, <1>t DEF MemberInv, MembersListed, HalfOnly, IsMember, Listed, ConnType
  <2> QED BY <2>2, <2>3 DEF MemberInv
<1>8. ASSUME NEW c \in Sessions, ReadEof(c) PROVE MemberInv'
  <2>1. /\ pc[c] = "reading" /\ client[c] = "gone"
        /\ pc' = [pc EXCEPT ![c] = "removing"]
        /\ UNCHANGED <<client_fds, fd, half, client, joinedAt>>
    BY <1>8 DEF ReadEof, Goto, tableVars, clientVars, histVars
  <2> QED
    BY <2>1, <1>t DEF MemberInv, FdsDistinct, LeavingGone, AbsentFirst, MemberPast,
       MembersListed, HalfOnly, IsMember, Listed, IsOpen, ConnType
<1>9. ASSUME NEW c \in Sessions, RemoveClient(c) PROVE MemberInv'
  <2>1. /\ pc[c] = "removing" /\ pc' = [pc EXCEPT ![c] = "closing"]
        /\ client_fds' = IF fd[c] \in Listed THEN Without(client_fds, fd[c]) ELSE client_fds
        /\ UNCHANGED <<fd, half, client, joinedAt>>
    BY <1>9 DEF RemoveClient, Goto, clientVars, histVars
  <2>2. FdsDistinct' /\ LeavingGone' /\ AbsentFirst' /\ MemberPast' /\ HalfOnly'
    BY <2>1, <1>t
       DEF MemberInv, FdsDistinct, LeavingGone, AbsentFirst, MemberPast, HalfOnly, IsMember,
           IsOpen, ConnType
  <2>3. ASSUME NEW f \in Listed, f # fd[c] PROVE f \in Listed'
    <3>1. CASE fd[c] \in Listed
      BY <2>1, <2>3, <3>1, <1>t, WithoutKeeps DEF Listed
    <3>2. CASE fd[c] \notin Listed
      BY <2>1, <3>2 DEF Listed
    <3> QED BY <3>1, <3>2
  <2>4. MembersListed'
    <3> SUFFICES ASSUME NEW d \in Sessions, IsMember(d)', pc'[d] \notin {"closing", "closed"}
                 PROVE  fd[d] \in Listed'
      BY <2>1 DEF MembersListed
    <3>1. d # c /\ IsMember(d) /\ pc[d] = pc'[d]
      BY <2>1, <1>t DEF IsMember, ConnType
    <3>2. IsOpen(d) /\ IsOpen(c)
      BY <2>1, <3>1 DEF IsOpen, MemberInv, MemberPast
    <3>3. fd[d] # fd[c]
      BY <3>1, <3>2 DEF MemberInv, FdsDistinct
    <3>4. fd[d] \in Listed
      BY <3>1 DEF MemberInv, MembersListed
    <3> QED BY <2>3, <3>3, <3>4
  <2> QED BY <2>2, <2>4 DEF MemberInv
<1>10. ASSUME NEW c \in Sessions, CloseFd(c) PROVE MemberInv'
  <2>1. /\ pc[c] = "closing" /\ pc' = [pc EXCEPT ![c] = "closed"]
        /\ \A d \in Sessions \ {c} : fd'[d] = fd[d]
        /\ UNCHANGED <<client_fds, half, client, joinedAt>>
    BY <1>10, <1>t DEF CloseFd, Goto, tableVars, clientVars, histVars, ConnType
  <2>2. FdsDistinct' /\ LeavingGone' /\ AbsentFirst' /\ MemberPast' /\ HalfOnly'
    BY <2>1, <1>t
       DEF MemberInv, FdsDistinct, LeavingGone, AbsentFirst, MemberPast, HalfOnly, IsMember,
           IsOpen, ConnType
  <2>3. MembersListed'
    BY <2>1, <1>t DEF MemberInv, MembersListed, IsMember, Listed, ConnType
  <2> QED BY <2>2, <2>3 DEF MemberInv
<1>11. ASSUME NEW c \in Sessions, Stall(c) \/ HangUp(c) PROVE MemberInv'
  <2>1. /\ client[c] \in {"reading", "stalled"}
        /\ \E k \in {"stalled", "gone"} : client' = [client EXCEPT ![c] = k]
        /\ client'[c] = "gone" \/ client[c] = "reading"
        /\ UNCHANGED <<client_fds, pc, fd, half, joinedAt>>
    BY <1>11, <1>t DEF Stall, HangUp, Online, tableVars, connVars, histVars, ClientType
  <2>2. LeavingGone' /\ AbsentFirst'
    BY <2>1, <1>t DEF MemberInv, LeavingGone, AbsentFirst, ClientType
  <2>3. FdsDistinct' /\ MemberPast' /\ MembersListed' /\ HalfOnly'
    BY <2>1 DEF MemberInv, FdsDistinct, MemberPast, MembersListed, HalfOnly, IsMember, Listed,
       IsOpen
  <2> QED BY <2>2, <2>3 DEF MemberInv
<1>12. CASE UNCHANGED vars
  BY <1>12, MemberFrame DEF vars, tableVars, connVars, clientVars, histVars
<1> QED
  BY <1>1, <1>2, <1>3, <1>4, <1>5, <1>6, <1>7, <1>8, <1>9, <1>10, <1>11, <1>12
     DEF Next, ConnStep, Finished

-----------------------------------------------------------------------------
(* The state the members have *)

\* Nothing that has reached a connection is taken back.
Grows(c) == \A i \in DOMAIN stream[c] : i \in DOMAIN stream'[c] /\ stream'[c][i] = stream[c][i]

LEMMA TextGrows ==
  ASSUME TypeInv, NEW f, NEW m \in Messages, WriteText(f, m), NEW c \in Sessions
  PROVE  /\ Grows(c)
         /\ Reaches(f, c) => \E i \in DOMAIN stream'[c] : stream'[c][i] = m
<1>1. stream[c] \in Seq(Messages)
  BY StreamOf
<1>2. CASE Reaches(f, c)
  <2>1. stream'[c] = Append(stream[c], m)
    BY <1>2, TextArrives
  <2>2. /\ DOMAIN stream[c] = 1 .. Len(stream[c]) /\ Len(stream[c]) \in Nat
        /\ DOMAIN stream'[c] = 1 .. Len(stream[c]) + 1
        /\ stream'[c][Len(stream[c]) + 1] = m
        /\ \A i \in DOMAIN stream[c] : stream'[c][i] = stream[c][i]
    BY <1>1, <2>1, AppendedMessage
  <2> QED BY <2>2 DEF Grows
<1>3. CASE ~Reaches(f, c)
  BY <1>3, TextArrives DEF Grows
<1> QED BY <1>2, <1>3

\* What the thread of a connection is about to write.
Answer(c) == Message(pc[c], IF pc[c] = "reply" THEN <<>> ELSE sdump[c])

LEMMA MessagesWritten ==
  ASSUME TypeInv
  PROVE  /\ \A b \in Broadcasters : Message("event", bdump[b]) \in Messages
         /\ \A c \in Sessions : pc[c] \in {"State.Dump", "subscribed", "reply"} => Answer(c) \in Messages
<1>1. <<>> \in Dumps
  BY ConstantsAssumption DEF Dumps
<1>2. \A b \in Broadcasters : bdump[b] \in Dumps
  BY DEF TypeInv, TypeOK, CastType
<1>3. \A c \in Sessions : sdump[c] \in Dumps
  BY DEF TypeInv, TypeOK, ConnType
<1> QED BY <1>1, <1>2, <1>3 DEF Answer, Message, Messages, Kinds

LEMMA StreamsGrow ==
  ASSUME TypeInv, [Next]_vars, NEW c \in Sessions
  PROVE  Grows(c)
<1>1. ASSUME UNCHANGED stream PROVE Grows(c)
  BY <1>1 DEF Grows
<1>2. ASSUME NEW b \in Broadcasters, SendText(b) PROVE Grows(c)
  BY <1>2, TextGrows, MessagesWritten DEF SendText
<1>3. ASSUME NEW b \in Broadcasters,
             \/ ApplyEvent \/ StartRefresh \/ NotifyIdle(b)
             \/ CastStep(b) /\ ~SendText(b)
      PROVE  Grows(c)
  BY <1>1, <1>3 DEF ApplyEvent, StartRefresh, NotifyIdle, CastStep, RefreshStep, RefreshUntil,
     EnterBroadcast, DecideBroadcast, BuildNotice, SendNewline, NewlineThen, WriteNewline,
     sockVars
<1>4. ASSUME NEW d \in Sessions, ReplyText(d) PROVE Grows(c)
  BY <1>4, TextGrows, MessagesWritten DEF ReplyText, Answer
<1>5. ASSUME NEW d \in Sessions,
             \/ Accept(d) \/ ReadSubscribe(d) \/ ReadCall(d)
             \/ ConnStep(d) /\ ~ReplyText(d)
             \/ Stall(d) \/ HangUp(d)
      PROVE  Grows(c)
  BY <1>1, <1>5 DEF Accept, ReadSubscribe, ReadCall, ConnStep, AddClient, BuildDump,
     ReplyNewline, WriteNewline, ReadEof, RemoveClient, CloseFd, Stall, HangUp, sockVars
<1>6. CASE UNCHANGED vars
  BY <1>1, <1>6 DEF vars, sockVars
<1> QED BY <1>2, <1>3, <1>4, <1>5, <1>6, ConstantsAssumption DEF Next, Finished

\* The connection has received the current state, or its thread is reading it and will
\* write it.
Current(c) ==
  \/ \E i \in DOMAIN stream[c] : stream[c][i].state = cache
  \/ pc[c] = "dumping" /\ \A p \in 1 .. Len(sdump[c]) : sdump[c][p] = cache[p]
  \/ pc[c] = "State.Dump" /\ ~half[c] /\ sdump[c] = cache

\* The write loop of b has written the text of its notification to c.
Served(b, c) ==
  \E k \in DOMAIN client_fds :
    /\ client_fds[k] = fd[c]
    /\ \/ bpc[b] = "text" /\ k < cursor[b]
       \/ bpc[b] = "newline" /\ k <= cursor[b]

UpToDate ==
  \A c \in Sessions :
    IsMember(c) /\ Online(c) /\ (bpc[Watcher] = "wait" \/ Served(Watcher, c)) => Current(c)

LEMMA UpToDateInit == Init => UpToDate
BY DEF Init, UpToDate, IsMember

LEMMA CurrentKept ==
  ASSUME NEW c \in Sessions, Current(c), Grows(c), UNCHANGED cache,
         \/ pc'[c] = pc[c] /\ half'[c] = half[c] /\ sdump'[c] = sdump[c]
         \/ pc[c] # "dumping" /\ (half[c] \/ pc[c] # "State.Dump")
  PROVE  Current(c)'
BY DEF Current, Grows

\* A member that is on the line is open and in the table.
LEMMA MemberOnline ==
  ASSUME MemberInv, NEW c \in Sessions, IsMember(c), Online(c)
  PROVE  IsOpen(c) /\ \E k \in DOMAIN client_fds : client_fds[k] = fd[c]
<1>1. pc[c] \notin {"none", "removing", "closing", "closed"}
  BY DEF MemberInv, MemberPast, LeavingGone, Online
<1> QED BY <1>1 DEF MemberInv, MembersListed, Listed, IsOpen

\* The steps of the broadcasters.
LEMMA UpToDateCast ==
  ASSUME TypeInv, LoopInv, MemberInv, OwnState, UpToDate, [Next]_vars, NEW b \in Broadcasters,
         \/ ApplyEvent \/ StartRefresh \/ NotifyIdle(b) \/ CastStep(b)
  PROVE  UpToDate'
<1> USE ConstantsAssumption
<1>t. CastType
  BY DEF TypeInv, TypeOK
<1>1. UNCHANGED <<client_fds, pc, fd, half, sdump, client, asked, joinedAt>>
  BY CastKeepsMembers
<1> SUFFICES ASSUME NEW c \in Sessions, IsMember(c), Online(c),
                    bpc'[Watcher] = "wait" \/ Served(Watcher, c)'
             PROVE  Current(c)'
  BY <1>1 DEF UpToDate, IsMember, Online
<1>2. Grows(c)
  BY StreamsGrow
<1>3. ASSUME UNCHANGED cache, bpc[Watcher] = "wait" \/ Served(Watcher, c) PROVE Current(c)'
  <2>1. Current(c)
    BY <1>3 DEF UpToDate
  <2> QED BY <1>1, <1>2, <1>3, <2>1, CurrentKept
<1>4. ~(ApplyEvent \/ StartRefresh \/ RefreshStep)
  <2> SUFFICES ASSUME ApplyEvent \/ StartRefresh \/ RefreshStep PROVE FALSE
    OBVIOUS
  <2>1. bpc'[Watcher] \in {"enter", "refresh"}
    BY <1>t DEF ApplyEvent, StartRefresh, RefreshStep, RefreshUntil, Start, CastType
  <2> QED BY <2>1 DEF Served
<1>5. UNCHANGED cache
  BY <1>4 DEF NotifyIdle, CastStep, EnterBroadcast, DecideBroadcast, BuildNotice, SendText,
     SendNewline, NewlineThen, cacheVars
<1>6. CASE b # Watcher
  <2>1. bpc'[Watcher] = bpc[Watcher] /\ cursor'[Watcher] = cursor[Watcher]
    BY <1>4, <1>6, <1>t
       DEF NotifyIdle, Start, CastStep, EnterBroadcast, DecideBroadcast, BuildNotice,
           SendText, SendNewline, NewlineThen, CastType
  <2>2. bpc[Watcher] = "wait" \/ Served(Watcher, c)
    BY <1>1, <2>1 DEF Served
  <2> QED BY <1>3, <1>5, <2>2
<1>7. CASE b = Watcher
  <2>1. CASE EnterBroadcast(b)
    <3>1. client_fds # <<>>
      BY MemberOnline
    <3>2. bpc'[Watcher] = "build"
      BY <1>7, <1>t, <2>1, <3>1 DEF EnterBroadcast, DecideBroadcast, CastType
    <3> QED BY <3>2 DEF Served
  <2>2. CASE BuildNotice(b)
    <3>1. \/ bpc'[Watcher] = "build"
          \/ bpc'[Watcher] = "text" /\ cursor'[Watcher] = 1
      BY <1>7, <1>t, <2>2 DEF BuildNotice, CastType
    <3>2. DOMAIN client_fds' \subseteq Nat \ {0}
      BY <1>1 DEF TypeInv, TypeOK, TableType
    <3> QED BY <3>1, <3>2 DEF Served
  <2>3. CASE SendText(b)
    <3>1. /\ bpc[Watcher] = "text" /\ bpc'[Watcher] = "newline"
          /\ UNCHANGED cursor
          /\ WriteText(client_fds[cursor[Watcher]], Message("event", bdump[Watcher]))
      BY <1>7, <1>t, <2>3 DEF SendText, CastType
    <3>2. PICK k \in DOMAIN client_fds : client_fds[k] = fd[c] /\ k <= cursor[Watcher]
      BY <1>1, <3>1 DEF Served
    <3>3. CASE k = cursor[Watcher]
      <4>1. Reaches(client_fds[cursor[Watcher]], c)
        BY <3>2, <3>3, MemberOnline DEF Reaches
      <4>2. Message("event", bdump[Watcher]) \in Messages
        BY MessagesWritten
      <4>3. PICK i \in DOMAIN stream'[c] : stream'[c][i] = Message("event", bdump[Watcher])
        BY <3>1, <4>1, <4>2, TextGrows
      <4>4. stream'[c][i].state = cache'
        BY <1>5, <3>1, <4>3 DEF OwnState, Message
      <4> QED BY <4>4 DEF Current
    <3>4. CASE k # cursor[Watcher]
      <4>1. k \in Nat /\ cursor[Watcher] \in Nat
        BY <1>t DEF CastType, TypeInv, TypeOK, TableType
      <4>2. k < cursor[Watcher]
        BY <3>2, <3>4, <4>1
      <4>3. Served(Watcher, c)
        BY <3>1, <3>2, <4>2 DEF Served
      <4> QED BY <1>3, <1>5, <4>3
    <3> QED BY <3>3, <3>4
  <2>4. CASE SendNewline(b)
    <3>1. /\ bpc[Watcher] = "newline"
          /\ \/ bpc'[Watcher] = "text" /\ cursor'[Watcher] = cursor[Watcher] + 1
             \/ bpc'[Watcher] = "wait" /\ ~(cursor[Watcher] < Len(client_fds))
      BY <1>7, <1>t, <2>4 DEF SendNewline, NewlineThen, CastType
    <3>2. DOMAIN client_fds = 1 .. Len(client_fds) /\ Len(client_fds) \in Nat /\ cursor[Watcher] \in Nat
      BY <1>t DEF CastType, TypeInv, TypeOK, TableType
    <3>3. CASE bpc'[Watcher] = "text" /\ cursor'[Watcher] = cursor[Watcher] + 1
      <4>1. PICK k \in DOMAIN client_fds : client_fds[k] = fd[c] /\ k < cursor[Watcher] + 1
        BY <1>1, <3>3 DEF Served
      <4>2. k <= cursor[Watcher]
        BY <3>2, <4>1
      <4> QED BY <1>3, <1>5, <3>1, <4>1, <4>2 DEF Served
    <3>4. CASE ~(cursor[Watcher] < Len(client_fds))
      <4>1. PICK k \in DOMAIN client_fds : client_fds[k] = fd[c]
        BY MemberOnline
      <4>2. k <= cursor[Watcher]
        BY <3>2, <3>4, <4>1
      <4> QED BY <1>3, <1>5, <3>1, <4>1, <4>2 DEF Served
    <3> QED BY <3>1, <3>3, <3>4
  <2>5. CASE NotifyIdle(b)
    BY <1>7, <2>5 DEF NotifyIdle
  <2> QED BY <1>4, <2>1, <2>2, <2>3, <2>4, <2>5 DEF CastStep
<1> QED BY <1>6, <1>7

\* The steps of the connections and of their clients.
LEMMA UpToDateConn ==
  ASSUME TypeInv, LoopInv, MemberInv, UpToDate, [Next]_vars, NEW d \in Sessions,
         \/ Accept(d) \/ ReadSubscribe(d) \/ ReadCall(d) \/ ConnStep(d)
         \/ Stall(d) \/ HangUp(d)
  PROVE  UpToDate'
<1> USE ConstantsAssumption
<1>t. ConnType /\ ClientType /\ HistType
  BY DEF TypeInv, TypeOK
<1>1. UNCHANGED <<cache, bpc, cursor>>
  BY DEF Accept, ReadSubscribe, ReadCall, ConnStep, AddClient, BuildDump, ReplyText,
     ReplyNewline, ReadEof, RemoveClient, CloseFd, Stall, HangUp, cacheVars, castVars
<1>2. bpc[Watcher] \in {"text", "newline"} => UNCHANGED client_fds
  <2>1. bpc[Watcher] \in {"text", "newline"} => clients_mu = Watcher /\ Watcher # None
    BY DEF LoopInv, MutexHeld
  <2>2. clients_mu = None \/ UNCHANGED client_fds
    BY DEF Accept, ReadSubscribe, ReadCall, ConnStep, AddClient, BuildDump, ReplyText,
       ReplyNewline, ReadEof, RemoveClient, CloseFd, Stall, HangUp, tableVars
  <2> QED BY <2>1, <2>2
<1> SUFFICES ASSUME NEW c \in Sessions, IsMember(c)', Online(c)',
                    bpc[Watcher] = "wait" \/ Served(Watcher, c)'
             PROVE  Current(c)'
  BY <1>1 DEF UpToDate
<1>3. Grows(c)
  BY StreamsGrow
\* The connection was a member before, and served.
<1>4. ASSUME IsMember(c), Online(c), fd'[c] = fd[c] PROVE Current(c)
  <2>1. bpc[Watcher] = "wait" \/ Served(Watcher, c)
    BY <1>1, <1>2, <1>4 DEF Served
  <2> QED BY <1>4, <2>1 DEF UpToDate
<1>5. CASE c # d
  <2>1. /\ pc'[c] = pc[c] /\ fd'[c] = fd[c] /\ half'[c] = half[c] /\ sdump'[c] = sdump[c]
        /\ client'[c] = client[c] /\ joinedAt'[c] = joinedAt[c]
    <3>1. CASE Accept(d) \/ ReadSubscribe(d) \/ ReadCall(d) \/ Stall(d) \/ HangUp(d)
      BY <1>5, <1>t, <3>1 DEF Accept, ReadSubscribe, ReadCall, Stall, HangUp, Goto, ConnType,
         ClientType, connVars, histVars
    <3>2. CASE AddClient(d) \/ BuildDump(d) \/ ReplyText(d)
      BY <1>5, <1>t, <3>2 DEF AddClient, ListFd, BuildDump, ReplyText, Goto, ConnType, HistType,
         clientVars, histVars
    <3>3. CASE ReplyNewline(d) \/ ReadEof(d) \/ RemoveClient(d) \/ CloseFd(d)
      BY <1>5, <1>t, <3>3 DEF ReplyNewline, ReadEof, RemoveClient, CloseFd, Goto, ConnType,
         clientVars, histVars
    <3> QED BY <3>1, <3>2, <3>3 DEF ConnStep
  <2>2. Current(c)
    BY <1>4, <2>1 DEF IsMember, Online
  <2> QED BY <1>1, <1>3, <2>1, <2>2, CurrentKept
<1>6. CASE c = d
  <2>1. CASE Accept(c)
    <3>1. ~IsMember(c)'
      BY <2>1 DEF Accept, Goto, histVars, IsMember, MemberInv, MemberPast
    <3> QED BY <3>1
  <2>2. CASE ReadSubscribe(c) \/ ReadCall(c)
    <3>1. /\ pc[c] = "reading"
          /\ UNCHANGED <<fd, client, joinedAt>>
      BY <2>2 DEF ReadSubscribe, ReadCall, Goto, histVars
    <3>2. Current(c)
      BY <1>4, <3>1 DEF IsMember, Online
    <3> QED BY <1>1, <1>3, <3>1, <3>2, CurrentKept
  <2>3. CASE AddClient(c)
    <3>1. pc[c] = "adding" /\ pc'[c] = "dumping" /\ UNCHANGED sdump
      BY <1>t, <2>3 DEF AddClient, Goto, ConnType
    <3>2. sdump'[c] = <<>>
      BY <3>1 DEF TypeInv, ReplyPartial
    <3> QED BY <3>1, <3>2 DEF Current
  <2>4. CASE BuildDump(c)
    <3> DEFINE n == Len(sdump[c])
    <3>1. /\ pc[c] = "dumping" /\ sdump'[c] = Append(sdump[c], cache[n + 1])
          /\ pc'[c] = IF Len(sdump'[c]) = PartCount THEN "State.Dump" ELSE pc[c]
          /\ UNCHANGED <<fd, half, client, joinedAt>>
      BY <1>t, <2>4 DEF BuildDump, ConnType, clientVars, histVars
    <3>2. ~half[c]
      BY <1>t, <3>1 DEF MemberInv, HalfOnly
    <3>3. sdump[c] \in Seq(Nat) /\ n \in Nat /\ n < PartCount
      BY <1>t, <3>1 DEF ConnType, Dumps, TypeInv, ReplyPartial
    <3>4. cache \in [1 .. PartCount -> Nat] /\ cache[n + 1] \in Nat
      BY <3>3 DEF TypeInv, TypeOK, CacheType, Parts
    <3>5. /\ sdump'[c] \in Seq(Nat) /\ Len(sdump'[c]) = n + 1
          /\ sdump'[c][n + 1] = cache[n + 1]
          /\ \A p \in 1 .. n : sdump'[c][p] = sdump[c][p]
      BY <3>1, <3>3, <3>4
    <3> HIDE DEF n
    <3>6. Current(c)
      BY <1>4, <3>1 DEF IsMember, Online
    <3>7. CASE \E i \in DOMAIN stream[c] : stream[c][i].state = cache
      BY <1>1, <1>3, <3>7 DEF Current, Grows
    <3>8. CASE \A p \in 1 .. n : sdump[c][p] = cache[p]
      <4>1. \A p \in 1 .. n + 1 : sdump'[c][p] = cache[p]
        BY <3>3, <3>5, <3>8
      <4>2. CASE n + 1 = PartCount
        <5>1. sdump'[c] = cache
          <6> DEFINE s == sdump'[c]
          <6>1. s = [p \in 1 .. Len(s) |-> s[p]] /\ cache = [p \in 1 .. PartCount |-> cache[p]]
            BY <3>4, <3>5
          <6>2. Len(s) = PartCount /\ \A p \in 1 .. PartCount : s[p] = cache[p]
            BY <3>5, <4>1, <4>2
          <6> HIDE DEF s
          <6>3. s = cache
            BY <6>1, <6>2
          <6> QED BY <6>3 DEF s
        <5>2. pc'[c] = "State.Dump" /\ ~half'[c] /\ sdump'[c] = cache'
          BY <1>1, <3>1, <3>2, <3>5, <4>2, <5>1
        <5> QED BY <5>2 DEF Current
      <4>3. CASE n + 1 # PartCount
        BY <1>1, <3>1, <3>5, <4>1, <4>3 DEF Current
      <4> QED BY <4>2, <4>3
    <3> QED BY <3>1, <3>6, <3>7, <3>8 DEF Current, n
  <2>5. CASE ReplyText(c)
    <3>1. /\ pc[c] \in {"State.Dump", "subscribed", "reply"}
          /\ WriteText(fd[c], Answer(c))
          /\ UNCHANGED <<pc, fd, sdump, client, joinedAt>>
      BY <2>5 DEF ReplyText, Answer, clientVars, histVars
    <3>2. Current(c)
      BY <1>4, <3>1 DEF IsMember, Online
    <3>3. CASE \E i \in DOMAIN stream[c] : stream[c][i].state = cache
      BY <1>1, <1>3, <3>3 DEF Current, Grows
    <3>4. CASE pc[c] = "State.Dump" /\ sdump[c] = cache
      <4>1. Reaches(fd[c], c)
        BY <3>1, MemberOnline DEF Reaches, IsMember, Online
      <4>2. PICK i \in DOMAIN stream'[c] : stream'[c][i] = Answer(c)
        BY <3>1, <4>1, TextGrows, MessagesWritten
      <4>3. stream'[c][i].state = cache
        BY <3>4, <4>2 DEF Answer, Message
      <4> QED BY <1>1, <4>3 DEF Current
    <3> QED BY <3>1, <3>2, <3>3, <3>4 DEF Current
  <2>6. CASE ReplyNewline(c)
    <3>1. /\ half[c] /\ pc[c] \in {"State.Dump", "subscribed", "reply"}
          /\ UNCHANGED <<fd, client, joinedAt>>
      BY <2>6 DEF ReplyNewline, Goto, clientVars, histVars
    <3>2. Current(c)
      BY <1>4, <3>1 DEF IsMember, Online
    <3> QED BY <1>1, <1>3, <3>1, <3>2, CurrentKept
  <2>7. CASE ReadEof(c) \/ RemoveClient(c) \/ CloseFd(c)
    <3>1. client[c] = "gone" /\ UNCHANGED client
      BY <2>7 DEF ReadEof, RemoveClient, CloseFd, Goto, clientVars, MemberInv, LeavingGone
    <3> QED BY <3>1 DEF Online
  <2>8. CASE Stall(c)
    <3>1. /\ client[c] = "reading"
          /\ UNCHANGED <<pc, fd, half, sdump, joinedAt>>
      BY <2>8 DEF Stall, connVars, histVars
    <3>2. Current(c)
      BY <1>4, <3>1 DEF IsMember, Online
    <3> QED BY <1>1, <1>3, <3>1, <3>2, CurrentKept
  <2>9. CASE HangUp(c)
    <3>1. client'[c] = "gone"
      BY <1>t, <2>9 DEF HangUp, ClientType
    <3> QED BY <3>1 DEF Online
  <2> QED BY <1>6, <2>1, <2>2, <2>3, <2>4, <2>5, <2>6, <2>7, <2>8, <2>9 DEF ConnStep
<1> QED BY <1>5, <1>6

LEMMA UpToDateStep ==
  TypeInv /\ LoopInv /\ MemberInv /\ OwnState /\ UpToDate /\ [Next]_vars => UpToDate'
<1> SUFFICES ASSUME TypeInv, LoopInv, MemberInv, OwnState, UpToDate, [Next]_vars
             PROVE  UpToDate'
  OBVIOUS
<1>1. ASSUME UNCHANGED vars PROVE UpToDate'
  <2>1. UNCHANGED <<client_fds, cache, bpc, cursor, pc, fd, half, sdump, client, stream, joinedAt>>
    BY <1>1 DEF vars, tableVars, cacheVars, castVars, connVars, clientVars, sockVars, histVars
  <2> QED BY <2>1 DEF UpToDate, IsMember, Online, Served, Current
<1>2. ASSUME NEW b \in Broadcasters,
             \/ ApplyEvent \/ StartRefresh \/ NotifyIdle(b) \/ CastStep(b)
      PROVE  UpToDate'
  BY <1>2, UpToDateCast
<1>3. ASSUME NEW c \in Sessions,
             \/ Accept(c) \/ ReadSubscribe(c) \/ ReadCall(c) \/ ConnStep(c)
             \/ Stall(c) \/ HangUp(c)
      PROVE  UpToDate'
  BY <1>3, UpToDateConn
<1> QED BY <1>1, <1>2, <1>3, ConstantsAssumption DEF Next, Finished

LEMMA MemberInvariant == Spec => []MemberInv
<1>1. TypeInv /\ MemberInv /\ [Next]_vars => MemberInv'
  BY MemberStep
<1> QED BY <1>1, MemberInit, TypeInvariant, PTL DEF Spec

\* A client that has subscribed and whose request is answered has the current state
\* whenever the watcher rests: no event falls between the subscription and the dump,
\* whatever the other threads do meanwhile, also when clients subscribe more than once.
THEOREM NoStateIsMissed == Spec => []NoMissedState
<1>1. Spec => []UpToDate
  BY UpToDateInit, UpToDateStep, MemberInvariant, TypeInvariant, LoopInvariant,
     OwnStateAlways, PTL DEF Spec
<1>2. UpToDate => NoMissedState
  BY DEF UpToDate, NoMissedState, IsMember, Current
<1> QED BY <1>1, <1>2, PTL

-----------------------------------------------------------------------------
(* The notifications of a stream *)

\* F gives the notifications among the first i messages of s, for i up to n.
Counts(s, F, n) ==
  F = [i \in 0 .. n |->
         IF i = 0 THEN <<>>
         ELSE IF s[i].kind = "event" THEN Append(F[i - 1], s[i]) ELSE F[i - 1]]

NoticesOf(s) == CHOOSE F : Counts(s, F, Len(s))

LEMMA NoticesByCount == \A s : Notices(s) = NoticesOf(s)[Len(s)]
BY DEF Notices, NoticesOf, Counts

LEMMA CountsAt ==
  ASSUME NEW s, NEW F, NEW n \in Nat, Counts(s, F, n)
  PROVE  /\ F[0] = <<>>
         /\ \A i \in 1 .. n :
              F[i] = IF s[i].kind = "event" THEN Append(F[i - 1], s[i]) ELSE F[i - 1]
<1> DEFINE Value(i) == IF i = 0 THEN <<>>
                       ELSE IF s[i].kind = "event" THEN Append(F[i - 1], s[i]) ELSE F[i - 1]
<1>1. F = [i \in 0 .. n |-> Value(i)]
  BY DEF Counts
<1> HIDE DEF Value
<1>2. \A i \in 0 .. n : F[i] = Value(i)
  BY <1>1
<1>3. 0 \in 0 .. n /\ \A i \in 1 .. n : i \in 0 .. n /\ i # 0
  OBVIOUS
<1> QED BY <1>2, <1>3 DEF Value

\* Two of them agree on what they both count.
LEMMA CountsAgree ==
  ASSUME NEW s, NEW F, NEW n \in Nat, Counts(s, F, n),
         NEW t, NEW G, NEW k \in Nat, Counts(t, G, k), n <= k,
         \A i \in 1 .. n : s[i] = t[i],
         NEW j \in 0 .. n
  PROVE  F[j] = G[j]
<1> SUFFICES ASSUME F[j] # G[j] PROVE FALSE
  OBVIOUS
<1> DEFINE T == {i \in 0 .. n : F[i] # G[i]}
<1>1. T \in SUBSET Nat /\ T # {}
  OBVIOUS
<1>2. PICK i \in T : \A y \in T : i <= y
  BY <1>1, SmallestNumber
<1>3. i # 0
  BY CountsAt
<1>4. i - 1 \in 0 .. n /\ i - 1 \notin T
  BY <1>2, <1>3
<1>5. F[i - 1] = G[i - 1]
  BY <1>4
<1>6. i \in 1 .. n /\ i \in 1 .. k /\ s[i] = t[i]
  BY <1>3
<1>7. /\ F[i] = IF s[i].kind = "event" THEN Append(F[i - 1], s[i]) ELSE F[i - 1]
      /\ G[i] = IF t[i].kind = "event" THEN Append(G[i - 1], t[i]) ELSE G[i - 1]
  BY <1>6, CountsAt
<1> QED BY <1>5, <1>6, <1>7

\* There is one for every number of messages.
LEMMA CountsExist == \A s : \A n \in Nat : \E F : Counts(s, F, n)
<1> SUFFICES ASSUME NEW s, NEW n \in Nat, ~ \E F : Counts(s, F, n) PROVE FALSE
  OBVIOUS
<1> DEFINE T == {i \in Nat : ~ \E F : Counts(s, F, i)}
<1>1. T \in SUBSET Nat /\ T # {}
  OBVIOUS
<1>2. PICK i \in T : \A y \in T : i <= y
  BY <1>1, SmallestNumber
<1>3. i # 0
  <2>1. Counts(s, [j \in 0 .. 0 |-> <<>>], 0)
    BY DEF Counts
  <2> QED BY <2>1
<1>4. i - 1 \in Nat /\ i - 1 \notin T
  BY <1>2, <1>3
<1>5. PICK F : Counts(s, F, i - 1)
  BY <1>4
<1> DEFINE last == IF s[i].kind = "event" THEN Append(F[i - 1], s[i]) ELSE F[i - 1]
           G == [j \in 0 .. i |-> IF j = i THEN last ELSE F[j]]
<1>6. Counts(s, G, i)
  <2> SUFFICES ASSUME NEW j \in 0 .. i
               PROVE  G[j] = IF j = 0 THEN <<>>
                             ELSE IF s[j].kind = "event" THEN Append(G[j - 1], s[j]) ELSE G[j - 1]
    BY DEF Counts
  <2>1. CASE j = i
    <3>1. j # 0 /\ G[j] = last /\ G[j - 1] = F[i - 1]
      BY <1>3, <2>1
    <3> QED BY <2>1, <3>1
  <2>2. CASE j # i
    <3>1. j \in 0 .. i - 1 /\ G[j] = F[j] /\ (j # 0 => G[j - 1] = F[j - 1])
      BY <2>2
    <3>2. F[j] = IF j = 0 THEN <<>>
                 ELSE IF s[j].kind = "event" THEN Append(F[j - 1], s[j]) ELSE F[j - 1]
      BY <1>5, <3>1 DEF Counts
    <3> QED BY <3>1, <3>2
  <2> QED BY <2>1, <2>2
<1> QED BY <1>6

LEMMA CountsChosen == ASSUME NEW s, Len(s) \in Nat PROVE Counts(s, NoticesOf(s), Len(s))
BY CountsExist DEF NoticesOf

\* Without messages there are no notifications; one more message is one more notification
\* or none.
LEMMA NoticesEmpty == Notices(<<>>) = <<>>
<1>1. Counts(<<>>, NoticesOf(<<>>), 0)
  BY CountsChosen
<1>2. NoticesOf(<<>>)[0] = <<>>
  BY <1>1, CountsAt
<1> QED BY <1>2, NoticesByCount

LEMMA NoticesAppend ==
  ASSUME NEW s \in Seq(Messages), NEW m \in Messages
  PROVE  Notices(Append(s, m)) = IF m.kind = "event" THEN Append(Notices(s), m) ELSE Notices(s)
<1> DEFINE t == Append(s, m)
           n == Len(s)
           k == Len(t)
           F == NoticesOf(s)
           G == NoticesOf(t)
<1>1. /\ n \in Nat /\ k \in Nat /\ k \in 1 .. k /\ k - 1 = n /\ n <= k
      /\ t[k] = m
      /\ \A i \in 1 .. n : s[i] = t[i]
  OBVIOUS
<1> HIDE DEF t
<1>2. Counts(s, F, n) /\ Counts(t, G, k)
  BY <1>1, CountsChosen
<1>3. Notices(s) = F[n] /\ Notices(t) = G[k]
  BY NoticesByCount
<1> HIDE DEF n, k, F, G
<1>4. F[n] = G[n]
  BY <1>1, <1>2, CountsAgree
<1>5. \A i \in 1 .. k : G[i] = IF t[i].kind = "event" THEN Append(G[i - 1], t[i]) ELSE G[i - 1]
  BY <1>1, <1>2, CountsAt
<1>6. G[k] = IF t[k].kind = "event" THEN Append(G[k - 1], t[k]) ELSE G[k - 1]
  BY <1>1, <1>5, Zenon
<1>7. G[k] = IF m.kind = "event" THEN Append(F[n], m) ELSE F[n]
  BY <1>1, <1>4, <1>6, Zenon
<1> QED BY <1>3, <1>7, Zenon DEF t

\* The notifications are a sequence of messages.
LEMMA NoticesType == ASSUME NEW s \in Seq(Messages) PROVE Notices(s) \in Seq(Messages)
<1> SUFFICES ASSUME Notices(s) \notin Seq(Messages) PROVE FALSE
  OBVIOUS
<1> DEFINE n == Len(s)
           F == NoticesOf(s)
           T == {i \in 0 .. n : F[i] \notin Seq(Messages)}
<1>1. n \in Nat /\ Counts(s, F, n) /\ Notices(s) = F[n]
  BY CountsChosen, NoticesByCount
<1> HIDE DEF n, F
<1>2. T \in SUBSET Nat /\ T # {}
  BY <1>1
<1>3. PICK i \in T : \A y \in T : i <= y
  BY <1>2, SmallestNumber
<1>4. i # 0
  <2>1. F[0] = <<>> /\ <<>> \in Seq(Messages)
    BY <1>1, CountsAt
  <2> QED BY <2>1
<1>5. i - 1 \in 0 .. n /\ i - 1 \notin T
  BY <1>1, <1>3, <1>4
<1>6. F[i - 1] \in Seq(Messages)
  BY <1>5
<1>7. i \in 1 .. n /\ s[i] \in Messages
  BY <1>1, <1>4 DEF n
<1>8. F[i] = IF s[i].kind = "event" THEN Append(F[i - 1], s[i]) ELSE F[i - 1]
  BY <1>1, <1>7, CountsAt
<1>9. Append(F[i - 1], s[i]) \in Seq(Messages)
  BY <1>6, <1>7
<1> QED BY <1>6, <1>8, <1>9

-----------------------------------------------------------------------------
(* What the members have heard *)

Sending(b) == bpc[b] \in {"text", "newline"}

\* Some broadcaster has published a notification that it has not written to c yet.
Missing(c) == \E b \in Broadcasters : Sending(b) /\ ~Served(b, c)

\* A member on the line has heard all that was published since it joined, but for the
\* notification that is being sent.
HeardCount ==
  \A c \in Sessions :
    /\ ~IsMember(c) => Heard(c) = <<>>
    /\ IsMember(c) /\ Online(c) =>
         joinedAt[c] + Len(Heard(c)) = IF Missing(c) THEN Len(published) - 1 ELSE Len(published)

LastPublished ==
  \A b \in Broadcasters : Sending(b) =>
    published # <<>> /\ published[Len(published)] = Message("event", bdump[b])

FeedInv == HeardCount /\ LastPublished

LEMMA FeedInvInit == Init => FeedInv
<1> SUFFICES ASSUME Init PROVE FeedInv
  OBVIOUS
<1>1. LastPublished
  BY DEF Init, LastPublished, Sending
<1>2. \A c \in Sessions : ~IsMember(c) /\ stream[c] = <<>>
  BY DEF Init, IsMember
<1>3. HeardCount
  BY <1>2, NoticesEmpty DEF HeardCount, Heard
<1> QED BY <1>1, <1>3 DEF FeedInv

\* A client that subscribes once per connection is not a member when it enters the table.
JoinsOnce == \A c \in Sessions : pc[c] = "adding" => ~IsMember(c)

LEMMA JoinsStep ==
  ASSUME MaxSubscribes <= 1, TypeInv, TableInv, JoinsOnce, [Next]_vars
  PROVE  JoinsOnce'
<1>t. ConnType /\ ClientType /\ HistType
  BY DEF TypeInv, TypeOK
<1>1. ASSUME UNCHANGED <<pc, joinedAt>> PROVE JoinsOnce'
  BY <1>1 DEF JoinsOnce, IsMember
<1>2. ASSUME NEW b \in Broadcasters,
             \/ ApplyEvent \/ StartRefresh \/ NotifyIdle(b) \/ CastStep(b)
      PROVE  JoinsOnce'
  BY <1>1, <1>2, CastKeepsMembers
<1>3. ASSUME NEW c \in Sessions, ReadSubscribe(c) PROVE JoinsOnce'
  <2>1. /\ asked[c].subscribe < MaxSubscribes
        /\ pc' = [pc EXCEPT ![c] = "adding"] /\ UNCHANGED joinedAt
    BY <1>3 DEF ReadSubscribe, Goto, histVars
  <2>2. asked[c].subscribe \in Nat /\ MaxSubscribes \in Nat
    BY <1>t, ConstantsAssumption DEF ClientType
  <2>3. ~IsMember(c)
    BY <2>1, <2>2 DEF TableInv, AskedFirst, IsMember
  <2> QED BY <2>1, <2>3, <1>t DEF JoinsOnce, IsMember, ConnType
<1>4. ASSUME NEW c \in Sessions, AddClient(c) PROVE JoinsOnce'
  <2>1. /\ pc' = [pc EXCEPT ![c] = "dumping"]
        /\ \A d \in Sessions \ {c} : joinedAt'[d] = joinedAt[d]
    BY <1>4, <1>t DEF AddClient, Goto, ListFd, HistType
  <2> QED BY <2>1, <1>t DEF JoinsOnce, IsMember, ConnType
<1>5. ASSUME NEW c \in Sessions,
             \/ Accept(c) \/ ReadCall(c)
             \/ /\ ConnStep(c)
                /\ ~AddClient(c)
             \/ Stall(c) \/ HangUp(c)
      PROVE  JoinsOnce'
  <2>1. UNCHANGED joinedAt
    BY <1>5 DEF Accept, ReadCall, ConnStep, BuildDump, ReplyText, ReplyNewline, ReadEof,
       RemoveClient, CloseFd, Stall, HangUp, histVars
  <2>2. \/ UNCHANGED pc
        \/ \E p \in {"reading", "reply", "State.Dump", "subscribed", "removing", "closing", "closed"} :
             pc' = [pc EXCEPT ![c] = p]
    BY <1>5 DEF Accept, ReadCall, ConnStep, BuildDump, ReplyText, ReplyNewline, ReadEof,
       RemoveClient, CloseFd, Stall, HangUp, Goto, connVars
  <2> QED BY <2>1, <2>2, <1>t DEF JoinsOnce, IsMember, ConnType
<1>6. CASE UNCHANGED vars
  BY <1>1, <1>6 DEF vars, connVars, histVars
<1> QED
  BY <1>2, <1>3, <1>4, <1>5, <1>6, ConstantsAssumption DEF Next, Finished

LEMMA JoinsInvariant == ASSUME MaxSubscribes <= 1 PROVE Spec => [](TableInv /\ JoinsOnce)
<1>1. Init => JoinsOnce
  BY DEF Init, JoinsOnce
<1>2. TypeInv /\ TableInv /\ [Next]_vars => TableInv'
  BY TableStep
<1>3. TypeInv /\ TableInv /\ JoinsOnce /\ [Next]_vars => JoinsOnce'
  BY JoinsStep
<1>4. Spec => []TableInv
  BY <1>2, TableInit, TypeInvariant, PTL DEF Spec
<1> QED BY <1>1, <1>3, <1>4, TypeInvariant, PTL DEF Spec

\* Only one broadcaster sends at a time.
LEMMA OneSends ==
  ASSUME LoopInv, NEW a \in Broadcasters, NEW b \in Broadcasters, Writing(a), Writing(b)
  PROVE  a = b /\ clients_mu = a /\ clients_mu # None
BY ConstantsAssumption DEF LoopInv, MutexHeld, Writing

\* What a broadcaster writes arrives at one connection at most: a member that has not
\* heard it yet.
LEMMA SendArrives ==
  ASSUME TypeInv, LoopInv, TableInv, MemberInv, NEW b \in Broadcasters, Sending(b),
         NEW c \in Sessions, Reaches(client_fds[cursor[b]], c)
  PROVE  /\ IsMember(c) /\ Online(c)
         /\ \A d \in Sessions : Reaches(client_fds[cursor[b]], d) => d = c
         /\ bpc[b] = "text" => Missing(c)
<1>1. cursor[b] \in DOMAIN client_fds
  BY DEF LoopInv, LoopInTable, Sending
<1>2. IsOpen(c) /\ fd[c] = client_fds[cursor[b]] /\ Online(c)
  BY DEF Reaches
<1>3. PICK d \in Sessions : Owns(d, client_fds[cursor[b]])
  BY <1>1 DEF TableInv, EntriesOwned
<1>4. d = c /\ IsMember(c)
  BY <1>2, <1>3 DEF TableInv, FdsDistinct, Owns, IsOpen, IsMember
<1>5. \A e \in Sessions : Reaches(client_fds[cursor[b]], e) => e = c
  BY <1>2 DEF Reaches, TableInv, FdsDistinct
<1>6. bpc[b] = "text" => Missing(c)
  <2> SUFFICES ASSUME bpc[b] = "text", Served(b, c) PROVE FALSE
    BY DEF Missing
  <2>1. PICK k \in DOMAIN client_fds : client_fds[k] = fd[c] /\ k < cursor[b]
    BY DEF Served
  <2>2. k = cursor[b]
    BY <1>1, <1>2, <2>1 DEF TableInv, EntriesDistinct
  <2>3. k \in Nat
    BY DEF TypeInv, TypeOK, TableType
  <2> QED BY <2>1, <2>2, <2>3
<1> QED BY <1>2, <1>4, <1>5, <1>6

LEMMA HeardAfterText ==
  ASSUME TypeInv, NEW f, NEW m \in Messages, WriteText(f, m), NEW c \in Sessions
  PROVE  Heard(c)' = IF Reaches(f, c) /\ m.kind = "event" THEN Append(Heard(c), m) ELSE Heard(c)
<1>1. stream[c] \in Seq(Messages)
  BY StreamOf
<1>2. CASE Reaches(f, c)
  BY <1>1, <1>2, TextArrives, NoticesAppend DEF Heard
<1>3. CASE ~Reaches(f, c)
  BY <1>3, TextArrives DEF Heard
<1> QED BY <1>2, <1>3

\* Only a broadcaster makes a connection hear something.
LEMMA HeardOtherwise ==
  ASSUME TypeInv, [Next]_vars, \A b \in Broadcasters : ~SendText(b), NEW c \in Sessions
  PROVE  Heard(c)' = Heard(c)
<1>1. ASSUME UNCHANGED stream PROVE Heard(c)' = Heard(c)
  BY <1>1 DEF Heard
<1>2. ASSUME NEW b \in Broadcasters,
             \/ ApplyEvent \/ StartRefresh \/ NotifyIdle(b)
             \/ CastStep(b) /\ ~SendText(b)
      PROVE  Heard(c)' = Heard(c)
  BY <1>1, <1>2 DEF ApplyEvent, StartRefresh, NotifyIdle, CastStep, RefreshStep, RefreshUntil,
     EnterBroadcast, DecideBroadcast, BuildNotice, SendNewline, NewlineThen, WriteNewline,
     sockVars
<1>3. ASSUME NEW d \in Sessions, ReplyText(d) PROVE Heard(c)' = Heard(c)
  <2>1. WriteText(fd[d], Answer(d)) /\ pc[d] \in {"State.Dump", "subscribed", "reply"}
    BY <1>3 DEF ReplyText, Answer
  <2>2. Answer(d) \in Messages /\ Answer(d).kind # "event"
    BY <2>1, MessagesWritten DEF Answer, Message
  <2> QED BY <2>1, <2>2, HeardAfterText
<1>4. ASSUME NEW d \in Sessions,
             \/ Accept(d) \/ ReadSubscribe(d) \/ ReadCall(d)
             \/ ConnStep(d) /\ ~ReplyText(d)
             \/ Stall(d) \/ HangUp(d)
      PROVE  Heard(c)' = Heard(c)
  BY <1>1, <1>4 DEF Accept, ReadSubscribe, ReadCall, ConnStep, AddClient, BuildDump,
     ReplyNewline, WriteNewline, ReadEof, RemoveClient, CloseFd, Stall, HangUp, sockVars
<1>5. CASE UNCHANGED vars
  BY <1>1, <1>5 DEF vars, sockVars
<1> QED BY <1>2, <1>3, <1>4, <1>5, ConstantsAssumption DEF Next, Finished

\* A step that publishes nothing, after which everybody has heard what it had heard.
LEMMA FeedFrame ==
  ASSUME FeedInv, UNCHANGED <<published, joinedAt>>,
         \A c \in Sessions : Heard(c)' = Heard(c),
         \A c \in Sessions : IsMember(c) /\ Online(c)' => Online(c) /\ (Missing(c)' <=> Missing(c)),
         \A b \in Broadcasters : Sending(b)' => Sending(b) /\ bdump'[b] = bdump[b]
  PROVE  FeedInv'
<1>1. LastPublished'
  BY DEF FeedInv, LastPublished
<1>2. HeardCount'
  <2> SUFFICES ASSUME NEW c \in Sessions
               PROVE  /\ ~IsMember(c) => Heard(c) = <<>>
                      /\ IsMember(c) /\ Online(c)' =>
                           joinedAt[c] + Len(Heard(c)) =
                             IF Missing(c)' THEN Len(published) - 1 ELSE Len(published)
    BY DEF HeardCount, IsMember
  <2> QED BY DEF FeedInv, HeardCount
<1> QED BY <1>1, <1>2 DEF FeedInv

\* The notification is complete: nothing was being sent, so the members have heard the
\* notifications before it.
LEMMA FeedBuild ==
  ASSUME TypeInv, LoopInv, MemberInv, FeedInv, [Next]_vars,
         NEW b \in Broadcasters, BuildNotice(b)
  PROVE  /\ FeedInv'
         /\ UNCHANGED <<stream, joinedAt, client>>
         /\ \/ UNCHANGED published
            \/ /\ published' = Append(published, Message("event", bdump'[b]))
               /\ \A c \in Sessions : ~Missing(c)
<1>t. CastType
  BY DEF TypeInv, TypeOK
<1>1. /\ bpc[b] = "build" /\ UNCHANGED <<client_fds, fd, client, stream, joinedAt>>
      /\ \A a \in Broadcasters \ {b} :
           bpc'[a] = bpc[a] /\ bdump'[a] = bdump[a] /\ cursor'[a] = cursor[a]
  BY <1>t DEF BuildNotice, tableVars, connVars, clientVars, sockVars, CastType
<1>2. \A a \in Broadcasters : ~Sending(a)
  BY <1>1, OneSends DEF Sending, Writing
<1>3. \A c \in Sessions : ~Missing(c) /\ Heard(c)' = Heard(c)
  BY <1>1, <1>2 DEF Missing, Heard
<1>4. \A a \in Broadcasters : Sending(a)' => a = b
  BY <1>1, <1>2 DEF Sending
<1>5. CASE UNCHANGED <<bpc, published>>
  <2>1. \A a \in Broadcasters : ~Sending(a)'
    BY <1>2, <1>5 DEF Sending
  <2>2. \A c \in Sessions : ~Missing(c)'
    BY <2>1 DEF Missing
  <2>3. FeedInv'
    BY <1>1, <1>3, <1>5, <2>1, <2>2, FeedFrame DEF Online
  <2> QED BY <1>1, <1>5, <2>3
<1>6. CASE /\ bpc' = [bpc EXCEPT ![b] = "text"] /\ cursor' = [cursor EXCEPT ![b] = 1]
           /\ published' = Append(published, Message("event", bdump'[b]))
  <2>1. bpc'[b] = "text" /\ cursor'[b] = 1 /\ Sending(b)'
    BY <1>6, <1>t DEF CastType, Sending
  <2>2. published \in Seq(Messages) /\ Len(published) \in Nat
    BY DEF TypeInv, TypeOK, HistType
  <2>3. bdump'[b] \in Dumps
    BY CastTypeStep DEF TypeInv, TypeOK, CastType
  <2>4. /\ Len(published') = Len(published) + 1 /\ published' # <<>>
        /\ published'[Len(published')] = Message("event", bdump'[b])
    <3>1. Message("event", bdump'[b]) \in Messages
      BY <2>3 DEF Message, Messages, Kinds
    <3> QED BY <1>6, <2>2, <3>1
  <2>5. \A c \in Sessions : Missing(c)'
    <3>1. DOMAIN client_fds' \subseteq Nat \ {0}
      BY <1>1 DEF TypeInv, TypeOK, TableType
    <3>2. \A c \in Sessions : ~Served(b, c)'
      BY <2>1, <3>1 DEF Served
    <3> QED BY <2>1, <3>2 DEF Missing
  <2>6. HeardCount'
    <3> SUFFICES ASSUME NEW c \in Sessions
                 PROVE  /\ ~IsMember(c) => Heard(c)' = <<>>
                        /\ IsMember(c) /\ Online(c) =>
                             joinedAt[c] + Len(Heard(c)') = Len(published') - 1
      BY <1>1, <2>5 DEF HeardCount, IsMember, Online
    <3> QED BY <1>3, <2>2, <2>4 DEF FeedInv, HeardCount
  <2>7. LastPublished'
    BY <1>4, <2>4 DEF LastPublished
  <2> QED BY <1>1, <1>3, <1>6, <2>6, <2>7 DEF FeedInv
<1> QED BY <1>5, <1>6 DEF BuildNotice

\* The notification is written to one connection, which has now heard it.
LEMMA FeedSend ==
  ASSUME TypeInv, LoopInv, TableInv, MemberInv, FeedInv, NEW b \in Broadcasters, SendText(b)
  PROVE  FeedInv'
<1> DEFINE m == Message("event", bdump[b])
           f == client_fds[cursor[b]]
<1>t. CastType
  BY DEF TypeInv, TypeOK
<1>1. /\ bpc[b] = "text" /\ bpc'[b] = "newline"
      /\ \A a \in Broadcasters \ {b} : bpc'[a] = bpc[a]
      /\ UNCHANGED <<client_fds, bdump, cursor, fd, client, published, joinedAt>>
      /\ WriteText(f, m)
  BY <1>t DEF SendText, tableVars, connVars, clientVars, histVars, CastType
<1>2. m \in Messages /\ m.kind = "event"
  BY MessagesWritten DEF Message
<1>3. Sending(b) /\ Sending(b)' /\ \A a \in Broadcasters : Sending(a) => a = b
  BY <1>1, OneSends DEF Sending, Writing
<1>4. \A a \in Broadcasters : Sending(a)' => a = b
  BY <1>1, <1>3 DEF Sending
<1>5. LastPublished'
  BY <1>1, <1>3, <1>4 DEF FeedInv, LastPublished
<1>6. cursor[b] \in Nat /\ DOMAIN client_fds \subseteq Nat /\ cursor[b] \in DOMAIN client_fds
  BY <1>1, <1>t DEF CastType, TypeInv, TypeOK, TableType, LoopInv, LoopInTable
<1>7. ASSUME NEW c \in Sessions, ~Reaches(f, c), IsMember(c), Online(c)
      PROVE  Missing(c)' <=> Missing(c)
  <2>1. fd[c] # f
    BY <1>7, MemberOnline DEF Reaches
  <2>2. Served(b, c)' <=> Served(b, c)
    <3>1. \A k \in DOMAIN client_fds : client_fds[k] = fd[c] =>
            (k < cursor[b] <=> k <= cursor[b])
      BY <1>6, <2>1
    <3> QED BY <1>1, <3>1 DEF Served
  <2> QED BY <1>3, <1>4, <2>2 DEF Missing
<1>8. ASSUME NEW c \in Sessions, Reaches(f, c) PROVE ~Missing(c)'
  <2>1. Served(b, c)'
    BY <1>1, <1>6, <1>8 DEF Served, Reaches
  <2> QED BY <1>4, <2>1 DEF Missing
<1>9. HeardCount'
  <2> SUFFICES ASSUME NEW c \in Sessions
               PROVE  /\ ~IsMember(c) => Heard(c)' = <<>>
                      /\ IsMember(c) /\ Online(c) =>
                           joinedAt[c] + Len(Heard(c)') =
                             IF Missing(c)' THEN Len(published) - 1 ELSE Len(published)
    BY <1>1 DEF HeardCount, IsMember, Online
  <2>1. CASE Reaches(f, c)
    <3>1. IsMember(c) /\ Online(c) /\ Missing(c)
      BY <1>1, <1>3, <2>1, SendArrives
    <3>2. joinedAt[c] + Len(Heard(c)) = Len(published) - 1
      BY <3>1 DEF FeedInv, HeardCount
    <3>3. Heard(c) \in Seq(Messages)
      BY StreamOf, NoticesType DEF Heard
    <3>4. Heard(c)' = Append(Heard(c), m)
      BY <1>1, <1>2, <2>1, HeardAfterText
    <3>5. Len(Heard(c)') = Len(Heard(c)) + 1
      BY <1>2, <3>3, <3>4
    <3>6. joinedAt[c] \in Int /\ Len(Heard(c)) \in Nat /\ Len(published) \in Nat
      BY <3>3 DEF TypeInv, TypeOK, HistType, NotMember
    <3>7. joinedAt[c] + Len(Heard(c)') = Len(published)
      BY <3>2, <3>5, <3>6
    <3> QED BY <1>8, <2>1, <3>1, <3>7
  <2>2. CASE ~Reaches(f, c)
    <3>1. Heard(c)' = Heard(c)
      BY <1>1, <1>2, <2>2, HeardAfterText
    <3> QED BY <1>7, <2>2, <3>1 DEF FeedInv, HeardCount
  <2> QED BY <2>1, <2>2
<1> QED BY <1>5, <1>9 DEF FeedInv

\* The newline, and the next connection or the end: nobody was left out.
LEMMA FeedNewline ==
  ASSUME TypeInv, LoopInv, TableInv, MemberInv, FeedInv, [Next]_vars,
         NEW b \in Broadcasters, SendNewline(b)
  PROVE  FeedInv'
<1>t. CastType
  BY DEF TypeInv, TypeOK
<1>1. /\ bpc[b] = "newline"
      /\ UNCHANGED <<client_fds, fd, client, stream, published, joinedAt>>
      /\ \A a \in Broadcasters \ {b} : bpc'[a] = bpc[a]
      /\ \/ /\ bpc'[b] = "text" /\ cursor'[b] = cursor[b] + 1
            /\ bdump'[b] = bdump[b]
         \/ bpc'[b] = "wait" /\ ~(cursor[b] < Len(client_fds))
  BY <1>t DEF SendNewline, NewlineThen, WriteNewline, connVars, clientVars, histVars, CastType
<1>2. Sending(b) /\ \A a \in Broadcasters : Sending(a) => a = b
  BY <1>1, OneSends DEF Sending, Writing
<1>3. \A a \in Broadcasters : Sending(a)' => a = b
  BY <1>1, <1>2 DEF Sending
<1>4. /\ DOMAIN client_fds = 1 .. Len(client_fds) /\ Len(client_fds) \in Nat
      /\ cursor[b] \in Nat
  BY <1>t DEF CastType, TypeInv, TypeOK, TableType
<1>5. \A c \in Sessions : Heard(c)' = Heard(c)
  BY <1>1 DEF Heard
<1>6. CASE bpc'[b] = "text" /\ cursor'[b] = cursor[b] + 1 /\ bdump'[b] = bdump[b]
  <2>1. \A c \in Sessions : Served(b, c)' <=> Served(b, c)
    <3>1. \A k \in DOMAIN client_fds : k < cursor[b] + 1 <=> k <= cursor[b]
      BY <1>4
    <3> QED BY <1>1, <1>6, <3>1 DEF Served
  <2>2. Sending(b)'
    BY <1>6 DEF Sending
  <2>3. \A c \in Sessions : Missing(c)' <=> Missing(c)
    BY <1>2, <1>3, <2>1, <2>2 DEF Missing
  <2> QED BY <1>1, <1>2, <1>3, <1>5, <1>6, <2>3, FeedFrame DEF Online
<1>7. CASE bpc'[b] = "wait" /\ ~(cursor[b] < Len(client_fds))
  <2>1. \A a \in Broadcasters : ~Sending(a)'
    BY <1>3, <1>7 DEF Sending
  <2>2. ASSUME NEW c \in Sessions, IsMember(c), Online(c) PROVE ~Missing(c)
    <3>1. PICK k \in DOMAIN client_fds : client_fds[k] = fd[c]
      BY <2>2, MemberOnline
    <3>2. k <= cursor[b]
      BY <1>4, <1>7, <3>1
    <3>3. Served(b, c)
      BY <1>1, <3>1, <3>2 DEF Served
    <3> QED BY <1>2, <3>3 DEF Missing
  <2>3. \A c \in Sessions : ~Missing(c)'
    BY <2>1 DEF Missing
  <2> QED BY <1>1, <1>5, <2>1, <2>2, <2>3, FeedFrame DEF Online
<1> QED BY <1>1, <1>6, <1>7

\* The steps before a notification: nothing is published or sent.
LEMMA FeedBefore ==
  ASSUME TypeInv, FeedInv, [Next]_vars, NEW b \in Broadcasters,
         \/ ApplyEvent \/ StartRefresh \/ RefreshStep
         \/ NotifyIdle(b) \/ EnterBroadcast(b)
  PROVE  FeedInv'
<1>t. CastType
  BY DEF TypeInv, TypeOK
<1>1. UNCHANGED <<client_fds, bdump, cursor, fd, client, stream, published, joinedAt>>
  BY DEF ApplyEvent, StartRefresh, RefreshStep, RefreshUntil, NotifyIdle, EnterBroadcast,
     DecideBroadcast, tableVars, connVars, clientVars, sockVars, histVars
<1>2. \A a \in Broadcasters : Sending(a)' <=> Sending(a)
  <2>1. CASE ApplyEvent \/ StartRefresh \/ RefreshStep \/ NotifyIdle(b)
    BY <1>t, <2>1, ConstantsAssumption
       DEF ApplyEvent, StartRefresh, RefreshStep, RefreshUntil, NotifyIdle, Start, Sending,
           CastType
  <2>2. CASE EnterBroadcast(b)
    BY <1>t, <2>2 DEF EnterBroadcast, DecideBroadcast, Sending, CastType
  <2> QED BY <2>1, <2>2
<1>3. \A a \in Broadcasters : Sending(a) => bpc'[a] = bpc[a]
  <2>1. CASE ApplyEvent \/ StartRefresh \/ RefreshStep \/ NotifyIdle(b)
    BY <1>t, <2>1, ConstantsAssumption
       DEF ApplyEvent, StartRefresh, RefreshStep, RefreshUntil, NotifyIdle, Start, Sending,
           CastType
  <2>2. CASE EnterBroadcast(b)
    BY <1>t, <2>2 DEF EnterBroadcast, DecideBroadcast, Sending, CastType
  <2> QED BY <2>1, <2>2
<1>4. \A c \in Sessions : Missing(c)' <=> Missing(c)
  <2>1. \A a \in Broadcasters, c \in Sessions : Sending(a) => (Served(a, c)' <=> Served(a, c))
    BY <1>1, <1>3 DEF Served
  <2> QED BY <1>2, <2>1 DEF Missing
<1>5. \A c \in Sessions : Heard(c)' = Heard(c)
  BY <1>1 DEF Heard
<1> QED BY <1>1, <1>2, <1>4, <1>5, FeedFrame DEF Online

\* A connection enters the table: nothing is being sent, and it has heard nothing.
LEMMA FeedJoin ==
  ASSUME TypeInv, LoopInv, MemberInv, JoinsOnce, FeedInv, NEW c \in Sessions, AddClient(c)
  PROVE  /\ FeedInv'
         /\ UNCHANGED <<published, stream, client>>
         /\ \/ UNCHANGED joinedAt
            \/ ~IsMember(c) /\ joinedAt' = [joinedAt EXCEPT ![c] = Len(published)]
<1>1. /\ clients_mu = None /\ pc[c] = "adding" /\ ListFd(c)
      /\ UNCHANGED <<published, stream, client, bpc, bdump, cursor, fd>>
  BY DEF AddClient, Goto, castVars, clientVars, sockVars
<1>2. ~IsMember(c)
  BY <1>1 DEF JoinsOnce
<1>3. \A b \in Broadcasters : ~Sending(b) /\ ~Sending(b)'
  BY <1>1, OneSends DEF Sending, Writing
<1>4. \A d \in Sessions : ~Missing(d) /\ ~Missing(d)' /\ Heard(d)' = Heard(d)
  BY <1>1, <1>3 DEF Missing, Heard
<1>5. CASE UNCHANGED joinedAt
  <2>1. FeedInv'
    BY <1>1, <1>3, <1>4, <1>5, FeedFrame DEF Online
  <2> QED BY <1>1, <1>5, <2>1
<1>6. CASE joinedAt' = [joinedAt EXCEPT ![c] = Len(published)]
  <2>1. LastPublished'
    BY <1>3 DEF LastPublished
  <2>2. /\ joinedAt'[c] = Len(published) /\ Len(published) \in Nat
        /\ \A d \in Sessions \ {c} : joinedAt'[d] = joinedAt[d]
    BY <1>6 DEF TypeInv, TypeOK, HistType
  <2>3. HeardCount'
    <3> SUFFICES ASSUME NEW d \in Sessions
                 PROVE  /\ joinedAt'[d] = NotMember => Heard(d) = <<>>
                        /\ joinedAt'[d] # NotMember /\ Online(d) =>
                             joinedAt'[d] + Len(Heard(d)) = Len(published)
      BY <1>1, <1>4 DEF HeardCount, IsMember, Online
    <3>1. CASE d = c
      <4>1. Heard(c) = <<>>
        BY <1>2 DEF FeedInv, HeardCount
      <4> QED BY <2>2, <3>1, <4>1
    <3>2. CASE d # c
      BY <1>4, <2>2, <3>2 DEF FeedInv, HeardCount, IsMember
    <3> QED BY <3>1, <3>2
  <2> QED BY <1>1, <1>2, <1>6, <2>1, <2>3 DEF FeedInv
<1> QED BY <1>1, <1>5, <1>6 DEF ListFd

\* The other steps of the connections and of the clients.
LEMMA FeedConn ==
  ASSUME TypeInv, LoopInv, MemberInv, FeedInv, [Next]_vars, NEW d \in Sessions,
         \/ Accept(d) \/ ReadSubscribe(d) \/ ReadCall(d)
         \/ ConnStep(d) /\ ~AddClient(d)
         \/ Stall(d) \/ HangUp(d)
  PROVE  FeedInv'
<1>t. ConnType /\ ClientType
  BY DEF TypeInv, TypeOK
<1>1. UNCHANGED <<bpc, bdump, cursor, published, joinedAt>>
  BY DEF Accept, ReadSubscribe, ReadCall, ConnStep, BuildDump, ReplyText, ReplyNewline,
     ReadEof, RemoveClient, CloseFd, Stall, HangUp, castVars, histVars
<1>2. \A c \in Sessions : Heard(c)' = Heard(c)
  <2>1. \A b \in Broadcasters : ~SendText(b)
    <3>1. \A b \in Broadcasters : SendText(b) => bpc'[b] # bpc[b]
      BY DEF SendText, TypeInv, TypeOK, CastType
    <3> QED BY <1>1, <3>1
  <2> QED BY <2>1, HeardOtherwise
<1>3. \A b \in Broadcasters : Sending(b) => UNCHANGED client_fds
  <2>1. clients_mu = None \/ UNCHANGED client_fds
    BY DEF Accept, ReadSubscribe, ReadCall, ConnStep, BuildDump, ReplyText, ReplyNewline,
       ReadEof, RemoveClient, CloseFd, Stall, HangUp, tableVars
  <2> QED BY <2>1, OneSends DEF Sending, Writing
<1>4. ASSUME NEW c \in Sessions, IsMember(c), Online(c)'
      PROVE  Online(c) /\ fd'[c] = fd[c]
  <2>1. CASE Accept(d)
    <3>1. pc[d] = "none" /\ c # d
      BY <1>4, <2>1 DEF Accept, Goto, MemberInv, MemberPast
    <3> QED BY <1>4, <1>t, <2>1, <3>1 DEF Accept, ConnType, ClientType, Online
  <2>2. CASE Stall(d) \/ HangUp(d)
    BY <1>4, <1>t, <2>2 DEF Stall, HangUp, ClientType, Online, connVars
  <2>3. CASE CloseFd(d)
    <3>1. client[d] = "gone" /\ UNCHANGED client
      BY <2>3 DEF CloseFd, Goto, clientVars, MemberInv, LeavingGone
    <3>2. Online(c) /\ c # d
      BY <1>4, <3>1 DEF Online
    <3> QED BY <1>t, <2>3, <3>2 DEF CloseFd, ConnType
  <2>4. CASE \/ ReadSubscribe(d) \/ ReadCall(d) \/ BuildDump(d) \/ ReplyText(d)
             \/ ReplyNewline(d) \/ ReadEof(d) \/ RemoveClient(d)
    BY <1>4, <2>4 DEF ReadSubscribe, ReadCall, BuildDump, ReplyText, ReplyNewline, ReadEof,
       RemoveClient, clientVars, Online
  <2> QED BY <2>1, <2>2, <2>3, <2>4 DEF ConnStep
<1>5. \A b \in Broadcasters : Sending(b)' <=> Sending(b)
  BY <1>1 DEF Sending
<1>6. ASSUME NEW c \in Sessions, IsMember(c), Online(c)' PROVE Missing(c)' <=> Missing(c)
  <2>1. \A b \in Broadcasters : Sending(b) => (Served(b, c)' <=> Served(b, c))
    BY <1>1, <1>3, <1>4, <1>6 DEF Served
  <2> QED BY <1>5, <2>1 DEF Missing
<1> QED BY <1>1, <1>2, <1>4, <1>5, <1>6, FeedFrame

LEMMA FeedInvStep ==
  TypeInv /\ LoopInv /\ TableInv /\ MemberInv /\ JoinsOnce /\ FeedInv /\ [Next]_vars
    => FeedInv'
<1> SUFFICES ASSUME TypeInv, LoopInv, TableInv, MemberInv, JoinsOnce, FeedInv, [Next]_vars
             PROVE  FeedInv'
  OBVIOUS
<1>1. ASSUME UNCHANGED vars PROVE FeedInv'
  <2>1. UNCHANGED <<client_fds, bpc, bdump, cursor, fd, client, stream, published, joinedAt>>
    BY <1>1 DEF vars, tableVars, castVars, connVars, clientVars, sockVars, histVars
  <2> QED
    BY <2>1 DEF FeedInv, HeardCount, LastPublished, Heard, IsMember, Online, Missing,
       Sending, Served
<1>2. ASSUME ApplyEvent \/ StartRefresh PROVE FeedInv'
  BY <1>2, FeedBefore, ConstantsAssumption
<1>3. ASSUME NEW b \in Broadcasters, NotifyIdle(b) \/ CastStep(b) PROVE FeedInv'
  BY <1>3, FeedBefore, FeedBuild, FeedSend, FeedNewline DEF CastStep
<1>4. ASSUME NEW c \in Sessions,
             \/ Accept(c) \/ ReadSubscribe(c) \/ ReadCall(c) \/ ConnStep(c)
             \/ Stall(c) \/ HangUp(c)
      PROVE  FeedInv'
  BY <1>4, FeedConn, FeedJoin
<1> QED BY <1>1, <1>2, <1>3, <1>4 DEF Next, Finished

-----------------------------------------------------------------------------
(* The feed *)

HeardMap == [c \in Sessions |-> Heard(c)]

LEMMA FeedInitial == Init => Feed!FeedInit
<1> SUFFICES ASSUME Init PROVE Feed!FeedInit
  OBVIOUS
<1>1. \A c \in Sessions : Heard(c) = <<>>
  BY NoticesEmpty DEF Init, Heard
<1>2. HungUp = {}
  BY DEF Init, HungUp
<1> QED BY <1>1, <1>2 DEF Init, Feed!FeedInit, NotMember, Feed!NotMember

\* A step that the feed does not see.
LEMMA FeedStutters ==
  ASSUME UNCHANGED <<published, joinedAt>>, HungUp' = HungUp,
         \A c \in Sessions : Heard(c)' = Heard(c)
  PROVE  UNCHANGED Feed!feedVars
BY DEF Feed!feedVars

\* The last list is copied: the notification is published.
LEMMA BuildPublishes ==
  ASSUME TypeInv, LoopInv, TableInv, MemberInv, FeedInv, [Next]_vars,
         NEW b \in Broadcasters, BuildNotice(b)
  PROVE  [Feed!FeedNext]_(Feed!feedVars)
<1>1. /\ UNCHANGED <<stream, joinedAt, client>>
      /\ \/ UNCHANGED published
         \/ /\ published' = Append(published, Message("event", bdump'[b]))
            /\ \A c \in Sessions : ~Missing(c)
  BY FeedBuild
<1>2. HungUp' = HungUp /\ \A c \in Sessions : Heard(c)' = Heard(c)
  BY <1>1 DEF HungUp, Heard
<1>3. CASE UNCHANGED published
  BY <1>1, <1>2, <1>3, FeedStutters
<1>4. CASE /\ published' = Append(published, Message("event", bdump'[b]))
           /\ \A c \in Sessions : ~Missing(c)
  <2>1. bdump'[b] \in Dumps
    BY CastTypeStep DEF TypeInv, TypeOK, CastType
  <2>2. /\ Message("event", bdump'[b]) \in Messages
        /\ Message("event", bdump'[b]) \in [kind : {"event"}, state : Dumps]
    BY <2>1 DEF Message, Messages, Kinds
  <2>3. published \in Seq(Messages)
    BY DEF TypeInv, TypeOK, HistType
  <2>4. /\ Len(published') = Len(published) + 1
        /\ SubSeq(published', 1, Len(published)) = published
        /\ published'[Len(published')] = Message("event", bdump'[b])
    BY <1>4, <2>2, <2>3
  <2>5. ASSUME NEW c \in Sessions \ HungUp, IsMember(c)
        PROVE  ~(joinedAt[c] + Len(Heard(c)) < Len(published))
    <3>1. client[c] \in {"reading", "stalled"}
      BY <2>5 DEF HungUp, MemberInv, AbsentFirst, MemberPast, TypeInv, TypeOK, ClientType
    <3>2. joinedAt[c] + Len(Heard(c)) = Len(published)
      BY <1>4, <2>5, <3>1 DEF FeedInv, HeardCount, Online
    <3> QED BY <2>3, <3>2
  <2>6. Feed!Publish
    BY <1>1, <1>2, <2>2, <2>4, <2>5
       DEF Feed!Publish, Feed!Member, Feed!Behind, Feed!NotMember, IsMember, NotMember
  <2> QED BY <2>6 DEF Feed!FeedNext
<1> QED BY <1>1, <1>3, <1>4

\* The text is written: the connection it arrives at hears the notification.
LEMMA SendDelivers ==
  ASSUME TypeInv, LoopInv, TableInv, MemberInv, FeedInv, NEW b \in Broadcasters, SendText(b)
  PROVE  [Feed!FeedNext]_(Feed!feedVars)
<1> DEFINE m == Message("event", bdump[b])
           f == client_fds[cursor[b]]
<1>1. /\ bpc[b] = "text" /\ Sending(b)
      /\ UNCHANGED <<client, published, joinedAt>>
      /\ WriteText(f, m)
  BY DEF SendText, clientVars, histVars, Sending
<1>2. m \in Messages /\ m.kind = "event"
  BY MessagesWritten DEF Message
<1>3. HungUp' = HungUp
  BY <1>1 DEF HungUp
<1>4. CASE \A c \in Sessions : ~Reaches(f, c)
  BY <1>1, <1>2, <1>3, <1>4, HeardAfterText, FeedStutters
<1>5. ASSUME NEW c \in Sessions, Reaches(f, c) PROVE Feed!FeedNext
  <2>1. /\ IsMember(c) /\ Online(c) /\ Missing(c)
        /\ \A d \in Sessions : Reaches(f, d) => d = c
    BY <1>1, <1>5, SendArrives
  <2>2. joinedAt[c] + Len(Heard(c)) = Len(published) - 1
    BY <2>1 DEF FeedInv, HeardCount
  <2>3. m = published[Len(published)]
    BY <1>1 DEF FeedInv, LastPublished
  <2>4. Heard(c)' = Append(Heard(c), m) /\ \A d \in Sessions \ {c} : Heard(d)' = Heard(d)
    BY <1>1, <1>2, <1>5, <2>1, HeardAfterText
  <2>5. joinedAt[c] + Len(Heard(c)) \in Int /\ Len(published) \in Nat
    <3>1. Heard(c) \in Seq(Messages)
      BY StreamOf, NoticesType DEF Heard
    <3> QED BY <3>1 DEF TypeInv, TypeOK, HistType, NotMember
  <2> HIDE DEF m
  <2>6. /\ joinedAt[c] + Len(Heard(c)) < Len(published)
        /\ joinedAt[c] + Len(Heard(c)) + 1 = Len(published)
    BY <2>2, <2>5
  <2>7. Append(Heard(c), m) = Append(HeardMap[c], published[joinedAt[c] + Len(HeardMap[c]) + 1])
    BY <2>3, <2>6 DEF HeardMap
  <2>8. HeardMap' = [HeardMap EXCEPT ![c] = Append(@, published[joinedAt[c] + Len(HeardMap[c]) + 1])]
    BY <2>4, <2>7 DEF HeardMap
  <2>9. c \notin HungUp
    BY <2>1 DEF HungUp, Online
  <2>10. Feed!Deliver(c)
    BY <1>1, <1>3, <2>1, <2>6, <2>8, <2>9
       DEF Feed!Deliver, Feed!Member, Feed!Behind, Feed!NotMember, IsMember, NotMember, HeardMap
  <2> QED BY <2>10 DEF Feed!FeedNext
<1> QED BY <1>4, <1>5

\* The connections: to enter the table is to join, to hang up is to hang up.
LEMMA ConnJoins ==
  ASSUME TypeInv, LoopInv, MemberInv, JoinsOnce, FeedInv, [Next]_vars, NEW c \in Sessions,
         \/ Accept(c) \/ ReadSubscribe(c) \/ ReadCall(c) \/ ConnStep(c)
         \/ Stall(c) \/ HangUp(c)
  PROVE  [Feed!FeedNext]_(Feed!feedVars)
<1>t. ClientType
  BY DEF TypeInv, TypeOK
<1>1. UNCHANGED <<published, bpc>>
  BY DEF Accept, ReadSubscribe, ReadCall, ConnStep, AddClient, ListFd, BuildDump, ReplyText,
     ReplyNewline, ReadEof, RemoveClient, CloseFd, Stall, HangUp, castVars, histVars
<1>2. \A d \in Sessions : Heard(d)' = Heard(d)
  <2>1. \A b \in Broadcasters : SendText(b) => bpc'[b] # bpc[b]
    BY DEF SendText, TypeInv, TypeOK, CastType
  <2>2. \A b \in Broadcasters : ~SendText(b)
    BY <1>1, <2>1
  <2> QED BY <2>2, HeardOtherwise
<1>3. CASE AddClient(c)
  <2>1. HungUp' = HungUp
    BY <1>3, FeedJoin DEF HungUp
  <2>2. CASE UNCHANGED joinedAt
    BY <1>1, <1>2, <2>1, <2>2, FeedStutters
  <2>3. CASE ~IsMember(c) /\ joinedAt' = [joinedAt EXCEPT ![c] = Len(published)]
    <3>1. Feed!Join(c)
      BY <1>1, <1>2, <2>1, <2>3 DEF Feed!Join, Feed!Member, Feed!NotMember, IsMember, NotMember
    <3> QED BY <3>1 DEF Feed!FeedNext
  <2> QED BY <1>3, <2>2, <2>3, FeedJoin
<1>4. CASE HangUp(c)
  <2>1. UNCHANGED joinedAt /\ c \notin HungUp
    BY <1>4 DEF HangUp, histVars, HungUp, Online
  <2>2. HungUp' = HungUp \cup {c}
    BY <1>4, <1>t DEF HangUp, HungUp, ClientType
  <2>3. Feed!HangUp(c)
    BY <1>1, <1>2, <2>1, <2>2 DEF Feed!HangUp
  <2> QED BY <2>3 DEF Feed!FeedNext
<1>5. CASE ~AddClient(c) /\ ~HangUp(c)
  <2>1. UNCHANGED joinedAt
    BY <1>5 DEF Accept, ReadSubscribe, ReadCall, ConnStep, BuildDump, ReplyText,
       ReplyNewline, ReadEof, RemoveClient, CloseFd, Stall, histVars
  <2>2. \/ UNCHANGED client
        \/ /\ client[c] # "gone"
           /\ \E k \in {"reading", "stalled"} : client' = [client EXCEPT ![c] = k]
    <3>1. CASE Accept(c)
      BY <3>1 DEF Accept, Goto, MemberInv, AbsentFirst
    <3>2. CASE ~Accept(c)
      BY <1>5, <3>2 DEF ReadSubscribe, ReadCall, ConnStep, BuildDump, ReplyText,
         ReplyNewline, ReadEof, RemoveClient, CloseFd, Stall, clientVars
    <3> QED BY <3>1, <3>2
  <2>3. HungUp' = HungUp
    BY <1>t, <2>2 DEF HungUp, ClientType
  <2> QED BY <1>1, <1>2, <2>1, <2>3, FeedStutters
<1> QED BY <1>3, <1>4, <1>5

LEMMA FeedStep ==
  TypeInv /\ LoopInv /\ TableInv /\ MemberInv /\ JoinsOnce /\ FeedInv /\ [Next]_vars
    => [Feed!FeedNext]_(Feed!feedVars)
<1> SUFFICES ASSUME TypeInv, LoopInv, TableInv, MemberInv, JoinsOnce, FeedInv, [Next]_vars
             PROVE  [Feed!FeedNext]_(Feed!feedVars)
  OBVIOUS
<1>1. ASSUME UNCHANGED <<published, joinedAt, client>>, \A b \in Broadcasters : ~SendText(b)
      PROVE  [Feed!FeedNext]_(Feed!feedVars)
  <2>1. HungUp' = HungUp
    BY <1>1 DEF HungUp
  <2> QED BY <1>1, <2>1, HeardOtherwise, FeedStutters
<1>2. ASSUME NEW b \in Broadcasters,
             \/ ApplyEvent \/ StartRefresh \/ NotifyIdle(b) \/ CastStep(b)
      PROVE  [Feed!FeedNext]_(Feed!feedVars)
  <2>1. CASE \E a \in Broadcasters : SendText(a)
    BY <2>1, SendDelivers
  <2>2. CASE BuildNotice(b)
    BY <2>2, BuildPublishes
  <2>3. CASE ~BuildNotice(b) /\ \A a \in Broadcasters : ~SendText(a)
    <3>1. UNCHANGED <<published, joinedAt, client>>
      BY <1>2, <2>3 DEF ApplyEvent, StartRefresh, NotifyIdle, CastStep, RefreshStep,
         RefreshUntil, EnterBroadcast, DecideBroadcast, SendNewline, NewlineThen, clientVars,
         histVars
    <3> QED BY <1>1, <2>3, <3>1
  <2> QED BY <2>1, <2>2, <2>3
<1>3. ASSUME NEW c \in Sessions,
             \/ Accept(c) \/ ReadSubscribe(c) \/ ReadCall(c) \/ ConnStep(c)
             \/ Stall(c) \/ HangUp(c)
      PROVE  [Feed!FeedNext]_(Feed!feedVars)
  BY <1>3, ConnJoins
<1>4. CASE UNCHANGED vars
  <2>1. UNCHANGED <<stream, published, joinedAt, client>>
    BY <1>4 DEF vars, clientVars, sockVars, histVars
  <2>2. HungUp' = HungUp /\ \A c \in Sessions : Heard(c)' = Heard(c)
    BY <2>1 DEF HungUp, Heard
  <2> QED BY <2>1, <2>2, FeedStutters
<1> QED BY <1>2, <1>3, <1>4, ConstantsAssumption DEF Next, Finished

\* For clients that subscribe once per connection the daemon is the feed of EventFeed:
\* a subscriber hears every notification published from the moment it is in the table to
\* the moment it hangs up, all of them, once each, in order, whatever the other
\* connections and broadcasters do meanwhile.
THEOREM BroadcastIsAFeed == ASSUME MaxSubscribes <= 1 PROVE Spec => ImplementsFeed
<1>1. Spec => []FeedInv
  BY FeedInvInit, FeedInvStep, MemberInvariant, JoinsInvariant, TypeInvariant, LoopInvariant,
     PTL DEF Spec
<1>2. Spec => [][Feed!FeedNext]_(Feed!feedVars)
  BY <1>1, FeedStep, MemberInvariant, JoinsInvariant, TypeInvariant, LoopInvariant,
     PTL DEF Spec
<1>3. Spec => Feed!FeedInit
  BY FeedInitial DEF Spec
<1> QED BY <1>2, <1>3, PTL DEF ImplementsFeed, Feed!FeedSpec

-----------------------------------------------------------------------------
(* What the feed means for a subscriber *)

\* What a member has heard is what was published since it joined, one for one; when nothing
\* is being sent it is all of it, unless the client has hung up.
HeardInStep ==
  \A c \in Sessions : IsMember(c) =>
    /\ \A i \in DOMAIN Heard(c) :
         joinedAt[c] + i \in DOMAIN published /\ Heard(c)[i] = published[joinedAt[c] + i]
    /\ Online(c) /\ (\A b \in Broadcasters : ~Sending(b)) =>
         joinedAt[c] + Len(Heard(c)) = Len(published)

\* The same of the feed: it follows from the steps of EventFeed alone.
Segment ==
  \A c \in Sessions :
    /\ joinedAt[c] = NotMember => HeardMap[c] = <<>>
    /\ joinedAt[c] # NotMember =>
         /\ joinedAt[c] + Len(HeardMap[c]) <= Len(published)
         /\ \A i \in 1 .. Len(HeardMap[c]) : HeardMap[c][i] = published[joinedAt[c] + i]

FeedTypes ==
  /\ published \in Seq(Messages)
  /\ joinedAt \in [Sessions -> Nat \cup {NotMember}]
  /\ HeardMap \in [Sessions -> Seq(Messages)]

LEMMA FeedTypesHold == TypeInv => FeedTypes
<1> SUFFICES ASSUME TypeInv PROVE FeedTypes
  OBVIOUS
<1>1. \A c \in Sessions : Heard(c) \in Seq(Messages)
  BY StreamOf, NoticesType DEF Heard
<1> QED BY <1>1 DEF TypeInv, TypeOK, HistType, FeedTypes, HeardMap

LEMMA SegmentInit == Init => Segment
<1> SUFFICES ASSUME Init PROVE Segment
  OBVIOUS
<1>1. \A c \in Sessions : HeardMap[c] = <<>>
  BY NoticesEmpty DEF Init, Heard, HeardMap
<1>2. \A c \in Sessions : joinedAt[c] = NotMember
  BY DEF Init
<1> QED BY <1>1, <1>2 DEF Segment

LEMMA SegmentStep ==
  FeedTypes /\ FeedTypes' /\ Segment /\ [Feed!FeedNext]_(Feed!feedVars) => Segment'
<1> SUFFICES ASSUME FeedTypes, FeedTypes', Segment, [Feed!FeedNext]_(Feed!feedVars)
             PROVE  Segment'
  OBVIOUS
<1>1. ASSUME UNCHANGED <<published, joinedAt, HeardMap>> PROVE Segment'
  BY <1>1 DEF Segment
<1>2. CASE Feed!Publish
  <2>1. /\ Len(published') = Len(published) + 1
        /\ SubSeq(published', 1, Len(published)) = published
        /\ UNCHANGED <<joinedAt, HeardMap>>
    BY <1>2 DEF Feed!Publish, HeardMap
  <2>2. Len(published) \in Nat /\ published' \in Seq(Messages)
    BY DEF FeedTypes
  <2>3. \A i \in 1 .. Len(published) : published'[i] = published[i]
    <3>1. \A i \in 1 .. Len(published) : SubSeq(published', 1, Len(published))[i] = published'[i]
      BY <2>1, <2>2
    <3> QED BY <2>1, <3>1
  <2> SUFFICES ASSUME NEW c \in Sessions, joinedAt[c] # NotMember
               PROVE  /\ joinedAt[c] + Len(HeardMap[c]) <= Len(published')
                      /\ \A i \in 1 .. Len(HeardMap[c]) :
                           HeardMap[c][i] = published'[joinedAt[c] + i]
    BY <2>1 DEF Segment
  <2>4. joinedAt[c] \in Nat /\ Len(HeardMap[c]) \in Nat
    BY DEF FeedTypes
  <2>5. /\ joinedAt[c] + Len(HeardMap[c]) <= Len(published)
        /\ \A i \in 1 .. Len(HeardMap[c]) : HeardMap[c][i] = published[joinedAt[c] + i]
    BY DEF Segment
  <2>6. \A i \in 1 .. Len(HeardMap[c]) : joinedAt[c] + i \in 1 .. Len(published)
    BY <2>2, <2>4, <2>5
  <2> QED BY <2>1, <2>2, <2>3, <2>4, <2>5, <2>6
<1>3. ASSUME NEW d \in Sessions, Feed!Join(d) PROVE Segment'
  <2>1. /\ joinedAt[d] = NotMember /\ joinedAt' = [joinedAt EXCEPT ![d] = Len(published)]
        /\ UNCHANGED <<published, HeardMap>>
    BY <1>3 DEF Feed!Join, Feed!Member, Feed!NotMember, NotMember, HeardMap
  <2>2. /\ joinedAt'[d] = Len(published) /\ Len(published) \in Nat
        /\ \A c \in Sessions \ {d} : joinedAt'[c] = joinedAt[c]
    BY <2>1 DEF FeedTypes
  <2>3. HeardMap[d] = <<>>
    BY <2>1 DEF Segment
  <2> SUFFICES ASSUME NEW c \in Sessions
               PROVE  /\ joinedAt'[c] = NotMember => HeardMap[c] = <<>>
                      /\ joinedAt'[c] # NotMember =>
                           /\ joinedAt'[c] + Len(HeardMap[c]) <= Len(published)
                           /\ \A i \in 1 .. Len(HeardMap[c]) :
                                HeardMap[c][i] = published[joinedAt'[c] + i]
    BY <2>1 DEF Segment
  <2>4. CASE c = d
    BY <2>2, <2>3, <2>4
  <2>5. CASE c # d
    BY <2>2, <2>5 DEF Segment
  <2> QED BY <2>4, <2>5
<1>4. ASSUME NEW d \in Sessions, Feed!Deliver(d) PROVE Segment'
  <2> DEFINE n == Len(HeardMap[d])
             m == published[joinedAt[d] + n + 1]
  <2>1. /\ joinedAt[d] # NotMember /\ joinedAt[d] + n < Len(published)
        /\ HeardMap' = [HeardMap EXCEPT ![d] = Append(@, m)]
        /\ UNCHANGED <<published, joinedAt>>
    BY <1>4 DEF Feed!Deliver, Feed!Member, Feed!Behind, Feed!NotMember, NotMember, HeardMap
  <2>2. joinedAt[d] \in Nat /\ n \in Nat /\ Len(published) \in Nat /\ HeardMap[d] \in Seq(Messages)
    BY <2>1 DEF FeedTypes
  <2>3. m \in Messages
    <3>1. joinedAt[d] + n + 1 \in 1 .. Len(published)
      BY <2>1, <2>2
    <3> QED BY <3>1 DEF FeedTypes
  <2> HIDE DEF m
  <2>4. /\ Len(Append(HeardMap[d], m)) = n + 1
        /\ Append(HeardMap[d], m)[n + 1] = m
        /\ \A i \in 1 .. n : Append(HeardMap[d], m)[i] = HeardMap[d][i]
    BY <2>2, <2>3
  <2>5. /\ HeardMap'[d] = Append(HeardMap[d], m)
        /\ \A c \in Sessions \ {d} : HeardMap'[c] = HeardMap[c]
    BY <2>1 DEF FeedTypes
  <2>6. \A i \in 1 .. n : HeardMap[d][i] = published[joinedAt[d] + i]
    BY <2>1 DEF Segment
  <2> SUFFICES ASSUME NEW c \in Sessions
               PROVE  /\ joinedAt[c] = NotMember => HeardMap'[c] = <<>>
                      /\ joinedAt[c] # NotMember =>
                           /\ joinedAt[c] + Len(HeardMap'[c]) <= Len(published)
                           /\ \A i \in 1 .. Len(HeardMap'[c]) :
                                HeardMap'[c][i] = published[joinedAt[c] + i]
    BY <2>1 DEF Segment
  <2>7. CASE c = d
    <3> HIDE DEF n
    <3>1. m = published[joinedAt[d] + (n + 1)]
      BY <2>2 DEF m, n
    <3>2. \A i \in 1 .. n + 1 : i \in 1 .. n \/ i = n + 1
      BY <2>2
    <3>3. \A i \in 1 .. n + 1 : HeardMap'[d][i] = published[joinedAt[d] + i]
      BY <2>4, <2>5, <2>6, <3>1, <3>2
    <3> QED BY <2>1, <2>2, <2>4, <2>5, <2>7, <3>3
  <2>8. CASE c # d
    BY <2>5, <2>8 DEF Segment
  <2> QED BY <2>7, <2>8
<1>5. ASSUME NEW d \in Sessions, Feed!HangUp(d) PROVE Segment'
  BY <1>1, <1>5 DEF Feed!HangUp, HeardMap
<1>6. CASE UNCHANGED Feed!feedVars
  BY <1>1, <1>6 DEF Feed!feedVars, HeardMap
<1> QED BY <1>2, <1>3, <1>4, <1>5, <1>6 DEF Feed!FeedNext

\* For clients that subscribe once per connection: a subscriber hears the notifications
\* published since it joined, each once, in their order and without a gap, and when no
\* broadcast is under way it has heard all of them.
THEOREM SubscribersHearEverything == ASSUME MaxSubscribes <= 1 PROVE Spec => []HeardInStep
<1>1. Spec => []FeedInv
  BY FeedInvInit, FeedInvStep, MemberInvariant, JoinsInvariant, TypeInvariant, LoopInvariant,
     PTL DEF Spec
<1>2. Spec => [][Feed!FeedNext]_(Feed!feedVars)
  BY BroadcastIsAFeed, PTL DEF ImplementsFeed, Feed!FeedSpec
<1>3. Spec => []FeedTypes
  BY TypeInvariant, FeedTypesHold, PTL
<1>4. Spec => []Segment
  BY <1>2, <1>3, SegmentInit, SegmentStep, PTL DEF Spec
<1>5. FeedTypes /\ Segment /\ FeedInv => HeardInStep
  <2> SUFFICES ASSUME FeedTypes, Segment, FeedInv, NEW c \in Sessions, IsMember(c)
               PROVE  /\ \A i \in DOMAIN Heard(c) :
                           /\ joinedAt[c] + i \in DOMAIN published
                           /\ Heard(c)[i] = published[joinedAt[c] + i]
                      /\ Online(c) /\ (\A b \in Broadcasters : ~Sending(b)) =>
                           joinedAt[c] + Len(Heard(c)) = Len(published)
    BY DEF HeardInStep
  <2>1. /\ HeardMap[c] = Heard(c) /\ Heard(c) \in Seq(Messages)
        /\ joinedAt[c] \in Nat
        /\ DOMAIN published = 1 .. Len(published) /\ Len(published) \in Nat
    BY DEF FeedTypes, HeardMap, IsMember
  <2>2. DOMAIN Heard(c) = 1 .. Len(Heard(c)) /\ Len(Heard(c)) \in Nat
    BY <2>1
  <2>3. /\ joinedAt[c] + Len(Heard(c)) <= Len(published)
        /\ \A i \in 1 .. Len(Heard(c)) : Heard(c)[i] = published[joinedAt[c] + i]
    BY <2>1 DEF Segment, IsMember
  <2>4. \A i \in DOMAIN Heard(c) : joinedAt[c] + i \in DOMAIN published
    BY <2>1, <2>2, <2>3
  <2>5. Online(c) /\ (\A b \in Broadcasters : ~Sending(b)) =>
          joinedAt[c] + Len(Heard(c)) = Len(published)
    BY DEF FeedInv, HeardCount, Missing
  <2> QED BY <2>2, <2>3, <2>4, <2>5
<1> QED BY <1>1, <1>3, <1>4, <1>5, PTL
=============================================================================
