-------------------------- MODULE Broadcast_proofs --------------------------
(***************************************************************************)
(* Theorems about Broadcast.tla, for every number of connections,          *)
(* descriptors, broadcasters and requests.                                 *)
(***************************************************************************)
EXTENDS Broadcast, TLAPS

-----------------------------------------------------------------------------
(* Type correctness *)

\* An open connection has a descriptor.
OpenHaveFds == \A c \in Sessions : IsOpen(c) => fd[c] \in Fds

\* A dump that is being built is not complete, and before that it is empty.
NoticePartial ==
  \A b \in Broadcasters :
    /\ bpc[b] \in {"wait", "refresh", "enter"} => bdump[b] = <<>>
    /\ bpc[b] = "build" => Len(bdump[b]) < PartCount

ReplyPartial ==
  \A c \in Sessions :
    /\ pc[c] \in {"none", "reading", "adding", "reply"} => sdump[c] = <<>>
    /\ pc[c] = "dumping" => Len(sdump[c]) < PartCount

TypeInv == TypeOK /\ OpenHaveFds /\ NoticePartial /\ ReplyPartial

LEMMA DumpAppend ==
  ASSUME NEW d \in Dumps, Len(d) < PartCount, NEW n \in Nat
  PROVE  /\ Append(d, n) \in Dumps
         /\ Len(Append(d, n)) = Len(d) + 1
BY ConstantsAssumption DEF Dumps

\* One write to a socket keeps the types of what the sockets hold.
LEMMA WriteTypes ==
  ASSUME SockType, NEW f, NEW m \in Messages, WriteText(f, m) \/ WriteNewline(f)
  PROVE  SockType'
<1>1. backlog' \in [Sessions -> 0 .. SockCap]
  <2>1. backlog' = [c \in Sessions |-> IF Fills(f, c) THEN backlog[c] + 1
                                                      ELSE backlog[c]]
    BY DEF WriteText, WriteNewline, Write
  <2>2. \A c \in Sessions : Fills(f, c) => backlog[c] < SockCap
    BY DEF WriteText, WriteNewline, Write
  <2>3. \A c \in Sessions : backlog[c] \in 0 .. SockCap
    BY DEF SockType
  <2> QED BY <2>1, <2>2, <2>3, ConstantsAssumption
<1>2. line_buf' \in [Sessions -> Nat]
  <2>1. \A c \in Sessions : line_buf[c] \in Nat
    BY DEF SockType
  <2>2. \/ line_buf' = [c \in Sessions |-> IF Reaches(f, c) THEN line_buf[c] + 1
                                                            ELSE line_buf[c]]
        \/ line_buf' = [c \in Sessions |-> IF Reaches(f, c) THEN 0 ELSE line_buf[c]]
    BY DEF WriteText, WriteNewline
  <2> QED BY <2>1, <2>2
<1>3. stream' \in [Sessions -> Seq(Messages)]
  <2>1. \A c \in Sessions : stream[c] \in Seq(Messages) /\ Append(stream[c], m) \in Seq(Messages)
    BY DEF SockType
  <2>2. \/ stream' = [c \in Sessions |-> IF Reaches(f, c) THEN Append(stream[c], m)
                                                          ELSE stream[c]]
        \/ stream' = stream
    BY DEF WriteText, WriteNewline
  <2> QED BY <2>1, <2>2 DEF SockType
<1> QED BY <1>1, <1>2, <1>3 DEF SockType

LEMMA TypeInit == Init => TypeInv
BY ConstantsAssumption
   DEF Init, TypeInv, TypeOK, TableType, CacheType, CastType, ConnType, ClientType,
       SockType, HistType, OpenHaveFds, NoticePartial, ReplyPartial, IsOpen, Parts,
       Dumps, Messages, NotMember

\* What is left alone keeps its type.
LEMMA TypeUnchanged ==
  /\ TableType /\ UNCHANGED tableVars => TableType'
  /\ CacheType /\ UNCHANGED cacheVars => CacheType'
  /\ CastType /\ NoticePartial /\ UNCHANGED castVars => CastType' /\ NoticePartial'
  /\ ConnType /\ OpenHaveFds /\ ReplyPartial /\ UNCHANGED connVars
       => ConnType' /\ OpenHaveFds' /\ ReplyPartial'
  /\ ClientType /\ UNCHANGED clientVars => ClientType'
  /\ SockType /\ UNCHANGED sockVars => SockType'
  /\ HistType /\ UNCHANGED histVars => HistType'
<1>1. TableType /\ UNCHANGED tableVars => TableType'
  BY DEF TableType, tableVars
<1>2. CacheType /\ UNCHANGED cacheVars => CacheType'
  BY DEF CacheType, cacheVars
<1>3. CastType /\ NoticePartial /\ UNCHANGED castVars => CastType' /\ NoticePartial'
  BY DEF CastType, NoticePartial, castVars
<1>4. ConnType /\ OpenHaveFds /\ ReplyPartial /\ UNCHANGED connVars
        => ConnType' /\ OpenHaveFds' /\ ReplyPartial'
  BY DEF ConnType, OpenHaveFds, ReplyPartial, IsOpen, connVars
<1>5. ClientType /\ UNCHANGED clientVars => ClientType'
  BY DEF ClientType, clientVars
<1>6. SockType /\ UNCHANGED sockVars => SockType'
  BY DEF SockType, sockVars
<1>7. HistType /\ UNCHANGED histVars => HistType'
  BY DEF HistType, histVars
<1> QED BY <1>1, <1>2, <1>3, <1>4, <1>5, <1>6, <1>7

LEMMA WithoutType ==
  ASSUME NEW s \in Seq(Fds), NEW f, s # <<>>
  PROVE  Without(s, f) \in Seq(Fds) /\ Len(Without(s, f)) = Len(s) - 1
<1>1. Len(s) \in Nat \ {0}
  OBVIOUS
<1>2. \A i \in 1 .. Len(s) - 1 : (IF i = FirstIndex(s, f) THEN s[Len(s)] ELSE s[i]) \in Fds
  BY <1>1
<1>3. Len(s) - 1 \in Nat
  BY <1>1
<1> QED BY <1>2, <1>3 DEF Without

LEMMA CacheWrite ==
  ASSUME CacheType, NEW p PROVE [cache EXCEPT ![p] = @ + 1] \in [Parts -> Nat]
<1>1. CASE p \in Parts
  BY <1>1 DEF CacheType
<1>2. CASE p \notin Parts
  <2>1. [cache EXCEPT ![p] = @ + 1] = cache
    BY <1>2 DEF CacheType
  <2> QED BY <2>1 DEF CacheType
<1> QED BY <1>1, <1>2

\* A step of a broadcaster keeps the types.
LEMMA CastTypeStep ==
  ASSUME TypeInv, NEW b \in Broadcasters,
         \/ ApplyEvent
         \/ StartRefresh
         \/ RefreshStep
         \/ NotifyIdle(b)
         \/ EnterBroadcast(b)
         \/ BuildNotice(b)
         \/ SendText(b)
         \/ SendNewline(b)
  PROVE  TypeInv'
<1> USE ConstantsAssumption DEF TypeInv, TypeOK
<1>1. CASE ApplyEvent
  <2>1. CacheType'
    BY <1>1, CacheWrite DEF ApplyEvent, CacheType
  <2>2. CastType' /\ NoticePartial'
    BY <1>1 DEF ApplyEvent, Start, CastType, NoticePartial
  <2> QED BY <1>1, <2>1, <2>2, TypeUnchanged DEF ApplyEvent
<1>2. CASE StartRefresh
  <2>1. CacheType'
    BY <1>2 DEF StartRefresh, CacheType
  <2>2. CastType' /\ NoticePartial'
    BY <1>2 DEF StartRefresh, Start, CastType, NoticePartial
  <2> QED BY <1>2, <2>1, <2>2, TypeUnchanged DEF StartRefresh
<1>3. CASE RefreshStep
  <2>1. cache' \in [Parts -> Nat]
    BY <1>3, CacheWrite DEF RefreshStep, RefreshUntil, CacheType
  <2>2. refresh' \in 0 .. PartCount + 1
    BY <1>3 DEF RefreshStep, RefreshUntil, CacheType
  <2>3. CastType' /\ NoticePartial'
    BY <1>3 DEF RefreshStep, RefreshUntil, CastType, NoticePartial
  <2> QED BY <1>3, <2>1, <2>2, <2>3, TypeUnchanged DEF RefreshStep, RefreshUntil, CacheType
<1>4. CASE NotifyIdle(b)
  <2>1. CastType' /\ NoticePartial'
    BY <1>4 DEF NotifyIdle, Start, CastType, NoticePartial
  <2> QED BY <1>4, <2>1, TypeUnchanged DEF NotifyIdle
<1>5. CASE EnterBroadcast(b)
  <2>1. TableType'
    BY <1>5 DEF EnterBroadcast, DecideBroadcast, TableType
  <2>2. CastType' /\ NoticePartial'
    BY <1>5 DEF EnterBroadcast, DecideBroadcast, CastType, NoticePartial
  <2> QED BY <1>5, <2>1, <2>2, TypeUnchanged DEF EnterBroadcast, DecideBroadcast
<1>6. CASE BuildNotice(b)
  <2>1. Len(bdump[b]) < PartCount /\ bdump[b] \in Dumps
    BY <1>6 DEF BuildNotice, CastType, NoticePartial
  <2> DEFINE d == Append(bdump[b], cache[Len(bdump[b]) + 1])
  <2>2. d \in Dumps /\ Len(d) = Len(bdump[b]) + 1
    <3>1. Len(bdump[b]) + 1 \in Parts
      BY <2>1 DEF Parts, Dumps
    <3> QED BY <2>1, <3>1, DumpAppend DEF CacheType
  <2>3. bdump' = [bdump EXCEPT ![b] = d] /\ bdump'[b] = d
    BY <1>6 DEF BuildNotice, CastType
  <2> HIDE DEF d
  <2>4. CastType'
    <3>1. /\ bpc' \in {bpc, [bpc EXCEPT ![b] = "text"]}
          /\ cursor' \in {cursor, [cursor EXCEPT ![b] = 1]}
          /\ used' = used
      BY <1>6 DEF BuildNotice
    <3>2. 1 \in 0 .. MaxClients
      OBVIOUS
    <3> QED BY <2>2, <2>3, <3>1, <3>2 DEF CastType
  <2>5. NoticePartial'
    <3>1. d \in Seq(Nat) /\ Len(d) <= PartCount
      BY <2>2 DEF Dumps
    <3> QED BY <1>6, <2>2, <2>3, <3>1 DEF BuildNotice, CastType, NoticePartial
  <2>6. HistType'
    <3>1. Message("event", d) \in Messages
      BY <2>2 DEF Message, Messages, Kinds
    <3>2. /\ published' \in {published, Append(published, Message("event", d))}
          /\ joinedAt' = joinedAt
      BY <1>6, <2>3 DEF BuildNotice
    <3> QED BY <3>1, <3>2 DEF HistType
  <2> QED BY <1>6, <2>4, <2>5, <2>6, TypeUnchanged DEF BuildNotice
<1>7. CASE SendText(b)
  <2>1. Message("event", bdump[b]) \in Messages
    BY DEF Message, Messages, Kinds, CastType
  <2>2. SockType'
    BY <1>7, <2>1, WriteTypes DEF SendText
  <2>3. CastType' /\ NoticePartial'
    BY <1>7 DEF SendText, CastType, NoticePartial
  <2> QED BY <1>7, <2>2, <2>3, TypeUnchanged DEF SendText
<1>8. CASE SendNewline(b)
  <2>1. SockType'
    <3>1. Message("reply", <<>>) \in Messages
      BY DEF Message, Messages, Kinds, Dumps
    <3> QED BY <1>8, <3>1, WriteTypes DEF SendNewline, NewlineThen
  <2>2. <<>> \in Dumps
    BY DEF Dumps
  <2>3. CastType'
    <3>1. /\ bpc' \in {[bpc EXCEPT ![b] = "text"], [bpc EXCEPT ![b] = "wait"]}
          /\ bdump' \in {bdump, [bdump EXCEPT ![b] = <<>>]}
          /\ used' = used
      BY <1>8 DEF SendNewline, NewlineThen
    <3>2. cursor' \in [Broadcasters -> 0 .. MaxClients]
      BY <1>8 DEF SendNewline, NewlineThen, CastType, TableType
    <3>3. bpc' \in [Broadcasters ->
                      {"wait", "refresh", "enter", "build", "text", "newline"}]
      BY <3>1 DEF CastType
    <3>4. bdump' \in [Broadcasters -> Dumps]
      BY <2>2, <3>1 DEF CastType
    <3> QED BY <3>1, <3>2, <3>3, <3>4 DEF CastType
  <2>4. NoticePartial'
    BY <1>8 DEF SendNewline, NewlineThen, CastType, NoticePartial
  <2>5. TableType'
    BY <1>8 DEF SendNewline, NewlineThen, TableType
  <2> QED BY <1>8, <2>1, <2>3, <2>4, <2>5, TypeUnchanged DEF SendNewline, NewlineThen
<1> QED BY <1>1, <1>2, <1>3, <1>4, <1>5, <1>6, <1>7, <1>8

\* A step of a connection or of its client keeps the types.
LEMMA ConnTypeStep ==
  ASSUME TypeInv, NEW c \in Sessions,
         \/ Accept(c)
         \/ ReadSubscribe(c) \/ ReadCall(c)
         \/ ConnStep(c)
         \/ Stall(c) \/ HangUp(c)
  PROVE  TypeInv'
<1> USE ConstantsAssumption DEF TypeInv, TypeOK
<1>1. CASE Accept(c)
  <2>1. ConnType' /\ OpenHaveFds' /\ ReplyPartial'
    BY <1>1 DEF Accept, Goto, FreeFds, ConnType, OpenHaveFds, ReplyPartial, IsOpen
  <2>2. ClientType'
    BY <1>1 DEF Accept, ClientType
  <2> QED BY <1>1, <2>1, <2>2, TypeUnchanged DEF Accept
<1>2. CASE ReadSubscribe(c) \/ ReadCall(c)
  <2>1. ConnType' /\ OpenHaveFds' /\ ReplyPartial'
    BY <1>2 DEF ReadSubscribe, ReadCall, Goto, ConnType, OpenHaveFds, ReplyPartial, IsOpen
  <2>2. ClientType'
    <3>1. asked[c] \in [subscribe : 0 .. MaxSubscribes, call : 0 .. MaxCalls]
      BY DEF ClientType
    <3> QED BY <1>2, <3>1 DEF ReadSubscribe, ReadCall, ClientType
  <2> QED BY <1>2, <2>1, <2>2, TypeUnchanged DEF ReadSubscribe, ReadCall
<1>3. CASE AddClient(c)
  <2>1. fd[c] \in Fds
    BY <1>3 DEF AddClient, Goto, OpenHaveFds, IsOpen
  <2>2. TableType'
    BY <1>3, <2>1 DEF AddClient, ListFd, TableType
  <2>3. HistType'
    BY <1>3 DEF AddClient, ListFd, HistType
  <2>4. ConnType' /\ OpenHaveFds' /\ ReplyPartial'
    BY <1>3 DEF AddClient, Goto, ConnType, OpenHaveFds, ReplyPartial, IsOpen
  <2> QED BY <1>3, <2>2, <2>3, <2>4, TypeUnchanged DEF AddClient
<1>4. CASE BuildDump(c)
  <2>1. Len(sdump[c]) < PartCount /\ sdump[c] \in Dumps
    BY <1>4 DEF BuildDump, ConnType, ReplyPartial
  <2> DEFINE d == Append(sdump[c], cache[Len(sdump[c]) + 1])
  <2>2. d \in Dumps /\ Len(d) = Len(sdump[c]) + 1
    <3>1. Len(sdump[c]) + 1 \in Parts
      BY <2>1 DEF Parts, Dumps
    <3> QED BY <2>1, <3>1, DumpAppend DEF CacheType
  <2>3. sdump' = [sdump EXCEPT ![c] = d] /\ sdump'[c] = d
    BY <1>4 DEF BuildDump, ConnType
  <2> HIDE DEF d
  <2>4. /\ pc' = (IF Len(d) = PartCount THEN [pc EXCEPT ![c] = "State.Dump"] ELSE pc)
        /\ UNCHANGED <<fd, half>>
        /\ pc[c] = "dumping"
    BY <1>4, <2>3 DEF BuildDump
  <2>5. ConnType' /\ OpenHaveFds'
    BY <2>2, <2>3, <2>4 DEF ConnType, OpenHaveFds, IsOpen
  <2>6. ReplyPartial'
    <3>1. d \in Seq(Nat) /\ Len(d) <= PartCount
      BY <2>2 DEF Dumps
    <3> QED BY <2>3, <2>4, <3>1 DEF ConnType, ReplyPartial
  <2> QED BY <1>4, <2>5, <2>6, TypeUnchanged DEF BuildDump
<1>5. CASE ReplyText(c)
  <2> DEFINE m == Message(pc[c], IF pc[c] = "reply" THEN <<>> ELSE sdump[c])
  <2>1. m \in Messages
    <3>1. <<>> \in Dumps /\ sdump[c] \in Dumps
      BY DEF Dumps, ConnType
    <3> QED BY <1>5, <3>1 DEF ReplyText, Message, Messages, Kinds
  <2>2. SockType'
    BY <1>5, <2>1, WriteTypes DEF ReplyText
  <2>3. ConnType' /\ OpenHaveFds' /\ ReplyPartial'
    BY <1>5 DEF ReplyText, ConnType, OpenHaveFds, ReplyPartial, IsOpen
  <2> QED BY <1>5, <2>2, <2>3, TypeUnchanged DEF ReplyText
<1>6. CASE ReplyNewline(c)
  <2>1. <<>> \in Dumps
    BY DEF Dumps
  <2>2. SockType'
    <3>1. Message("reply", <<>>) \in Messages
      BY <2>1 DEF Message, Messages, Kinds
    <3> QED BY <1>6, <3>1, WriteTypes DEF ReplyNewline
  <2>3. ConnType' /\ OpenHaveFds'
    BY <1>6, <2>1 DEF ReplyNewline, Goto, ConnType, OpenHaveFds, IsOpen
  <2>4. ReplyPartial'
    BY <1>6 DEF ReplyNewline, Goto, ConnType, ReplyPartial
  <2> QED BY <1>6, <2>2, <2>3, <2>4, TypeUnchanged DEF ReplyNewline
<1>7. CASE ReadEof(c)
  <2>1. ConnType' /\ OpenHaveFds' /\ ReplyPartial'
    BY <1>7 DEF ReadEof, Goto, ConnType, OpenHaveFds, ReplyPartial, IsOpen
  <2> QED BY <1>7, <2>1, TypeUnchanged DEF ReadEof
<1>8. CASE RemoveClient(c)
  <2>1. TableType'
    <3>1. client_fds \in Seq(Fds) /\ Len(client_fds) <= MaxClients
      BY DEF TableType
    <3>2. fd[c] \in Listed => client_fds # <<>>
      BY DEF Listed
    <3>3. fd[c] \in Listed => /\ Without(client_fds, fd[c]) \in Seq(Fds)
                              /\ Len(Without(client_fds, fd[c])) = Len(client_fds) - 1
      BY <3>1, <3>2, WithoutType
    <3>4. clients_mu' = clients_mu
      BY <1>8 DEF RemoveClient
    <3>5. client_fds' = IF fd[c] \in Listed THEN Without(client_fds, fd[c])
                                            ELSE client_fds
      BY <1>8 DEF RemoveClient
    <3>6. client_fds' \in Seq(Fds) /\ Len(client_fds') <= MaxClients
      BY <3>1, <3>3, <3>5
    <3> QED BY <3>4, <3>6 DEF TableType
  <2>2. ConnType' /\ OpenHaveFds' /\ ReplyPartial'
    BY <1>8 DEF RemoveClient, Goto, ConnType, OpenHaveFds, ReplyPartial, IsOpen
  <2> QED BY <1>8, <2>1, <2>2, TypeUnchanged DEF RemoveClient
<1>9. CASE CloseFd(c)
  <2>1. ConnType' /\ OpenHaveFds' /\ ReplyPartial'
    BY <1>9 DEF CloseFd, Goto, ConnType, OpenHaveFds, ReplyPartial, IsOpen
  <2> QED BY <1>9, <2>1, TypeUnchanged DEF CloseFd
<1>10. CASE Stall(c)
  <2>1. ClientType'
    BY <1>10 DEF Stall, ClientType
  <2> QED BY <1>10, <2>1, TypeUnchanged DEF Stall
<1>11. CASE HangUp(c)
  <2>1. ClientType'
    BY <1>11 DEF HangUp, ClientType
  <2>2. SockType'
    BY <1>11 DEF HangUp, SockType
  <2> QED BY <1>11, <2>1, <2>2, TypeUnchanged DEF HangUp
<1> QED
  BY <1>1, <1>2, <1>3, <1>4, <1>5, <1>6, <1>7, <1>8, <1>9, <1>10, <1>11 DEF ConnStep

LEMMA TypeStep == TypeInv /\ [Next]_vars => TypeInv'
<1>1. ASSUME TypeInv, UNCHANGED vars PROVE TypeInv'
  BY <1>1, TypeUnchanged DEF TypeInv, TypeOK, vars
<1>2. ASSUME TypeInv, Next PROVE TypeInv'
  <2>1. CASE ApplyEvent \/ StartRefresh
    BY <1>2, <2>1, CastTypeStep, ConstantsAssumption
  <2>2. ASSUME NEW b \in Broadcasters, NotifyIdle(b) \/ CastStep(b) PROVE TypeInv'
    BY <1>2, <2>2, CastTypeStep DEF CastStep
  <2>3. ASSUME NEW c \in Sessions,
               \/ Accept(c) \/ ReadSubscribe(c) \/ ReadCall(c) \/ ConnStep(c)
               \/ Stall(c) \/ HangUp(c)
        PROVE  TypeInv'
    BY <1>2, <2>3, ConnTypeStep
  <2>4. CASE Finished
    BY <1>1, <1>2, <2>4 DEF Finished
  <2> QED BY <1>2, <2>1, <2>2, <2>3, <2>4 DEF Next
<1> QED BY <1>1, <1>2

LEMMA TypeInvariant == Spec => []TypeInv
BY TypeInit, TypeStep, PTL DEF Spec

\* Every variable keeps its type, whatever the number of threads and requests.
THEOREM TypeCorrect == Spec => []TypeOK
<1>1. TypeInv => TypeOK
  BY DEF TypeInv
<1> QED BY <1>1, TypeInvariant, PTL

-----------------------------------------------------------------------------
(* The write loop and the mutex *)

\* Whoever is between the lock and the unlock of broadcast_event holds the
\* mutex, so there is one at most.
MutexHeld ==
  \A b \in Broadcasters : bpc[b] \in {"build", "text", "newline"} => clients_mu = b

\* The table is not empty while a notification for it is built, and the index
\* of the write loop stays inside it.
LoopInTable ==
  \A b \in Broadcasters :
    /\ bpc[b] = "build" => client_fds # <<>>
    /\ bpc[b] \in {"text", "newline"} => cursor[b] \in DOMAIN client_fds

LoopInv == MutexHeld /\ LoopInTable

LEMMA LoopInit == Init => LoopInv
BY DEF Init, LoopInv, MutexHeld, LoopInTable

LEMMA LoopStep == TypeInv /\ LoopInv /\ [Next]_vars => LoopInv'
<1> SUFFICES ASSUME TypeInv, LoopInv, [Next]_vars PROVE LoopInv'
  OBVIOUS
<1> USE ConstantsAssumption
<1>t. TableType /\ CastType /\ client_fds \in Seq(Fds)
  BY DEF TypeInv, TypeOK, TableType
<1>1. ASSUME UNCHANGED <<client_fds, clients_mu, bpc, cursor>> PROVE LoopInv'
  BY <1>1 DEF LoopInv, MutexHeld, LoopInTable
<1>2. CASE ApplyEvent \/ StartRefresh
  BY <1>2, <1>t DEF ApplyEvent, StartRefresh, Start, LoopInv, MutexHeld, LoopInTable,
     tableVars, CastType
<1>3. CASE RefreshStep
  BY <1>3, <1>t DEF RefreshStep, RefreshUntil, LoopInv, MutexHeld, LoopInTable,
     tableVars, CastType
<1>4. ASSUME NEW b \in Broadcasters, NotifyIdle(b) PROVE LoopInv'
  BY <1>4, <1>t DEF NotifyIdle, Start, LoopInv, MutexHeld, LoopInTable, tableVars,
     CastType
<1>5. ASSUME NEW b \in Broadcasters, EnterBroadcast(b) PROVE LoopInv'
  BY <1>5, <1>t DEF EnterBroadcast, DecideBroadcast, LoopInv, MutexHeld, LoopInTable,
     CastType
<1>6. ASSUME NEW b \in Broadcasters, BuildNotice(b) PROVE LoopInv'
  <2>1. /\ bpc[b] = "build"
        /\ UNCHANGED <<client_fds, clients_mu>>
        /\ \/ UNCHANGED <<bpc, cursor>>
           \/ /\ bpc' = [bpc EXCEPT ![b] = "text"]
              /\ cursor' = [cursor EXCEPT ![b] = 1]
    BY <1>6 DEF BuildNotice, tableVars
  <2>2. 1 \in DOMAIN client_fds
    BY <2>1, <1>t DEF LoopInv, LoopInTable
  <2> QED BY <2>1, <2>2, <1>t DEF LoopInv, MutexHeld, LoopInTable, CastType
<1>7. ASSUME NEW b \in Broadcasters, SendText(b) PROVE LoopInv'
  BY <1>7, <1>t DEF SendText, LoopInv, MutexHeld, LoopInTable, tableVars, CastType
<1>8. ASSUME NEW b \in Broadcasters, SendNewline(b) PROVE LoopInv'
  <2>1. /\ bpc[b] = "newline"
        /\ client_fds' = client_fds
        /\ IF cursor[b] < Len(client_fds)
           THEN /\ cursor' = [cursor EXCEPT ![b] = @ + 1]
                /\ bpc' = [bpc EXCEPT ![b] = "text"]
                /\ clients_mu' = clients_mu
           ELSE /\ cursor' = [cursor EXCEPT ![b] = 0]
                /\ bpc' = [bpc EXCEPT ![b] = "wait"]
                /\ clients_mu' = None
    BY <1>8 DEF SendNewline, NewlineThen
  <2>2. MutexHeld'
    BY <2>1, <1>t DEF LoopInv, MutexHeld, CastType
  <2>3. LoopInTable'
    BY <2>1, <1>t DEF LoopInv, LoopInTable, CastType
  <2> QED BY <2>2, <2>3 DEF LoopInv
<1>9. ASSUME NEW c \in Sessions, AddClient(c) PROVE LoopInv'
  <2>1. /\ clients_mu = None
        /\ UNCHANGED <<clients_mu, bpc, cursor>>
    BY <1>9 DEF AddClient, castVars
  <2>2. \A b \in Broadcasters : bpc[b] \notin {"build", "text", "newline"}
    BY <2>1 DEF LoopInv, MutexHeld
  <2> QED BY <2>1, <2>2 DEF LoopInv, MutexHeld, LoopInTable
<1>10. ASSUME NEW c \in Sessions, RemoveClient(c) PROVE LoopInv'
  <2>1. /\ clients_mu = None
        /\ UNCHANGED <<clients_mu, bpc, cursor>>
    BY <1>10 DEF RemoveClient, castVars
  <2>2. \A b \in Broadcasters : bpc[b] \notin {"build", "text", "newline"}
    BY <2>1 DEF LoopInv, MutexHeld
  <2> QED BY <2>1, <2>2 DEF LoopInv, MutexHeld, LoopInTable
<1>11. ASSUME NEW c \in Sessions,
              \/ Accept(c) \/ ReadSubscribe(c) \/ ReadCall(c)
              \/ BuildDump(c) \/ ReplyText(c) \/ ReplyNewline(c)
              \/ ReadEof(c) \/ CloseFd(c) \/ Stall(c) \/ HangUp(c)
       PROVE  LoopInv'
  BY <1>1, <1>11 DEF Accept, ReadSubscribe, ReadCall, BuildDump, ReplyText, ReplyNewline,
     ReadEof, CloseFd, Stall, HangUp, tableVars, castVars
<1>12. CASE UNCHANGED vars
  BY <1>1, <1>12 DEF vars, tableVars, castVars
<1> QED
  BY <1>2, <1>3, <1>4, <1>5, <1>6, <1>7, <1>8, <1>9, <1>10, <1>11, <1>12
     DEF Next, CastStep, ConnStep, Finished

LEMMA LoopInvariant == Spec => []LoopInv
BY LoopInit, LoopStep, TypeInvariant, PTL DEF Spec

-----------------------------------------------------------------------------
(* The table and the connections *)

\* Open connections have different descriptors.
FdsDistinct ==
  \A c, d \in Sessions : IsOpen(c) /\ IsOpen(d) /\ fd[c] = fd[d] => c = d

\* Only a connection that has asked to subscribe is about to enter the table
\* or has entered it.
AskedFirst ==
  \A c \in Sessions :
    pc[c] = "adding" \/ joinedAt[c] # NotMember => asked[c].subscribe >= 1

EntriesDistinct ==
  \A i, j \in DOMAIN client_fds : client_fds[i] = client_fds[j] => i = j

\* The connection an entry belongs to: it is past entering the table and has
\* not left it.
Owns(c, f) ==
  /\ pc[c] \notin {"none", "adding", "closing", "closed"}
  /\ fd[c] = f
  /\ joinedAt[c] # NotMember

EntriesOwned == \A i \in DOMAIN client_fds : \E c \in Sessions : Owns(c, client_fds[i])

TableInv == FdsDistinct /\ AskedFirst /\ EntriesDistinct /\ EntriesOwned

LEMMA TableInit == Init => TableInv
BY DEF Init, TableInv, FdsDistinct, AskedFirst, EntriesDistinct, EntriesOwned, IsOpen,
       NotMember

\* What Without returns when no entry occurs twice: the other entries, each once.
LEMMA WithoutEntries ==
  ASSUME NEW s \in Seq(Fds), NEW f,
         \A i, j \in DOMAIN s : s[i] = s[j] => i = j,
         \E i \in DOMAIN s : s[i] = f
  PROVE  /\ \A i \in DOMAIN Without(s, f) :
              Without(s, f)[i] # f /\ \E k \in DOMAIN s : Without(s, f)[i] = s[k]
         /\ \A i, j \in DOMAIN Without(s, f) :
              Without(s, f)[i] = Without(s, f)[j] => i = j
<1>1. PICK n \in DOMAIN s : s[n] = f
  OBVIOUS
<1>2. FirstIndex(s, f) = n
  <2>1. \A j \in 1 .. n - 1 : s[j] # f
    BY <1>1
  <2>2. \A i \in DOMAIN s : s[i] = f => i = n
    BY <1>1
  <2> QED BY <1>1, <2>1, <2>2 DEF FirstIndex
<1>3. /\ DOMAIN s = 1 .. Len(s)
      /\ Len(s) \in Nat
      /\ n \in 1 .. Len(s)
      /\ DOMAIN Without(s, f) = 1 .. Len(s) - 1
  BY <1>1 DEF Without
<1>4. \A i \in 1 .. Len(s) - 1 : Without(s, f)[i] = IF i = n THEN s[Len(s)] ELSE s[i]
  BY <1>2 DEF Without
<1> QED BY <1>1, <1>3, <1>4

\* A step that leaves alone the table and what makes a connection an owner.
LEMMA TableFrame ==
  ASSUME TableInv, UNCHANGED <<client_fds, pc, fd, asked, joinedAt>>
  PROVE  TableInv'
BY DEF TableInv, FdsDistinct, AskedFirst, EntriesDistinct, EntriesOwned, Owns, IsOpen

LEMMA TableStep ==
  ASSUME MaxSubscribes <= 1, TypeInv, TableInv, [Next]_vars
  PROVE  TableInv'
<1> USE ConstantsAssumption
<1>t. /\ client_fds \in Seq(Fds)
      /\ ConnType /\ ClientType /\ HistType
  BY DEF TypeInv, TypeOK, TableType
<1>1. ASSUME NEW b \in Broadcasters,
             \/ ApplyEvent \/ StartRefresh \/ NotifyIdle(b) \/ CastStep(b)
      PROVE  TableInv'
  <2>1. UNCHANGED <<client_fds, pc, fd, asked, joinedAt>>
    BY <1>1 DEF ApplyEvent, StartRefresh, NotifyIdle, CastStep, RefreshStep, RefreshUntil,
       EnterBroadcast, DecideBroadcast, BuildNotice, SendText, SendNewline, NewlineThen,
       tableVars, connVars, clientVars, histVars
  <2> QED BY <2>1, TableFrame
<1>2. ASSUME NEW c \in Sessions, Accept(c) PROVE TableInv'
  <2>1. /\ pc[c] = "none" /\ pc' = [pc EXCEPT ![c] = "reading"]
        /\ UNCHANGED <<client_fds, asked, joinedAt>>
    BY <1>2 DEF Accept, Goto, tableVars, histVars
  <2>2. PICK f \in FreeFds : fd' = [fd EXCEPT ![c] = f]
    BY <1>2 DEF Accept
  <2>3. FdsDistinct'
    BY <2>1, <2>2, <1>t DEF FreeFds, TableInv, FdsDistinct, IsOpen, ConnType
  <2>4. AskedFirst'
    BY <2>1, <1>t DEF TableInv, AskedFirst, ConnType
  <2>5. EntriesDistinct' /\ EntriesOwned'
    BY <2>1, <2>2, <1>t DEF TableInv, EntriesDistinct, EntriesOwned, Owns, ConnType
  <2> QED BY <2>3, <2>4, <2>5 DEF TableInv
<1>3. ASSUME NEW c \in Sessions, ReadSubscribe(c) PROVE TableInv'
  <2>1. /\ pc[c] = "reading" /\ pc' = [pc EXCEPT ![c] = "adding"]
        /\ asked[c].subscribe < MaxSubscribes
        /\ asked' = [asked EXCEPT ![c].subscribe = @ + 1]
        /\ UNCHANGED <<client_fds, fd, joinedAt>>
    BY <1>3 DEF ReadSubscribe, Goto, tableVars, histVars
  <2>2. asked[c] \in [subscribe : 0 .. MaxSubscribes, call : 0 .. MaxCalls]
    BY <1>t DEF ClientType
  <2>3. joinedAt[c] = NotMember
    BY <2>1, <2>2 DEF TableInv, AskedFirst
  <2>4. FdsDistinct'
    BY <2>1, <1>t DEF TableInv, FdsDistinct, IsOpen, ConnType
  <2>5. AskedFirst'
    BY <2>1, <2>2, <1>t DEF TableInv, AskedFirst, ConnType, ClientType
  <2>6. EntriesDistinct' /\ EntriesOwned'
    BY <2>1, <2>3, <1>t DEF TableInv, EntriesDistinct, EntriesOwned, Owns, ConnType
  <2> QED BY <2>4, <2>5, <2>6 DEF TableInv
<1>4. ASSUME NEW c \in Sessions, AddClient(c) PROVE TableInv'
  <2>1. /\ pc[c] = "adding" /\ pc' = [pc EXCEPT ![c] = "dumping"]
        /\ ListFd(c)
        /\ UNCHANGED <<fd, asked>>
    BY <1>4 DEF AddClient, Goto, clientVars
  <2>2. FdsDistinct'
    BY <2>1, <1>t DEF TableInv, FdsDistinct, IsOpen, ConnType
  <2>3. AskedFirst'
    BY <2>1, <1>t DEF ListFd, TableInv, AskedFirst, ConnType, HistType
  <2>4. \A i \in DOMAIN client_fds : client_fds[i] # fd[c]
    BY <2>1 DEF TableInv, FdsDistinct, EntriesOwned, Owns, IsOpen
  <2>5. EntriesDistinct'
    <3>1. \A i, j \in DOMAIN client_fds : client_fds[i] = client_fds[j] => i = j
      BY DEF TableInv, EntriesDistinct
    <3>2. CASE UNCHANGED client_fds
      BY <3>1, <3>2 DEF EntriesDistinct
    <3>3. CASE client_fds' = Append(client_fds, fd[c])
      BY <2>4, <3>1, <3>3, <1>t DEF EntriesDistinct
    <3> QED BY <2>1, <3>2, <3>3 DEF ListFd
  <2>6. EntriesOwned'
    <3>1. ASSUME NEW d \in Sessions, NEW f, Owns(d, f) PROVE Owns(d, f)'
      BY <2>1, <3>1, <1>t DEF ListFd, Owns, ConnType, HistType, NotMember
    <3>2. CASE UNCHANGED client_fds
      BY <3>1, <3>2 DEF TableInv, EntriesOwned
    <3>3. CASE client_fds' = Append(client_fds, fd[c]) /\ joinedAt' = [joinedAt EXCEPT ![c] = Len(published)]
      <4>1. Owns(c, fd[c])'
        BY <2>1, <3>3, <1>t DEF Owns, ConnType, HistType, NotMember
      <4> QED BY <3>1, <3>3, <4>1, <2>1, <1>t DEF TableInv, EntriesOwned
    <3> QED BY <2>1, <3>2, <3>3 DEF ListFd
  <2> QED BY <2>2, <2>3, <2>5, <2>6 DEF TableInv
<1>5. ASSUME NEW c \in Sessions,
             ReadCall(c) \/ BuildDump(c) \/ ReplyNewline(c) \/ ReadEof(c)
      PROVE  TableInv'
  <2>1. /\ UNCHANGED <<client_fds, fd, joinedAt>>
        /\ \A d \in Sessions : asked'[d].subscribe = asked[d].subscribe
    BY <1>5, <1>t DEF ReadCall, BuildDump, ReplyNewline, ReadEof, tableVars, clientVars,
       histVars, ClientType
  <2>2. PICK p \in {"reading", "reply", "dumping", "State.Dump", "subscribed", "removing"} :
          pc' = [pc EXCEPT ![c] = p]
    BY <1>5, <1>t DEF ReadCall, BuildDump, ReplyNewline, ReadEof, Goto, ConnType
  <2>3. pc[c] \notin {"none", "adding", "closing", "closed"}
    BY <1>5 DEF ReadCall, BuildDump, ReplyNewline, ReadEof, Goto
  <2>4. FdsDistinct' /\ AskedFirst'
    BY <2>1, <2>2, <2>3, <1>t DEF TableInv, FdsDistinct, AskedFirst, IsOpen, ConnType
  <2>5. EntriesDistinct' /\ EntriesOwned'
    BY <2>1, <2>2, <1>t DEF TableInv, EntriesDistinct, EntriesOwned, Owns, ConnType
  <2> QED BY <2>4, <2>5 DEF TableInv
<1>6. ASSUME NEW c \in Sessions, RemoveClient(c) PROVE TableInv'
  <2>1. /\ pc[c] = "removing" /\ pc' = [pc EXCEPT ![c] = "closing"]
        /\ client_fds' = IF fd[c] \in Listed THEN Without(client_fds, fd[c]) ELSE client_fds
        /\ UNCHANGED <<fd, asked, joinedAt>>
    BY <1>6 DEF RemoveClient, Goto, clientVars, histVars
  <2>2. FdsDistinct' /\ AskedFirst'
    BY <2>1, <1>t DEF TableInv, FdsDistinct, AskedFirst, IsOpen, ConnType
  <2>3. /\ EntriesDistinct'
        /\ \A i \in DOMAIN client_fds' :
             client_fds'[i] # fd[c] /\ \E k \in DOMAIN client_fds : client_fds'[i] = client_fds[k]
    <3>1. CASE fd[c] \in Listed
      BY <2>1, <3>1, <1>t, WithoutEntries DEF Listed, TableInv, EntriesDistinct
    <3>2. CASE fd[c] \notin Listed
      BY <2>1, <3>2 DEF Listed, TableInv, EntriesDistinct
    <3> QED BY <3>1, <3>2
  <2>4. EntriesOwned'
    <3>1. ASSUME NEW d \in Sessions, NEW f, Owns(d, f), f # fd[c] PROVE Owns(d, f)'
      BY <2>1, <3>1, <1>t DEF Owns, ConnType
    <3> QED BY <2>3, <3>1 DEF TableInv, EntriesOwned
  <2> QED BY <2>2, <2>3, <2>4 DEF TableInv
<1>7. ASSUME NEW c \in Sessions, CloseFd(c) PROVE TableInv'
  <2>1. /\ pc[c] = "closing" /\ pc' = [pc EXCEPT ![c] = "closed"]
        /\ fd' = [fd EXCEPT ![c] = None]
        /\ UNCHANGED <<client_fds, asked, joinedAt>>
    BY <1>7 DEF CloseFd, Goto, tableVars, clientVars, histVars
  <2>2. FdsDistinct' /\ AskedFirst'
    BY <2>1, <1>t DEF TableInv, FdsDistinct, AskedFirst, IsOpen, ConnType
  <2>3. EntriesDistinct' /\ EntriesOwned'
    BY <2>1, <1>t DEF TableInv, EntriesDistinct, EntriesOwned, Owns, ConnType
  <2> QED BY <2>2, <2>3 DEF TableInv
<1>8. ASSUME NEW c \in Sessions, ReplyText(c) \/ Stall(c) \/ HangUp(c) PROVE TableInv'
  <2>1. UNCHANGED <<client_fds, pc, fd, asked, joinedAt>>
    BY <1>8 DEF ReplyText, Stall, HangUp, tableVars, connVars, clientVars, histVars
  <2> QED BY <2>1, TableFrame
<1>9. CASE UNCHANGED vars
  BY <1>9, TableFrame DEF vars, tableVars, connVars, clientVars, histVars
<1> QED
  BY <1>1, <1>2, <1>3, <1>4, <1>5, <1>6, <1>7, <1>8, <1>9 DEF Next, ConnStep, Finished

\* With clients that subscribe at most once per connection, the table lists
\* each open subscribed connection at most once and nothing else: an entry
\* never outlives its connection, so it never serves a recycled descriptor.
THEOREM TableAlwaysSound == ASSUME MaxSubscribes <= 1 PROVE Spec => []TableSound
<1>1. TypeInv /\ TableInv /\ [Next]_vars => TableInv'
  BY TableStep
<1>2. Spec => []TableInv
  BY <1>1, TableInit, TypeInvariant, PTL DEF Spec
<1>3. TableInv => TableSound
  BY DEF TableInv, EntriesDistinct, EntriesOwned, Owns, TableSound, IsOpen
<1> QED BY <1>2, <1>3, PTL

\* With the same clients, broadcast_event writes to descriptors of open,
\* subscribed connections only, and its index stays inside the table.
THEOREM WriteLoopAlwaysSound == ASSUME MaxSubscribes <= 1 PROVE Spec => []WriteLoopSound
<1>1. TypeInv /\ TableInv /\ [Next]_vars => TableInv'
  BY TableStep
<1>2. Spec => []TableInv
  BY <1>1, TableInit, TypeInvariant, PTL DEF Spec
<1>3. TableInv /\ LoopInv => WriteLoopSound
  BY DEF TableInv, EntriesOwned, Owns, LoopInv, LoopInTable, WriteLoopSound, IsOpen
<1> QED BY <1>2, <1>3, LoopInvariant, PTL

-----------------------------------------------------------------------------
(* The state a notification carries *)

\* What the watcher has copied for its notification is still in the cache.
DumpIsCache ==
  bpc[Watcher] \in {"build", "text", "newline"} =>
    \A i \in 1 .. Len(bdump[Watcher]) : bdump[Watcher][i] = cache[i]

DumpComplete ==
  bpc[Watcher] \in {"text", "newline"} => Len(bdump[Watcher]) = PartCount

DumpInv == DumpIsCache /\ DumpComplete

LEMMA DumpInit == Init => DumpInv
BY ConstantsAssumption DEF Init, DumpInv, DumpIsCache, DumpComplete

LEMMA DumpStep == TypeInv /\ DumpInv /\ [Next]_vars => DumpInv'
<1> SUFFICES ASSUME TypeInv, DumpInv, [Next]_vars PROVE DumpInv'
  OBVIOUS
<1> USE ConstantsAssumption
<1>t. CastType /\ CacheType /\ NoticePartial
  BY DEF TypeInv, TypeOK
<1>1. ASSUME UNCHANGED <<bpc, bdump, cache>> PROVE DumpInv'
  BY <1>1 DEF DumpInv, DumpIsCache, DumpComplete
<1>2. CASE ApplyEvent \/ StartRefresh
  BY <1>2, <1>t DEF ApplyEvent, StartRefresh, Start, DumpInv, DumpIsCache, DumpComplete,
     CastType
<1>3. CASE RefreshStep
  BY <1>3, <1>t DEF RefreshStep, RefreshUntil, DumpInv, DumpIsCache, DumpComplete, CastType
<1>4. ASSUME NEW b \in Broadcasters, NotifyIdle(b) PROVE DumpInv'
  BY <1>4, <1>t DEF NotifyIdle, Start, DumpInv, DumpIsCache, DumpComplete, CastType,
     cacheVars
<1>5. ASSUME NEW b \in Broadcasters, EnterBroadcast(b) PROVE DumpInv'
  <2>1. /\ bpc[b] = "enter"
        /\ bpc' \in {[bpc EXCEPT ![b] = "wait"], [bpc EXCEPT ![b] = "build"]}
        /\ UNCHANGED <<bdump, cache>>
    BY <1>5 DEF EnterBroadcast, DecideBroadcast, cacheVars
  <2>2. bdump[b] = <<>>
    BY <2>1, <1>t DEF NoticePartial
  <2> QED BY <2>1, <2>2, <1>t DEF DumpInv, DumpIsCache, DumpComplete, CastType
<1>6. ASSUME NEW b \in Broadcasters, BuildNotice(b) PROVE DumpInv'
  <2> DEFINE n == Len(bdump[b])
             d == Append(bdump[b], cache[n + 1])
  <2>1. /\ bpc[b] = "build"
        /\ bdump' = [bdump EXCEPT ![b] = d]
        /\ bpc' = IF Len(d) = PartCount THEN [bpc EXCEPT ![b] = "text"] ELSE bpc
        /\ cache' = cache
    BY <1>6, <1>t DEF BuildNotice, cacheVars, CastType
  <2>2. /\ n \in Nat /\ Len(d) = n + 1 /\ d[n + 1] = cache[n + 1]
        /\ \A i \in 1 .. n : d[i] = bdump[b][i]
    BY <1>t DEF CastType, Dumps
  <2> HIDE DEF d, n
  <2>3. CASE b = Watcher
    <3>1. \A i \in 1 .. n : bdump[b][i] = cache[i]
      BY <2>1, <2>3 DEF DumpInv, DumpIsCache, n
    <3>2. bdump'[Watcher] = d
      BY <2>1, <2>3, <1>t DEF CastType
    <3>3. DumpIsCache'
      BY <2>1, <2>2, <3>1, <3>2 DEF DumpIsCache
    <3>4. DumpComplete'
      BY <2>1, <2>3, <3>2, <1>t DEF DumpComplete, CastType
    <3> QED BY <3>3, <3>4 DEF DumpInv
  <2>4. CASE b # Watcher
    BY <2>1, <2>4, <1>t DEF DumpInv, DumpIsCache, DumpComplete, CastType
  <2> QED BY <2>3, <2>4
<1>7. ASSUME NEW b \in Broadcasters, SendText(b) PROVE DumpInv'
  BY <1>7, <1>t DEF SendText, DumpInv, DumpIsCache, DumpComplete, CastType, cacheVars
<1>8. ASSUME NEW b \in Broadcasters, SendNewline(b) PROVE DumpInv'
  <2>1. /\ bpc[b] = "newline"
        /\ cache' = cache
        /\ \/ bpc' = [bpc EXCEPT ![b] = "text"] /\ bdump' = bdump
           \/ bpc' = [bpc EXCEPT ![b] = "wait"] /\ bdump' = [bdump EXCEPT ![b] = <<>>]
    BY <1>8 DEF SendNewline, NewlineThen, cacheVars
  <2> QED BY <2>1, <1>t DEF DumpInv, DumpIsCache, DumpComplete, CastType
<1>9. ASSUME NEW c \in Sessions,
             \/ Accept(c) \/ ReadSubscribe(c) \/ ReadCall(c) \/ ConnStep(c)
             \/ Stall(c) \/ HangUp(c)
      PROVE  DumpInv'
  BY <1>1, <1>9 DEF Accept, ReadSubscribe, ReadCall, ConnStep, AddClient, BuildDump,
     ReplyText, ReplyNewline, ReadEof, RemoveClient, CloseFd, Stall, HangUp, cacheVars,
     castVars
<1>10. CASE UNCHANGED vars
  BY <1>1, <1>10 DEF vars, cacheVars, castVars
<1> QED
  BY <1>2, <1>3, <1>4, <1>5, <1>6, <1>7, <1>8, <1>9, <1>10 DEF Next, CastStep, Finished

\* The notification of a compositor event carries the whole cache as that event
\* left it, however many other threads broadcast, subscribe and leave meanwhile.
THEOREM OwnStateAlways == Spec => []OwnState
<1>1. Spec => []DumpInv
  BY DumpInit, DumpStep, TypeInvariant, PTL DEF Spec
<1>2. TypeInv /\ DumpInv => OwnState
  <2> SUFFICES ASSUME TypeInv, DumpInv, bpc[Watcher] \in {"text", "newline"}
               PROVE  bdump[Watcher] = cache
    BY DEF OwnState
  <2>1. bdump[Watcher] \in Seq(Nat) /\ cache \in [1 .. PartCount -> Nat]
    BY ConstantsAssumption DEF TypeInv, TypeOK, CastType, CacheType, Dumps, Parts
  <2>2. /\ Len(bdump[Watcher]) = PartCount
        /\ \A i \in 1 .. PartCount : bdump[Watcher][i] = cache[i]
    BY DEF DumpInv, DumpIsCache, DumpComplete
  <2> QED BY <2>1, <2>2
<1> QED BY <1>1, <1>2, TypeInvariant, PTL

=============================================================================
