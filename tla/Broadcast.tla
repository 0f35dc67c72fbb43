------------------------------ MODULE Broadcast ------------------------------
(***************************************************************************)
(* The connections, the table of subscribed clients and the notifications  *)
(* of the axctl daemon (src/src/server/server.c).                          *)
(*                                                                         *)
(* Threads: the event watcher, which applies compositor events to the      *)
(* state cache and broadcasts each of them; further broadcasters (the      *)
(* Wayland dispatch thread that runs the idle callback); and one detached  *)
(* thread per accepted connection.  They share the table client_fds under  *)
(* clients_mu, the state cache under its own lock, and the sockets under   *)
(* no lock at all.                                                         *)
(*                                                                         *)
(* Abstractions.  The cache is one write stamp per list (windows,          *)
(* workspaces, monitors): a stamp counts the writes to the list, so equal  *)
(* stamps mean equal contents and a larger stamp means newer contents.  A  *)
(* message is one write() of its text followed by one write() of the       *)
(* newline.  A descriptor is a number the kernel hands  *)
(* out again after close().  A critical section that waits for nothing     *)
(* inside is one step.                                                     *)
(***************************************************************************)
EXTENDS Integers, Sequences, FiniteSets

CONSTANTS
  Sessions,       \* the connections that are made, one thread each
  Fds,            \* the descriptors accept() may return
  Broadcasters,   \* the threads that call broadcast_event
  Watcher,        \* the broadcaster that runs server_event_watcher
  None,           \* no thread, no descriptor
  EventKinds,     \* the kinds of compositor events that happen
  PartCount,      \* how many of the three lists of a state dump are modelled
  MaxClients,     \* MAX_CLIENTS
  Stallers,       \* the connections whose client may stop reading
  SockCap,        \* the writes a socket holds for a client that does not read
  MaxEvents,      \* bound: the notifications each broadcaster starts
  MaxSubscribes,  \* bound: the System.Subscribe requests of a connection
  MaxCalls        \* bound: the other requests of a connection

ASSUME ConstantsAssumption ==
  /\ Watcher \in Broadcasters
  /\ None \notin Broadcasters \cup Fds
  /\ EventKinds \subseteq {"window", "ignored", "refresh"}
  /\ PartCount \in 1 .. 3
  /\ MaxClients \in Nat \ {0}
  /\ Stallers \subseteq Sessions
  /\ SockCap \in Nat
  /\ MaxEvents \in Nat
  /\ MaxSubscribes \in Nat
  /\ MaxCalls \in Nat

VARIABLES
  client_fds,  \* the subscribed descriptors, client_fds[0 .. client_count-1]
  clients_mu,  \* the broadcaster that holds the mutex across its steps, or None
  cache,       \* the write stamp of each list of the state cache
  refresh,     \* the next write of server_init_cache, 0 outside it
  bpc,         \* where each broadcaster is
  used,        \* how many notifications each broadcaster has started
  bdump,       \* the part of the state dump each broadcaster has read
  cursor,      \* the index into client_fds of the write loop
  pc,          \* where each connection thread is
  fd,          \* the descriptor of each connection
  half,        \* a message's text is written, its newline is not
  sdump,       \* the part of the state dump each connection thread has read
  client,      \* what the client at the other end does
  asked,       \* how many requests of each kind the connection has read
  stream,      \* the texts that reached each connection, in order
  line_buf,    \* how many texts the client's reader finds in the unfinished line
  backlog,     \* the writes that wait in the socket of a client that does not read
  published,   \* history: the notifications broadcast to a non-empty table
  joinedAt     \* history: Len(published) when the connection entered the table

tableVars == <<client_fds, clients_mu>>
cacheVars == <<cache, refresh>>
castVars == <<bpc, used, bdump, cursor>>
connVars == <<pc, fd, half, sdump>>
clientVars == <<client, asked>>
sockVars == <<stream, line_buf, backlog>>
histVars == <<published, joinedAt>>
vars == <<tableVars, cacheVars, castVars, connVars, clientVars, sockVars, histVars>>

-----------------------------------------------------------------------------
(* Messages, descriptors and streams *)

Parts == 1 .. PartCount

Dumps == {d \in Seq(Nat) : Len(d) <= PartCount}

Kinds == {"State.Dump", "subscribed", "reply", "event"}

Message(kind, state) == [kind |-> kind, state |-> state]

Messages == [kind : Kinds, state : Dumps]

NotMember == -1

\* The daemon's end of the connection is open: from accept() to close().
IsOpen(c) == pc[c] \notin {"none", "closed"}

Online(c) == client[c] \in {"reading", "stalled"}

\* write(f, ...) arrives at the connection that owns f at that moment.  It is
\* lost, with an error that is only logged, when that peer has hung up.
Reaches(f, c) == IsOpen(c) /\ fd[c] = f /\ Online(c)

\* The sockets are blocking ones: write() waits while the buffer of a client
\* that does not read is full.
Fills(f, c) == Reaches(f, c) /\ client[c] = "stalled"

Write(f) ==
  /\ \A c \in Sessions : Fills(f, c) => backlog[c] < SockCap
  /\ backlog' = [c \in Sessions |-> IF Fills(f, c) THEN backlog[c] + 1
                                                   ELSE backlog[c]]

\* The reader of run_subscribe collects what it reads until a newline.
WriteText(f, message) ==
  /\ Write(f)
  /\ stream' = [c \in Sessions |-> IF Reaches(f, c) THEN Append(stream[c], message)
                                                    ELSE stream[c]]
  /\ line_buf' = [c \in Sessions |-> IF Reaches(f, c) THEN line_buf[c] + 1
                                                      ELSE line_buf[c]]

WriteNewline(f) ==
  /\ Write(f)
  /\ line_buf' = [c \in Sessions |-> IF Reaches(f, c) THEN 0 ELSE line_buf[c]]
  /\ UNCHANGED stream

Listed == {client_fds[i] : i \in DOMAIN client_fds}

FirstIndex(s, f) == CHOOSE i \in DOMAIN s : s[i] = f /\ \A j \in 1 .. i - 1 : s[j] # f

\* Mutant: the count goes down, the last entry does not move.
WithoutLast(s, f) == SubSeq(s, 1, Len(s) - 1)

\* client_fds[i] = client_fds[--client_count] for the first i that holds f.
Without(s, f) ==
  [i \in 1 .. Len(s) - 1 |-> IF i = FirstIndex(s, f) THEN s[Len(s)] ELSE s[i]]

-----------------------------------------------------------------------------
(* State *)

TableType ==
  /\ client_fds \in Seq(Fds)
  /\ Len(client_fds) <= MaxClients
  /\ clients_mu \in Broadcasters \cup {None}

CacheType ==
  /\ cache \in [Parts -> Nat]
  /\ refresh \in 0 .. PartCount + 1

CastType ==
  /\ bpc \in [Broadcasters ->
                {"wait", "refresh", "enter", "build", "text", "newline"}]
  /\ used \in [Broadcasters -> 0 .. MaxEvents]
  /\ bdump \in [Broadcasters -> Dumps]
  /\ cursor \in [Broadcasters -> 0 .. MaxClients]

ConnType ==
  /\ pc \in [Sessions ->
               {"none", "reading", "adding", "dumping", "State.Dump", "subscribed",
                "reply", "removing", "closing", "closed"}]
  /\ fd \in [Sessions -> Fds \cup {None}]
  /\ half \in [Sessions -> BOOLEAN]
  /\ sdump \in [Sessions -> Dumps]

ClientType ==
  /\ client \in [Sessions -> {"absent", "reading", "stalled", "gone"}]
  /\ asked \in [Sessions -> [subscribe : 0 .. MaxSubscribes, call : 0 .. MaxCalls]]

SockType ==
  /\ stream \in [Sessions -> Seq(Messages)]
  /\ line_buf \in [Sessions -> Nat]
  /\ backlog \in [Sessions -> 0 .. SockCap]

HistType ==
  /\ published \in Seq(Messages)
  /\ joinedAt \in [Sessions -> Nat \cup {NotMember}]

TypeOK ==
  TableType /\ CacheType /\ CastType /\ ConnType /\ ClientType /\ SockType /\ HistType

\* axctl_server_create has filled the cache and started the watcher, and
\* axctl_server_start listens; no client has connected yet.
Init ==
  /\ client_fds = <<>>
  /\ clients_mu = None
  /\ cache = [p \in Parts |-> 0]
  /\ refresh = 0
  /\ bpc = [b \in Broadcasters |-> "wait"]
  /\ used = [b \in Broadcasters |-> 0]
  /\ bdump = [b \in Broadcasters |-> <<>>]
  /\ cursor = [b \in Broadcasters |-> 0]
  /\ pc = [c \in Sessions |-> "none"]
  /\ fd = [c \in Sessions |-> None]
  /\ half = [c \in Sessions |-> FALSE]
  /\ sdump = [c \in Sessions |-> <<>>]
  /\ client = [c \in Sessions |-> "absent"]
  /\ asked = [c \in Sessions |-> [subscribe |-> 0, call |-> 0]]
  /\ stream = [c \in Sessions |-> <<>>]
  /\ line_buf = [c \in Sessions |-> 0]
  /\ backlog = [c \in Sessions |-> 0]
  /\ published = <<>>
  /\ joinedAt = [c \in Sessions |-> NotMember]

-----------------------------------------------------------------------------
(* The event watcher and the idle callback *)

\* A broadcaster starts its next notification at step `at'.
Start(b, at) ==
  /\ bpc[b] = "wait"
  /\ used[b] < MaxEvents
  /\ used' = [used EXCEPT ![b] = @ + 1]
  /\ bpc' = [bpc EXCEPT ![b] = at]

\* event_callback for an event that names a window: one write to the list of
\* windows, or none when the payload has no usable id.
ApplyEvent ==
  /\ Start(Watcher, "enter")
  /\ \/ "window" \in EventKinds /\ cache' = [cache EXCEPT ![1] = @ + 1]
     \/ "ignored" \in EventKinds /\ UNCHANGED cache
  /\ UNCHANGED <<refresh, bdump, cursor>>
  /\ UNCHANGED <<tableVars, connVars, clientVars, sockVars, histVars>>

\* event_callback for an event that makes it call server_init_cache.
StartRefresh ==
  /\ "refresh" \in EventKinds
  /\ Start(Watcher, "refresh")
  /\ refresh' = 1
  /\ UNCHANGED <<cache, bdump, cursor>>
  /\ UNCHANGED <<tableVars, connVars, clientVars, sockVars, histVars>>

\* server_init_cache: windows, the focus mark on the windows, workspaces,
\* monitors; with request `last' the event is ready to be broadcast.  A request
\* the compositor fails leaves the old list.
RefreshUntil(last) ==
  /\ bpc[Watcher] = "refresh"
  /\ LET part == IF refresh = 1 THEN 1 ELSE refresh - 1
     IN cache' \in {cache, [cache EXCEPT ![part] = @ + 1]}
  /\ IF refresh = last
     THEN refresh' = 0 /\ bpc' = [bpc EXCEPT ![Watcher] = "enter"]
     ELSE refresh' = refresh + 1 /\ UNCHANGED bpc
  /\ UNCHANGED <<used, bdump, cursor>>
  /\ UNCHANGED <<tableVars, connVars, clientVars, sockVars, histVars>>

\* Mutant: one request too many.
RefreshStepTooFar == RefreshUntil(PartCount + 2)

RefreshStep == RefreshUntil(PartCount + 1)

\* Mutant: the idle callback refreshes the cache as the watcher does.
NotifyIdleAndRefresh(b) ==
  /\ b # Watcher
  /\ Start(b, "enter")
  /\ cache' = [cache EXCEPT ![1] = @ + 1]
  /\ UNCHANGED <<refresh, bdump, cursor>>
  /\ UNCHANGED <<tableVars, connVars, clientVars, sockVars, histVars>>

\* idle_monitor_changed_cb: the cache is not involved.
NotifyIdle(b) ==
  /\ b # Watcher
  /\ Start(b, "enter")
  /\ UNCHANGED <<bdump, cursor>>
  /\ UNCHANGED <<tableVars, cacheVars, connVars, clientVars, sockVars, histVars>>

-----------------------------------------------------------------------------
(* broadcast_event *)

\* With the mutex, decide whether there is anybody to notify; `skipped' is
\* what happens to clients_mu when there is nobody.
DecideBroadcast(b, skipped) ==
  /\ bpc[b] = "enter"
  /\ IF client_fds = <<>>
     THEN /\ bpc' = [bpc EXCEPT ![b] = "wait"]
          /\ clients_mu' = skipped
     ELSE /\ bpc' = [bpc EXCEPT ![b] = "build"]
          /\ clients_mu' = b
  /\ UNCHANGED <<client_fds, used, bdump, cursor>>
  /\ UNCHANGED <<cacheVars, connVars, clientVars, sockVars, histVars>>

\* Mutant: the table is used without the mutex.
EnterUnlocked(b) == DecideBroadcast(b, clients_mu)

\* Mutant: the early return for an empty table keeps the mutex.
EnterAndKeep(b) == clients_mu = None /\ DecideBroadcast(b, b)

\* Lock clients_mu; with an empty table unlock again and return.
EnterBroadcast(b) == clients_mu = None /\ DecideBroadcast(b, None)

\* build_state_dump copies one list after the other, each under the cache's
\* own lock; with the last one the notification is complete.
BuildNotice(b) ==
  /\ bpc[b] = "build"
  /\ bdump' = [bdump EXCEPT ![b] = Append(@, cache[Len(@) + 1])]
  /\ IF Len(bdump'[b]) = PartCount
     THEN /\ bpc' = [bpc EXCEPT ![b] = "text"]
          /\ cursor' = [cursor EXCEPT ![b] = 1]
          /\ published' = Append(published, Message("event", bdump'[b]))
     ELSE UNCHANGED <<bpc, cursor, published>>
  /\ UNCHANGED <<used, joinedAt>>
  /\ UNCHANGED <<tableVars, cacheVars, connVars, clientVars, sockVars>>

\* write(client_fds[i], data, dlen)
SendText(b) ==
  /\ bpc[b] = "text"
  /\ WriteText(client_fds[cursor[b]], Message("event", bdump[b]))
  /\ bpc' = [bpc EXCEPT ![b] = "newline"]
  /\ UNCHANGED <<used, bdump, cursor>>
  /\ UNCHANGED <<tableVars, cacheVars, connVars, clientVars, histVars>>

\* The newline, then the next client while `more', or unlock.
NewlineThen(b, more, holder) ==
  /\ bpc[b] = "newline"
  /\ WriteNewline(client_fds[cursor[b]])
  /\ IF more
     THEN /\ cursor' = [cursor EXCEPT ![b] = @ + 1]
          /\ bpc' = [bpc EXCEPT ![b] = "text"]
          /\ UNCHANGED <<clients_mu, bdump>>
     ELSE /\ cursor' = [cursor EXCEPT ![b] = 0]
          /\ bpc' = [bpc EXCEPT ![b] = "wait"]
          /\ clients_mu' = holder
          /\ bdump' = [bdump EXCEPT ![b] = <<>>]
  /\ UNCHANGED <<client_fds, used>>
  /\ UNCHANGED <<cacheVars, connVars, clientVars, histVars>>

\* Mutant: the mutex stays locked after the loop.
SendNewlineNoUnlock(b) == NewlineThen(b, cursor[b] < Len(client_fds), b)

\* write(client_fds[i], "\n", 1), then the next client or unlock.
SendNewline(b) == NewlineThen(b, cursor[b] < Len(client_fds), None)

CastStep(b) ==
  \/ b = Watcher /\ RefreshStep
  \/ EnterBroadcast(b)
  \/ BuildNotice(b)
  \/ SendText(b)
  \/ SendNewline(b)

-----------------------------------------------------------------------------
(* Connections *)

Goto(c, from, to) == pc[c] = from /\ pc' = [pc EXCEPT ![c] = to]

FreeFds == {f \in Fds : \A c \in Sessions : IsOpen(c) => fd[c] # f}

\* A client connects; accept() returns a descriptor that nobody uses and the
\* connection gets its thread.
Accept(c) ==
  /\ Goto(c, "none", "reading")
  /\ \E f \in FreeFds : fd' = [fd EXCEPT ![c] = f]
  /\ client' = [client EXCEPT ![c] = "reading"]
  /\ UNCHANGED <<half, sdump, asked>>
  /\ UNCHANGED <<tableVars, cacheVars, castVars, sockVars, histVars>>

\* read() returns a request, which goes to dispatch_method.
ReadSubscribe(c) ==
  /\ Online(c)
  /\ asked[c].subscribe < MaxSubscribes
  /\ Goto(c, "reading", "adding")
  /\ asked' = [asked EXCEPT ![c].subscribe = @ + 1]
  /\ UNCHANGED <<fd, half, sdump, client>>
  /\ UNCHANGED <<tableVars, cacheVars, castVars, sockVars, histVars>>

ReadCall(c) ==
  /\ Online(c)
  /\ asked[c].call < MaxCalls
  /\ Goto(c, "reading", "reply")
  /\ asked' = [asked EXCEPT ![c].call = @ + 1]
  /\ UNCHANGED <<fd, half, sdump, client>>
  /\ UNCHANGED <<tableVars, cacheVars, castVars, sockVars, histVars>>

\* Append the descriptor if there is room.  A full table is only logged: the
\* request goes on as if it had succeeded.
ListFd(c) ==
  IF Len(client_fds) < MaxClients
  THEN /\ client_fds' = Append(client_fds, fd[c])
       /\ joinedAt' = [joinedAt EXCEPT ![c] = Len(published)]
  ELSE UNCHANGED <<client_fds, joinedAt>>

\* Mutant: the table changes without the mutex.
AddClientUnlocked(c) ==
  /\ Goto(c, "adding", "dumping")
  /\ ListFd(c)
  /\ UNCHANGED <<clients_mu, fd, half, sdump, published>>
  /\ UNCHANGED <<cacheVars, castVars, clientVars, sockVars>>

\* Mutant: the state dump is built before the descriptor enters the table.
AddClientAfterDump(c) ==
  /\ \/ /\ pc[c] = "adding" /\ Len(sdump[c]) < PartCount
        /\ sdump' = [sdump EXCEPT ![c] = Append(@, cache[Len(@) + 1])]
        /\ UNCHANGED <<pc, client_fds, joinedAt>>
     \/ /\ clients_mu = None /\ Len(sdump[c]) = PartCount
        /\ Goto(c, "adding", "State.Dump")
        /\ ListFd(c)
        /\ UNCHANGED sdump
  /\ UNCHANGED <<clients_mu, fd, half, published>>
  /\ UNCHANGED <<cacheVars, castVars, clientVars, sockVars>>

\* System.Subscribe enters the table under clients_mu ...
AddClient(c) ==
  /\ clients_mu = None
  /\ Goto(c, "adding", "dumping")
  /\ ListFd(c)
  /\ UNCHANGED <<clients_mu, fd, half, sdump, published>>
  /\ UNCHANGED <<cacheVars, castVars, clientVars, sockVars>>

\* ... then, outside it, build_state_dump for the State.Dump.
BuildDump(c) ==
  /\ pc[c] = "dumping"
  /\ sdump' = [sdump EXCEPT ![c] = Append(@, cache[Len(@) + 1])]
  /\ IF Len(sdump'[c]) = PartCount
     THEN pc' = [pc EXCEPT ![c] = "State.Dump"]
     ELSE UNCHANGED pc
  /\ UNCHANGED <<fd, half>>
  /\ UNCHANGED <<tableVars, cacheVars, castVars, clientVars, sockVars, histVars>>

\* The State.Dump, the response that carries the same dump, and the response
\* of the generic handler are written by the connection thread, without
\* clients_mu: first the text ...
ReplyText(c) ==
  /\ pc[c] \in {"State.Dump", "subscribed", "reply"}
  /\ ~half[c]
  /\ WriteText(fd[c], Message(pc[c], IF pc[c] = "reply" THEN <<>> ELSE sdump[c]))
  /\ half' = [half EXCEPT ![c] = TRUE]
  /\ UNCHANGED <<pc, fd, sdump>>
  /\ UNCHANGED <<tableVars, cacheVars, castVars, clientVars, histVars>>

\* ... then the newline.
ReplyNewline(c) ==
  /\ half[c]
  /\ WriteNewline(fd[c])
  /\ half' = [half EXCEPT ![c] = FALSE]
  /\ \/ Goto(c, "State.Dump", "subscribed") /\ UNCHANGED sdump
     \/ Goto(c, "subscribed", "reply") /\ sdump' = [sdump EXCEPT ![c] = <<>>]
     \/ Goto(c, "reply", "reading") /\ UNCHANGED sdump
  /\ UNCHANGED fd
  /\ UNCHANGED <<tableVars, cacheVars, castVars, clientVars, histVars>>

\* read() returns 0 or fails: the client has hung up.
ReadEof(c) ==
  /\ client[c] = "gone"
  /\ Goto(c, "reading", "removing")
  /\ UNCHANGED <<fd, half, sdump>>
  /\ UNCHANGED <<tableVars, cacheVars, castVars, clientVars, sockVars, histVars>>

\* Mutant: the table changes without the mutex.
RemoveClientUnlocked(c) ==
  /\ Goto(c, "removing", "closing")
  /\ client_fds' = IF fd[c] \in Listed THEN Without(client_fds, fd[c]) ELSE client_fds
  /\ UNCHANGED <<clients_mu, fd, half, sdump>>
  /\ UNCHANGED <<cacheVars, castVars, clientVars, sockVars, histVars>>

\* Under clients_mu, the first entry with this descriptor leaves the table.
RemoveClient(c) ==
  /\ clients_mu = None
  /\ Goto(c, "removing", "closing")
  /\ client_fds' = IF fd[c] \in Listed THEN Without(client_fds, fd[c]) ELSE client_fds
  /\ UNCHANGED <<clients_mu, fd, half, sdump>>
  /\ UNCHANGED <<cacheVars, castVars, clientVars, sockVars, histVars>>

\* close(fd): the kernel may hand the number out again.
CloseFd(c) ==
  /\ Goto(c, "closing", "closed")
  /\ fd' = [fd EXCEPT ![c] = None]
  /\ UNCHANGED <<half, sdump>>
  /\ UNCHANGED <<tableVars, cacheVars, castVars, clientVars, sockVars, histVars>>

ConnStep(c) ==
  \/ AddClient(c) \/ BuildDump(c)
  \/ ReplyText(c) \/ ReplyNewline(c)
  \/ ReadEof(c) \/ RemoveClient(c) \/ CloseFd(c)

-----------------------------------------------------------------------------
(* Clients *)

\* The client stays connected but reads no more.
Stall(c) ==
  /\ c \in Stallers
  /\ client[c] = "reading"
  /\ client' = [client EXCEPT ![c] = "stalled"]
  /\ UNCHANGED asked
  /\ UNCHANGED <<tableVars, cacheVars, castVars, connVars, sockVars, histVars>>

HangUp(c) ==
  /\ Online(c)
  /\ client' = [client EXCEPT ![c] = "gone"]
  /\ backlog' = [backlog EXCEPT ![c] = 0]
  /\ UNCHANGED <<asked, stream, line_buf>>
  /\ UNCHANGED <<tableVars, cacheVars, castVars, connVars, histVars>>

-----------------------------------------------------------------------------

\* The bounded environment has nothing left to do and every thread rests.
Finished ==
  /\ \A b \in Broadcasters : bpc[b] = "wait" /\ used[b] = MaxEvents
  /\ \A c \in Sessions : pc[c] = "closed"
  /\ UNCHANGED vars

Next ==
  \/ ApplyEvent
  \/ StartRefresh
  \/ \E b \in Broadcasters : NotifyIdle(b) \/ CastStep(b)
  \/ \E c \in Sessions :
       \/ Accept(c) \/ ReadSubscribe(c) \/ ReadCall(c) \/ ConnStep(c)
       \/ Stall(c) \/ HangUp(c)
  \/ Finished

Spec == Init /\ [][Next]_vars

\* Every thread of the daemon runs whenever it can; the clients owe it nothing.
DaemonSpec ==
  /\ Spec
  /\ \A b \in Broadcasters : WF_vars(CastStep(b))
  /\ \A c \in Sessions : WF_vars(ConnStep(c))

\* Besides, a client that has stopped reading hangs up at last.
FairSpec ==
  /\ DaemonSpec
  /\ \A c \in Sessions : WF_vars(client[c] = "stalled" /\ HangUp(c))

-----------------------------------------------------------------------------
(* Properties *)

\* Every descriptor in the table is listed once and belongs to a connection
\* that is open and has subscribed; no entry outlives the connection it was
\* added for, so a recycled descriptor never receives another client's feed.
TableSound ==
  /\ \A i, j \in DOMAIN client_fds : client_fds[i] = client_fds[j] => i = j
  /\ \A i \in DOMAIN client_fds : \E c \in Sessions :
       IsOpen(c) /\ pc[c] # "closing" /\ fd[c] = client_fds[i] /\ joinedAt[c] # NotMember

\* While broadcast_event is in its write loop, the index is inside the table
\* and the descriptor under it belongs to an open, subscribed connection.
WriteLoopSound ==
  \A b \in Broadcasters : bpc[b] \in {"text", "newline"} =>
    /\ cursor[b] \in DOMAIN client_fds
    /\ \E c \in Sessions :
         IsOpen(c) /\ fd[c] = client_fds[cursor[b]] /\ joinedAt[c] # NotMember

\* The notification of a compositor event carries the state that the event
\* itself produced: nothing changes the cache between the update and the dump.
OwnState ==
  bpc[Watcher] \in {"text", "newline"} => bdump[Watcher] = cache

\* A client whose subscription is complete is never left with only old state:
\* once the watcher rests, some message sent to it carries the current cache.
\* Entering the table before the dump is built leaves no gap for an event.
NoMissedState ==
  \A c \in Sessions :
    (pc[c] = "reading" /\ Online(c) /\ joinedAt[c] # NotMember /\ bpc[Watcher] = "wait")
      => \E i \in DOMAIN stream[c] : stream[c][i].state = cache

\* Of two notifications on one connection, the later one never carries an
\* older list than the earlier one.
NoticesInOrder ==
  \A c \in Sessions : \A i, j \in DOMAIN stream[c] :
    (i < j /\ stream[c][i].kind = "event" /\ stream[c][j].kind = "event")
      => \A p \in Parts : stream[c][i].state[p] <= stream[c][j].state[p]

\* The client's line reader never finds two messages on one line ("Each message
\* is terminated by '\n'", run_subscribe).
OneMessagePerLine == \A c \in Sessions : line_buf[c] <= 1

\* A broadcast that has begun ends, whatever the clients do.
BroadcastEnds ==
  \A b \in Broadcasters : bpc[b] # "wait" ~> bpc[b] = "wait"

\* Every request is answered or its client hangs up, and every connection
\* whose client hangs up is closed.
RequestsEnd ==
  \A c \in Sessions :
    /\ pc[c] \in {"adding", "reply"} ~> pc[c] \in {"reading", "closed"}
    /\ client[c] = "gone" ~> pc[c] = "closed"

-----------------------------------------------------------------------------
(* The abstract feed *)

\* The notifications among the messages of s, in order.
Notices(s) ==
  LET upTo[i \in 0 .. Len(s)] ==
        IF i = 0 THEN <<>>
        ELSE IF s[i].kind = "event" THEN Append(upTo[i - 1], s[i]) ELSE upTo[i - 1]
  IN upTo[Len(s)]

Heard(c) == Notices(stream[c])

HungUp == {c \in Sessions : client[c] = "gone"}

Feed == INSTANCE EventFeed WITH
          Notice <- [kind : {"event"}, state : Dumps],
          heard <- [c \in Sessions |-> Heard(c)],
          gone <- HungUp

\* Broadcast implements EventFeed.
ImplementsFeed == Feed!FeedSpec

=============================================================================
