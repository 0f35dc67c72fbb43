---------------------------------- MODULE Rpc ----------------------------------
(***************************************************************************)
(* Requests and replies: handle_connection and dispatch_method of          *)
(* src/src/server/server.c, the error text of src/src/ipc/errors.c, and    *)
(* the requests of src/src/ipc/hyprland/client.c and niri/client.c.        *)
(*                                                                         *)
(* Every connection has a thread.  A request is a plan: the steps that     *)
(* dispatch_method and the backend's function take (module Backends).      *)
(* Most steps are a request to the compositor, made with d->mu held.       *)
(*                                                                         *)
(* Abstractions.  Of the compositor's state the model keeps the focused    *)
(* window and the windows in full screen; any command but the one for full *)
(* screen may change both in any way.  A request is two pieces of text, of *)
(* which the second is no JSON text by itself.  What idle.c,               *)
(* config_handler.c and System.Subscribe do is modelled by Idle,           *)
(* ConfigApply and Broadcast.  Memory does not run out.                    *)
(***************************************************************************)
EXTENDS Integers, Sequences, TLC, Backends

CONSTANTS
  Conns,        \* the connections, each with a thread
  Pipeliners,   \* the clients that do not wait for the reply before they send again
  Environments, \* where the daemon may have been started
  Requests,     \* what the clients may ask for, for each connection
  Windows,      \* the compositor's windows
  None,         \* no window, and nobody
  HasIdle,      \* the server has an idle manager
  Faults,       \* how a request to the compositor may fail
  MaxRequests   \* bound: the requests of each client

\* How a step that needs no compositor may end: well, with nothing left to do, with an
\* error text, or with an error code alone.
LocalEnds(step) ==
  CASE step = "cached" -> {"well"}
    [] step \in {"payload", "files"} -> {"well", "text"}
    [] step \in {"parse", "key"} -> {"well", "code"}
    [] step = "collect" -> {"well", "nothing"}
    [] step = "idle" -> IF HasIdle THEN {"well", "code"} ELSE {"text"}
    [] step = "refuse" -> {"code"}
    [] step \in {"decline", "unknown"} -> {"text"}

Ids == Windows \cup {None}

Asks == [method : Methods, id : Ids, state : BOOLEAN]

ASSUME RpcAssumption ==
  /\ Pipeliners \subseteq Conns
  /\ Environments \subseteq Environment
  /\ DOMAIN Requests = Conns
  /\ \A c \in Conns : Requests[c] \subseteq Asks
  /\ None \notin Windows \cup Conns
  /\ HasIdle \in BOOLEAN
  /\ Faults \subseteq {"rejected", "unreachable", "empty", "hung"}
  /\ MaxRequests \in [Conns -> Nat]

VARIABLES
  sent,         \* how many requests each client has sent
  inbox,        \* the text that waits at each connection: pieces <<request, 1 or 2>>
  tok,          \* the request of which the tokener of a connection holds the first piece
  now,          \* the number of the request that a connection's thread serves, 0 in read()
  asked,        \* what this request is
  todo,         \* the steps that are left of it
  target,       \* the window it is about: its id, or what resolve_id found
  seen,         \* the full screen windows in the list it has read
  use_lua,      \* what hypr_supports_lua told it
  failed,       \* rc # 0
  error_buf,    \* the request that set the thread's error text last, 0 when it is empty
  replied,      \* how many replies each client has got
  reply,        \* the last of them, until the next request is served
  mu,           \* the thread that holds d->mu
  version,      \* d->version_known and d->use_lua_dispatch
  screen,       \* the compositor: the focused window and the windows in full screen
  backend,      \* the compositor that was detected
  lua,          \* the compositor understands the syntax of 0.55
  hung,         \* the compositor has stopped answering
  broken,       \* history: the steps of the request that went wrong
  calm          \* history: full screen is asked for, and nothing came between

textVars == <<sent, inbox, tok>>
threadVars == <<now, asked, todo, target, seen, use_lua, failed, error_buf, broken>>
worldVars == <<screen, backend, lua, hung, calm>>
replyVars == <<replied, reply>>
vars == <<textVars, threadVars, replyVars, mu, version, worldVars>>

Step(c) == Head(todo[c])

Busy(c) == now[c] # 0 /\ todo[c] # <<>>

Screens == [focused : Ids, full : SUBSET Windows]

NoReply == [kind |-> "none", id |-> 0, text |-> 0, broken |-> {}]

Replies ==
  [kind : {"none", "error", "failed", "blank", "done"}, id : Nat, text : Nat, broken : SUBSET Steps]

Nothing == [method |-> "none", id |-> None, state |-> FALSE]

\* The number of a request, and which of its two pieces it is.
Pieces == (Nat \ {0}) \X {1, 2}

Types ==
  /\ sent \in [Conns -> Nat]
  /\ inbox \in [Conns -> Seq(Pieces)]
  /\ tok \in [Conns -> Nat]
  /\ now \in [Conns -> Nat]
  /\ asked \in [Conns -> Asks]
  /\ todo \in [Conns -> Seq(Steps)]
  /\ target \in [Conns -> Ids]
  /\ seen \in [Conns -> SUBSET Windows]
  /\ use_lua \in [Conns -> BOOLEAN]
  /\ failed \in [Conns -> BOOLEAN]
  /\ error_buf \in [Conns -> Nat]
  /\ replied \in [Conns -> Nat]
  /\ reply \in [Conns -> Replies]
  /\ mu \in Conns \cup {None}
  /\ version \in [known : BOOLEAN, lua : BOOLEAN]
  /\ screen \in Screens
  /\ backend \in {"hyprland", "niri", "mango"}
  /\ lua \in BOOLEAN /\ hung \in BOOLEAN
  /\ broken \in [Conns -> SUBSET Steps]
  /\ calm \in [Conns -> BOOLEAN]

\* The type invariant; d->mu is held only by a thread in the midst of a request to the
\* compositor.
TypeOK ==
  /\ Types
  /\ mu # None => Busy(mu) /\ Step(mu) \in Parsed \cup Commands

Init ==
  /\ sent = [c \in Conns |-> 0]
  /\ inbox = [c \in Conns |-> <<>>]
  /\ tok = [c \in Conns |-> 0]
  /\ now = [c \in Conns |-> 0]
  /\ asked = [c \in Conns |-> Nothing]
  /\ todo = [c \in Conns |-> <<>>]
  /\ target = [c \in Conns |-> None]
  /\ seen = [c \in Conns |-> {}]
  /\ use_lua = [c \in Conns |-> FALSE]
  /\ failed = [c \in Conns |-> FALSE]
  /\ error_buf = [c \in Conns |-> 0]
  /\ replied = [c \in Conns |-> 0]
  /\ reply = [c \in Conns |-> NoReply]
  /\ mu = None
  /\ version = [known |-> FALSE, lua |-> FALSE]
  /\ screen \in [focused : Ids, full : {{}}]
  /\ backend \in {Detected(e) : e \in Environments} \ {"none"}
  /\ lua \in BOOLEAN /\ (lua => backend = "hyprland")
  /\ hung = FALSE
  /\ broken = [c \in Conns |-> {}]
  /\ calm = [c \in Conns |-> FALSE]

-----------------------------------------------------------------------------
(* Clients, and the others that use the compositor *)

\* What a request asks for is chosen when it is served.
Send(c) ==
  /\ sent[c] < MaxRequests[c]
  /\ c \in Pipeliners \/ replied[c] = sent[c]
  /\ sent' = [sent EXCEPT ![c] = @ + 1]
  /\ inbox' = [inbox EXCEPT ![c] = @ \o <<<<sent[c] + 1, 1>>, <<sent[c] + 1, 2>>>>]
  /\ UNCHANGED <<tok, threadVars, replyVars, mu, version, worldVars>>

\* Whoever else sees the screen change finds it other than he may have read it.
Disturb(others) == calm' = [c \in Conns |-> calm[c] /\ c \notin others]

ChangeOutside ==
  /\ screen' \in Screens \ {screen}
  /\ Disturb(Conns)
  /\ UNCHANGED <<textVars, threadVars, replyVars, mu, version, backend, lua, hung>>

Hang ==
  /\ "hung" \in Faults /\ ~hung
  /\ hung' = TRUE
  /\ UNCHANGED <<textVars, threadVars, replyVars, mu, version, screen, backend, lua, calm>>

-----------------------------------------------------------------------------
(* handle_connection *)

\* json_tokener_parse_ex goes on with what the tokener holds and ends with the first JSON
\* text; the rest of what was read is lost.
Text(c, n) ==
  (IF tok[c] = 0 THEN <<>> ELSE <<<<tok[c], 1>>>>) \o SubSeq(inbox[c], 1, n)

Serve(c, k) ==
  /\ now' = [now EXCEPT ![c] = k]
  /\ \E r \in Requests[c] :
       /\ asked' = [asked EXCEPT ![c] = r]
       /\ todo' = [todo EXCEPT ![c] = Plan(backend, r.method)]
       /\ target' = [target EXCEPT ![c] = r.id]
       /\ calm' = [calm EXCEPT ![c] = r.method = "Window.Fullscreen"]
  /\ reply' = [reply EXCEPT ![c] = NoReply]
  /\ UNCHANGED <<seen, use_lua, failed, error_buf, broken>>

\* Mutant: a text that is not complete is taken for an error, and the tokener is reset.
ParseImpatient(c, text) ==
  /\ tok' = [tok EXCEPT ![c] = 0]
  /\ IF Len(text) >= 2 /\ text[1][2] = 1
     THEN Serve(c, text[1][1])
     ELSE UNCHANGED <<threadVars, calm, reply>>

Parse(c, text) ==
  \/ /\ Len(text) >= 2 /\ text[1][2] = 1
     /\ tok' = [tok EXCEPT ![c] = 0]
     /\ Serve(c, text[1][1])
  \/ /\ Len(text) = 1 /\ text[1][2] = 1
     /\ tok' = [tok EXCEPT ![c] = text[1][1]]
     /\ UNCHANGED <<threadVars, calm, reply>>
  \/ /\ text[1][2] = 2
     /\ tok' = [tok EXCEPT ![c] = 0]
     /\ UNCHANGED <<threadVars, calm, reply>>

Read(c) ==
  /\ now[c] = 0
  /\ \E n \in 1 .. Len(inbox[c]) :
       /\ inbox' = [inbox EXCEPT ![c] = SubSeq(@, n + 1, Len(@))]
       /\ Parse(c, Text(c, n))
  /\ UNCHANGED <<sent, replied, mu, version, screen, backend, lua, hung>>

-----------------------------------------------------------------------------
(* The steps of a request *)

\* A failure ends the request, with the last steps not done.
Fail(c) ==
  /\ todo' = [todo EXCEPT ![c] = <<>>]
  /\ failed' = [failed EXCEPT ![c] = TRUE]

Proceed(c) ==
  /\ todo' = [todo EXCEPT ![c] = Tail(@)]
  /\ UNCHANGED failed

Complete(c) ==
  /\ todo' = [todo EXCEPT ![c] = <<>>]
  /\ UNCHANGED failed

SetError(c) == error_buf' = [error_buf EXCEPT ![c] = now[c]]

Breaks(c) == broken' = [broken EXCEPT ![c] = @ \cup {Step(c)}]

\* A step that needs no compositor.
Local(c) ==
  /\ Busy(c) /\ Step(c) \in LocalSteps
  /\ \E end \in LocalEnds(Step(c)) :
       /\ \/ end = "well" /\ Proceed(c)
          \/ end = "nothing" /\ Complete(c)
          \/ end \in {"text", "code"} /\ Fail(c)
       /\ IF end \in {"text", "code"} THEN Breaks(c) ELSE UNCHANGED broken
       /\ IF end = "text" THEN SetError(c) ELSE UNCHANGED error_buf
  /\ UNCHANGED <<textVars, now, asked, target, seen, use_lua, replyVars, mu, version,
                 worldVars>>

\* Mutant: full screen is toggled whatever the list says.
CompareNot(c) ==
  /\ Busy(c) /\ Step(c) = "compare"
  /\ Proceed(c)
  /\ UNCHANGED <<textVars, now, asked, target, seen, use_lua, error_buf, broken, replyVars, mu,
                 version, worldVars>>

\* hypr_set_fullscreen: "Only toggle if current state differs from desired state".
Compare(c) ==
  /\ Busy(c) /\ Step(c) = "compare"
  /\ IF target[c] \in seen[c] <=> asked[c].state THEN Complete(c) ELSE Proceed(c)
  /\ UNCHANGED <<textVars, now, asked, target, seen, use_lua, error_buf, broken, replyVars, mu,
                 version, worldVars>>

\* The window is known: there is nothing to ask.
Skip(c) ==
  /\ Busy(c) /\ Step(c) \in {"resolve", "active"} /\ target[c] # None
  /\ Proceed(c)
  /\ UNCHANGED <<textVars, now, asked, target, seen, use_lua, error_buf, broken, replyVars, mu,
                 version, worldVars>>

\* hypr_supports_lua reads d->version_known; when it is not set the thread goes to ask, even
\* if another thread sets it in the meantime.
Check(c) ==
  /\ Busy(c) /\ Step(c) = "check"
  /\ \/ /\ version.known
        /\ use_lua' = [use_lua EXCEPT ![c] = version.lua]
        /\ Proceed(c)
     \/ /\ ~version.known
        /\ todo' = [todo EXCEPT ![c] = <<"version">> \o Tail(@)]
        /\ UNCHANGED <<use_lua, failed>>
  /\ UNCHANGED <<textVars, now, asked, target, seen, error_buf, broken, replyVars, mu, version,
                 worldVars>>

\* hypr_dispatch_locked takes the mutex, and keeps it until the answer is read.
Lock(c) ==
  /\ Busy(c) /\ Step(c) \in Parsed \cup Commands
  /\ Step(c) \in {"resolve", "active"} => target[c] = None
  /\ mu = None
  /\ mu' = c
  /\ UNCHANGED <<textVars, threadVars, replyVars, version, worldVars>>

-----------------------------------------------------------------------------
(* hypr_dispatch, niri_request and the compositor *)

Answers == {"fine"} \cup (Faults \ {"hung"})

\* niri_request takes an empty answer for an error of any request.
NeedsAnswer(step) == step = "action"

\* To hypr_dispatch it is none, but it is no JSON to the functions that parse it.
GoesWrong(step, answer) ==
  \/ answer \in {"rejected", "unreachable"}
  \/ answer = "empty" /\ (step \in Parsed \/ NeedsAnswer(step))

\* Window.Maximize with the old syntax, too, sends "fullscreen 0" to unset.
IsFullscreenToggle(c) ==
  LET r == asked[c]
  IN  /\ Step(c) = "dispatch"
      /\ \/ r.method = "Window.Fullscreen"
         \/ r.method = "Window.Maximize" /\ ~r.state /\ ~use_lua[c]

\* niri_set_fullscreen has an action for each state.
IsFullscreenAction(c) == Step(c) = "action" /\ asked[c].method = "Window.Fullscreen"

\* The focused window, in full screen or not.
WithFocused(state) ==
  IF screen.focused = None THEN screen
  ELSE [screen EXCEPT !.full = IF state THEN @ \cup {screen.focused} ELSE @ \ {screen.focused}]

\* "fullscreen 0" names no window: the compositor toggles the focused one.
Toggled == WithFocused(screen.focused \notin screen.full)

\* What a command may make of the screen.
Outcomes(c) ==
  IF IsFullscreenToggle(c) THEN {Toggled}
  ELSE IF IsFullscreenAction(c) THEN {WithFocused(asked[c].state)}
  ELSE Screens

\* A command is carried out; it may be that it is not when its answer does not come, or
\* when it is in a syntax that is not the one of the compositor's version.
Execute(c, answer) ==
  LET sure == answer = "fine" /\ (Step(c) = "dispatch" => use_lua[c] = lua)
  IN  \/ /\ Step(c) \in Commands /\ answer \in {"fine", "empty"}
         /\ screen' \in Outcomes(c)
         /\ Disturb((IF screen' = screen THEN {} ELSE Conns \ {c})
                      \cup (IF sure THEN {} ELSE {c}))
      \/ /\ Step(c) \in Commands => ~sure
         /\ UNCHANGED screen
         /\ Disturb(IF Step(c) \in Commands THEN {c} ELSE {})

\* What a function keeps of the answer.
Keep(c, answer) ==
  /\ target' = [target EXCEPT ![c] =
       IF Step(c) \in {"resolve", "active"} /\ answer = "fine" THEN screen.focused ELSE @]
  /\ seen' = [seen EXCEPT ![c] =
       IF Step(c) = "list" /\ answer = "fine" THEN screen.full ELSE @]

\* Mutant: the new syntax is taken when the version cannot be had.
DetectBoldly(c, answer) ==
  IF Step(c) = "version"
  THEN /\ use_lua' = [use_lua EXCEPT ![c] = answer = "fine" => lua]
       /\ UNCHANGED version
  ELSE UNCHANGED <<use_lua, version>>

\* hypr_supports_lua keeps what the answer says, and FALSE for an answer it cannot parse;
\* when there is no answer it keeps nothing and says FALSE.
Detect(c, answer) ==
  IF Step(c) = "version"
  THEN /\ use_lua' = [use_lua EXCEPT ![c] = answer = "fine" /\ lua]
       /\ version' = IF answer \in {"fine", "empty"}
                     THEN [known |-> TRUE, lua |-> answer = "fine" /\ lua]
                     ELSE version
  ELSE UNCHANGED <<use_lua, version>>

\* Mutant: the way out of an error forgets the mutex.
UnlockWell(c) == mu' = IF failed'[c] THEN mu ELSE None

Unlock(c) == mu' = None

\* The compositor answers, and the thread goes on without the mutex.
Dispatch(c) ==
  /\ Busy(c) /\ mu = c
  /\ ~hung
  /\ \E answer \in Answers :
       /\ Execute(c, answer)
       /\ Keep(c, answer)
       /\ Detect(c, answer)
       /\ IF answer = "rejected" THEN SetError(c) ELSE UNCHANGED error_buf
       /\ IF GoesWrong(Step(c), answer) THEN Breaks(c) ELSE UNCHANGED broken
       /\ IF GoesWrong(Step(c), answer) /\ Step(c) \notin Optional
          THEN Fail(c) ELSE Proceed(c)
  /\ Unlock(c)
  /\ UNCHANGED <<textVars, now, asked, replyVars, backend, lua, hung>>

-----------------------------------------------------------------------------
(* The reply *)

\* Mutant: an error code without a text is forgotten.
ReplyKindByText(c) == IF error_buf[c] # 0 THEN "error" ELSE "done"

\* A request that fails without a text has the result "error", unless it has one already:
\* niri_get_config and niri_get_animations leave an empty object.
HasResult(c) == backend = "niri" /\ asked[c].method \in {"Config.Get", "Config.GetAnimations"}

\* The error text comes before the result: also when the request has succeeded.
ReplyKind(c) ==
  CASE error_buf[c] # 0 -> "error"
    [] error_buf[c] = 0 /\ ~failed[c] -> "done"
    [] OTHER -> IF HasResult(c) THEN "blank" ELSE "failed"

\* Mutant: the error text stays.
ClearErrorNot(c) == UNCHANGED error_buf

ClearError(c) == error_buf' = [error_buf EXCEPT ![c] = 0]

\* The locals of dispatch_method go.
Reply(c) ==
  /\ now[c] # 0 /\ todo[c] = <<>>
  /\ replied' = [replied EXCEPT ![c] = @ + 1]
  /\ reply' = [reply EXCEPT ![c] =
       [kind |-> ReplyKind(c), id |-> now[c], text |-> error_buf[c], broken |-> broken[c]]]
  /\ ClearError(c)
  /\ now' = [now EXCEPT ![c] = 0]
  /\ asked' = [asked EXCEPT ![c] = Nothing]
  /\ target' = [target EXCEPT ![c] = None]
  /\ seen' = [seen EXCEPT ![c] = {}]
  /\ use_lua' = [use_lua EXCEPT ![c] = FALSE]
  /\ failed' = [failed EXCEPT ![c] = FALSE]
  /\ broken' = [broken EXCEPT ![c] = {}]
  /\ calm' = [calm EXCEPT ![c] = FALSE]
  /\ UNCHANGED <<textVars, todo, mu, version, screen, backend, lua, hung>>

-----------------------------------------------------------------------------
(* Specifications *)

ThreadStep(c) ==
  \/ Read(c) \/ Local(c) \/ Compare(c) \/ Skip(c) \/ Check(c) \/ Lock(c) \/ Dispatch(c) \/ Reply(c)

Next ==
  \/ \E c \in Conns : Send(c) \/ ThreadStep(c)
  \/ ChangeOutside
  \/ Hang

Spec == Init /\ [][Next]_vars

\* The connection threads run; the compositor answers until it hangs.  Nothing is assumed
\* of the clients.
FairSpec == Spec /\ \A c \in Conns : WF_vars(ThreadStep(c))

-----------------------------------------------------------------------------
(* Properties *)

\* axctl_clear_error (server.c, line 1063) comes with every reply that has an error text,
\* and the text belongs to the thread: the text of a reply was never set by an earlier
\* request of the connection or by a request of another one.
ErrorIsOwn ==
  \A c \in Conns : reply[c].kind = "error" =>
    reply[c].text = reply[c].id /\ reply[c].broken # {}

\* A reply says that a request was done only when every one of its steps went well, but for
\* those that nobody looks at; a step in the middle that fails is never hidden by a later
\* one (lines 1019-1022 and 1060-1069).
NoFalseSuccess ==
  \A c \in Conns : reply[c].kind = "done" => reply[c].broken \subseteq Optional

\* hypr_dispatch_versioned sends the new syntax to no compositor that does not understand
\* it, whatever became of the requests for the version, of this thread and of others.
SyntaxUnderstood ==
  \A c \in Conns : (Busy(c) /\ Step(c) = "dispatch" /\ use_lua[c]) => lua

\* hypr_set_fullscreen ends with the window as it was asked for, provided that it is the
\* focused one and nobody changes the screen in the meantime.
FullscreenAsAsked ==
  \A c \in Conns :
    /\ now[c] # 0 /\ todo[c] = <<>> /\ ~failed[c] /\ calm[c]
    /\ asked[c].method = "Window.Fullscreen"
    /\ target[c] # None /\ target[c] = screen.focused
    => (target[c] \in screen.full <=> asked[c].state)

\* Unless the compositor hangs, a client that waits for its replies gets one for every
\* request, in whatever pieces the daemon reads it.
RequestsAnswered ==
  \A c \in Conns \ Pipeliners : \A k \in 1 .. MaxRequests[c] :
    sent[c] >= k ~> replied[c] >= k \/ hung

Lists == {"Window.List", "Workspace.List", "Monitor.List"}

\* The lists are answered from the cache: also when the compositor hangs and another thread
\* waits for its answer with the mutex held.
CachedAnswered ==
  \A c \in Conns \ Pipeliners :
    now[c] # 0 /\ asked[c].method \in Lists ~> now[c] = 0

=============================================================================
