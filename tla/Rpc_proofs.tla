------------------------------ MODULE Rpc_proofs ------------------------------
(***************************************************************************)
(* Theorems about Rpc.tla, for every number of connections, clients of     *)
(* both kinds, any requests, windows and faults.                           *)
(***************************************************************************)
EXTENDS Rpc, SequenceTheorems, TLAPS

-----------------------------------------------------------------------------
(* Plans *)

\* The plans of each backend are made of known steps.
LEMMA ShortPlans ==
  /\ Cached \in Seq(Steps) /\ Query \in Seq(Steps) /\ Refuse \in Seq(Steps)
  /\ Decline \in Seq(Steps) /\ Keyword \in Seq(Steps) /\ Action \in Seq(Steps)
  /\ Versioned \in Seq(Steps) /\ Targeted \in Seq(Steps)
  /\ TargetedAction \in Seq(Steps) /\ TargetedRefuse \in Seq(Steps)
<1> USE DEF Steps, LocalSteps, Parsed, Commands
<1>1. /\ Cached \in Seq(Steps) /\ Query \in Seq(Steps) /\ Refuse \in Seq(Steps)
      /\ Decline \in Seq(Steps) /\ Keyword \in Seq(Steps) /\ Action \in Seq(Steps)
  BY DEF Cached, Query, Refuse, Decline, Keyword, Action
<1>2. Versioned \in Seq(Steps) /\ Targeted \in Seq(Steps)
  BY DEF Versioned, Targeted
<1>3. TargetedAction \in Seq(Steps) /\ TargetedRefuse \in Seq(Steps)
  BY DEF TargetedAction, TargetedRefuse
<1> QED BY <1>1, <1>2, <1>3

LEMMA HyprlandPlanType == ASSUME NEW method PROVE HyprlandPlan(method) \in Seq(Steps)
<1>1. WindowPlan(method) \in Seq(Steps)
  <2>1. <<"resolve", "list", "active", "compare", "check", "dispatch">> \in Seq(Steps)
    BY DEF Steps, Parsed, Commands
  <2>2. <<"resolve", "refuse">> \in Seq(Steps)
    BY DEF Steps, Parsed, LocalSteps
  <2> QED BY ShortPlans, <2>1, <2>2 DEF WindowPlan
<1>2. WorkspacePlan(method) \in Seq(Steps)
  BY ShortPlans DEF WorkspacePlan
<1>3. MonitorPlan(method) \in Seq(Steps)
  BY ShortPlans DEF MonitorPlan
<1>4. ConfigPlan(method) \in Seq(Steps)
  <2>1. <<"payload", "parse", "files", "keyword">> \in Seq(Steps)
    BY DEF Steps, LocalSteps, Commands
  <2>2. <<"collect", "keyword">> \in Seq(Steps)
    BY DEF Steps, LocalSteps, Commands
  <2>3. <<"parse", "collect", "keyword">> \in Seq(Steps)
    BY DEF Steps, LocalSteps, Commands
  <2> QED BY ShortPlans, <2>1, <2>2, <2>3 DEF ConfigPlan
<1>5. SystemPlan(method) \in Seq(Steps)
  <2>1. <<"keyword", "keyword">> \in Seq(Steps)
    BY DEF Steps, Commands
  <2> QED BY ShortPlans, <2>1 DEF SystemPlan
<1> QED BY <1>1, <1>2, <1>3, <1>4, <1>5 DEF HyprlandPlan

LEMMA NiriPlanType == ASSUME NEW method PROVE NiriPlan(method) \in Seq(Steps)
<1>1. NiriWindowPlan(method) \in Seq(Steps)
  BY ShortPlans DEF NiriWindowPlan
<1>2. NiriWorkspacePlan(method) \in Seq(Steps)
  <2>1. <<"query", "also">> \in Seq(Steps)
    BY DEF Steps, Parsed
  <2> QED BY ShortPlans, <2>1 DEF NiriWorkspacePlan
<1>3. NiriMonitorPlan(method) \in Seq(Steps)
  BY ShortPlans DEF NiriMonitorPlan
<1>4. NiriConfigPlan(method) \in Seq(Steps)
  <2>1. <<"key", "action">> \in Seq(Steps)
    BY DEF Steps, LocalSteps, Commands
  <2>2. <<"payload", "parse", "files">> \in Seq(Steps)
    BY DEF Steps, LocalSteps
  <2>3. <<"collect", "refuse">> \in Seq(Steps)
    BY DEF Steps, LocalSteps
  <2> QED BY ShortPlans, <2>1, <2>2, <2>3 DEF NiriConfigPlan
<1>5. NiriSystemPlan(method) \in Seq(Steps)
  BY ShortPlans DEF NiriSystemPlan
<1> QED BY <1>1, <1>2, <1>3, <1>4, <1>5 DEF NiriPlan

LEMMA MangoPlanType == ASSUME NEW method PROVE MangoPlan(method) \in Seq(Steps)
<1>1. MangoConfigPlan(method) \in Seq(Steps)
  <2>1. <<"payload", "parse", "files", "decline">> \in Seq(Steps)
    BY DEF Steps, LocalSteps
  <2>2. <<"collect", "decline">> \in Seq(Steps)
    BY DEF Steps, LocalSteps
  <2> QED BY ShortPlans, <2>1, <2>2 DEF MangoConfigPlan
<1> QED BY ShortPlans, <1>1 DEF MangoPlan, MangoWindowPlan, MangoWorkspacePlan,
                                MangoMonitorPlan, MangoSystemPlan

\* Every method has a plan of steps, whatever the backend.
LEMMA PlanType ==
  ASSUME NEW method, NEW name
  PROVE  Plan(name, method) \in Seq(Steps)
<1>1. BackendPlan(name, method) \in Seq(Steps)
  BY HyprlandPlanType, NiriPlanType, MangoPlanType DEF BackendPlan
<1>2. <<"idle">> \in Seq(Steps) /\ <<"unknown">> \in Seq(Steps)
  BY DEF Steps, LocalSteps
<1> QED BY <1>1, <1>2 DEF Plan

\* A thread at work has a step to take, and a plan for afterwards.
LEMMA StepType ==
  ASSUME Types, NEW c \in Conns, Busy(c)
  PROVE  /\ Step(c) \in Steps
         /\ Tail(todo[c]) \in Seq(Steps)
         /\ <<"version">> \o Tail(todo[c]) \in Seq(Steps)
<1>1. todo[c] \in Seq(Steps) /\ todo[c] # <<>>
  BY DEF Types, Busy
<1>2. Step(c) \in Steps /\ Tail(todo[c]) \in Seq(Steps)
  BY <1>1 DEF Step
<1>3. <<"version">> \in Seq(Steps)
  BY DEF Steps, Parsed
<1> QED BY <1>2, <1>3

\* What has been read is pieces of text.
LEMMA TextType ==
  ASSUME Types, NEW c \in Conns, NEW n \in 1 .. Len(inbox[c])
  PROVE  /\ Text(c, n) \in Seq(Pieces)
         /\ SubSeq(inbox[c], n + 1, Len(inbox[c])) \in Seq(Pieces)
         /\ Len(Text(c, n)) > 0
<1> DEFINE P == Pieces
<1>1. inbox[c] \in Seq(P) /\ tok[c] \in Nat
  BY DEF Types
<1>2. tok[c] # 0 => <<tok[c], 1>> \in P
  BY <1>1 DEF Pieces
<1> HIDE DEF P
<1>3. SubSeq(inbox[c], 1, n) \in Seq(P) /\ Len(SubSeq(inbox[c], 1, n)) = n
  BY <1>1
<1>4. SubSeq(inbox[c], n + 1, Len(inbox[c])) \in Seq(P)
  BY <1>1
<1>5. (tok[c] # 0 => <<<<tok[c], 1>>>> \in Seq(P)) /\ <<>> \in Seq(P)
  BY <1>2
<1>6. Text(c, n) \in Seq(P) /\ Len(Text(c, n)) > 0
  BY <1>3, <1>5 DEF Text
<1> QED BY <1>4, <1>6 DEF P

-----------------------------------------------------------------------------
(* Types and the mutex *)

\* The thread that holds d->mu asks for the window only when it does not know it.
TypeInv ==
  /\ TypeOK
  /\ mu # None => (Step(mu) \in {"resolve", "active"} => target[mu] = None)

LEMMA TypeInit == Init => TypeInv
<1> SUFFICES ASSUME Init PROVE TypeInv
  OBVIOUS
<1>1. Nothing \in Asks /\ NoReply \in Replies
  <2>1. "none" \in Methods
    BY DEF Methods
  <2>2. Nothing \in Asks
    BY <2>1 DEF Nothing, Asks, Ids
  <2>3. {} \in SUBSET Steps
    OBVIOUS
  <2>4. NoReply \in Replies
    BY <2>3 DEF NoReply, Replies
  <2> QED BY <2>2, <2>4
<1>2. screen \in Screens
  BY DEF Init, Screens, Ids
<1>3. Types
  <2>1. None \in Ids /\ <<>> \in Seq(Pieces) /\ <<>> \in Seq(Steps)
    BY DEF Ids
  <2>2. \A e \in Environments : Detected(e) \in {"hyprland", "niri", "mango", "none"}
    BY DEF Detected
  <2>3. backend \in {"hyprland", "niri", "mango"}
    BY <2>2 DEF Init
  <2> QED BY <1>1, <1>2, <2>1, <2>3 DEF Init, Types
<1>4. mu = None
  BY DEF Init
<1> QED BY <1>3, <1>4 DEF TypeInv, TypeOK

\* A step of a thread, but for Lock and Dispatch, leaves the mutex alone, and is not the
\* step of the thread that holds it.
LEMMA MutexKept ==
  ASSUME TypeInv, NEW c \in Conns, mu' = mu, c # mu,
         todo' = [todo EXCEPT ![c] = todo'[c]], now' = [now EXCEPT ![c] = now'[c]],
         target' = [target EXCEPT ![c] = target'[c]], Types'
  PROVE  TypeInv'
<1>1. ASSUME mu # None PROVE todo'[mu] = todo[mu] /\ now'[mu] = now[mu] /\ target'[mu] = target[mu]
  BY <1>1 DEF TypeInv, TypeOK, Types
<1>2. ASSUME mu # None PROVE Step(mu)' = Step(mu) /\ Busy(mu)' = Busy(mu)
  BY <1>1, <1>2 DEF Step, Busy
<1> QED BY <1>1, <1>2 DEF TypeInv, TypeOK

\* What the environment does changes no plan, and no owner of the mutex.
LEMMA TypeOutside ==
  ASSUME TypeInv, (\E c \in Conns : Send(c)) \/ ChangeOutside \/ Hang \/ UNCHANGED vars
  PROVE  TypeInv'
<1>1. Types
  BY DEF TypeInv, TypeOK
<1>2. Types' /\ UNCHANGED <<threadVars, mu>>
  <2>1. ASSUME NEW c \in Conns, Send(c) PROVE Types' /\ UNCHANGED <<threadVars, mu>>
    <3>1. <<<<sent[c] + 1, 1>>, <<sent[c] + 1, 2>>>> \in Seq(Pieces)
      <4> DEFINE k == sent[c] + 1
      <4>1. k \in Nat \ {0}
        <5>1. sent[c] \in Nat
          BY <1>1 DEF Types
        <5> QED BY <5>1
      <4> HIDE DEF k
      <4>2. <<k, 1>> \in Pieces /\ <<k, 2>> \in Pieces
        BY <4>1 DEF Pieces
      <4>3. <<<<k, 1>>, <<k, 2>>>> \in Seq(Pieces)
        BY <4>2
      <4>4. <<<<k, 1>>, <<k, 2>>>> = <<<<sent[c] + 1, 1>>, <<sent[c] + 1, 2>>>>
        BY DEF k
      <4> QED BY <4>3, <4>4
    <3>2. inbox' \in [Conns -> Seq(Pieces)]
      BY <1>1, <2>1, <3>1 DEF Types, Send
    <3> QED BY <1>1, <2>1, <3>2 DEF Types, Send, threadVars, replyVars, worldVars
  <2>2. ASSUME ChangeOutside PROVE Types' /\ UNCHANGED <<threadVars, mu>>
    <3>1. calm' \in [Conns -> BOOLEAN]
      BY <1>1, <2>2 DEF Types, ChangeOutside, Disturb
    <3> QED BY <1>1, <2>2, <3>1 DEF Types, ChangeOutside, textVars, threadVars, replyVars
  <2>3. ASSUME Hang PROVE Types' /\ UNCHANGED <<threadVars, mu>>
    BY <1>1, <2>3 DEF Types, Hang, textVars, threadVars, replyVars
  <2>4. ASSUME UNCHANGED vars PROVE Types' /\ UNCHANGED <<threadVars, mu>>
    BY <1>1, <2>4 DEF Types, vars, textVars, threadVars, replyVars, worldVars
  <2> QED BY <2>1, <2>2, <2>3, <2>4
<1> QED BY <1>2 DEF TypeInv, TypeOK, threadVars, Busy, Step

LEMMA TypeRead ==
  ASSUME TypeInv, RpcAssumption, NEW c \in Conns, Read(c)
  PROVE  TypeInv'
<1>1. Types
  BY DEF TypeInv, TypeOK
<1>2. PICK n \in 1 .. Len(inbox[c]) :
        /\ inbox' = [inbox EXCEPT ![c] = SubSeq(@, n + 1, Len(@))]
        /\ Parse(c, Text(c, n))
  BY DEF Read
<1> DEFINE text == Text(c, n)
<1>3. text \in Seq(Pieces) /\ Len(text) > 0
  BY <1>1, TextType
<1>4. text[1][1] \in Nat
  <2>1. text[1] \in Pieces
    BY <1>3
  <2> QED BY <2>1 DEF Pieces
<1>5. inbox' \in [Conns -> Seq(Pieces)]
  BY <1>1, <1>2, TextType DEF Types
<1> HIDE DEF text
<1>6. tok' \in [Conns -> Nat]
  <2>1. tok' = [tok EXCEPT ![c] = 0] \/ tok' = [tok EXCEPT ![c] = text[1][1]]
    BY <1>2 DEF Parse, text
  <2>2. PICK k \in Nat : tok' = [tok EXCEPT ![c] = k]
    BY <1>4, <2>1
  <2>3. tok \in [Conns -> Nat]
    BY <1>1 DEF Types
  <2> QED BY <2>2, <2>3
<1>7. /\ UNCHANGED <<seen, use_lua, failed, error_buf, broken>>
      /\ \/ UNCHANGED <<threadVars, calm, reply>>
         \/ Serve(c, text[1][1])
  BY <1>2 DEF Parse, Serve, threadVars, text
<1>8. /\ now' \in [Conns -> Nat] /\ now' = [now EXCEPT ![c] = now'[c]]
      /\ asked' \in [Conns -> Asks]
      /\ todo' \in [Conns -> Seq(Steps)] /\ todo' = [todo EXCEPT ![c] = todo'[c]]
      /\ target' \in [Conns -> Ids] /\ target' = [target EXCEPT ![c] = target'[c]]
      /\ calm' \in [Conns -> BOOLEAN]
      /\ reply' \in [Conns -> Replies]
  <2>1. CASE UNCHANGED <<threadVars, calm, reply>>
    BY <1>1, <2>1 DEF Types, threadVars
  <2>2. CASE Serve(c, text[1][1])
    <3>1. PICK r \in Requests[c] :
            /\ asked' = [asked EXCEPT ![c] = r]
            /\ todo' = [todo EXCEPT ![c] = Plan(backend, r.method)]
            /\ target' = [target EXCEPT ![c] = r.id]
            /\ calm' = [calm EXCEPT ![c] = r.method = "Window.Fullscreen"]
      BY <2>2 DEF Serve
    <3>2. r \in Asks /\ r.id \in Ids
      BY RpcAssumption DEF RpcAssumption, Asks
    <3>3. Plan(backend, r.method) \in Seq(Steps)
      BY PlanType
    <3>4. NoReply \in Replies
      BY DEF NoReply, Replies
    <3>5. now' = [now EXCEPT ![c] = text[1][1]] /\ reply' = [reply EXCEPT ![c] = NoReply]
      BY <2>2 DEF Serve
    <3> QED BY <1>1, <1>4, <3>1, <3>2, <3>3, <3>4, <3>5 DEF Types
  <2> QED BY <1>7, <2>1, <2>2
<1>9. Types'
  BY <1>1, <1>5, <1>6, <1>7, <1>8 DEF Types, Read
<1>10. mu' = mu /\ c # mu
  BY RpcAssumption DEF Read, TypeInv, TypeOK, Busy, RpcAssumption
<1> QED BY <1>8, <1>9, <1>10, MutexKept

\* However a step ends, the plan stays a plan.
LEMMA PlanKept ==
  ASSUME Types, NEW c \in Conns, Busy(c), Proceed(c) \/ Complete(c) \/ Fail(c)
  PROVE  /\ todo' = [todo EXCEPT ![c] = todo'[c]] /\ todo' \in [Conns -> Seq(Steps)]
         /\ failed' \in [Conns -> BOOLEAN]
<1>1. todo \in [Conns -> Seq(Steps)] /\ failed \in [Conns -> BOOLEAN]
  BY DEF Types
<1>2. PICK rest \in Seq(Steps) : todo' = [todo EXCEPT ![c] = rest]
  <2>1. <<>> \in Seq(Steps) /\ Tail(todo[c]) \in Seq(Steps)
    BY StepType
  <2> QED BY <2>1 DEF Proceed, Complete, Fail
<1>3. failed' = failed \/ failed' = [failed EXCEPT ![c] = TRUE]
  BY DEF Proceed, Complete, Fail
<1> QED BY <1>1, <1>2, <1>3

LEMMA TypeLocal ==
  ASSUME TypeInv, NEW c \in Conns, Local(c) \/ Compare(c) \/ Skip(c) \/ Check(c)
  PROVE  TypeInv'
<1>1. Types
  BY DEF TypeInv, TypeOK
<1>2. Busy(c) /\ Step(c) \in Steps
  BY <1>1, StepType DEF Local, Compare, Skip, Check
<1>3. Tail(todo[c]) \in Seq(Steps) /\ <<"version">> \o Tail(todo[c]) \in Seq(Steps)
  BY <1>1, <1>2, StepType
<1>4. <<>> \in Seq(Steps)
  OBVIOUS
<1>5. /\ todo' = [todo EXCEPT ![c] = todo'[c]] /\ todo' \in [Conns -> Seq(Steps)]
      /\ failed' \in [Conns -> BOOLEAN]
      /\ use_lua' \in [Conns -> BOOLEAN]
      /\ error_buf' \in [Conns -> Nat]
      /\ broken' \in [Conns -> SUBSET Steps]
      /\ UNCHANGED <<textVars, now, asked, target, seen, replyVars, mu, version, worldVars>>
  <2>1. CASE Local(c)
    <3>1. PICK end \in LocalEnds(Step(c)) :
            /\ \/ end = "well" /\ Proceed(c)
               \/ end = "nothing" /\ Complete(c)
               \/ end \in {"text", "code"} /\ Fail(c)
            /\ IF end \in {"text", "code"} THEN Breaks(c) ELSE UNCHANGED broken
            /\ IF end = "text" THEN SetError(c) ELSE UNCHANGED error_buf
      BY <2>1 DEF Local
    <3>2. Proceed(c) \/ Complete(c) \/ Fail(c)
      BY <3>1
    <3>3. /\ todo' = [todo EXCEPT ![c] = todo'[c]] /\ todo' \in [Conns -> Seq(Steps)]
          /\ failed' \in [Conns -> BOOLEAN]
      BY <1>1, <1>2, <3>2, PlanKept
    <3>4. error_buf' \in [Conns -> Nat]
      <4>1. error_buf' = [error_buf EXCEPT ![c] = now[c]] \/ error_buf' = error_buf
        BY <3>1 DEF SetError
      <4>2. error_buf \in [Conns -> Nat] /\ now[c] \in Nat
        BY <1>1 DEF Types
      <4> QED BY <4>1, <4>2
    <3>5. broken' \in [Conns -> SUBSET Steps]
      <4>1. broken' = [broken EXCEPT ![c] = @ \cup {Step(c)}] \/ broken' = broken
        BY <3>1 DEF Breaks
      <4>2. broken \in [Conns -> SUBSET Steps]
        BY <1>1 DEF Types
      <4>3. broken[c] \cup {Step(c)} \in SUBSET Steps
        BY <1>2, <4>2
      <4> QED BY <4>1, <4>2, <4>3
    <3>6. /\ use_lua' \in [Conns -> BOOLEAN]
          /\ UNCHANGED <<textVars, now, asked, target, seen, replyVars, mu, version, worldVars>>
      BY <1>1, <2>1 DEF Types, Local
    <3> QED BY <3>3, <3>4, <3>5, <3>6
  <2>2. CASE Compare(c) \/ Skip(c)
    <3>1. Proceed(c) \/ Complete(c)
      BY <2>2 DEF Compare, Skip
    <3>2. UNCHANGED <<textVars, now, asked, target, seen, use_lua, error_buf, broken, replyVars,
                      mu, version, worldVars>>
      BY <2>2 DEF Compare, Skip
    <3>3. /\ use_lua \in [Conns -> BOOLEAN] /\ error_buf \in [Conns -> Nat]
          /\ broken \in [Conns -> SUBSET Steps]
      BY <1>1 DEF Types
    <3> QED BY <1>1, <1>2, <3>1, <3>2, <3>3, PlanKept
  <2>3. CASE Check(c)
    <3>1. UNCHANGED <<textVars, now, asked, target, seen, error_buf, broken, replyVars, mu,
                      version, worldVars>>
      BY <2>3 DEF Check
    <3>2. /\ error_buf \in [Conns -> Nat] /\ broken \in [Conns -> SUBSET Steps]
          /\ use_lua \in [Conns -> BOOLEAN] /\ version.lua \in BOOLEAN
          /\ todo \in [Conns -> Seq(Steps)] /\ failed \in [Conns -> BOOLEAN]
      BY <1>1 DEF Types
    <3>3. CASE Proceed(c) /\ use_lua' = [use_lua EXCEPT ![c] = version.lua]
      BY <1>1, <1>2, <3>1, <3>2, <3>3, PlanKept
    <3>4. CASE /\ todo' = [todo EXCEPT ![c] = <<"version">> \o Tail(@)]
               /\ UNCHANGED <<use_lua, failed>>
      BY <1>3, <3>1, <3>2, <3>4
    <3> QED BY <2>3, <3>3, <3>4 DEF Check
  <2> QED BY <2>1, <2>2, <2>3
<1>6. Types'
  BY <1>1, <1>5 DEF Types, textVars, replyVars, worldVars
<1>7. c # mu \/ mu = None
  BY DEF TypeInv, TypeOK, Local, Compare, Skip, Check, LocalSteps, Parsed, Commands
<1> QED
  <2>1. CASE c # mu
    <3>1. now' = [now EXCEPT ![c] = now'[c]] /\ target' = [target EXCEPT ![c] = target'[c]]
      BY <1>1, <1>5 DEF Types
    <3> QED BY <1>5, <1>6, <2>1, <3>1, MutexKept
  <2>2. CASE mu = None
    BY <1>5, <1>6, <2>2 DEF TypeInv, TypeOK
  <2> QED BY <1>7, <2>1, <2>2

LEMMA TypeLock ==
  ASSUME TypeInv, NEW c \in Conns, Lock(c)
  PROVE  TypeInv'
<1>1. Types
  BY DEF TypeInv, TypeOK
<1>2. mu' = c /\ UNCHANGED <<textVars, threadVars, replyVars, version, worldVars>>
  BY DEF Lock
<1>3. Types'
  BY <1>1, <1>2 DEF Types, textVars, threadVars, replyVars, worldVars
<1>4. Busy(c)' /\ Step(c)' = Step(c) /\ target' = target
  BY <1>2 DEF Lock, Busy, Step, threadVars
<1> QED BY <1>2, <1>3, <1>4 DEF Lock, TypeInv, TypeOK, Busy, Step

\* What a command makes of the screen is a screen again.
LEMMA OutcomesType ==
  ASSUME screen \in Screens, NEW c \in Conns
  PROVE  Outcomes(c) \subseteq Screens
<1>1. screen.focused \in Ids /\ screen.full \in SUBSET Windows
  BY DEF Screens
<1>2. ASSUME NEW state PROVE WithFocused(state) \in Screens
  <2>1. CASE screen.focused = None
    BY <2>1 DEF WithFocused
  <2>2. CASE screen.focused # None
    <3>1. screen.focused \in Windows
      BY <1>1, <2>2 DEF Ids
    <3>2. /\ screen.full \ {screen.focused} \in SUBSET Windows
          /\ screen.full \cup {screen.focused} \in SUBSET Windows
      BY <1>1, <3>1
    <3>3. PICK full \in SUBSET Windows : WithFocused(state) = [screen EXCEPT !.full = full]
      BY <2>2, <3>2 DEF WithFocused
    <3> QED BY <3>3 DEF Screens
  <2> QED BY <2>1, <2>2
<1>3. Toggled \in Screens
  BY <1>2 DEF Toggled
<1> QED BY <1>2, <1>3 DEF Outcomes

LEMMA TypeDispatch ==
  ASSUME TypeInv, NEW c \in Conns, Dispatch(c)
  PROVE  TypeInv'
<1>1. Types /\ Busy(c)
  BY DEF TypeInv, TypeOK, Dispatch
<1>2. PICK answer \in Answers :
        /\ Execute(c, answer)
        /\ Keep(c, answer)
        /\ Detect(c, answer)
        /\ IF answer = "rejected" THEN SetError(c) ELSE UNCHANGED error_buf
        /\ IF GoesWrong(Step(c), answer) THEN Breaks(c) ELSE UNCHANGED broken
        /\ IF GoesWrong(Step(c), answer) /\ Step(c) \notin Optional
           THEN Fail(c) ELSE Proceed(c)
  BY DEF Dispatch
<1>3. Step(c) \in Steps /\ Tail(todo[c]) \in Seq(Steps)
  BY <1>1, StepType
<1>4. screen' \in Screens /\ calm' \in [Conns -> BOOLEAN]
  <2>1. screen \in Screens
    BY <1>1 DEF Types
  <2>2. screen' \in Screens
    BY <1>2, <2>1, OutcomesType DEF Execute
  <2>4. PICK others : calm' = [d \in Conns |-> calm[d] /\ d \notin others]
    BY <1>2 DEF Execute, Disturb
  <2>5. calm' \in [Conns -> BOOLEAN]
    BY <2>4
  <2> QED BY <2>2, <2>5
<1>5. target' \in [Conns -> Ids] /\ seen' \in [Conns -> SUBSET Windows]
  <2>1. screen.focused \in Ids /\ screen.full \in SUBSET Windows
    BY <1>1 DEF Types, Screens
  <2>2. PICK id \in Ids : target' = [target EXCEPT ![c] = id]
    BY <1>1, <1>2, <2>1 DEF Types, Keep
  <2>3. PICK full \in SUBSET Windows : seen' = [seen EXCEPT ![c] = full]
    BY <1>1, <1>2, <2>1 DEF Types, Keep
  <2> QED BY <1>1, <2>2, <2>3 DEF Types
<1>6. use_lua' \in [Conns -> BOOLEAN] /\ version' \in [known : BOOLEAN, lua : BOOLEAN]
  <2> DEFINE told == answer = "fine" /\ lua
  <2>1. told \in BOOLEAN
    OBVIOUS
  <2>2. \/ UNCHANGED <<use_lua, version>>
        \/ /\ use_lua' = [use_lua EXCEPT ![c] = told]
           /\ version' = version \/ version' = [known |-> TRUE, lua |-> told]
    BY <1>2 DEF Detect
  <2> HIDE DEF told
  <2>3. [known |-> TRUE, lua |-> told] \in [known : BOOLEAN, lua : BOOLEAN]
    BY <2>1
  <2>4. use_lua \in [Conns -> BOOLEAN] /\ version \in [known : BOOLEAN, lua : BOOLEAN]
    BY <1>1 DEF Types
  <2>5. use_lua' \in [Conns -> BOOLEAN]
    BY <2>1, <2>2, <2>4
  <2> QED BY <2>2, <2>3, <2>4, <2>5, Zenon
<1>7. error_buf' \in [Conns -> Nat]
  <2>1. error_buf' = [error_buf EXCEPT ![c] = now[c]] \/ error_buf' = error_buf
    BY <1>2 DEF SetError
  <2> QED BY <1>1, <2>1 DEF Types
<1>8. broken' \in [Conns -> SUBSET Steps]
  <2>1. broken' = [broken EXCEPT ![c] = @ \cup {Step(c)}] \/ broken' = broken
    BY <1>2 DEF Breaks
  <2>2. broken \in [Conns -> SUBSET Steps]
    BY <1>1 DEF Types
  <2>3. broken[c] \cup {Step(c)} \in SUBSET Steps
    BY <1>3, <2>2
  <2> QED BY <2>1, <2>2, <2>3
<1>9. todo' \in [Conns -> Seq(Steps)] /\ failed' \in [Conns -> BOOLEAN]
  <2>1. Fail(c) \/ Proceed(c)
    BY <1>2
  <2> QED BY <1>1, <2>1, PlanKept
<1>10. mu' = None /\ UNCHANGED <<textVars, now, asked, replyVars, backend, lua, hung>>
  BY DEF Dispatch, Unlock
<1>11. Types'
  BY <1>1, <1>4, <1>5, <1>6, <1>7, <1>8, <1>9, <1>10 DEF Types, textVars, replyVars
<1> QED BY <1>10, <1>11 DEF TypeInv, TypeOK

LEMMA TypeReply ==
  ASSUME TypeInv, RpcAssumption, NEW c \in Conns, Reply(c)
  PROVE  TypeInv'
<1>1. Types
  BY DEF TypeInv, TypeOK
<1>2. reply' \in [Conns -> Replies]
  <2> DEFINE r == [kind |-> ReplyKind(c), id |-> now[c], text |-> error_buf[c],
                   broken |-> broken[c]]
  <2>1. ReplyKind(c) \in {"none", "error", "failed", "blank", "done"}
    BY DEF ReplyKind
  <2>2. now[c] \in Nat /\ error_buf[c] \in Nat /\ broken[c] \in SUBSET Steps
    BY <1>1 DEF Types
  <2>3. r \in Replies
    BY <2>1, <2>2 DEF Replies
  <2>4. reply' = [reply EXCEPT ![c] = r] /\ reply \in [Conns -> Replies]
    BY <1>1 DEF Types, Reply
  <2> HIDE DEF r
  <2> QED BY <2>3, <2>4
<1>3. Nothing \in Asks /\ None \in Ids /\ {} \in SUBSET Steps
  <2>1. "none" \in Methods
    BY DEF Methods
  <2> QED BY <2>1 DEF Nothing, Asks, Ids
<1>4. replied' \in [Conns -> Nat]
  <2>1. replied \in [Conns -> Nat] /\ replied' = [replied EXCEPT ![c] = @ + 1]
    BY <1>1 DEF Types, Reply
  <2>2. replied[c] \in Nat
    BY <2>1
  <2> QED BY <2>1, <2>2
<1>5. Types'
  BY <1>1, <1>2, <1>3, <1>4 DEF Types, Reply, ClearError, textVars
<1>6. mu' = mu /\ c # mu /\ todo' = todo
  BY RpcAssumption DEF Reply, TypeInv, TypeOK, Busy, RpcAssumption
<1>7. /\ todo' = [todo EXCEPT ![c] = todo'[c]] /\ now' = [now EXCEPT ![c] = now'[c]]
      /\ target' = [target EXCEPT ![c] = target'[c]]
  BY <1>1, <1>6 DEF Types, Reply
<1> QED BY <1>5, <1>6, <1>7, MutexKept

LEMMA TypeStep == ASSUME TypeInv, RpcAssumption, [Next]_vars PROVE TypeInv'
<1>1. CASE (\E c \in Conns : Send(c)) \/ ChangeOutside \/ Hang \/ UNCHANGED vars
  BY <1>1, TypeOutside
<1>2. ASSUME NEW c \in Conns, ThreadStep(c) PROVE TypeInv'
  BY <1>2, TypeRead, TypeLocal, TypeLock, TypeDispatch, TypeReply DEF ThreadStep
<1> QED BY <1>1, <1>2 DEF Next

\* Type correctness of Rpc: plans are made of known steps, a reply has one of three kinds,
\* and d->mu is held only by a thread in the midst of a request to the compositor.
THEOREM RpcTypes == Spec => []TypeOK
<1>1. Init => TypeInv
  BY TypeInit
<1>2. TypeInv /\ [Next]_vars => TypeInv'
  BY TypeStep, RpcAssumption
<1>3. TypeInv => TypeOK
  BY DEF TypeInv
<1> QED BY <1>1, <1>2, <1>3, PTL DEF Spec

-----------------------------------------------------------------------------
(* Error texts and success *)

\* What is known of the request that c serves: its error text is its own, and comes with a
\* step that went wrong; without a failure only steps that nobody looks at went wrong.
Honest(c) ==
  /\ now[c] = 0 => broken[c] = {} /\ ~failed[c]
  /\ ~failed[c] => broken[c] \subseteq Optional
  /\ error_buf[c] # 0 => now[c] # 0 /\ error_buf[c] = now[c] /\ broken[c] # {}

HonestInv ==
  /\ \A c \in Conns : Honest(c)
  /\ ErrorIsOwn
  /\ NoFalseSuccess

\* A thread leaves the requests of the others alone.
LEMMA OthersKept ==
  ASSUME Types, NEW c \in Conns, ThreadStep(c), NEW d \in Conns, d # c
  PROVE  /\ now'[d] = now[d] /\ asked'[d] = asked[d] /\ todo'[d] = todo[d]
         /\ target'[d] = target[d] /\ seen'[d] = seen[d] /\ use_lua'[d] = use_lua[d]
         /\ failed'[d] = failed[d] /\ error_buf'[d] = error_buf[d] /\ broken'[d] = broken[d]
         /\ reply'[d] = reply[d]
<1> USE DEF Types
<1>1. CASE Read(c)
  <2>1. (\E k : Serve(c, k)) \/ UNCHANGED <<threadVars, calm, reply>>
    BY <1>1 DEF Read, Parse
  <2> QED BY <2>1 DEF Serve, threadVars
<1>2. CASE Local(c)
  <2>1. Proceed(c) \/ Complete(c) \/ Fail(c)
    BY <1>2 DEF Local
  <2>2. (Breaks(c) \/ UNCHANGED broken) /\ (SetError(c) \/ UNCHANGED error_buf)
    BY <1>2 DEF Local
  <2> QED BY <1>2, <2>1, <2>2 DEF Local, Proceed, Complete, Fail, Breaks, SetError, replyVars
<1>3. CASE Compare(c)
  BY <1>3 DEF Compare, Proceed, Complete, replyVars
<1>4. CASE Skip(c)
  BY <1>4 DEF Skip, Proceed, replyVars
<1>5. CASE Check(c)
  BY <1>5 DEF Check, Proceed, replyVars
<1>6. CASE Lock(c)
  BY <1>6 DEF Lock, threadVars, replyVars
<1>7. CASE Dispatch(c)
  <2>1. PICK answer \in Answers :
          /\ Keep(c, answer)
          /\ Detect(c, answer)
          /\ SetError(c) \/ UNCHANGED error_buf
          /\ Breaks(c) \/ UNCHANGED broken
          /\ Fail(c) \/ Proceed(c)
    BY <1>7 DEF Dispatch
  <2>2. now' = now /\ asked' = asked /\ reply' = reply
    BY <1>7 DEF Dispatch, replyVars
  <2>3. target'[d] = target[d] /\ seen'[d] = seen[d]
    BY <2>1 DEF Keep
  <2>4. use_lua'[d] = use_lua[d]
    BY <2>1 DEF Detect
  <2>5. error_buf'[d] = error_buf[d] /\ broken'[d] = broken[d]
    BY <2>1 DEF SetError, Breaks
  <2>6. todo'[d] = todo[d] /\ failed'[d] = failed[d]
    BY <2>1 DEF Fail, Proceed
  <2> QED BY <2>2, <2>3, <2>4, <2>5, <2>6
<1>8. CASE Reply(c)
  BY <1>8 DEF Reply, ClearError
<1> QED BY <1>1, <1>2, <1>3, <1>4, <1>5, <1>6, <1>7, <1>8 DEF ThreadStep

\* The environment leaves all of them alone.
LEMMA ThreadsKept ==
  ASSUME (\E c \in Conns : Send(c)) \/ ChangeOutside \/ Hang \/ UNCHANGED vars
  PROVE  UNCHANGED <<now, asked, todo, target, seen, use_lua, failed, error_buf, broken,
                     reply, version, lua>>
BY DEF Send, ChangeOutside, Hang, vars, threadVars, replyVars, worldVars

LEMMA HonestInit == Init => HonestInv
BY DEF Init, HonestInv, Honest, ErrorIsOwn, NoFalseSuccess, NoReply

\* One step of a request goes well, or is noted as broken; it fails unless nobody looks.
LEMMA HonestWork ==
  ASSUME TypeInv, NEW c \in Conns, Honest(c), now[c] # 0,
         now' = now,
         \/ UNCHANGED <<broken, error_buf, failed>>
         \/ /\ SetError(c) \/ UNCHANGED error_buf
            /\ Breaks(c)
            /\ Fail(c) \/ (UNCHANGED failed /\ Step(c) \in Optional)
  PROVE  Honest(c)'
<1>1. Types
  BY DEF TypeInv, TypeOK
<1>2. CASE UNCHANGED <<broken, error_buf, failed>>
  BY <1>2 DEF Honest
<1>3. CASE /\ SetError(c) \/ UNCHANGED error_buf
           /\ Breaks(c)
           /\ Fail(c) \/ (UNCHANGED failed /\ Step(c) \in Optional)
  <2>1. broken'[c] = broken[c] \cup {Step(c)}
    <3>1. broken \in [Conns -> SUBSET Steps] /\ broken' = [broken EXCEPT ![c] = @ \cup {Step(c)}]
      BY <1>1, <1>3 DEF Types, Breaks
    <3> QED BY <3>1
  <2>2. error_buf'[c] = now[c] \/ error_buf'[c] = error_buf[c]
    BY <1>1, <1>3 DEF Types, SetError
  <2>3. failed'[c] \/ (failed'[c] = failed[c] /\ Step(c) \in Optional)
    BY <1>1, <1>3 DEF Types, Fail
  <2> QED BY <2>1, <2>2, <2>3 DEF Honest
<1> QED BY <1>2, <1>3

LEMMA HonestStep ==
  ASSUME TypeInv, HonestInv, NEW c \in Conns, ThreadStep(c)
  PROVE  Honest(c)' /\ (reply'[c] = reply[c] \/ reply'[c] = NoReply \/ Reply(c))
<1>1. Types /\ Honest(c)
  BY DEF TypeInv, TypeOK, HonestInv
<1>2. CASE Read(c)
  <2>1. PICK n \in 1 .. Len(inbox[c]) : Parse(c, Text(c, n))
    BY <1>2 DEF Read
  <2>2. Len(Text(c, n)) > 0 /\ Text(c, n) \in Seq(Pieces) /\ now[c] = 0
    BY <1>1, <1>2, TextType DEF Read
  <2>3. /\ UNCHANGED <<failed, error_buf, broken>>
        /\ reply'[c] = reply[c] \/ reply'[c] = NoReply
    BY <1>1, <2>1 DEF Parse, Serve, threadVars, Types
  <2> QED BY <1>1, <2>2, <2>3 DEF Honest
<1>3. CASE Local(c)
  <2>1. PICK end \in LocalEnds(Step(c)) :
          /\ \/ end = "well" /\ Proceed(c)
             \/ end = "nothing" /\ Complete(c)
             \/ end \in {"text", "code"} /\ Fail(c)
          /\ IF end \in {"text", "code"} THEN Breaks(c) ELSE UNCHANGED broken
          /\ IF end = "text" THEN SetError(c) ELSE UNCHANGED error_buf
    BY <1>3 DEF Local
  <2>2. \/ UNCHANGED <<broken, error_buf, failed>>
        \/ /\ SetError(c) \/ UNCHANGED error_buf
           /\ Breaks(c)
           /\ Fail(c) \/ (UNCHANGED failed /\ Step(c) \in Optional)
    BY <2>1 DEF Proceed, Complete
  <2>3. now[c] # 0 /\ now' = now /\ reply' = reply
    BY <1>3 DEF Local, Busy, replyVars
  <2> QED BY <1>1, <2>2, <2>3, HonestWork
<1>4. CASE Compare(c) \/ Skip(c) \/ Check(c) \/ Lock(c)
  <2>1. UNCHANGED <<now, broken, error_buf, failed, reply>>
    BY <1>4 DEF Compare, Skip, Check, Lock, Proceed, Complete, threadVars, replyVars
  <2> QED BY <1>1, <2>1 DEF Honest
<1>5. CASE Dispatch(c)
  <2>1. PICK answer \in Answers :
          /\ IF answer = "rejected" THEN SetError(c) ELSE UNCHANGED error_buf
          /\ IF GoesWrong(Step(c), answer) THEN Breaks(c) ELSE UNCHANGED broken
          /\ IF GoesWrong(Step(c), answer) /\ Step(c) \notin Optional
             THEN Fail(c) ELSE Proceed(c)
    BY <1>5 DEF Dispatch
  <2>2. answer = "rejected" => GoesWrong(Step(c), answer)
    BY DEF GoesWrong
  <2>3. \/ UNCHANGED <<broken, error_buf, failed>>
        \/ /\ SetError(c) \/ UNCHANGED error_buf
           /\ Breaks(c)
           /\ Fail(c) \/ (UNCHANGED failed /\ Step(c) \in Optional)
    BY <2>1, <2>2 DEF Proceed
  <2>4. now[c] # 0 /\ now' = now /\ reply' = reply
    BY <1>5 DEF Dispatch, Busy, replyVars
  <2> QED BY <1>1, <2>3, <2>4, HonestWork
<1>6. CASE Reply(c)
  <2>1. now'[c] = 0 /\ broken'[c] = {} /\ ~failed'[c] /\ error_buf'[c] = 0
    BY <1>1, <1>6 DEF Reply, ClearError, Types
  <2> QED BY <1>6, <2>1 DEF Honest
<1> QED BY <1>2, <1>3, <1>4, <1>5, <1>6 DEF ThreadStep

\* The reply takes over what is known of the request.
LEMMA HonestReply ==
  ASSUME TypeInv, HonestInv, NEW c \in Conns, Reply(c)
  PROVE  /\ reply'[c].kind = "error" => reply'[c].text = reply'[c].id /\ reply'[c].broken # {}
         /\ reply'[c].kind = "done" => reply'[c].broken \subseteq Optional
<1>1. Honest(c) /\ Types
  BY DEF HonestInv, TypeInv, TypeOK
<1>2. reply'[c] = [kind |-> ReplyKind(c), id |-> now[c], text |-> error_buf[c],
                   broken |-> broken[c]]
  BY <1>1 DEF Reply, Types
<1>3. CASE error_buf[c] # 0
  BY <1>1, <1>2, <1>3 DEF ReplyKind, Honest
<1>4. CASE error_buf[c] = 0
  BY <1>1, <1>2, <1>4 DEF ReplyKind, Honest
<1> QED BY <1>3, <1>4

LEMMA HonestNext == ASSUME TypeInv, HonestInv, [Next]_vars PROVE HonestInv'
<1>1. CASE (\E c \in Conns : Send(c)) \/ ChangeOutside \/ Hang \/ UNCHANGED vars
  BY <1>1, ThreadsKept DEF HonestInv, Honest, ErrorIsOwn, NoFalseSuccess
<1>2. ASSUME NEW c \in Conns, ThreadStep(c) PROVE HonestInv'
  <2>1. Types
    BY DEF TypeInv, TypeOK
  <2>2. ASSUME NEW d \in Conns
        PROVE  /\ Honest(d)'
               /\ reply'[d].kind = "error" => reply'[d].text = reply'[d].id /\ reply'[d].broken # {}
               /\ reply'[d].kind = "done" => reply'[d].broken \subseteq Optional
    <3>1. CASE d = c
      BY <1>2, <3>1, HonestStep, HonestReply DEF HonestInv, ErrorIsOwn, NoFalseSuccess, NoReply
    <3>2. CASE d # c
      BY <1>2, <2>1, <3>2, OthersKept DEF HonestInv, Honest, ErrorIsOwn, NoFalseSuccess
    <3> QED BY <3>1, <3>2
  <2> QED BY <2>2 DEF HonestInv, ErrorIsOwn, NoFalseSuccess
<1> QED BY <1>1, <1>2 DEF Next

\* The error text of a reply was set by the request that it answers, in which a step went
\* wrong, for any number of connections and requests.
THEOREM ErrorAlwaysOwn == Spec => []ErrorIsOwn
<1>1. Init => TypeInv /\ HonestInv
  BY TypeInit, HonestInit
<1>2. TypeInv /\ HonestInv /\ [Next]_vars => TypeInv' /\ HonestInv'
  BY TypeStep, HonestNext, RpcAssumption
<1>3. HonestInv => ErrorIsOwn
  BY DEF HonestInv
<1> QED BY <1>1, <1>2, <1>3, PTL DEF Spec

\* A reply never says that a request was done of which a step failed that anybody looks at.
THEOREM NeverFalseSuccess == Spec => []NoFalseSuccess
<1>1. Init => TypeInv /\ HonestInv
  BY TypeInit, HonestInit
<1>2. TypeInv /\ HonestInv /\ [Next]_vars => TypeInv' /\ HonestInv'
  BY TypeStep, HonestNext, RpcAssumption
<1>3. HonestInv => NoFalseSuccess
  BY DEF HonestInv
<1> QED BY <1>1, <1>2, <1>3, PTL DEF Spec

-----------------------------------------------------------------------------
(* Syntax *)

\* What is remembered of the version, and what a thread was told, is never too new.
SyntaxInv ==
  /\ version.known /\ version.lua => lua
  /\ \A c \in Conns : use_lua[c] => lua

LEMMA SyntaxStep == ASSUME TypeInv, SyntaxInv, [Next]_vars PROVE SyntaxInv'
<1>1. CASE (\E c \in Conns : Send(c)) \/ ChangeOutside \/ Hang \/ UNCHANGED vars
  BY <1>1, ThreadsKept DEF SyntaxInv
<1>2. ASSUME NEW c \in Conns, ThreadStep(c) PROVE SyntaxInv'
  <2>1. Types
    BY DEF TypeInv, TypeOK
  <2>2. lua' = lua
    BY <1>2 DEF ThreadStep, Read, Local, Compare, Skip, Check, Lock, Dispatch, Reply, worldVars
  <2>3. /\ (version'.known /\ version'.lua) => lua
        /\ use_lua'[c] => lua
    <3>1. CASE Read(c)
      BY <3>1 DEF Read, Parse, Serve, SyntaxInv, threadVars
    <3>2. CASE Local(c) \/ Compare(c) \/ Skip(c) \/ Lock(c)
      BY <3>2 DEF Local, Compare, Skip, Lock, SyntaxInv, threadVars
    <3>3. CASE Check(c)
      BY <2>1, <3>3 DEF Check, SyntaxInv, Types
    <3>4. CASE Dispatch(c)
      <4>1. PICK answer \in Answers : Detect(c, answer)
        BY <3>4 DEF Dispatch
      <4>2. CASE UNCHANGED <<use_lua, version>>
        BY <4>2 DEF SyntaxInv
      <4> DEFINE told == answer = "fine" /\ lua
      <4>3. CASE /\ use_lua' = [use_lua EXCEPT ![c] = told]
                 /\ version' = version \/ version' = [known |-> TRUE, lua |-> told]
        <5>1. told \in BOOLEAN /\ (told => lua)
          OBVIOUS
        <5> HIDE DEF told
        <5>2. use_lua'[c] = told
          BY <2>1, <4>3 DEF Types
        <5>3. version' = version \/ version'.lua = told
          BY <4>3
        <5> QED BY <5>1, <5>2, <5>3, Zenon DEF SyntaxInv
      <4> QED BY <4>1, <4>2, <4>3 DEF Detect
    <3>5. CASE Reply(c)
      BY <2>1, <3>5 DEF Reply, SyntaxInv, Types
    <3> QED BY <1>2, <3>1, <3>2, <3>3, <3>4, <3>5 DEF ThreadStep
  <2>4. ASSUME NEW d \in Conns, d # c PROVE use_lua'[d] = use_lua[d]
    BY <1>2, <2>1, <2>4, OthersKept
  <2> QED BY <2>2, <2>3, <2>4 DEF SyntaxInv
<1> QED BY <1>1, <1>2 DEF Next

\* No command in the new syntax goes to a compositor that does not understand it, whatever
\* became of the requests for the version.
THEOREM SyntaxAlwaysUnderstood == Spec => []SyntaxUnderstood
<1>1. Init => TypeInv /\ SyntaxInv
  BY TypeInit DEF Init, SyntaxInv
<1>2. TypeInv /\ SyntaxInv /\ [Next]_vars => TypeInv' /\ SyntaxInv'
  BY TypeStep, SyntaxStep, RpcAssumption
<1>3. SyntaxInv => SyntaxUnderstood
  BY DEF SyntaxInv, SyntaxUnderstood
<1> QED BY <1>1, <1>2, <1>3, PTL DEF Spec

-----------------------------------------------------------------------------
(* Full screen *)

\* The plan of hypr_set_fullscreen, from each of its steps on.  Those of Niri and Mango
\* are TargetedAction and Decline.
FromResolve == <<"resolve", "list", "active", "compare", "check", "dispatch">>
FromList == <<"list", "active", "compare", "check", "dispatch">>
FromActive == <<"active", "compare", "check", "dispatch">>
FromCompare == <<"compare", "check", "dispatch">>
FromCheck == <<"check", "dispatch">>
FromVersion == <<"version", "dispatch">>
FromDispatch == <<"dispatch">>

Rests ==
  {FromResolve, FromList, FromActive, FromCompare, FromCheck, FromVersion, FromDispatch,
   TargetedAction, Action, Decline, <<>>}

\* While nobody comes between: a list that is read is still true, a toggle that is due is
\* due, and after it the window is as asked.
InOrder(c) ==
  /\ now[c] # 0 /\ asked[c].method = "Window.Fullscreen"
  /\ todo[c] \in Rests
  /\ todo[c] \in {FromActive, FromCompare} => seen[c] = screen.full
  /\ todo[c] \in {FromCheck, FromVersion, FromDispatch} =>
       ~(target[c] \in screen.full <=> asked[c].state)
  /\ (todo[c] = <<>> /\ ~failed[c] /\ target[c] # None /\ target[c] = screen.focused) =>
       (target[c] \in screen.full <=> asked[c].state)

FullscreenInv == \A c \in Conns : calm[c] => InOrder(c)

LEMMA RestHeads ==
  /\ Head(FromResolve) = "resolve" /\ Head(FromList) = "list"
  /\ Head(FromActive) = "active" /\ Head(FromCompare) = "compare"
  /\ Head(FromCheck) = "check" /\ Head(FromVersion) = "version"
  /\ Head(FromDispatch) = "dispatch"
  /\ Head(TargetedAction) = "resolve" /\ Head(Action) = "action" /\ Head(Decline) = "decline"
<1>1. /\ Head(FromResolve) = "resolve" /\ Head(FromList) = "list"
      /\ Head(FromActive) = "active" /\ Head(FromCompare) = "compare"
  BY DEF FromResolve, FromList, FromActive, FromCompare
<1>2. /\ Head(FromCheck) = "check" /\ Head(FromVersion) = "version"
      /\ Head(FromDispatch) = "dispatch"
  BY DEF FromCheck, FromVersion, FromDispatch
<1>3. Head(TargetedAction) = "resolve" /\ Head(Action) = "action" /\ Head(Decline) = "decline"
  BY DEF TargetedAction, Action, Decline
<1> QED BY <1>1, <1>2, <1>3

LEMMA RestTails ==
  /\ Tail(FromResolve) = FromList /\ Tail(FromList) = FromActive
  /\ Tail(FromActive) = FromCompare /\ Tail(FromCompare) = FromCheck
  /\ Tail(FromCheck) = FromDispatch /\ <<"version">> \o Tail(FromCheck) = FromVersion
  /\ Tail(FromVersion) = FromDispatch /\ Tail(FromDispatch) = <<>>
  /\ Tail(TargetedAction) = Action /\ Tail(Action) = <<>>
<1>1. Tail(FromResolve) = FromList
  BY DEF FromResolve, FromList
<1>2. Tail(FromList) = FromActive
  BY DEF FromList, FromActive
<1>3. Tail(FromActive) = FromCompare
  BY DEF FromActive, FromCompare
<1>4. Tail(FromCompare) = FromCheck
  BY DEF FromCompare, FromCheck
<1>5. Tail(FromCheck) = FromDispatch
  BY DEF FromCheck, FromDispatch
<1>6. <<"version">> \o FromDispatch = FromVersion
  <2>1. <<"version">> \in Seq(Steps) /\ FromDispatch \in Seq(Steps) /\ FromVersion \in Seq(Steps)
    BY DEF FromVersion, FromDispatch, Steps, Commands, Parsed
  <2> DEFINE s == <<"version">> \o FromDispatch
  <2>2. s \in Seq(Steps) /\ Len(s) = 2 /\ s[1] = "version" /\ s[2] = "dispatch"
    BY <2>1 DEF FromDispatch
  <2>3. Len(FromVersion) = 2 /\ FromVersion[1] = "version" /\ FromVersion[2] = "dispatch"
    BY DEF FromVersion
  <2> HIDE DEF s
  <2>4. \A i \in 1 .. 2 : s[i] = FromVersion[i]
    BY <2>2, <2>3
  <2>5. s = FromVersion
    BY <2>1, <2>2, <2>3, <2>4, SeqEqual
  <2> QED BY <2>5 DEF s
<1>7. Tail(FromVersion) = FromDispatch
  BY DEF FromVersion, FromDispatch
<1>8. Tail(FromDispatch) = <<>>
  BY DEF FromDispatch
<1>9. Tail(TargetedAction) = Action
  BY DEF TargetedAction, Action
<1>10. Tail(Action) = <<>>
  BY DEF Action
<1> QED BY <1>1, <1>2, <1>3, <1>4, <1>5, <1>6, <1>7, <1>8, <1>9, <1>10

\* The rests of the plan differ.
LEMMA RestsDiffer ==
  /\ FromResolve # <<>> /\ FromList # <<>> /\ FromActive # <<>> /\ FromCompare # <<>>
  /\ FromCheck # <<>> /\ FromVersion # <<>> /\ FromDispatch # <<>>
  /\ TargetedAction # <<>> /\ Action # <<>> /\ Decline # <<>>
<1>1. FromResolve # <<>> /\ FromList # <<>> /\ FromActive # <<>> /\ FromCompare # <<>>
  BY DEF FromResolve, FromList, FromActive, FromCompare
<1>2. FromCheck # <<>> /\ FromVersion # <<>> /\ FromDispatch # <<>>
  BY DEF FromCheck, FromVersion, FromDispatch
<1>3. TargetedAction # <<>> /\ Action # <<>> /\ Decline # <<>>
  BY DEF TargetedAction, Action, Decline
<1> QED BY <1>1, <1>2, <1>3

\* Whoever changes the screen ends the calm of the others.
LEMMA ScreenKept ==
  ASSUME Types, NEW c \in Conns, ThreadStep(c), NEW d \in Conns, d # c, calm'[d]
  PROVE  calm[d] /\ screen' = screen
<1>1. CASE Read(c)
  <2>1. screen' = screen /\ ((\E k : Serve(c, k)) \/ UNCHANGED calm)
    BY <1>1 DEF Read, Parse
  <2> QED BY <2>1 DEF Serve, Types
<1>2. CASE Local(c) \/ Compare(c) \/ Skip(c) \/ Check(c) \/ Lock(c)
  BY <1>2 DEF Local, Compare, Skip, Check, Lock, worldVars
<1>3. CASE Dispatch(c)
  <2>1. PICK answer \in Answers : Execute(c, answer)
    BY <1>3 DEF Dispatch
  <2>2. PICK others :
          /\ calm' = [e \in Conns |-> calm[e] /\ e \notin others]
          /\ screen' = screen \/ Conns \ {c} \subseteq others
    BY <2>1 DEF Execute, Disturb
  <2> QED BY <2>2
<1>4. CASE Reply(c)
  BY <1>4 DEF Reply, Types
<1> QED BY <1>1, <1>2, <1>3, <1>4 DEF ThreadStep

\* Where a thread is in its plan, by its next step.
LEMMA RestByStep ==
  ASSUME NEW c \in Conns, InOrder(c), Busy(c)
  PROVE  /\ todo[c] \in {FromResolve, FromList, FromActive, FromCompare, FromCheck,
                         FromVersion, FromDispatch, TargetedAction, Action, Decline}
         /\ Step(c) = "resolve" => todo[c] \in {FromResolve, TargetedAction}
         /\ Step(c) = "list" => todo[c] = FromList
         /\ Step(c) = "active" => todo[c] = FromActive
         /\ Step(c) = "compare" => todo[c] = FromCompare
         /\ Step(c) = "check" => todo[c] = FromCheck
         /\ Step(c) = "version" => todo[c] = FromVersion
         /\ Step(c) = "dispatch" => todo[c] = FromDispatch
         /\ Step(c) = "action" => todo[c] = Action
         /\ Step(c) \in {"resolve", "list", "active", "version", "dispatch", "action", "compare",
                         "check", "decline"}
BY RestHeads DEF InOrder, Busy, Rests, Step, Parsed

\* The steps that need no compositor.
LEMMA InOrderLocal ==
  ASSUME Types, NEW c \in Conns, calm[c], InOrder(c),
         Local(c) \/ Compare(c) \/ Skip(c) \/ Check(c) \/ Lock(c)
  PROVE  InOrder(c)'
<1> USE RestTails, RestsDiffer
<1>1. Busy(c)
  BY DEF Local, Compare, Skip, Check, Lock
<1>2. CASE Local(c)
  <2>1. Step(c) = "decline"
    <3>1. Step(c) \in {"resolve", "list", "active", "version", "dispatch", "action", "compare",
                       "check", "decline"}
      BY <1>1, RestByStep
    <3> QED BY <1>2, <3>1 DEF Local, LocalSteps
  <2>2. Fail(c)
    BY <1>2, <2>1 DEF Local, LocalEnds
  <2>3. todo'[c] = <<>> /\ failed'[c]
    BY <2>2 DEF Fail, Types
  <2>4. now' = now /\ asked' = asked
    BY <1>2 DEF Local
  <2> QED BY <2>3, <2>4 DEF InOrder, Rests
<1>3. CASE Compare(c)
  <2>1. todo[c] = FromCompare /\ seen[c] = screen.full
    BY <1>1, <1>3, RestByStep DEF Compare, InOrder
  <2>2. UNCHANGED <<now, asked, target, seen, screen, failed>>
    BY <1>3 DEF Compare, worldVars, Proceed, Complete
  <2>3. CASE ~(target[c] \in seen[c] <=> asked[c].state)
    <3>1. todo'[c] = FromCheck
      <4>1. Proceed(c)
        BY <1>3, <2>3 DEF Compare
      <4>2. todo'[c] = Tail(todo[c])
        BY <4>1 DEF Proceed, Types
      <4> QED BY <2>1, <4>2
    <3>2. FromCheck \notin {FromActive, FromCompare} /\ FromCheck \in Rests
      BY RestHeads DEF Rests
    <3> QED BY <2>1, <2>2, <2>3, <3>1, <3>2 DEF InOrder
  <2>4. CASE target[c] \in seen[c] <=> asked[c].state
    <3>1. todo'[c] = <<>>
      BY <1>3, <2>4 DEF Compare, Complete, Types
    <3> QED BY <2>1, <2>2, <2>4, <3>1 DEF InOrder, Rests
  <2> QED BY <2>3, <2>4
<1>4. CASE Skip(c)
  <2>1. \/ todo[c] = FromResolve /\ todo'[c] = FromList
        \/ todo[c] = FromActive /\ todo'[c] = FromCompare
        \/ todo[c] = TargetedAction /\ todo'[c] = Action
    <3>1. todo[c] \in {FromResolve, FromActive, TargetedAction}
      BY <1>1, <1>4, RestByStep DEF Skip
    <3>2. todo'[c] = Tail(todo[c])
      BY <1>4 DEF Skip, Proceed, Types
    <3> QED BY <3>1, <3>2
  <2>2. UNCHANGED <<now, asked, target, seen, screen, failed>>
    BY <1>4 DEF Skip, worldVars, Proceed
  <2>3. FromList \notin {FromActive, FromCompare, FromCheck, FromVersion, FromDispatch}
    BY RestHeads
  <2>4. FromCompare \notin {FromCheck, FromVersion, FromDispatch}
    BY RestHeads
  <2>5. Action \notin {FromActive, FromCompare, FromCheck, FromVersion, FromDispatch}
    BY RestHeads
  <2>6. CASE todo[c] = FromResolve /\ todo'[c] = FromList
    BY <2>2, <2>3, <2>6 DEF InOrder, Rests
  <2>7. CASE todo[c] = FromActive /\ todo'[c] = FromCompare
    BY <2>2, <2>4, <2>7 DEF InOrder, Rests
  <2>8. CASE todo[c] = TargetedAction /\ todo'[c] = Action
    BY <2>2, <2>5, <2>8 DEF InOrder, Rests
  <2> QED BY <2>1, <2>6, <2>7, <2>8
<1>5. CASE Check(c)
  <2>1. todo[c] = FromCheck /\ todo'[c] \in {FromDispatch, FromVersion}
    <3>1. todo[c] = FromCheck
      BY <1>1, <1>5, RestByStep DEF Check
    <3>2. \/ todo' = [todo EXCEPT ![c] = Tail(@)]
          \/ todo' = [todo EXCEPT ![c] = <<"version">> \o Tail(@)]
      BY <1>5 DEF Check, Proceed
    <3>3. todo'[c] = Tail(todo[c]) \/ todo'[c] = <<"version">> \o Tail(todo[c])
      BY <3>2 DEF Types
    <3> QED BY <3>1, <3>3
  <2>2. UNCHANGED <<now, asked, target, seen, screen, failed>>
    BY <1>5 DEF Check, worldVars, Proceed
  <2>3. {FromDispatch, FromVersion} \cap {FromActive, FromCompare} = {}
    BY RestHeads
  <2> QED BY <2>1, <2>2, <2>3 DEF InOrder, Rests
<1>6. CASE Lock(c)
  BY <1>6 DEF Lock, threadVars, worldVars, InOrder
<1> QED BY <1>2, <1>3, <1>4, <1>5, <1>6

\* The focused window gets the state that is asked for, and keeps the focus.
LEMMA FocusedGets ==
  ASSUME Types, screen.focused # None, NEW state \in BOOLEAN
  PROVE  /\ WithFocused(state).focused = screen.focused
         /\ screen.focused \in WithFocused(state).full <=> state
<1>1. screen = [focused |-> screen.focused, full |-> screen.full]
  BY DEF Types, Screens
<1>2. CASE state = TRUE
  <2>1. WithFocused(state) =
          [focused |-> screen.focused, full |-> screen.full \cup {screen.focused}]
    BY <1>1, <1>2 DEF WithFocused
  <2> QED BY <1>2, <2>1
<1>3. CASE state = FALSE
  <2>1. WithFocused(state) =
          [focused |-> screen.focused, full |-> screen.full \ {screen.focused}]
    BY <1>1, <1>3 DEF WithFocused
  <2> QED BY <1>3, <2>1
<1> QED BY <1>2, <1>3

LEMMA InOrderDispatch ==
  ASSUME TypeInv, RpcAssumption, NEW c \in Conns, calm[c], InOrder(c), Dispatch(c), calm'[c]
  PROVE  InOrder(c)'
<1> USE RestTails, RestsDiffer
<1>1. /\ Busy(c) /\ Types
      /\ Step(c) \in {"resolve", "list", "active", "version", "dispatch", "action"}
  <2>1. Busy(c) /\ Types /\ Step(c) \in Parsed \cup Commands
    BY RpcAssumption DEF Dispatch, TypeInv, TypeOK, RpcAssumption
  <2>2. Step(c) \in {"resolve", "list", "active", "version", "dispatch", "action", "compare",
                     "check", "decline"}
    BY <2>1, RestByStep
  <2> QED BY <2>1, <2>2 DEF Commands, Parsed
<1>2. PICK answer \in Answers :
        /\ Execute(c, answer)
        /\ Keep(c, answer)
        /\ IF GoesWrong(Step(c), answer) /\ Step(c) \notin Optional
           THEN Fail(c) ELSE Proceed(c)
  BY DEF Dispatch
<1>3. now' = now /\ asked' = asked
  BY DEF Dispatch
<1>4. \/ GoesWrong(Step(c), answer) /\ Step(c) \notin Optional /\ todo'[c] = <<>> /\ failed'[c]
      \/ /\ ~(GoesWrong(Step(c), answer) /\ Step(c) \notin Optional)
         /\ todo'[c] = Tail(todo[c]) /\ failed'[c] = failed[c]
  BY <1>1, <1>2 DEF Fail, Proceed, Types
<1>5. CASE todo'[c] = <<>> /\ failed'[c]
  BY <1>3, <1>5 DEF InOrder, Rests
<1>6. CASE Step(c) \in {"resolve", "list", "active", "version"} /\ todo'[c] = Tail(todo[c])
           /\ ~(GoesWrong(Step(c), answer) /\ Step(c) \notin Optional)
  <2>1. screen' = screen
    BY <1>2, <1>6 DEF Execute, Commands
  <2>2. CASE Step(c) = "resolve"
    <3>1. todo'[c] \in {FromList, Action}
      <4>1. todo[c] \in {FromResolve, TargetedAction}
        BY <1>1, <2>2, RestByStep
      <4> QED BY <1>6, <4>1
    <3>2. FromList \notin {FromActive, FromCompare, FromCheck, FromVersion, FromDispatch}
      BY RestHeads
    <3>3. Action \notin {FromActive, FromCompare, FromCheck, FromVersion, FromDispatch}
      BY RestHeads
    <3> QED BY <1>3, <3>1, <3>2, <3>3 DEF InOrder, Rests
  <2>3. CASE Step(c) = "list"
    <3>1. todo'[c] = FromActive
      <4>1. todo[c] = FromList
        BY <1>1, <2>3, RestByStep
      <4> QED BY <1>6, <4>1
    <3>2. answer = "fine"
      BY <1>6, <2>3, RpcAssumption DEF GoesWrong, Answers, Optional, Parsed, RpcAssumption
    <3>3. seen'[c] = screen.full
      BY <1>1, <1>2, <2>3, <3>2 DEF Keep, Types
    <3>4. FromActive \notin {FromCheck, FromVersion, FromDispatch}
      BY RestHeads
    <3> QED BY <1>3, <2>1, <3>1, <3>3, <3>4 DEF InOrder, Rests
  <2>4. CASE Step(c) = "active"
    <3>1. todo[c] = FromActive /\ todo'[c] = FromCompare
      <4>1. todo[c] = FromActive
        BY <1>1, <2>4, RestByStep
      <4> QED BY <1>6, <4>1
    <3>2. seen'[c] = seen[c]
      BY <1>1, <1>2, <2>4 DEF Keep, Types
    <3>3. FromCompare \notin {FromCheck, FromVersion, FromDispatch}
      BY RestHeads
    <3> QED BY <1>3, <2>1, <3>1, <3>2, <3>3 DEF InOrder, Rests
  <2>5. CASE Step(c) = "version"
    <3>1. todo[c] = FromVersion /\ todo'[c] = FromDispatch
      <4>1. todo[c] = FromVersion
        BY <1>1, <2>5, RestByStep
      <4> QED BY <1>6, <4>1
    <3>2. target'[c] = target[c]
      BY <1>1, <1>2, <2>5 DEF Keep, Types
    <3>3. FromDispatch \notin {FromActive, FromCompare}
      BY RestHeads
    <3> QED BY <1>3, <2>1, <3>1, <3>2, <3>3 DEF InOrder, Rests
  <2> QED BY <1>6, <2>2, <2>3, <2>4, <2>5
<1>7. CASE Step(c) = "dispatch"
  <2>1. todo[c] = FromDispatch /\ todo'[c] = <<>>
    <3>1. todo[c] = FromDispatch
      BY <1>1, <1>7, RestByStep
    <3>2. todo'[c] \in {<<>>, Tail(todo[c])}
      BY <1>4
    <3> QED BY <3>1, <3>2
  <2>2. target'[c] = target[c]
    BY <1>1, <1>2, <1>7 DEF Keep, Types
  <2>3. screen' = Toggled
    <3>1. IsFullscreenToggle(c)
      BY <1>7 DEF IsFullscreenToggle, InOrder
    <3>2. Step(c) \in Commands
      BY <1>7 DEF Commands
    <3>3. ASSUME screen' # Toggled PROVE FALSE
      <4>1. Disturb({c})
        BY <1>2, <3>1, <3>2, <3>3 DEF Execute, Outcomes
      <4> QED BY <4>1 DEF Disturb
    <3> QED BY <3>3
  <2>4. ASSUME target[c] # None, target[c] = screen'.focused
        PROVE  (target[c] \in screen'.full <=> asked[c].state)
    <3>1. screen.focused # None
      BY <2>3, <2>4 DEF Toggled, WithFocused
    <3>2. /\ target[c] = screen.focused
          /\ target[c] \in screen'.full <=> target[c] \notin screen.full
      BY <1>1, <2>3, <2>4, <3>1, FocusedGets DEF Toggled
    <3>3. ~(target[c] \in screen.full <=> asked[c].state)
      BY <2>1 DEF InOrder
    <3> QED BY <3>2, <3>3
  <2> QED BY <1>3, <2>1, <2>2, <2>4 DEF InOrder, Rests
<1>8. CASE Step(c) = "action"
  <2>1. todo[c] = Action /\ todo'[c] = <<>>
    <3>1. todo[c] = Action
      BY <1>1, <1>8, RestByStep
    <3>2. todo'[c] \in {<<>>, Tail(todo[c])}
      BY <1>4
    <3> QED BY <3>1, <3>2
  <2>2. target'[c] = target[c]
    BY <1>1, <1>2, <1>8 DEF Keep, Types
  <2>3. screen' = WithFocused(asked[c].state)
    <3>1. IsFullscreenAction(c) /\ ~IsFullscreenToggle(c)
      BY <1>8 DEF IsFullscreenAction, IsFullscreenToggle, InOrder
    <3>2. Step(c) \in Commands
      BY <1>8 DEF Commands
    <3>3. ASSUME screen' # WithFocused(asked[c].state) PROVE FALSE
      <4>1. Disturb({c})
        BY <1>2, <3>1, <3>2, <3>3 DEF Execute, Outcomes
      <4> QED BY <4>1 DEF Disturb
    <3> QED BY <3>3
  <2>4. ASSUME target[c] # None, target[c] = screen'.focused
        PROVE  (target[c] \in screen'.full <=> asked[c].state)
    <3>1. screen.focused # None
      BY <2>3, <2>4 DEF WithFocused
    <3>2. asked[c].state \in BOOLEAN
      BY <1>1 DEF Types, Asks
    <3> QED BY <1>1, <2>3, <2>4, <3>1, <3>2, FocusedGets
  <2> QED BY <1>3, <2>1, <2>2, <2>4 DEF InOrder, Rests
<1> QED BY <1>1, <1>4, <1>5, <1>6, <1>7, <1>8

LEMMA InOrderBegins ==
  ASSUME Types, FullscreenInv, RpcAssumption, NEW c \in Conns, Read(c), calm'[c]
  PROVE  InOrder(c)'
<1>1. now[c] = 0 /\ screen' = screen /\ failed' = failed
  BY DEF Read, Parse, Serve, threadVars
<1>2. PICK n \in 1 .. Len(inbox[c]) : Parse(c, Text(c, n))
  BY DEF Read
<1>3. ~calm[c]
  BY <1>1 DEF FullscreenInv, InOrder
<1>4. Serve(c, Text(c, n)[1][1])
  BY <1>2, <1>3 DEF Parse
<1>5. PICK r \in Requests[c] :
        /\ asked' = [asked EXCEPT ![c] = r]
        /\ todo' = [todo EXCEPT ![c] = Plan(backend, r.method)]
        /\ calm' = [calm EXCEPT ![c] = r.method = "Window.Fullscreen"]
  BY <1>4 DEF Serve
<1>6. r.method = "Window.Fullscreen"
  BY <1>5 DEF Types
<1>7. Plan(backend, r.method) \in {FromResolve, TargetedAction, Decline}
  <2>1. HyprlandPlan(r.method) = FromResolve
    BY <1>6 DEF HyprlandPlan, WindowMethods, WorkspaceMethods, MonitorMethods, ConfigMethods,
                WindowPlan, FromResolve
  <2>2. NiriPlan(r.method) = TargetedAction
    BY <1>6 DEF NiriPlan, WindowMethods, WorkspaceMethods, MonitorMethods, ConfigMethods,
                NiriWindowPlan
  <2>3. MangoPlan(r.method) = Decline
    BY <1>6 DEF MangoPlan, WindowMethods, WorkspaceMethods, MonitorMethods, ConfigMethods,
                MangoWindowPlan
  <2>4. Plan(backend, r.method) = BackendPlan(backend, r.method)
    BY <1>6 DEF Plan, IdleMonitorMethods, InhibitorMethods
  <2> QED BY <2>1, <2>2, <2>3, <2>4 DEF BackendPlan
<1>8. /\ {FromResolve, TargetedAction, Decline}
           \cap {FromActive, FromCompare, FromCheck, FromVersion, FromDispatch} = {}
      /\ <<>> \notin {FromResolve, TargetedAction, Decline}
  BY RestHeads, RestsDiffer
<1>9. now'[c] = Text(c, n)[1][1]
  BY <1>4 DEF Serve, Types
<1>10. now'[c] # 0
  <2>1. Text(c, n) \in Seq(Pieces) /\ Len(Text(c, n)) > 0
    BY TextType
  <2>2. Text(c, n)[1] \in Pieces
    BY <2>1
  <2> QED BY <1>9, <2>2 DEF Pieces
<1>11. asked'[c] = r /\ todo'[c] \in {FromResolve, TargetedAction, Decline}
  BY <1>5, <1>7 DEF Types
<1> QED BY <1>6, <1>8, <1>10, <1>11 DEF InOrder, Rests

\* What the environment does: it changes no thread, and the calm of nobody begins.
LEMMA InOrderOutside ==
  ASSUME Types, FullscreenInv,
         (\E c \in Conns : Send(c)) \/ ChangeOutside \/ Hang \/ UNCHANGED vars
  PROVE  FullscreenInv'
<1>1. CASE ChangeOutside
  <2>1. calm' = [c \in Conns |-> calm[c] /\ c \notin Conns]
    BY <1>1 DEF ChangeOutside, Disturb
  <2>2. \A c \in Conns : ~calm'[c]
    BY <2>1
  <2> QED BY <2>2 DEF FullscreenInv
<1>2. CASE (\E c \in Conns : Send(c)) \/ Hang \/ UNCHANGED vars
  <2>1. UNCHANGED <<threadVars, screen, calm>>
    BY <1>2 DEF Send, Hang, vars, worldVars
  <2>2. UNCHANGED <<now, asked, todo, target, seen, failed, screen, calm>>
    BY <2>1 DEF threadVars
  <2> QED BY <2>2 DEF FullscreenInv, InOrder
<1> QED BY <1>1, <1>2

LEMMA FullscreenStep ==
  ASSUME TypeInv, FullscreenInv, RpcAssumption, [Next]_vars
  PROVE  FullscreenInv'
<1>1. Types
  BY DEF TypeInv, TypeOK
<1>2. ASSUME NEW c \in Conns, ThreadStep(c), NEW d \in Conns, calm'[d]
      PROVE  InOrder(d)'
  <2>1. CASE d # c
    <3>1. calm[d] /\ screen' = screen
      BY <1>1, <1>2, <2>1, ScreenKept
    <3>2. /\ now'[d] = now[d] /\ asked'[d] = asked[d] /\ todo'[d] = todo[d]
          /\ target'[d] = target[d] /\ seen'[d] = seen[d] /\ failed'[d] = failed[d]
      BY <1>1, <1>2, <2>1, OthersKept
    <3>3. InOrder(d)
      BY <3>1 DEF FullscreenInv
    <3> QED BY <3>1, <3>2, <3>3 DEF InOrder
  <2>2. CASE d = c /\ Read(c)
    BY <1>1, <1>2, <2>2, InOrderBegins
  <2>3. CASE d = c /\ (Local(c) \/ Compare(c) \/ Skip(c) \/ Check(c) \/ Lock(c))
    <3>1. calm[c]
      BY <1>2, <2>3 DEF Local, Compare, Skip, Check, Lock, worldVars
    <3> QED BY <1>1, <2>3, <3>1, InOrderLocal DEF FullscreenInv
  <2>4. CASE d = c /\ Dispatch(c)
    <3>1. PICK answer \in Answers : Execute(c, answer)
      BY <2>4 DEF Dispatch
    <3>2. calm[c]
      <4>1. PICK others : Disturb(others)
        BY <3>1 DEF Execute
      <4> QED BY <1>2, <2>4, <4>1 DEF Disturb
    <3> QED BY <1>2, <2>4, <3>2, InOrderDispatch DEF FullscreenInv
  <2>5. CASE d = c /\ Reply(c)
    BY <1>1, <1>2, <2>5 DEF Reply, Types
  <2> QED BY <1>2, <2>1, <2>2, <2>3, <2>4, <2>5 DEF ThreadStep
<1>3. CASE \E c \in Conns : ThreadStep(c)
  BY <1>2, <1>3 DEF FullscreenInv
<1>4. CASE (\E c \in Conns : Send(c)) \/ ChangeOutside \/ Hang \/ UNCHANGED vars
  BY <1>1, <1>4, InOrderOutside
<1> QED BY <1>3, <1>4 DEF Next

\* Full screen ends as it was asked for, provided that the window is the focused one and
\* that nobody changed the screen in the meantime (hypr_set_fullscreen).
THEOREM FullscreenAlwaysAsAsked == Spec => []FullscreenAsAsked
<1>1. Init => TypeInv /\ FullscreenInv
  BY TypeInit DEF Init, FullscreenInv
<1>2. TypeInv /\ FullscreenInv /\ [Next]_vars => TypeInv' /\ FullscreenInv'
  BY TypeStep, FullscreenStep, RpcAssumption
<1>3. FullscreenInv => FullscreenAsAsked
  BY DEF FullscreenInv, InOrder, FullscreenAsAsked
<1> QED BY <1>1, <1>2, <1>3, PTL DEF Spec

=============================================================================
