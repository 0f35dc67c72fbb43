---------------------------- MODULE Lifecycle_proofs ----------------------------
(***************************************************************************)
(* Theorems about the life of daemons: types, the daemon that is alone,    *)
(* and the one that can be reached when several have started together.     *)
(***************************************************************************)
EXTENDS Lifecycle, TLAPS

Early == {"off", "check", "clean", "create", "spawn"}

Late == {"unlink", "close", "unlinkAgain", "idle", "compositor", "exit"}

\* What the progress of the main thread says of the rest of the process.
Phases(d) ==
  /\ proc[d].main = "off" => proc[d] = Off
  /\ proc[d].main \in Early =>
       proc[d].server = "none" /\ proc[d].listen_fd = "none" /\ ~proc[d].told
  /\ proc[d].main = "serve" => proc[d].server # "none"
  /\ proc[d].main \in Late => proc[d].server # "none" /\ proc[d].told

TypeInv == TypeOK /\ \A d \in Daemons : Phases(d)

-----------------------------------------------------------------------------
(* Types *)

LEMMA OffIsAProcess == Off \in Processes
BY DEF Off, Processes, MainPcs

\* A process that dies leaves the others and the type alone.
LEMMA TypeDie ==
  ASSUME LifecycleAssumption, TypeInv, NEW d \in Daemons, Die(d),
         backend' = backend, raced' \in BOOLEAN, ended' \in BOOLEAN
  PROVE  TypeInv'
<1>1. proc' = [proc EXCEPT ![d] = Off] /\ path' = IF path = d THEN Stale ELSE path
  BY DEF Die
<1>2. proc' \in [Daemons -> Processes]
  BY <1>1, OffIsAProcess DEF TypeInv, TypeOK
<1>3. proc'[d] = Off /\ \A e \in Daemons \ {d} : proc'[e] = proc[e]
  BY <1>1 DEF TypeInv, TypeOK
<1>4. path' \in Daemons => path' = path /\ path # d
  BY <1>1 DEF LifecycleAssumption
<1>5. path' \in Daemons \cup {NoFile, Stale}
  BY <1>1 DEF TypeInv, TypeOK
<1>6. path' \in Daemons =>
        proc'[path'].main # "off" /\ proc'[path'].server \in {"listen", "accept", "failed"}
  BY <1>3, <1>4 DEF TypeInv, TypeOK, Alive
<1>7. \A e \in Daemons : Phases(e)'
  BY <1>3 DEF TypeInv, Phases, Off, Early, Late
<1> QED BY <1>2, <1>5, <1>6, <1>7 DEF TypeInv, TypeOK, Alive

\* What a step of one process must do to keep the type.
LEMMA TypeStep ==
  ASSUME TypeInv, NEW d \in Daemons, NEW p \in Processes,
         proc' = [proc EXCEPT ![d] = p],
         backend' = backend, raced' \in BOOLEAN, ended' \in BOOLEAN,
         p.main # "off",
         path' \in {path, d, NoFile},
         path' = d => p.server \in {"listen", "accept", "failed"},
         p.main \in Early => p.server = "none" /\ p.listen_fd = "none" /\ ~p.told,
         p.main = "serve" => p.server # "none",
         p.main \in Late => p.server # "none" /\ p.told
  PROVE  TypeInv'
<1>1. proc' \in [Daemons -> Processes]
  BY DEF TypeInv, TypeOK
<1>2. proc'[d] = p /\ \A e \in Daemons \ {d} : proc'[e] = proc[e]
  BY DEF TypeInv, TypeOK
<1>3. path' \in Daemons \cup {NoFile, Stale}
  BY DEF TypeInv, TypeOK
<1>4. path' \in Daemons =>
        proc'[path'].main # "off" /\ proc'[path'].server \in {"listen", "accept", "failed"}
  <2>1. CASE path' = d
    BY <1>2, <2>1
  <2>2. CASE path' # d /\ path' = path
    BY <1>2, <2>2 DEF TypeInv, TypeOK, Alive
  <2>3. CASE path' # d /\ path' = NoFile /\ path' # path /\ path' \in Daemons
    BY <1>2, <2>3, LifecycleAssumption DEF LifecycleAssumption
  <2> QED BY <2>1, <2>2, <2>3
<1>5. \A e \in Daemons : Phases(e)'
  BY <1>2 DEF TypeInv, Phases
<1> QED BY <1>1, <1>3, <1>4, <1>5 DEF TypeInv, TypeOK, Alive

\* What is left as it is.
LEMMA Remembered ==
  ASSUME Remember
  PROVE  backend' = backend /\ raced' \in BOOLEAN /\ ended' \in BOOLEAN
BY DEF Remember

\* A step that is no death, with the process that it makes.
LEMMA Moved ==
  ASSUME TypeInv, NEW d \in Daemons, Step(d), ~Die(d)
  PROVE  \E p \in Processes :
           /\ proc' = [proc EXCEPT ![d] = p]
           /\ p.main # "off"
           /\ path' \in {path, d, NoFile}
           /\ path' = d => p.server \in {"listen", "accept", "failed"}
           /\ p.main \in Early => p.server = "none" /\ p.listen_fd = "none" /\ ~p.told
           /\ p.main = "serve" => p.server # "none"
           /\ p.main \in Late => p.server # "none" /\ p.told
<1> DEFINE Good(p) ==
           /\ p \in Processes
           /\ proc' = [proc EXCEPT ![d] = p]
           /\ p.main # "off"
           /\ path' \in {path, d, NoFile}
           /\ path' = d => p.server \in {"listen", "accept", "failed"}
           /\ p.main \in Early => p.server = "none" /\ p.listen_fd = "none" /\ ~p.told
           /\ p.main = "serve" => p.server # "none"
           /\ p.main \in Late => p.server # "none" /\ p.told
<1>0. /\ proc \in [Daemons -> Processes] /\ proc[d] \in Processes
      /\ path = d => proc[d].main # "off" /\ proc[d].server \in {"listen", "accept", "failed"}
      /\ d # NoFile
  BY LifecycleAssumption DEF TypeInv, TypeOK, Alive, LifecycleAssumption
<1>1. Phases(d)
  BY DEF TypeInv
<1>2. SUFFICES \E p : Good(p)
  OBVIOUS
<1>3. CASE Start(d)
  <2> DEFINE p == [proc[d] EXCEPT !.main = "check"]
  <2>1. Good(p)
    BY <1>0, <1>1, <1>3 DEF Start, Goto, Processes, MainPcs, Phases, Early, Late
  <2> QED BY <2>1
<1>4. CASE Check(d)
  <2> DEFINE p == [proc[d] EXCEPT !.main = "clean"]
  <2>1. Good(p)
    BY <1>0, <1>1, <1>4 DEF Check, Goto, Processes, MainPcs, Phases, Early, Late
  <2> QED BY <2>1
<1>5. CASE CleanStale(d)
  <2> DEFINE p == [proc[d] EXCEPT !.main = "create"]
  <2>1. Good(p)
    BY <1>0, <1>1, <1>5 DEF CleanStale, Goto, Processes, MainPcs, Phases, Early, Late
  <2> QED BY <2>1
<1>6. CASE Create(d)
  <2>1. PICK dispatch \in {"none", "running"} :
          proc' = [proc EXCEPT ![d].main = "spawn", ![d].events = "subscribe",
                               ![d].dispatch = dispatch]
    BY <1>6 DEF Create
  <2> DEFINE p == [proc[d] EXCEPT !.main = "spawn", !.events = "subscribe", !.dispatch = dispatch]
  <2>2. Good(p)
    BY <1>0, <1>1, <1>6, <2>1 DEF Create, Processes, MainPcs, Phases, Early, Late
  <2> QED BY <2>2
<1>7. CASE Spawn(d)
  <2> DEFINE p == [proc[d] EXCEPT !.main = "serve", !.server = "unlink"]
  <2>1. Good(p)
    BY <1>0, <1>1, <1>7 DEF Spawn, Processes, MainPcs, Phases, Early, Late
  <2> QED BY <2>1
<1>8. CASE ServerUnlinks(d)
  <2> DEFINE p == [proc[d] EXCEPT !.server = "bind", !.listen_fd = "open"]
  <2>1. Good(p)
    BY <1>0, <1>1, <1>8 DEF ServerUnlinks, Dangling, Processes, MainPcs, Phases, Early, Late
  <2> QED BY <2>1
<1>9. CASE Bind(d)
  <2>1. PICK server \in {"listen", "failed"} :
          /\ proc' = [proc EXCEPT ![d].server = server]
          /\ path' \in {path, d}
          /\ server = "failed" => path' = path
    BY <1>9 DEF Bind, BindTo
  <2> DEFINE p == [proc[d] EXCEPT !.server = server]
  <2>2. Good(p)
    BY <1>0, <1>1, <1>9, <2>1 DEF Bind, Processes, MainPcs, Phases, Early, Late
  <2> QED BY <2>2
<1>10. CASE Listen(d)
  <2>1. PICK server \in {"failed", "accept"} :
          proc' = [proc EXCEPT ![d].server = server] /\ path' = path
    BY <1>10 DEF Listen
  <2> DEFINE p == [proc[d] EXCEPT !.server = server]
  <2>2. Good(p)
    BY <1>0, <1>1, <1>10, <2>1 DEF Listen, Processes, MainPcs, Phases, Early, Late
  <2> QED BY <2>2
<1>11. CASE Terminate(d)
  <2> DEFINE p == [proc[d] EXCEPT !.told = TRUE]
  <2>1. Good(p)
    BY <1>0, <1>1, <1>11 DEF Terminate, Processes, MainPcs, Phases, Early, Late
  <2> QED BY <2>1
<1>12. CASE LeaveLoop(d)
  <2> DEFINE p == [proc[d] EXCEPT !.main = "unlink"]
  <2>1. Good(p)
    BY <1>0, <1>1, <1>12 DEF LeaveLoop, Goto, Processes, MainPcs, Phases, Early, Late
  <2> QED BY <2>1
<1>13. CASE Unlink(d)
  <2> DEFINE p == [proc[d] EXCEPT !.main = "close"]
  <2>1. Good(p)
    BY <1>0, <1>1, <1>13 DEF Unlink, Goto, Processes, MainPcs, Phases, Early, Late
  <2> QED BY <2>1
<1>14. CASE CloseListener(d)
  <2>1. PICK fd \in {"none", "open", "closed"} :
          /\ proc' = [proc EXCEPT ![d].main = "unlinkAgain", ![d].listen_fd = fd]
          /\ path' = path
    BY <1>0, <1>14 DEF CloseListener, Processes
  <2> DEFINE p == [proc[d] EXCEPT !.main = "unlinkAgain", !.listen_fd = fd]
  <2>2. Good(p)
    BY <1>0, <1>1, <1>14, <2>1 DEF CloseListener, Processes, MainPcs, Phases, Early, Late
  <2> QED BY <2>2
<1>15. CASE UnlinkAgain(d)
  <2> DEFINE p == [proc[d] EXCEPT !.main = "idle"]
  <2>1. Good(p)
    BY <1>0, <1>1, <1>15 DEF UnlinkAgain, Goto, Processes, MainPcs, Phases, Early, Late
  <2> QED BY <2>1
<1>16. CASE JoinDispatch(d)
  <2> DEFINE p == [proc[d] EXCEPT !.main = "compositor"]
  <2>1. Good(p)
    BY <1>0, <1>1, <1>16 DEF JoinDispatch, Goto, Processes, MainPcs, Phases, Early, Late
  <2> QED BY <2>1
<1>17. CASE JoinEvents(d)
  <2> DEFINE p == [proc[d] EXCEPT !.main = "exit"]
  <2>1. Good(p)
    BY <1>0, <1>1, <1>17 DEF JoinEvents, Goto, Processes, MainPcs, Phases, Early, Late
  <2> QED BY <2>1
<1>18. CASE Subscribe(d) \/ Event(d)
  <2>1. PICK events \in {"none", "running"} :
          proc' = [proc EXCEPT ![d].events = events] /\ path' = path
    BY <1>18 DEF Subscribe, Event, EventsGoto
  <2>2. proc[d].events # "none"
    BY <1>18 DEF Subscribe, Event, EventsGoto
  <2> DEFINE p == [proc[d] EXCEPT !.events = events]
  <2>3. Good(p)
    BY <1>0, <1>1, <2>1, <2>2 DEF Off, Processes, MainPcs, Phases, Early, Late
  <2> QED BY <2>3
<1>19. CASE Display(d)
  <2>1. PICK dispatch \in {"none", "running"} :
          /\ proc' = [proc EXCEPT ![d].dispatch = dispatch]
          /\ proc[d].dispatch # "none"
          /\ path' = path
    BY <1>19 DEF Display, DispatchGoto
  <2> DEFINE p == [proc[d] EXCEPT !.dispatch = dispatch]
  <2>2. Good(p)
    BY <1>0, <1>1, <2>1 DEF Off, Processes, MainPcs, Phases, Early, Late
  <2> QED BY <2>2
<1> QED BY <1>3, <1>4, <1>5, <1>6, <1>7, <1>8, <1>9, <1>10, <1>11, <1>12, <1>13, <1>14, <1>15, <1>16, <1>17, <1>18, <1>19 DEF Step, MainStep, ServerStep, Kill, Exit

\* Types and phases are inductive.
LEMMA TypesKept == Spec => []TypeInv
<1>1. Init => TypeInv
  <2> SUFFICES ASSUME Init PROVE TypeInv
    OBVIOUS
  <2>1. TypeOK
    BY OffIsAProcess, LifecycleAssumption DEF Init, TypeOK, LifecycleAssumption
  <2>2. \A d \in Daemons : Phases(d)
    BY DEF Init, Phases, Off, Early, Late
  <2> QED BY <2>1, <2>2 DEF TypeInv
<1>2. TypeInv /\ [Next]_vars => TypeInv'
  <2> SUFFICES ASSUME TypeInv, [Next]_vars PROVE TypeInv'
    OBVIOUS
  <2>1. CASE UNCHANGED vars
    BY <2>1 DEF vars, TypeInv, TypeOK, Phases, Alive
  <2>2. CASE Next
    <3>1. PICK d \in Daemons : Step(d) /\ Remember
      BY <2>2 DEF Next
    <3>2. CASE Die(d)
      BY <3>1, <3>2, Remembered, TypeDie, LifecycleAssumption
    <3>3. CASE ~Die(d)
      <4>1. Step(d) /\ ~Die(d)
        BY <3>1, <3>3
      <4> QED BY <3>1, <4>1, Remembered, Moved, TypeStep
    <3> QED BY <3>2, <3>3
  <2> QED BY <2>1, <2>2
<1> QED BY <1>1, <1>2, PTL DEF Spec

\* Every variable keeps its type, and the path stands only for a socket that its owner has
\* bound, for any number of processes.
THEOREM LifecycleTypes == Spec => []TypeOK
<1>1. TypeInv => TypeOK
  BY DEF TypeInv
<1> QED BY <1>1, TypesKept, PTL

-----------------------------------------------------------------------------
(* What a step does to its process and to the path *)

Others(d) == \A e \in Daemons \ {d} : proc'[e] = proc[e]

Become(d, main, server, listen_fd, told) ==
  /\ proc'[d].main = main
  /\ proc'[d].server = server
  /\ proc'[d].listen_fd = listen_fd
  /\ proc'[d].told = told

\* Up to the thread of the server.
Starts(d) ==
  \/ /\ proc[d].main = "off" /\ path' = path
     /\ Become(d, "check", "none", "none", FALSE)
  \/ /\ proc[d].main = "check" /\ path' = path
     /\ path \in Daemons => proc[path].server # "accept"
     /\ Become(d, "clean", "none", "none", FALSE)
  \/ /\ proc[d].main = "clean" /\ path' = NoFile
     /\ Become(d, "create", "none", "none", FALSE)
  \/ /\ proc[d].main = "create" /\ path' = path
     /\ Become(d, "spawn", "none", "none", FALSE)
  \/ /\ proc[d].main = "spawn" /\ path' = path
     /\ Become(d, "serve", "unlink", "none", FALSE)

\* The server binds.
Binds(d) ==
  LET p == proc[d]
  IN  \/ /\ p.server = "unlink" /\ (p.main = "serve" => path' = NoFile)
         /\ Become(d, p.main, "bind", "open", p.told)
      \/ /\ p.server = "bind" /\ (p.main = "serve" => path = NoFile /\ path' = d)
         /\ Become(d, p.main, "listen", p.listen_fd, p.told)
      \/ /\ p.server = "bind" /\ (path # NoFile \/ p.listen_fd = "closed") /\ path' = path
         /\ Become(d, p.main, "failed", p.listen_fd, p.told)
      \/ /\ p.server = "listen" /\ p.listen_fd # "closed" /\ path' = path
         /\ Become(d, p.main, "accept", p.listen_fd, p.told)
      \/ /\ p.server = "listen" /\ p.listen_fd = "closed" /\ path' = path
         /\ Become(d, p.main, "failed", p.listen_fd, p.told)

\* From the signal to the end.
Stops(d) ==
  \/ /\ proc[d].main = "serve" /\ ~proc[d].told /\ path' = path
     /\ Become(d, "serve", proc[d].server, proc[d].listen_fd, TRUE)
  \/ /\ proc[d].told
     /\ proc'[d].main \in Late /\ proc'[d].told
     /\ proc'[d].server = proc[d].server
     /\ proc[d].main \in {"serve", "unlink", "close", "unlinkAgain"}
          \/ (path' = path /\ proc[d].main \in {"idle", "compositor"}
                /\ proc'[d].main \in {"compositor", "exit"})

\* The other threads.
Stays(d) ==
  /\ path' = path
  /\ proc[d].main # "off"
  /\ Become(d, proc[d].main, proc[d].server, proc[d].listen_fd, proc[d].told)

Dies(d) ==
  /\ proc[d].main # "off"
  /\ proc'[d] = Off
  /\ path' = IF path = d THEN Stale ELSE path

LEMMA Effects ==
  ASSUME TypeInv, NEW d \in Daemons, Step(d)
  PROVE  /\ Others(d)
         /\ Starts(d) \/ Binds(d) \/ Stops(d) \/ Stays(d) \/ Dies(d)
<1>0. /\ proc \in [Daemons -> Processes] /\ proc[d] \in Processes
      /\ path = d => proc[d].main # "off" /\ proc[d].server \in {"listen", "accept", "failed"}
      /\ d # NoFile
  BY LifecycleAssumption DEF TypeInv, TypeOK, Alive, LifecycleAssumption
<1>1. Phases(d)
  BY DEF TypeInv
<1>2. CASE Die(d) /\ proc[d].main # "off"
  BY <1>0, <1>2 DEF Die, Others, Dies
<1>3. CASE Start(d)
  BY <1>0, <1>1, <1>3 DEF Start, Goto, Others, Starts, Processes, Phases, Early, Late, Become
<1>4. CASE Check(d) /\ ~Die(d)
  BY <1>0, <1>1, <1>4 DEF Check, Goto, Others, Starts, Processes, Phases, Early, Late, Become
<1>5. CASE CleanStale(d)
  BY <1>0, <1>1, <1>5 DEF CleanStale, Goto, Others, Starts, Processes, Phases, Early, Late, Become
<1>6. CASE Create(d)
  BY <1>0, <1>1, <1>6 DEF Create, Others, Starts, Processes, Phases, Early, Late, Become
<1>7. CASE Spawn(d)
  BY <1>0, <1>1, <1>7 DEF Spawn, Others, Starts, Processes, Phases, Early, Late, Become
<1>8. CASE ServerUnlinks(d)
  BY <1>0, <1>1, <1>8 DEF ServerUnlinks, Dangling, Others, Binds, Processes, Phases, Early, Late, Become
<1>9. CASE Bind(d)
  BY <1>0, <1>1, <1>9 DEF Bind, BindTo, Dangling, Others, Binds, Processes, Phases, Early, Late, Become
<1>10. CASE Listen(d)
  BY <1>0, <1>1, <1>10 DEF Listen, Others, Binds, Processes, Phases, Early, Late, Become
<1>11. CASE Terminate(d)
  BY <1>0, <1>1, <1>11 DEF Terminate, Others, Stops, Processes, Phases, Early, Late, Become
<1>12. CASE LeaveLoop(d)
  BY <1>0, <1>1, <1>12 DEF LeaveLoop, Goto, Others, Stops, Processes, Phases, Early, Late, Become
<1>13. CASE Unlink(d)
  BY <1>0, <1>1, <1>13 DEF Unlink, Goto, Others, Stops, Processes, Phases, Early, Late, Become
<1>14. CASE CloseListener(d)
  BY <1>0, <1>1, <1>14 DEF CloseListener, Others, Stops, Processes, Phases, Early, Late, Become
<1>15. CASE UnlinkAgain(d)
  BY <1>0, <1>1, <1>15 DEF UnlinkAgain, Goto, Others, Stops, Processes, Phases, Early, Late, Become
<1>16. CASE JoinDispatch(d)
  BY <1>0, <1>1, <1>16 DEF JoinDispatch, Goto, Others, Stops, Processes, Phases, Early, Late, Become
<1>17. CASE JoinEvents(d)
  BY <1>0, <1>1, <1>17 DEF JoinEvents, Goto, Others, Stops, Processes, Phases, Early, Late, Become
<1>18. CASE Subscribe(d)
  BY <1>0, <1>1, <1>18 DEF Subscribe, EventsGoto, Off, Others, Stays, Processes, Phases, Early, Late, Become
<1>19. CASE Event(d)
  BY <1>0, <1>1, <1>19 DEF Event, EventsGoto, Off, Others, Stays, Processes, Phases, Early, Late, Become
<1>20. CASE Display(d)
  BY <1>0, <1>1, <1>20 DEF Display, DispatchGoto, Off, Others, Stays, Processes, Phases, Early, Late, Become
<1> QED
  BY <1>2, <1>3, <1>4, <1>5, <1>6, <1>7, <1>8, <1>9, <1>10, <1>11, <1>12, <1>13, <1>14, <1>15, <1>16, <1>17, <1>18, <1>19, <1>20
  DEF Step, MainStep, ServerStep, Kill, Exit, Alive, Check

-----------------------------------------------------------------------------
(* The one that can be reached *)

\* It has unlinked what was there, or will, and will bind then.
BeforeBind(d) ==
  \/ proc[d].main \in {"clean", "create", "spawn"}
  \/ proc[d].main = "serve" /\ proc[d].server \in {"unlink", "bind"}

\* As long as no daemon ends: nobody is told to, a stale socket waits for the first one to
\* come, and whoever unlinks a socket binds one afterwards.
ReachInv ==
  ~ended =>
    /\ \A d \in Daemons : ~proc[d].told /\ proc[d].listen_fd # "closed"
    /\ path = Stale => \A d \in Daemons : proc[d].main \in {"off", "check", "clean"}
    /\ path \in Daemons => proc[path].server # "failed"
    /\ (\E d \in Daemons : Served(d)) => path \in Daemons \/ \E d \in Daemons : BeforeBind(d)

\* When everybody is off, everything begins anew.
LEMMA ReachQuiet ==
  ASSUME TypeInv', \A d \in Daemons : proc'[d] = Off
  PROVE  ReachInv'
<1>1. \A d \in Daemons :
        /\ proc'[d].main = "off" /\ proc'[d].server = "none"
        /\ proc'[d].listen_fd = "none" /\ ~proc'[d].told
  BY DEF Off
<1>2. path' \notin Daemons
  BY <1>1 DEF TypeInv, TypeOK, Alive
<1> QED BY <1>1, <1>2 DEF ReachInv, Served

LEMMA ReachStep ==
  ASSUME TypeInv, TypeInv', ReachInv, NEW d \in Daemons, Step(d), Remember
  PROVE  ReachInv'
<1>1. CASE \A e \in Daemons : proc'[e] = Off
  BY <1>1, ReachQuiet
<1>2. CASE ended'
  BY <1>2 DEF ReachInv
<1>3. CASE ~ended' /\ ~(\A e \in Daemons : proc'[e] = Off)
  <2>1. /\ ~ended
        /\ \A e \in Daemons : ~proc'[e].told /\ ~(Served(e) /\ proc'[e] = Off)
    BY <1>3 DEF Remember
  <2>2. /\ Others(d)
        /\ Starts(d) \/ Binds(d) \/ Stops(d) \/ Stays(d) \/ Dies(d)
    BY Effects
  <2>3. /\ \A e \in Daemons : ~proc[e].told /\ proc[e].listen_fd # "closed"
        /\ path = Stale => \A e \in Daemons : proc[e].main \in {"off", "check", "clean"}
        /\ path \in Daemons => proc[path].server # "failed"
        /\ (\E e \in Daemons : Served(e)) =>
             path \in Daemons \/ \E e \in Daemons : BeforeBind(e)
    BY <2>1 DEF ReachInv
  <2>4. ~Stops(d)
    BY <2>1, <2>3 DEF Stops, Become
  <2>5. /\ \A e \in Daemons : Phases(e) /\ proc[e].main \in MainPcs
        /\ path \in Daemons => proc[path].server \in {"listen", "accept", "failed"}
        /\ path \in Daemons \cup {NoFile, Stale}
    BY DEF TypeInv, TypeOK, Processes
  <2>6. d # NoFile /\ d # Stale /\ NoFile # Stale /\ NoFile \notin Daemons
    BY LifecycleAssumption DEF LifecycleAssumption
  <2>7. CASE Starts(d)
    <3>1. \A e \in Daemons : ~proc'[e].told /\ proc'[e].listen_fd # "closed"
      BY <2>1, <2>2, <2>3, <2>7 DEF Starts, Become, Others
    <3>2. path' = Stale => \A e \in Daemons : proc'[e].main \in {"off", "check", "clean"}
      BY <2>2, <2>3, <2>6, <2>7 DEF Starts, Become, Others
    <3>3. path' \in Daemons => proc'[path'].server # "failed"
      BY <2>2, <2>3, <2>6, <2>7 DEF Starts, Become, Others
    <3>4. (\E e \in Daemons : Served(e)') => path' \in Daemons \/ \E e \in Daemons : BeforeBind(e)'
      <4>1. CASE proc[d].main = "off"
        <5>1. path' = path /\ proc'[d].main = "check" /\ \A e \in Daemons \ {d} : proc'[e] = proc[e]
          BY <2>2, <2>7, <4>1 DEF Starts, Become, Others
        <5>2. \A e \in Daemons : Served(e)' => Served(e)
          BY <5>1 DEF Served
        <5>3. \A e \in Daemons : BeforeBind(e) => BeforeBind(e)'
          BY <4>1, <5>1 DEF BeforeBind
        <5> QED BY <2>3, <5>1, <5>2, <5>3
      <4>2. CASE proc[d].main # "off"
        <5>1. BeforeBind(d)'
          BY <2>7, <4>2 DEF Starts, Become, BeforeBind
        <5> QED BY <5>1
      <4> QED BY <4>1, <4>2
    <3> QED BY <3>1, <3>2, <3>3, <3>4 DEF ReachInv
  <2>8. CASE Binds(d)
    <3>1. proc[d].main = "serve" /\ proc[d].listen_fd # "closed" /\ path # Stale
      BY <2>3, <2>5, <2>8 DEF Binds, Phases, Early, Late, MainPcs
    <3>2. \A e \in Daemons : ~proc'[e].told /\ proc'[e].listen_fd # "closed"
      BY <2>1, <2>2, <2>3, <2>8 DEF Binds, Become, Others
    <3>3. path' # Stale
      BY <2>3, <2>6, <2>8, <3>1 DEF Binds
    <3>4. path' \in Daemons => proc'[path'].server # "failed"
      BY <2>2, <2>3, <2>5, <2>6, <2>8, <3>1 DEF Binds, Become, Others
    <3>5. path' \in Daemons \/ \E e \in Daemons : BeforeBind(e)'
      <4>1. CASE proc[d].server = "unlink"
        <5>1. BeforeBind(d)'
          BY <2>8, <3>1, <4>1 DEF Binds, Become, BeforeBind
        <5> QED BY <5>1
      <4>2. CASE proc[d].server = "bind"
        BY <2>3, <2>5, <2>6, <2>8, <3>1, <4>2 DEF Binds
      <4>3. CASE proc[d].server = "listen"
        <5>1. path' = path /\ proc[d].main = "serve" /\ Served(d)
          BY <2>8, <3>1, <4>3 DEF Binds, Served
        <5>2. \A e \in Daemons : BeforeBind(e) => BeforeBind(e)'
          BY <2>2, <4>3, <5>1 DEF BeforeBind, Others
        <5> QED BY <2>3, <5>1, <5>2
      <4> QED BY <2>8, <4>1, <4>2, <4>3 DEF Binds
    <3> QED BY <3>2, <3>3, <3>4, <3>5 DEF ReachInv
  <2>9. CASE Stays(d)
    <3>1. /\ path' = path
          /\ \A e \in Daemons :
               /\ proc'[e].main = proc[e].main /\ proc'[e].server = proc[e].server
               /\ proc'[e].listen_fd = proc[e].listen_fd /\ proc'[e].told = proc[e].told
      BY <2>2, <2>9 DEF Stays, Become, Others
    <3> QED BY <2>3, <3>1 DEF ReachInv, Served, BeforeBind
  <2>10. CASE Dies(d)
    <3>1. proc[d].main = "check" /\ proc'[d] = Off
      BY <2>1, <2>10 DEF Dies, Served
    <3>2. path # d /\ path' = path
      BY <2>5, <2>10, <3>1 DEF Dies, Phases, Early
    <3>3. /\ proc'[d].main = "off" /\ ~proc'[d].told /\ proc'[d].listen_fd = "none"
          /\ \A e \in Daemons \ {d} : proc'[e] = proc[e]
      BY <2>2, <3>1 DEF Off, Others
    <3>4. /\ \A e \in Daemons : Served(e)' => Served(e)
          /\ \A e \in Daemons : BeforeBind(e) => BeforeBind(e)'
      BY <3>1, <3>3 DEF Served, BeforeBind
    <3>5. \A e \in Daemons : ~proc'[e].told /\ proc'[e].listen_fd # "closed"
      BY <2>3, <3>3
    <3>6. path' = Stale => \A e \in Daemons : proc'[e].main \in {"off", "check", "clean"}
      BY <2>3, <3>2, <3>3
    <3>7. path' \in Daemons => proc'[path'].server # "failed"
      BY <2>3, <3>2, <3>3
    <3> QED BY <2>3, <3>2, <3>4, <3>5, <3>6, <3>7 DEF ReachInv
  <2> QED BY <2>2, <2>4, <2>7, <2>8, <2>9, <2>10
<1> QED BY <1>1, <1>2, <1>3

\* Of daemons that start together, and of which none ends, one can be reached when all have
\* started: however many they are, and in whatever order they unlink and bind.
THEOREM OneAlwaysReachable == Spec => []OneReachable
<1>1. Init => ReachInv
  <2> SUFFICES ASSUME Init PROVE ReachInv
    OBVIOUS
  <2>1. /\ path \notin Daemons
        /\ \A d \in Daemons : proc[d].main = "off" /\ ~proc[d].told /\ proc[d].listen_fd = "none"
    BY LifecycleAssumption DEF Init, Off, LifecycleAssumption
  <2> QED BY <2>1 DEF ReachInv, Served
<1>2. TypeInv /\ TypeInv' /\ ReachInv /\ [Next]_vars => ReachInv'
  <2> SUFFICES ASSUME TypeInv, TypeInv', ReachInv, [Next]_vars PROVE ReachInv'
    OBVIOUS
  <2>1. CASE UNCHANGED vars
    BY <2>1 DEF vars, ReachInv, Served, BeforeBind
  <2>2. CASE Next
    BY <2>2, ReachStep DEF Next
  <2> QED BY <2>1, <2>2
<1>3. TypeInv /\ ReachInv => OneReachable
  <2> SUFFICES ASSUME TypeInv, ReachInv, Settled, ~ended, NEW d \in Daemons, Alive(d)
               PROVE  path \in Daemons /\ Serving(path)
    BY DEF OneReachable
  <2>1. \A e \in Daemons :
          Alive(e) => proc[e].main = "serve" /\ proc[e].server \in {"accept", "failed"}
    BY DEF Settled
  <2>2. Served(d)
    BY <2>1 DEF Served
  <2>3. \A e \in Daemons : ~BeforeBind(e)
    BY <2>1 DEF BeforeBind, Alive
  <2>4. path \in Daemons /\ proc[path].server # "failed" /\ ~proc[path].told
    BY <2>2, <2>3 DEF ReachInv
  <2>5. Alive(path)
    BY <2>4 DEF TypeInv, TypeOK
  <2> QED BY <2>1, <2>4, <2>5 DEF Serving, Running, Served
<1> QED BY <1>1, <1>2, <1>3, TypesKept, PTL DEF Spec

-----------------------------------------------------------------------------
(* The daemon that is alone *)

\* It comes no more to the path, or not yet.
Aside(e) ==
  \/ proc[e].main \in {"off", "check"}
  \/ /\ proc[e].main \in {"idle", "compositor", "exit"}
     /\ proc[e].server \notin {"unlink", "bind", "listen"}

\* As long as no start meets another start or a stop: when a daemon runs all others are
\* aside, and the path is free when it binds and its own from then on.
LoneInv ==
  ~raced =>
    /\ ~Overlap
    /\ \A d \in Daemons : Running(d) =>
         /\ \A e \in Daemons \ {d} : Aside(e)
         /\ proc[d].server # "failed"
         /\ proc[d].server \in {"bind", "listen"} => proc[d].listen_fd # "closed"
         /\ proc[d].server = "bind" => path = NoFile
         /\ proc[d].server \in {"listen", "accept"} => path = d

\* It is what it was to a daemon that runs and takes no step.
LEMMA LoneOther ==
  ASSUME TypeInv, TypeInv', LoneInv, ~raced, NEW d \in Daemons, Step(d),
         NEW f \in Daemons, f # d, Running(f), ~Overlap'
  PROVE  Aside(d)' /\ (path' = path \/ (path = d /\ path' = Stale))
<1>1. /\ Aside(d) /\ ~Overlap
      /\ proc[f].server # "failed"
      /\ proc[f].server \in {"listen", "accept"} => path = f
  BY DEF LoneInv
<1>2. /\ Others(d)
      /\ Starts(d) \/ Binds(d) \/ Stops(d) \/ Stays(d) \/ Dies(d)
  BY Effects
<1>3. /\ Phases(d) /\ Phases(f) /\ proc[f].main \in MainPcs
      /\ proc[f].server \in {"none", "unlink", "bind", "listen", "accept", "failed"}
  BY DEF TypeInv, TypeOK, Processes
<1>4. CASE Starts(d)
  <2>1. proc[d].main \in {"off", "check"}
    BY <1>1, <1>4 DEF Starts, Aside
  <2>2. CASE proc[d].main = "off"
    BY <1>4, <2>2 DEF Starts, Become, Aside
  <2>3. CASE proc[d].main = "check"
    <3>1. Starting(d)
      BY <2>3 DEF Starting
    <3>2. ~Starting(f)
      BY <1>1, <3>1 DEF Overlap
    <3>3. proc[f].main = "serve" /\ proc[f].server = "accept" /\ path = f
      BY <1>1, <1>3, <3>2 DEF Starting, Running, Served, MainPcs, Phases, Late
    <3> QED BY <1>4, <2>3, <3>3 DEF Starts
  <2> QED BY <2>1, <2>2, <2>3
<1>5. CASE Binds(d)
  <2>1. proc[d].server \in {"unlink", "bind", "listen"}
    BY <1>5 DEF Binds
  <2> QED BY <1>1, <1>3, <2>1 DEF Aside, Phases, Early
<1>6. CASE Stops(d)
  BY <1>1, <1>3, <1>6 DEF Aside, Stops, Phases, Early, Late
<1>7. CASE Stays(d)
  BY <1>1, <1>7 DEF Stays, Become, Aside
<1>8. CASE Dies(d)
  BY <1>8 DEF Dies, Off, Aside
<1> QED BY <1>2, <1>4, <1>5, <1>6, <1>7, <1>8

\* What a step of a daemon leaves of it, when it runs afterwards.
LEMMA LoneSelf ==
  ASSUME TypeInv, TypeInv', LoneInv, ~raced, NEW d \in Daemons, Step(d),
         Running(d)', ~Overlap'
  PROVE  /\ \A e \in Daemons \ {d} : Aside(e)
         /\ proc'[d].server # "failed"
         /\ proc'[d].server \in {"bind", "listen"} => proc'[d].listen_fd # "closed"
         /\ proc'[d].server = "bind" => path' = NoFile
         /\ proc'[d].server \in {"listen", "accept"} => path' = d
<1>1. /\ Others(d)
      /\ Starts(d) \/ Binds(d) \/ Stops(d) \/ Stays(d) \/ Dies(d)
  BY Effects
<1>2. /\ Phases(d) /\ Phases(d)' /\ proc[d].main \in MainPcs /\ proc'[d].main \in MainPcs
  BY DEF TypeInv, TypeOK, Processes
<1>3. proc'[d].main \in {"clean", "create", "spawn", "serve"} /\ ~proc'[d].told
  BY <1>2 DEF Running, Served, Phases, Late, MainPcs
<1>4. CASE Running(d)
  <2>1. /\ \A e \in Daemons \ {d} : Aside(e)
        /\ proc[d].server # "failed"
        /\ proc[d].server \in {"bind", "listen"} => proc[d].listen_fd # "closed"
        /\ proc[d].server = "bind" => path = NoFile
        /\ proc[d].server \in {"listen", "accept"} => path = d
    BY <1>4 DEF LoneInv
  <2>2. proc[d].main \in {"clean", "create", "spawn", "serve"} /\ ~proc[d].told
    BY <1>2, <1>4 DEF Running, Served, Phases, Late, MainPcs
  <2>3. CASE Starts(d)
    BY <2>1, <2>2, <2>3 DEF Starts, Become
  <2>4. CASE Binds(d)
    <3>1. proc[d].main = "serve"
      BY <1>2, <2>2, <2>4 DEF Binds, Phases, Early
    <3> QED BY <2>1, <2>4, <3>1 DEF Binds, Become
  <2>5. ~Stops(d)
    BY <1>3, <2>2 DEF Stops, Become
  <2>6. CASE Stays(d)
    BY <2>1, <2>6 DEF Stays, Become
  <2>7. ~Dies(d)
    BY <1>3 DEF Dies, Off
  <2> QED BY <1>1, <2>3, <2>4, <2>5, <2>6, <2>7
<1>5. CASE ~Running(d)
  <2>1. proc[d].main = "check" /\ Starts(d)
    <3>1. proc[d].main \in {"off", "check"} \/ proc[d].told
      BY <1>5 DEF Running, Served
    <3>2. ~Stays(d) /\ ~Dies(d) /\ ~Stops(d)
      BY <1>3, <3>1 DEF Stays, Dies, Stops, Become, Off
    <3>3. ~Binds(d)
      BY <1>2, <1>3, <3>1 DEF Binds, Become, Phases, Early
    <3> QED BY <1>1, <1>2, <1>3, <3>1, <3>2, <3>3 DEF Starts, Become, Phases, Early
  <2>2. /\ proc'[d].main = "clean" /\ proc'[d].server = "none"
        /\ path' = path /\ (path \in Daemons => proc[path].server # "accept")
    BY <2>1 DEF Starts, Become
  <2>3. ASSUME NEW e \in Daemons \ {d} PROVE Aside(e)
    <3>1. Starting(d) /\ ~Overlap
      BY <2>1 DEF Starting, LoneInv
    <3>2. ~Starting(e) /\ ~Stopping(e)
      BY <3>1 DEF Overlap
    <3>3. /\ Phases(e) /\ proc[e].main \in MainPcs
          /\ proc[e].server \in {"none", "unlink", "bind", "listen", "accept", "failed"}
      BY DEF TypeInv, TypeOK, Processes
    <3>4. ~Running(e)
      <4>1. SUFFICES ASSUME Running(e) PROVE FALSE
        OBVIOUS
      <4>2. /\ proc[e].server # "failed"
            /\ proc[e].server \in {"listen", "accept"} => path = e
        BY <4>1 DEF LoneInv
      <4>3. proc[e].main = "serve" /\ proc[e].server = "accept"
        BY <3>2, <3>3, <4>1, <4>2 DEF Running, Served, Starting, Phases, Late, MainPcs
      <4> QED BY <2>2, <4>2, <4>3
    <3> QED BY <3>2, <3>3, <3>4
            DEF Aside, Running, Served, Stopping, Phases, Early, Late, MainPcs
  <2> QED BY <2>2, <2>3
<1> QED BY <1>4, <1>5

LEMMA LoneStep ==
  ASSUME TypeInv, TypeInv', LoneInv, NEW d \in Daemons, Step(d), Remember
  PROVE  LoneInv'
<1>1. CASE raced'
  BY <1>1 DEF LoneInv
<1>2. CASE \A e \in Daemons : proc'[e] = Off
  <2>1. \A e \in Daemons : proc'[e].main = "off"
    BY <1>2 DEF Off
  <2> QED BY <2>1 DEF LoneInv, Overlap, Starting, Running, Served
<1>3. CASE ~raced' /\ ~(\A e \in Daemons : proc'[e] = Off)
  <2>1. ~raced /\ ~Overlap'
    BY <1>3 DEF Remember
  <2>2. Others(d)
    BY Effects
  <2>3. ASSUME NEW f \in Daemons, Running(f)'
        PROVE  /\ \A e \in Daemons \ {f} : Aside(e)'
               /\ proc'[f].server # "failed"
               /\ proc'[f].server \in {"bind", "listen"} => proc'[f].listen_fd # "closed"
               /\ proc'[f].server = "bind" => path' = NoFile
               /\ proc'[f].server \in {"listen", "accept"} => path' = f
    <3>1. CASE f = d
      <4>1. \A e \in Daemons \ {d} : Aside(e) => Aside(e)'
        BY <2>2 DEF Others, Aside
      <4>2. Running(d)'
        BY <2>3, <3>1
      <4> QED BY <2>1, <3>1, <4>1, <4>2, LoneSelf
    <3>2. CASE f # d
      <4>1. proc'[f] = proc[f]
        BY <2>2, <3>2 DEF Others
      <4>2. Running(f)
        BY <2>3, <4>1 DEF Running, Served
      <4>3. /\ \A e \in Daemons \ {f} : Aside(e)
            /\ proc[f].server # "failed"
            /\ proc[f].server \in {"bind", "listen"} => proc[f].listen_fd # "closed"
            /\ proc[f].server = "bind" => path = NoFile
            /\ proc[f].server \in {"listen", "accept"} => path = f
        BY <2>1, <4>2 DEF LoneInv
      <4>4. Aside(d)' /\ (path' = path \/ (path = d /\ path' = Stale))
        BY <2>1, <3>2, <4>2, LoneOther
      <4>5. \A e \in Daemons \ {f} : Aside(e)'
        BY <2>2, <4>3, <4>4 DEF Others, Aside
      <4> QED BY <3>2, <4>1, <4>3, <4>4, <4>5, LifecycleAssumption DEF LifecycleAssumption
    <3> QED BY <3>1, <3>2
  <2> QED BY <2>1, <2>3 DEF LoneInv
<1> QED BY <1>1, <1>2, <1>3

\* One daemon at a time, and the path is its own, unless a start meets another start or a
\* stop: for any number of processes, kills and stale sockets.
THEOREM OneDaemonAlways == Spec => []OneDaemon
<1>1. Init => LoneInv
  <2> SUFFICES ASSUME Init PROVE LoneInv
    OBVIOUS
  <2>1. \A d \in Daemons : proc[d].main = "off"
    BY DEF Init, Off
  <2> QED BY <2>1 DEF LoneInv, Overlap, Starting, Running, Served
<1>2. TypeInv /\ TypeInv' /\ LoneInv /\ [Next]_vars => LoneInv'
  <2> SUFFICES ASSUME TypeInv, TypeInv', LoneInv, [Next]_vars PROVE LoneInv'
    OBVIOUS
  <2>1. CASE UNCHANGED vars
    BY <2>1 DEF vars, LoneInv, Overlap, Starting, Stopping, Running, Served, Aside
  <2>2. CASE Next
    BY <2>2, LoneStep DEF Next
  <2> QED BY <2>1, <2>2
<1>3. TypeInv /\ LoneInv => OneDaemon
  <2> SUFFICES ASSUME TypeInv, LoneInv, ~raced, NEW d \in Daemons
               PROVE  /\ Running(d) => \A e \in Daemons : Running(e) => e = d
                      /\ Serving(d) => path = d
    BY DEF OneDaemon
  <2>1. \A e \in Daemons : Aside(e) => ~Running(e)
    BY DEF Aside, Running, Served, TypeInv, Phases, Late
  <2>2. Running(d) => \A e \in Daemons : Running(e) => e = d
    BY <2>1 DEF LoneInv
  <2>3. Serving(d) => path = d
    BY DEF LoneInv, Serving
  <2> QED BY <2>2, <2>3
<1> QED BY <1>1, <1>2, <1>3, TypesKept, PTL DEF Spec
=============================================================================
