------------------------------ MODULE ConfigWatch ------------------------------
(***************************************************************************)
(* The configuration of the running daemon: run_daemon of src/src/main.c   *)
(* loads and applies it and starts the watcher of src/src/config/config.c, *)
(* which loads and applies it again when the file changes.  Meanwhile an   *)
(* editor saves the file and clients send Config.Apply.                    *)
(*                                                                         *)
(* Abstractions.  Only Main is edited: the files it includes have no watch *)
(* and their changes do nothing.  inotify is a flag, as the watcher reads  *)
(* all events at once and looks at none of them.  The keyboard layouts and *)
(* the layout, one request each after an application, are left out, as is  *)
(* the end of the watcher at shutdown.                                     *)
(***************************************************************************)
EXTENDS ConfigLoader, ConfigApply

CONSTANTS
  Clients,      \* the connection threads that serve Config.Apply
  Payloads,     \* the sets of keys that requests define
  Trees,        \* what the files may hold
  SaveKinds,    \* how the editor saves: "inplace", "replace", "recreate"
  MaxOps        \* bound: the saves and the requests together

ASSUME WatchAssumption ==
  /\ Appliers = Clients \cup {"main", "watcher"}
  /\ {"main", "watcher"} \cap Clients = {}
  /\ Payloads \subseteq SUBSET Keys
  /\ Trees \subseteq [Files -> Content]
  /\ SaveKinds \subseteq {"inplace", "replace", "recreate"}
  /\ MaxOps \in Nat

VARIABLES
  inode,        \* which file the name of Main stands for
  watch,        \* the inode w->inotify_fd watches, or NoWatch
  pending,      \* there are events to read from w->inotify_fd
  saving,       \* where the editor is: "no", "truncated" or "unlinked"
  saves,        \* how many saves have begun
  mpc,          \* where the main thread is
  wpc,          \* where the watcher thread is
  applies,      \* how many requests have been made
  loaded,       \* history: what Main held when it was loaded last
  unseen        \* history: the last change of Main was before the watch

editVars == <<disk, inode, saving, saves>>
watchVars == <<watch, pending>>
vars == <<loadVars, applyVars, editVars, watchVars, mpc, wpc, applies, loaded, unseen>>

NoWatch == -1

Value == [file : Files \cup {"request"}, stamp : Nat]

IsConfig(c) == \E D \in SUBSET Keys : c \in [D -> Value]

IsText(file) ==
  /\ file \in Seq({file[i] : i \in DOMAIN file})
  /\ \A i \in DOMAIN file : IsConfig(file[i]) \/ file[i] = Hole

WatchType ==
  /\ inode \in Nat
  /\ watch \in Nat \cup {NoWatch}
  /\ pending \in BOOLEAN
  /\ saving \in {"no", "truncated", "unlinked"}
  /\ saves \in Nat
  /\ mpc \in {"stat", "load", "apply", "watch", "serve"}
  /\ wpc \in {"off", "read", "debounce", "drain", "load", "apply"}
  /\ applies \in Nat /\ saves + applies <= MaxOps
  /\ loaded \in Content
  /\ unseen \in BOOLEAN

ApplyType ==
  /\ IsText(conf) /\ IsText(lua)
  /\ IsText(compositor.conf) /\ IsText(compositor.lua)
  /\ apc \in [Appliers -> ApplyPcs]
  /\ DOMAIN acfg = Appliers /\ \A a \in Appliers : IsConfig(acfg[a])
  /\ apos \in [Appliers -> Nat \ {0}]
  /\ IsConfig(last)
  /\ clean \in BOOLEAN

TypeOK == LoaderType /\ ApplyType /\ WatchType

Init ==
  /\ disk \in Trees
  /\ LoaderInit
  /\ ApplyInit
  /\ inode = 0
  /\ watch = NoWatch
  /\ pending = FALSE
  /\ saving = "no"
  /\ saves = 0
  /\ mpc = "stat"
  /\ wpc = "off"
  /\ applies = 0
  /\ loaded = disk[Main]
  /\ unseen = FALSE

-----------------------------------------------------------------------------
(* The editor *)

Watched == watch = inode

Write(content) == disk' = [disk EXCEPT ![Main] = content]

\* The file changes; inotify tells the watch, if it is on this file.
Modify(content) ==
  /\ Write(content)
  /\ pending' = (pending \/ Watched)
  /\ unseen' = (wpc = "off")
  /\ UNCHANGED <<inode, watch>>

\* The name stands for another file, or for none.  When the file goes its watch goes with
\* it, and inotify tells this, too (IN_IGNORED).
Relink(content) ==
  /\ Write(content)
  /\ inode' = inode + 1
  /\ watch' = IF Watched THEN NoWatch ELSE watch
  /\ pending' = (pending \/ Watched)
  /\ unseen' = (wpc = "off")

Aside == UNCHANGED <<loadVars, applyVars, mpc, wpc, applies, loaded>>

BeginSave(kind) ==
  /\ kind \in SaveKinds
  /\ saving = "no"
  /\ saves + applies < MaxOps
  /\ saves' = saves + 1
  /\ Aside

\* What the editor may save: a new version of a file that one of the trees has.
NewContents(stamp) ==
  {[tree[Main] EXCEPT !.stamp = stamp] : tree \in {t \in Trees : t[Main].exists}}

\* open with O_TRUNC.
SaveInPlace ==
  /\ BeginSave("inplace")
  /\ disk[Main].exists
  /\ Modify(Empty)
  /\ saving' = "truncated"

\* Write a second file and rename it to the first.
SaveAndRename ==
  /\ BeginSave("replace")
  /\ \E content \in NewContents(saves') : Relink(content)
  /\ UNCHANGED saving

UnlinkToSave ==
  /\ BeginSave("recreate")
  /\ disk[Main].exists
  /\ Relink(Missing)
  /\ saving' = "unlinked"

CreateAgain ==
  /\ saving = "unlinked"
  /\ Modify(Empty)
  /\ saving' = "truncated"
  /\ UNCHANGED saves
  /\ Aside

FinishSave ==
  /\ saving = "truncated"
  /\ \E content \in NewContents(saves) : Modify(content)
  /\ saving' = "no"
  /\ UNCHANGED saves
  /\ Aside

-----------------------------------------------------------------------------
(* Loading and applying, for the main thread and the watcher *)

Unwatched == UNCHANGED <<editVars, applies, unseen>>

\* Only one of them is at work: the watcher starts when main has done.
Load ==
  /\ "load" \in {mpc, wpc}
  /\ \/ LoadRoot /\ loaded' = disk[Main]
     \/ LoadStep /\ UNCHANGED loaded
  /\ UNCHANGED <<applyVars, watchVars, mpc, wpc>>
  /\ Unwatched

\* axctl_apply_config.
ApplyLoaded(who) ==
  /\ lpc = "loaded"
  /\ BeginApply(who, ToConfig)
  /\ UNCHANGED <<loadVars, watchVars, loaded>>
  /\ Unwatched

Applied(who) ==
  /\ EndApply(who)
  /\ FreeConfig
  /\ UNCHANGED <<watchVars, loaded>>
  /\ Unwatched

LoadFailed ==
  /\ lpc = "failed"
  /\ FreeConfig
  /\ UNCHANGED <<applyVars, watchVars, loaded>>
  /\ Unwatched

-----------------------------------------------------------------------------
(* The main thread: run_daemon *)

\* Without a file there is no configuration and no watcher.
Stat ==
  /\ mpc = "stat"
  /\ mpc' = IF disk[Main].exists THEN "load" ELSE "serve"
  /\ UNCHANGED <<loadVars, applyVars, watchVars, wpc, loaded>>
  /\ Unwatched

MainApplies == mpc = "load" /\ ApplyLoaded("main") /\ mpc' = "apply" /\ UNCHANGED wpc

MainGoesOn ==
  /\ \/ mpc = "load" /\ LoadFailed
     \/ mpc = "apply" /\ Applied("main")
  /\ mpc' = "watch"
  /\ UNCHANGED wpc

\* axctl_config_watcher_start, and the server starts.
StartWatcher ==
  /\ mpc = "watch"
  /\ watch' = IF disk[Main].exists THEN inode ELSE NoWatch
  /\ mpc' = "serve"
  /\ wpc' = "read"
  /\ UNCHANGED <<loadVars, applyVars, pending, loaded>>
  /\ Unwatched

-----------------------------------------------------------------------------
(* The watcher thread: watcher_loop *)

WatcherGoto(from, to) ==
  /\ wpc = from
  /\ wpc' = to
  /\ UNCHANGED <<loadVars, applyVars, watch, mpc, loaded>>
  /\ Unwatched

Read == pending /\ pending' = FALSE /\ WatcherGoto("read", "debounce")

\* usleep, for atomic saves.
Debounce == WatcherGoto("debounce", "drain") /\ UNCHANGED pending

\* Mutant: the drain waits for another event.
DrainBlocks == pending /\ pending' = FALSE /\ WatcherGoto("drain", "load")

\* select without timeout, and read as long as there is something.
Drain ==
  \/ pending /\ pending' = FALSE /\ WatcherGoto("drain", "drain")
  \/ ~pending /\ WatcherGoto("drain", "load") /\ UNCHANGED pending

WatcherApplies == wpc = "load" /\ ApplyLoaded("watcher") /\ wpc' = "apply" /\ UNCHANGED mpc

\* Mutant: events that came in the meantime are drained now.
WatcherGoesOnDrained ==
  /\ \/ wpc = "load" /\ lpc = "failed" /\ FreeConfig /\ UNCHANGED applyVars
     \/ wpc = "apply" /\ EndApply("watcher") /\ FreeConfig
  /\ wpc' = "read"
  /\ pending' = FALSE
  /\ UNCHANGED <<watch, loaded, mpc>>
  /\ Unwatched

WatcherGoesOn ==
  /\ \/ wpc = "load" /\ LoadFailed
     \/ wpc = "apply" /\ Applied("watcher")
  /\ wpc' = "read"
  /\ UNCHANGED mpc

-----------------------------------------------------------------------------
(* Config.Apply *)

BeginRequest(c) ==
  /\ mpc = "serve"
  /\ saves + applies < MaxOps
  /\ applies' = applies + 1
  /\ \E D \in Payloads : BeginApply(c, [k \in D |-> [file |-> "request", stamp |-> applies]])
  /\ UNCHANGED <<loadVars, editVars, watchVars, mpc, wpc, loaded, unseen>>

EndRequest(c) ==
  /\ EndApply(c)
  /\ UNCHANGED <<loadVars, watchVars, mpc, wpc, loaded>>
  /\ Unwatched

\* A step of axctl_config_handler_apply, for any of them.
Apply(a) ==
  /\ ApplyStep(a)
  /\ UNCHANGED <<loadVars, watchVars, mpc, wpc, loaded>>
  /\ Unwatched

-----------------------------------------------------------------------------
(* Specifications *)

Edit == SaveInPlace \/ SaveAndRename \/ UnlinkToSave \/ CreateAgain \/ FinishSave

MainStep == Stat \/ MainApplies \/ MainGoesOn \/ StartWatcher

WatcherStep == Read \/ Debounce \/ Drain \/ WatcherApplies \/ WatcherGoesOn

Next ==
  \/ Edit
  \/ Load
  \/ MainStep
  \/ WatcherStep
  \/ \E a \in Appliers : Apply(a)
  \/ \E c \in Clients : BeginRequest(c) \/ EndRequest(c)

Spec == Init /\ [][Next]_vars

\* The threads run; nothing is assumed of the editor and the clients.
FairSpec ==
  /\ Spec
  /\ WF_vars(Load)
  /\ WF_vars(MainStep)
  /\ WF_vars(WatcherStep)
  /\ \A a \in Appliers : WF_vars(Apply(a))
  /\ \A c \in Clients : WF_vars(EndRequest(c))

-----------------------------------------------------------------------------
(* Properties *)

\* The watcher waits, and the editor has finished.
Quiet == wpc = "read" /\ ~pending /\ saving = "no"

\* While the watch is on the file, a quiet watcher has loaded what the file holds: a
\* change that is drained was made before the load, and one that comes during the load
\* makes another (watcher_loop, lines 469-508), also when the load saw half a save.
ReloadSettles == (Quiet /\ Watched /\ ~unseen) => loaded = disk[Main]

\* README.md, line 62: the file is "hot-reloaded on save via inotify", and the pause of the
\* watcher is there "for atomic saves" (config.c, line 481).  So a save after the watcher
\* has started should be loaded in the end, whichever way the editor saves.
HotReloadedOnSave == (Quiet /\ ~unseen) => loaded = disk[Main]

\* Whatever the files include, each other in a circle, too, a reload ends and the watcher
\* waits again, and so does the start.
ReloadEnds == (wpc # "off" ~> wpc = "read") /\ (mpc = "stat" ~> mpc = "serve")

=============================================================================
