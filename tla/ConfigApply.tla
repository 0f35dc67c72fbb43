------------------------------ MODULE ConfigApply ------------------------------
(***************************************************************************)
(* axctl_config_handler_apply of src/src/server/config_handler.c: it       *)
(* writes the two files of the compositor and has it reload them.  The     *)
(* main thread, the watcher and the connection threads call it under no    *)
(* lock.                                                                   *)
(*                                                                         *)
(* Abstractions.  A text is a sequence of blocks, one for the header and   *)
(* one for each key, each written at the writer's own offset.  A block is  *)
(* the configuration it comes from.  The compositor is Hyprland, the one   *)
(* with two files; it reads both in one step.                              *)
(***************************************************************************)
EXTENDS Integers, Sequences, FiniteSets

CONSTANTS
  Appliers,     \* the threads that apply configurations
  Faults        \* the files that may fail to open: "conf", "lua"

ASSUME ApplyAssumption == Faults \subseteq {"conf", "lua"}

VARIABLES
  conf,         \* hyprland.conf
  lua,          \* hyprland.lua
  compositor,   \* what the compositor has read from them
  apc,          \* where each thread is in axctl_config_handler_apply
  acfg,         \* the configuration it applies
  apos,         \* the offset in the file it writes
  last,         \* history: the configuration whose application began last
  clean         \* history: since it began it was alone, and lua did not fail

applyVars == <<conf, lua, compositor, apc, acfg, apos, last, clean>>

NoConfig == [k \in {} |-> 0]

\* What is left between the end of a file and an offset behind it.
Hole == [k \in {"hole"} |-> 0]

Text(c) == [i \in 1 .. 1 + Cardinality(DOMAIN c) |-> c]

ApplyPcs == {"idle", "open", "write", "lua_open", "lua_write", "reload", "returned"}

ApplyInit ==
  /\ conf = <<>>
  /\ lua = <<>>
  /\ compositor = [conf |-> <<>>, lua |-> <<>>]
  /\ apc = [a \in Appliers |-> "idle"]
  /\ acfg = [a \in Appliers |-> NoConfig]
  /\ apos = [a \in Appliers |-> 1]
  /\ last = NoConfig
  /\ clean = TRUE

-----------------------------------------------------------------------------

ApplyGoto(a, at) == apc' = [apc EXCEPT ![a] = at]

\* write(2) of one block at an offset.
PutBlock(file, at, block) ==
  [i \in 1 .. (IF Len(file) < at THEN at ELSE Len(file)) |->
     IF i = at THEN block ELSE IF i <= Len(file) THEN file[i] ELSE Hole]

BeginApply(a, c) ==
  /\ apc[a] = "idle"
  /\ ApplyGoto(a, "open")
  /\ acfg' = [acfg EXCEPT ![a] = c]
  /\ last' = c
  /\ clean' = (\A b \in Appliers : apc[b] \in {"idle", "returned"})
  /\ UNCHANGED <<conf, lua, compositor, apos>>

\* Mutant: the old text is not thrown away.
TruncateNot(file) == file

\* fopen with "w".
Truncate(file) == <<>>

OpenConf(a) ==
  /\ apc[a] = "open"
  /\ \/ /\ conf' = Truncate(conf)
        /\ apos' = [apos EXCEPT ![a] = 1]
        /\ ApplyGoto(a, "write")
        /\ UNCHANGED clean
     \/ /\ "conf" \in Faults
        /\ ApplyGoto(a, "returned")
        /\ clean' = FALSE
        /\ UNCHANGED <<conf, apos>>
  /\ UNCHANGED <<lua, compositor, acfg, last>>

\* fprintf and fclose.
WriteConf(a) ==
  /\ apc[a] = "write"
  /\ conf' = PutBlock(conf, apos[a], acfg[a])
  /\ apos' = [apos EXCEPT ![a] = @ + 1]
  /\ ApplyGoto(a, IF apos[a] < Len(Text(acfg[a])) THEN "write" ELSE "lua_open")
  /\ UNCHANGED <<lua, compositor, acfg, last, clean>>

\* Mutant: without the second file there is no reload.
ReturnWithoutLua == "returned"

\* Without the second file the reload takes place all the same.
AfterLuaFails == "reload"

OpenLua(a) ==
  /\ apc[a] = "lua_open"
  /\ \/ /\ lua' = Truncate(lua)
        /\ apos' = [apos EXCEPT ![a] = 1]
        /\ ApplyGoto(a, "lua_write")
        /\ UNCHANGED clean
     \/ /\ "lua" \in Faults
        /\ ApplyGoto(a, AfterLuaFails)
        /\ clean' = FALSE
        /\ UNCHANGED <<lua, apos>>
  /\ UNCHANGED <<conf, compositor, acfg, last>>

WriteLua(a) ==
  /\ apc[a] = "lua_write"
  /\ lua' = PutBlock(lua, apos[a], acfg[a])
  /\ apos' = [apos EXCEPT ![a] = @ + 1]
  /\ ApplyGoto(a, IF apos[a] < Len(Text(acfg[a])) THEN "lua_write" ELSE "reload")
  /\ UNCHANGED <<conf, compositor, acfg, last, clean>>

\* comp->reload_config.
ReloadConfig(a) ==
  /\ apc[a] = "reload"
  /\ compositor' = [conf |-> conf, lua |-> lua]
  /\ ApplyGoto(a, "returned")
  /\ UNCHANGED <<conf, lua, acfg, apos, last, clean>>

\* The caller goes on.
EndApply(a) ==
  /\ apc[a] = "returned"
  /\ apc' = [apc EXCEPT ![a] = "idle"]
  /\ acfg' = [acfg EXCEPT ![a] = NoConfig]
  /\ apos' = [apos EXCEPT ![a] = 1]
  /\ UNCHANGED <<conf, lua, compositor, last, clean>>

ApplyStep(a) ==
  OpenConf(a) \/ WriteConf(a) \/ OpenLua(a) \/ WriteLua(a) \/ ReloadConfig(a)

Applying == {a \in Appliers : apc[a] \notin {"idle", "returned"}}

-----------------------------------------------------------------------------
(* Properties *)

\* When nobody is applying, the compositor has read what its files hold, whoever wrote
\* them, in whatever order, and whichever of them failed to open: every write is followed by
\* a reload of the same thread (lines 153-209).
SettledOnDisk == Applying = {} => compositor = [conf |-> conf, lua |-> lua]

\* An application that was alone leaves two whole files of the same configuration, also
\* after a longer one and after one that left the files mixed (lines 153-193).
FilesWhole ==
  (Applying = {} /\ clean /\ last # NoConfig) => conf = Text(last) /\ lua = Text(last)

=============================================================================
