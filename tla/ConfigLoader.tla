----------------------------- MODULE ConfigLoader -----------------------------
(***************************************************************************)
(* axctl_load_config of src/src/config/config.c: one load at a time, while *)
(* the files it reads may change.                                          *)
(*                                                                         *)
(* Abstractions.  A file defines a set of keys, names other files, and has *)
(* a stamp that tells its versions apart: the value of each of its keys is *)
(* the file and the stamp.  A file is read in one step.  A file gives its  *)
(* entries to the store in one piece.  Keys are settings that are          *)
(* converted whenever they are defined; those that are converted only      *)
(* beside another, as the size of the blur, are left out.                  *)
(***************************************************************************)
EXTENDS Integers, Sequences, FiniteSets

CONSTANTS
  Files,        \* the files there may be
  Main,         \* the file that is loaded
  Keys,         \* the section.key pairs they may define
  MaxDepth,     \* MAX_IMPORT_DEPTH
  MaxIncludes   \* MAX_INCLUDES

ASSUME LoaderAssumption ==
  /\ Main \in Files
  /\ IsFiniteSet(Keys)
  /\ MaxDepth \in Nat \ {0}
  /\ MaxIncludes \in Nat

VARIABLES
  disk,         \* what each file holds
  lpc,          \* "idle", "parsing", "loaded" or "failed"
  stack,        \* per call of parse_toml_file, the include it looks at next
  entries,      \* cfg->head .. cfg->tail, one element per file parsed
  includes,     \* cfg->includes[0 .. include_count-1]
  root          \* history: what Main held when the load opened it

loadVars == <<lpc, stack, entries, includes, root>>

-----------------------------------------------------------------------------
(* Types *)

Content == [exists : BOOLEAN, keys : SUBSET Keys, includes : Seq(Files), stamp : Nat]

Missing == [exists |-> FALSE, keys |-> {}, includes |-> <<>>, stamp |-> 0]

Empty == [Missing EXCEPT !.exists = TRUE]

Entry == [file : Files, keys : SUBSET Keys, stamp : Nat]

LoaderType ==
  /\ disk \in [Files -> Content]
  /\ lpc \in {"idle", "parsing", "loaded", "failed"}
  /\ stack \in Seq(Nat \ {0})
  /\ entries \in Seq(Entry)
  /\ includes \in Seq(Files)
  /\ Len(includes) <= MaxIncludes
  /\ root \in Content

\* Nothing is loaded yet.
LoaderInit ==
  /\ lpc = "idle"
  /\ stack = <<>>
  /\ entries = <<>>
  /\ includes = <<>>
  /\ root = Missing

-----------------------------------------------------------------------------
(* parse_toml_file *)

EntryOf(f) == [file |-> f, keys |-> disk[f].keys, stamp |-> disk[f].stamp]

\* Mutant: nobody counts.
AddAllIncludes(f) == includes \o disk[f].includes

\* The paths that still fit are added to the list, which all calls share.
AddIncludes(f) ==
  LET all == includes \o disk[f].includes IN
  IF Len(all) <= MaxIncludes THEN all ELSE SubSeq(all, 1, MaxIncludes)

\* Mutant: what a file includes goes before it, as config.h has it.
ParseBefore(f) ==
  /\ entries' = <<EntryOf(f)>> \o entries
  /\ includes' = AddIncludes(f)

\* kv_add and the include directive, line by line.
Parse(f) ==
  /\ entries' = Append(entries, EntryOf(f))
  /\ includes' = AddIncludes(f)

Top == stack[Len(stack)]

\* A call made now would be Len(stack) levels deep.
CanParse(f) == Len(stack) <= MaxDepth /\ disk[f].exists

Advance == [stack EXCEPT ![Len(stack)] = @ + 1]

\* axctl_load_config: the first call.  Without the file there is no configuration.
LoadRoot ==
  /\ lpc = "idle"
  /\ root' = disk[Main]
  /\ \/ disk[Main].exists /\ Parse(Main) /\ stack' = <<1>> /\ lpc' = "parsing"
     \/ ~disk[Main].exists /\ lpc' = "failed" /\ UNCHANGED <<stack, entries, includes>>

\* Mutant: the loop ends one include early.
HasNextOff == Top < Len(includes)

\* The loop over the includes looks at include_count in every turn.
HasNext == Top <= Len(includes)

\* One turn of the loop: the call, of which a failure is ignored.
Include ==
  /\ lpc = "parsing"
  /\ HasNext
  /\ LET f == includes[Top] IN
       \/ CanParse(f) /\ Parse(f) /\ stack' = Append(Advance, 1)
       \/ ~CanParse(f) /\ stack' = Advance /\ UNCHANGED <<entries, includes>>
  /\ UNCHANGED <<lpc, root>>

Return ==
  /\ lpc = "parsing"
  /\ ~HasNext
  /\ stack' = SubSeq(stack, 1, Len(stack) - 1)
  /\ lpc' = IF Len(stack) = 1 THEN "loaded" ELSE "parsing"
  /\ UNCHANGED <<entries, includes, root>>

LoadStep == Include \/ Return

\* axctl_free_config, once the configuration has been applied.
FreeConfig ==
  /\ lpc' = "idle"
  /\ entries' = <<>>
  /\ includes' = <<>>
  /\ root' = Missing
  /\ UNCHANGED stack

-----------------------------------------------------------------------------
(* Lookup *)

Defining(k) == {i \in DOMAIN entries : k \in entries[i].keys}

\* kv_get: the first entry that matches.
KvGet(k) ==
  LET i == CHOOSE i \in Defining(k) : \A j \in Defining(k) : i <= j
  IN [file |-> entries[i].file, stamp |-> entries[i].stamp]

\* axctl_config_to_json: every key that is defined, with its value.
ToConfig == [k \in {k \in Keys : Defining(k) # {}} |-> KvGet(k)]

-----------------------------------------------------------------------------
(* Properties *)

\* "main file overrides" (config.h, line 7), though it is parsed first and may be parsed
\* again, in a later version, when it is included by another: the first entry wins
\* (kv_get, lines 112-120).
MainOverrides ==
  lpc = "loaded" =>
    \A k \in root.keys : ToConfig[k] = [file |-> Main, stamp |-> root.stamp]

\* Every file that is listed has been parsed when the load ends, however deep the import
\* that named it, and what a parsed file includes is listed unless the list is full.  The
\* loop of each call runs over the list of all, which grows under it (lines 241-246).
NothingIncludedIsLost ==
  LET parsed == {entries[i].file : i \in DOMAIN entries}
      listed == {includes[i] : i \in DOMAIN includes}
  IN
  lpc = "loaded" =>
    /\ \A f \in listed \ {Main} : disk[f].exists => f \in parsed
    /\ \A f \in parsed \ {Main} : \A i \in DOMAIN disk[f].includes :
         disk[f].includes[i] \in listed \/ Len(includes) = MaxIncludes

=============================================================================
