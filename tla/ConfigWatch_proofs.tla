-------------------------- MODULE ConfigWatch_proofs --------------------------
(***************************************************************************)
(* Theorems about ConfigWatch.tla, for every set of files, keys, saves and *)
(* clients, and for every limit on includes and their depth.               *)
(***************************************************************************)
EXTENDS ConfigWatch, FiniteSetTheorems, SequenceTheorems, WellFoundedInduction, TLAPS

-----------------------------------------------------------------------------
(* Lookup *)

\* A nonempty set of numbers has a smallest one.
LEMMA SmallestNumber ==
  ASSUME NEW T \in SUBSET Nat, T # {}
  PROVE  \E x \in T : \A y \in T : x <= y
<1> DEFINE Less == OpToRel(<, Nat)
<1>1. \A x, y \in Nat : y < x => <<y, x>> \in Less
  BY Zenon DEF OpToRel
<1>2. IsWellFoundedOn(Less, Nat)
  BY NatLessThanWellFounded, Zenon
<1> HIDE DEF Less
<1>3. PICK x \in T : \A y \in T : ~(<<y, x>> \in Less)
  BY <1>2, WFMin, Zenon
<1>4. \A y \in T : ~(y < x)
  BY <1>1, <1>3, Zenon
<1>5. \A y \in T : x <= y
  BY <1>4
<1> QED BY <1>3, <1>5

-----------------------------------------------------------------------------
(* The loader *)

LoaderInv ==
  /\ LoaderType
  /\ lpc = "parsing" => stack # <<>>

\* Main is parsed first, and its entries stay the first.
RootFirst ==
  /\ lpc = "idle" => entries = <<>>
  /\ lpc \in {"parsing", "loaded"} =>
       entries # <<>> /\ entries[1] = [file |-> Main, keys |-> root.keys, stamp |-> root.stamp]

\* What a call of parse_toml_file does to the store.
LEMMA ParseTypes ==
  ASSUME LoaderType, NEW f \in Files, Parse(f)
  PROVE  /\ EntryOf(f) \in Entry
         /\ entries' \in Seq(Entry)
         /\ Len(entries') = Len(entries) + 1
         /\ \A i \in 1 .. Len(entries) : entries'[i] = entries[i]
         /\ entries'[Len(entries')] = EntryOf(f)
         /\ includes' \in Seq(Files)
         /\ Len(includes') <= MaxIncludes
         /\ Len(includes') >= Len(includes)
         /\ \A i \in 1 .. Len(includes) : includes'[i] = includes[i]
<1>1. disk[f] \in Content
  BY DEF LoaderType
<1>2. EntryOf(f) \in Entry
  BY <1>1 DEF EntryOf, Entry, Content
<1>3. /\ entries' \in Seq(Entry)
      /\ Len(entries') = Len(entries) + 1
      /\ \A i \in 1 .. Len(entries) : entries'[i] = entries[i]
      /\ entries'[Len(entries')] = EntryOf(f)
  BY <1>2, AppendProperties, LenProperties DEF Parse, LoaderType
<1> DEFINE all == includes \o disk[f].includes
<1>4. /\ includes \in Seq(Files) /\ Len(includes) \in Nat /\ Len(includes) <= MaxIncludes
      /\ disk[f].includes \in Seq(Files) /\ Len(disk[f].includes) \in Nat
  BY <1>1, LenProperties DEF LoaderType, Content
<1>5. /\ all \in Seq(Files)
      /\ Len(all) \in Nat
      /\ Len(all) >= Len(includes)
      /\ \A i \in 1 .. Len(includes) : all[i] = includes[i]
  BY <1>4, ConcatProperties
<1>6. includes' = IF Len(all) <= MaxIncludes THEN all ELSE SubSeq(all, 1, MaxIncludes)
  BY DEF Parse, AddIncludes
<1> HIDE DEF all
<1>7. CASE Len(all) <= MaxIncludes
  BY <1>2, <1>3, <1>5, <1>6, <1>7
<1>8. CASE ~(Len(all) <= MaxIncludes)
  <2>1. MaxIncludes \in Nat /\ MaxIncludes < Len(all)
    BY <1>5, <1>8, LoaderAssumption
  <2>2. \A i \in 1 .. MaxIncludes : all[i] \in Files
    BY <1>5, <2>1, ElementOfSeq
  <2>3. /\ SubSeq(all, 1, MaxIncludes) \in Seq(Files)
        /\ Len(SubSeq(all, 1, MaxIncludes)) = IF 1 <= MaxIncludes THEN MaxIncludes - 1 + 1 ELSE 0
        /\ \A i \in 1 .. MaxIncludes - 1 + 1 : SubSeq(all, 1, MaxIncludes)[i] = all[1 + i - 1]
    BY <2>1, <2>2, SubSeqProperties
  <2>4. /\ Len(SubSeq(all, 1, MaxIncludes)) = MaxIncludes
        /\ \A i \in 1 .. MaxIncludes : SubSeq(all, 1, MaxIncludes)[i] = all[i]
    BY <2>1, <2>3
  <2> QED BY <1>2, <1>3, <1>4, <1>5, <1>6, <1>8, <2>1, <2>3, <2>4
<1> QED BY <1>7, <1>8

\* The next include of the innermost call.
LEMMA TopTypes ==
  ASSUME LoaderInv, lpc = "parsing"
  PROVE  /\ Len(stack) \in Nat \ {0}
         /\ DOMAIN stack = 1 .. Len(stack)
         /\ Top \in Nat \ {0}
         /\ Advance \in Seq(Nat \ {0})
         /\ Len(Advance) = Len(stack)
         /\ \A i \in 1 .. Len(stack) : Advance[i] = IF i = Len(stack) THEN Top + 1 ELSE stack[i]
         /\ HasNext => includes[Top] \in Files
<1>1. stack \in Seq(Nat \ {0}) /\ stack # <<>>
  BY DEF LoaderInv, LoaderType
<1>2. Len(stack) \in Nat \ {0} /\ DOMAIN stack = 1 .. Len(stack)
  BY <1>1, EmptySeq, LenProperties
<1>3. Top \in Nat \ {0}
  BY <1>1, <1>2, ElementOfSeq DEF Top
<1>4. Advance = [stack EXCEPT ![Len(stack)] = Top + 1]
  BY DEF Advance, Top
<1>5. /\ Advance \in Seq(Nat \ {0})
      /\ Len(Advance) = Len(stack)
      /\ \A i \in 1 .. Len(stack) : Advance[i] = IF i = Len(stack) THEN Top + 1 ELSE stack[i]
  BY <1>1, <1>2, <1>3, <1>4, ExceptSeq
<1>6. ASSUME HasNext PROVE includes[Top] \in Files
  <2>1. includes \in Seq(Files) /\ Len(includes) \in Nat
    BY LenProperties DEF LoaderInv, LoaderType
  <2>2. Top \in 1 .. Len(includes)
    BY <1>3, <1>6, <2>1 DEF HasNext
  <2> QED BY <2>1, <2>2, ElementOfSeq
<1> QED BY <1>2, <1>3, <1>5, <1>6

\* What the cases of Next come to for the loader: it takes a step, ends, or stands still,
\* and only then may Main change.
LoaderCases ==
  \/ (LoadRoot \/ Include \/ Return) /\ UNCHANGED disk
  \/ FreeConfig /\ UNCHANGED disk
  \/ UNCHANGED loadVars /\ UNCHANGED disk
  \/ UNCHANGED loadVars /\ \E content \in Content : Write(content)

LEMMA LoaderSteps == ASSUME WatchType, [Next]_vars PROVE LoaderCases
<1> USE DEF LoaderCases
<1>1. CASE Edit
  <2>1. Missing \in Content /\ Empty \in Content
    <3>1. <<>> \in Seq(Files)
      BY EmptySeq
    <3>2. Missing \in Content
      BY <3>1 DEF Missing, Content
    <3> QED BY <3>2 DEF Empty, Content
  <2>2. saves \in Nat /\ (saves' = saves + 1 => saves' \in Nat)
    BY DEF WatchType
  <2>3. \A stamp \in Nat : NewContents(stamp) \subseteq Content
    <3>1. SUFFICES ASSUME NEW stamp \in Nat, NEW tree \in Trees
                   PROVE  [tree[Main] EXCEPT !.stamp = stamp] \in Content
      BY DEF NewContents
    <3>2. tree[Main] \in Content
      BY WatchAssumption, LoaderAssumption
    <3> QED BY <3>2 DEF Content
  <2> QED
    BY <1>1, <2>1, <2>2, <2>3
       DEF Edit, SaveInPlace, SaveAndRename, UnlinkToSave, CreateAgain, FinishSave, BeginSave,
           Modify, Relink, Aside
<1>2. CASE Load
  BY <1>2 DEF Load, LoadStep, Unwatched, editVars
<1>3. CASE MainStep
  BY <1>3 DEF MainStep, Stat, MainApplies, MainGoesOn, StartWatcher, ApplyLoaded, Applied,
              LoadFailed, Unwatched, editVars
<1>4. CASE WatcherStep
  BY <1>4 DEF WatcherStep, Read, Debounce, Drain, WatcherGoto, WatcherApplies, WatcherGoesOn,
              ApplyLoaded, Applied, LoadFailed, Unwatched, editVars
<1>5. CASE \E a \in Appliers : Apply(a)
  BY <1>5 DEF Apply, Unwatched, editVars
<1>6. CASE \E c \in Clients : BeginRequest(c) \/ EndRequest(c)
  BY <1>6 DEF BeginRequest, EndRequest, Unwatched, editVars
<1>7. CASE UNCHANGED vars
  BY <1>7 DEF vars, editVars
<1> QED BY <1>1, <1>2, <1>3, <1>4, <1>5, <1>6, <1>7 DEF Next

LEMMA IncludeCases ==
  ASSUME LoaderInv, Include
  PROVE  /\ lpc = "parsing" /\ HasNext /\ includes[Top] \in Files
         /\ UNCHANGED <<lpc, root>>
         /\ \/ /\ CanParse(includes[Top])
               /\ Parse(includes[Top])
               /\ stack' = Append(Advance, 1)
            \/ /\ ~CanParse(includes[Top])
               /\ stack' = Advance
               /\ UNCHANGED <<entries, includes>>
<1>1. lpc = "parsing" /\ HasNext
  BY DEF Include
<1>2. includes[Top] \in Files
  BY <1>1, TopTypes
<1> QED BY <1>1, <1>2 DEF Include

LEMMA LoaderInvKept == ASSUME LoaderInv, WatchType, [Next]_vars PROVE LoaderInv'
<1>0. /\ LoaderType
      /\ Main \in Files
  BY LoaderAssumption DEF LoaderInv
<1>1. CASE LoadRoot /\ UNCHANGED disk
  <2>1. root' \in Content
    BY <1>0, <1>1 DEF LoadRoot, LoaderType
  <2>2. CASE Parse(Main) /\ stack' = <<1>> /\ lpc' = "parsing"
    <3>1. stack' \in Seq(Nat \ {0}) /\ stack' # <<>>
      BY <2>2
    <3>2. entries' \in Seq(Entry) /\ includes' \in Seq(Files) /\ Len(includes') <= MaxIncludes
      BY <1>0, <2>2, ParseTypes
    <3> QED BY <1>0, <1>1, <2>1, <2>2, <3>1, <3>2 DEF LoaderInv, LoaderType
  <2>3. CASE lpc' = "failed" /\ UNCHANGED <<stack, entries, includes>>
    BY <1>0, <1>1, <2>1, <2>3 DEF LoaderInv, LoaderType
  <2> QED BY <1>1, <2>2, <2>3 DEF LoadRoot
<1>2. CASE Include /\ UNCHANGED disk
  <2>0. /\ lpc = "parsing"
        /\ includes[Top] \in Files
        /\ UNCHANGED <<lpc, root>>
    BY <1>2, IncludeCases
  <2>1. /\ Len(stack) \in Nat \ {0}
        /\ Advance \in Seq(Nat \ {0})
        /\ Len(Advance) = Len(stack)
    BY <2>0, TopTypes
  <2>2. CASE Parse(includes[Top]) /\ stack' = Append(Advance, 1)
    <3>1. stack' \in Seq(Nat \ {0}) /\ Len(stack') = Len(stack) + 1
      BY <2>1, <2>2, AppendProperties
    <3>2. stack' # <<>>
      BY <2>1, <3>1, EmptySeq
    <3>3. entries' \in Seq(Entry) /\ includes' \in Seq(Files) /\ Len(includes') <= MaxIncludes
      BY <1>0, <2>0, <2>2, ParseTypes
    <3> QED BY <1>0, <1>2, <2>0, <3>1, <3>2, <3>3 DEF LoaderInv, LoaderType
  <2>3. CASE stack' = Advance /\ UNCHANGED <<entries, includes>>
    <3>1. stack' \in Seq(Nat \ {0}) /\ stack' # <<>>
      BY <2>1, <2>3, EmptySeq
    <3> QED BY <1>0, <1>2, <2>0, <2>3, <3>1 DEF LoaderInv, LoaderType
  <2> QED BY <1>2, <2>2, <2>3, IncludeCases
<1>3. CASE Return /\ UNCHANGED disk
  <2>1. lpc = "parsing" /\ stack' = SubSeq(stack, 1, Len(stack) - 1)
    BY <1>3 DEF Return
  <2>2. stack \in Seq(Nat \ {0}) /\ Len(stack) \in Nat \ {0}
    BY <2>1, TopTypes DEF LoaderInv, LoaderType
  <2>3. \A i \in 1 .. Len(stack) - 1 : stack[i] \in Nat \ {0}
    BY <2>2, ElementOfSeq
  <2>4. /\ stack' \in Seq(Nat \ {0})
        /\ Len(stack') = IF 1 <= Len(stack) - 1 THEN Len(stack) - 1 - 1 + 1 ELSE 0
    BY <2>1, <2>2, <2>3, SubSeqProperties
  <2>5. ASSUME Len(stack) # 1 PROVE stack' # <<>>
    <3>1. \A n \in Nat \ {0} : n # 1 => 1 <= n - 1
      OBVIOUS
    <3>2. 1 <= Len(stack) - 1
      BY <2>2, <2>5, <3>1, Zenon
    <3>3. Len(stack') # 0
      BY <2>2, <2>4, <3>2
    <3> QED BY <3>3, EmptySeq
  <2>6. /\ lpc' = IF Len(stack) = 1 THEN "loaded" ELSE "parsing"
        /\ UNCHANGED <<entries, includes, root>>
    BY <1>3 DEF Return
  <2> QED BY <1>0, <1>3, <2>4, <2>5, <2>6 DEF LoaderInv, LoaderType
<1>4. CASE FreeConfig /\ UNCHANGED disk
  <2>1. root' \in Content
    BY <1>4 DEF FreeConfig, Missing, Content
  <2>2. entries' \in Seq(Entry) /\ includes' \in Seq(Files) /\ Len(includes') <= MaxIncludes
    BY <1>4, EmptySeq, LoaderAssumption DEF FreeConfig
  <2> QED BY <1>0, <1>4, <2>1, <2>2 DEF FreeConfig, LoaderInv, LoaderType
<1>5. CASE UNCHANGED loadVars /\ UNCHANGED disk
  BY <1>5 DEF LoaderInv, LoaderType, loadVars
<1>6. CASE UNCHANGED loadVars /\ \E content \in Content : Write(content)
  BY <1>0, <1>6 DEF LoaderInv, LoaderType, loadVars, Write
<1> QED BY <1>1, <1>2, <1>3, <1>4, <1>5, <1>6, LoaderSteps DEF LoaderCases

LEMMA WatchTypeKept == ASSUME LoaderInv, WatchType, [Next]_vars PROVE WatchType'
<1>1. CASE Edit
  <2>1. /\ saves + applies < MaxOps /\ saves \in Nat /\ applies \in Nat =>
             saves + 1 \in Nat /\ saves + 1 + applies <= MaxOps
        /\ inode \in Nat => inode + 1 \in Nat
    BY WatchAssumption
  <2>2. SaveInPlace => WatchType'
    BY <2>1 DEF SaveInPlace, BeginSave, Modify, Aside, Watched, WatchType
  <2>3. SaveAndRename => WatchType'
    BY <2>1 DEF SaveAndRename, BeginSave, Relink, Aside, Watched, WatchType
  <2>4. UnlinkToSave => WatchType'
    BY <2>1 DEF UnlinkToSave, BeginSave, Relink, Aside, Watched, WatchType
  <2>5. CreateAgain => WatchType'
    BY DEF CreateAgain, Modify, Aside, Watched, WatchType
  <2>6. FinishSave => WatchType'
    BY DEF FinishSave, Modify, Aside, Watched, WatchType
  <2> QED BY <1>1, <2>2, <2>3, <2>4, <2>5, <2>6 DEF Edit
<1>2. CASE Load
  <2>1. disk[Main] \in Content
    BY LoaderAssumption DEF LoaderInv, LoaderType
  <2> QED BY <1>2, <2>1 DEF Load, Unwatched, editVars, watchVars, WatchType
<1>3. CASE MainStep
  BY <1>3 DEF MainStep, Stat, MainApplies, MainGoesOn, StartWatcher, ApplyLoaded, Applied,
              LoadFailed, Unwatched, editVars, watchVars, WatchType
<1>4. CASE WatcherStep
  BY <1>4 DEF WatcherStep, Read, Debounce, Drain, WatcherGoto, WatcherApplies, WatcherGoesOn,
              ApplyLoaded, Applied, LoadFailed, Unwatched, editVars, watchVars, WatchType
<1>5. CASE \E a \in Appliers : Apply(a)
  BY <1>5 DEF Apply, Unwatched, editVars, watchVars, WatchType
<1>6. CASE \E c \in Clients : BeginRequest(c)
  <2>1. saves + applies < MaxOps /\ applies' = applies + 1
    BY <1>6 DEF BeginRequest
  <2>2. applies' \in Nat /\ saves + applies' <= MaxOps
    BY <2>1, WatchAssumption DEF WatchType
  <2> QED BY <1>6, <2>2 DEF BeginRequest, editVars, watchVars, WatchType
<1>7. CASE \E c \in Clients : EndRequest(c)
  BY <1>7 DEF EndRequest, Unwatched, editVars, watchVars, WatchType
<1>8. CASE UNCHANGED vars
  BY <1>8 DEF vars, editVars, watchVars, WatchType
<1> QED BY <1>1, <1>2, <1>3, <1>4, <1>5, <1>6, <1>7, <1>8 DEF Next

LEMMA RootFirstKept ==
  ASSUME LoaderInv, WatchType, RootFirst, [Next]_vars
  PROVE  RootFirst'
<1>0. /\ LoaderType
      /\ Main \in Files
      /\ entries \in Seq(Entry) /\ Len(entries) \in Nat
      /\ Len(entries) = 0 <=> entries = <<>>
  BY LoaderAssumption, EmptySeq, LenProperties DEF LoaderInv, LoaderType
<1>1. CASE LoadRoot /\ UNCHANGED disk
  <2>1. lpc = "idle" /\ entries = <<>> /\ root' = disk[Main]
    BY <1>1 DEF LoadRoot, RootFirst
  <2>2. CASE Parse(Main) /\ lpc' = "parsing"
    <3>1. /\ entries' \in Seq(Entry)
          /\ Len(entries') = Len(entries) + 1
          /\ entries'[Len(entries')] = EntryOf(Main)
      BY <1>0, <2>2, ParseTypes
    <3>2. Len(entries') = 1
      BY <1>0, <2>1, <3>1
    <3>3. entries' # <<>>
      BY <3>2, EmptySeq
    <3>4. entries'[1] = EntryOf(Main)
      BY <3>1, <3>2
    <3> QED BY <2>1, <2>2, <3>3, <3>4 DEF RootFirst, EntryOf
  <2>3. CASE lpc' = "failed"
    BY <2>3 DEF RootFirst
  <2> QED BY <1>1, <2>2, <2>3 DEF LoadRoot
<1>2. CASE Include /\ UNCHANGED disk
  <2>0. /\ lpc = "parsing" /\ includes[Top] \in Files
        /\ UNCHANGED <<lpc, root>>
    BY <1>2, IncludeCases
  <2>1. entries # <<>> /\ Len(entries) >= 1
    BY <1>0, <2>0 DEF RootFirst
  <2>2. CASE Parse(includes[Top])
    <3>1. /\ entries' \in Seq(Entry)
          /\ Len(entries') = Len(entries) + 1
          /\ \A i \in 1 .. Len(entries) : entries'[i] = entries[i]
      BY <1>0, <2>0, <2>2, ParseTypes
    <3>2. Len(entries') # 0 /\ entries'[1] = entries[1]
      BY <1>0, <2>1, <3>1
    <3>3. entries' # <<>>
      BY <3>1, <3>2, EmptySeq
    <3> QED BY <2>0, <3>2, <3>3 DEF RootFirst
  <2>3. CASE UNCHANGED entries
    BY <2>0, <2>3 DEF RootFirst
  <2> QED BY <1>2, <2>2, <2>3, IncludeCases
<1>3. CASE Return /\ UNCHANGED disk
  BY <1>3 DEF Return, RootFirst
<1>4. CASE FreeConfig /\ UNCHANGED disk
  BY <1>4 DEF FreeConfig, RootFirst
<1>5. CASE UNCHANGED loadVars
  BY <1>5 DEF RootFirst, loadVars
<1> QED BY <1>1, <1>2, <1>3, <1>4, <1>5, LoaderSteps DEF LoaderCases

LEMMA LoaderInitially == Init => LoaderInv /\ WatchType /\ RootFirst
<1> SUFFICES ASSUME Init PROVE LoaderInv /\ WatchType /\ RootFirst
  OBVIOUS
<1>1. disk \in [Files -> Content] /\ disk[Main] \in Content
  BY WatchAssumption, LoaderAssumption DEF Init
<1>2. /\ <<>> \in Seq(Nat \ {0}) /\ <<>> \in Seq(Entry) /\ <<>> \in Seq(Files)
      /\ Len(<<>>) = 0
  BY EmptySeq
<1>3. root \in Content
  BY <1>2 DEF Init, LoaderInit, Missing, Content
<1>4. LoaderInv
  BY <1>1, <1>2, <1>3, LoaderAssumption DEF Init, LoaderInit, LoaderInv, LoaderType
<1>5. WatchType
  <2>1. saves \in Nat /\ applies \in Nat /\ saves + applies <= MaxOps
    BY WatchAssumption DEF Init
  <2> QED BY <1>1, <2>1 DEF Init, WatchType
<1>6. RootFirst
  BY DEF Init, LoaderInit, RootFirst
<1> QED BY <1>4, <1>5, <1>6

\* "main file overrides" (config.h, line 7): whatever the files include, each other and
\* Main too, and whatever happens to them during the load, the lookup of a key that Main
\* defines finds the value of the version of Main that was opened first (kv_get, lines
\* 112-120).
THEOREM MainAlwaysOverrides == Spec => []MainOverrides
<1> DEFINE Inv == LoaderInv /\ WatchType /\ RootFirst
<1>1. Init => Inv
  BY LoaderInitially
<1>2. Inv /\ [Next]_vars => Inv'
  BY LoaderInvKept, WatchTypeKept, RootFirstKept
<1>3. Inv => MainOverrides
  <2>1. SUFFICES ASSUME Inv, lpc = "loaded", NEW k \in root.keys
                 PROVE  ToConfig[k] = [file |-> Main, stamp |-> root.stamp]
    BY DEF MainOverrides
  <2>2. entries \in Seq(Entry) /\ DOMAIN entries = 1 .. Len(entries) /\ Len(entries) \in Nat
    BY <2>1, LenProperties DEF LoaderInv, LoaderType
  <2>3. entries # <<>> /\ entries[1] = [file |-> Main, keys |-> root.keys, stamp |-> root.stamp]
    BY <2>1 DEF RootFirst
  <2>4. 1 \in Defining(k)
    BY <2>1, <2>2, <2>3, EmptySeq DEF Defining
  <2>5. Defining(k) \subseteq Nat \ {0}
    BY <2>2 DEF Defining
  <2>6. (CHOOSE i \in Defining(k) : \A j \in Defining(k) : i <= j) = 1
    BY <2>4, <2>5
  <2>7. k \in Keys
    BY <2>1 DEF LoaderInv, LoaderType, Content
  <2>8. ToConfig[k] = KvGet(k)
    BY <2>4, <2>7 DEF ToConfig
  <2>9. KvGet(k) = [file |-> entries[1].file, stamp |-> entries[1].stamp]
    BY <2>6, Zenon DEF KvGet
  <2> QED BY <2>3, <2>8, <2>9
<1> QED BY <1>1, <1>2, <1>3, PTL DEF Spec

-----------------------------------------------------------------------------
(* What is included is loaded *)

Visited(f) == (f # Main /\ disk[f].exists) => \E j \in DOMAIN entries : entries[j].file = f

Listed(f) == \E n \in DOMAIN includes : includes[n] = f

AllListed(f) ==
  f # Main => \A i \in DOMAIN disk[f].includes :
                Listed(disk[f].includes[i]) \/ Len(includes) = MaxIncludes

\* The outermost call leaves no include behind, since it is never too deep.
ListInv ==
  /\ lpc = "parsing" =>
       /\ stack[1] <= Len(includes) + 1
       /\ \A i \in DOMAIN includes : i < stack[1] => Visited(includes[i])
  /\ lpc = "loaded" => \A i \in DOMAIN includes : Visited(includes[i])
  /\ \A j \in DOMAIN entries : AllListed(entries[j].file)

LEMMA ParseLists ==
  ASSUME LoaderType, NEW f \in Files, Parse(f), UNCHANGED disk
  PROVE  /\ \A g \in Files : AllListed(g) => AllListed(g)'
         /\ AllListed(f)'
         /\ \A g \in Files : Visited(g) => Visited(g)'
         /\ Visited(f)'
<1>1. /\ entries' \in Seq(Entry)
      /\ Len(entries') = Len(entries) + 1
      /\ \A i \in 1 .. Len(entries) : entries'[i] = entries[i]
      /\ entries'[Len(entries')] = EntryOf(f)
      /\ includes' \in Seq(Files)
      /\ Len(includes') <= MaxIncludes
      /\ Len(includes') >= Len(includes)
      /\ \A i \in 1 .. Len(includes) : includes'[i] = includes[i]
  BY ParseTypes
<1>2. /\ Len(includes) \in Nat /\ DOMAIN includes = 1 .. Len(includes)
      /\ Len(includes') \in Nat /\ DOMAIN includes' = 1 .. Len(includes')
      /\ Len(entries) \in Nat /\ DOMAIN entries = 1 .. Len(entries)
      /\ Len(entries') \in Nat /\ DOMAIN entries' = 1 .. Len(entries')
  BY <1>1, LenProperties DEF LoaderType
<1>3. \A g : Listed(g) => Listed(g)'
  BY <1>1, <1>2 DEF Listed
<1>4. Len(includes) = MaxIncludes => Len(includes') = MaxIncludes
  <2>1. \A m, n \in Nat : m <= n /\ m >= n => m = n
    OBVIOUS
  <2>2. MaxIncludes \in Nat /\ Len(includes') <= MaxIncludes /\ Len(includes') >= Len(includes)
    BY <1>1, LoaderAssumption
  <2> QED BY <1>2, <2>1, <2>2
<1>5. \A g \in Files : AllListed(g) => AllListed(g)'
  BY <1>3, <1>4 DEF AllListed
<1>6. \A g \in Files : Visited(g) => Visited(g)'
  BY <1>1, <1>2 DEF Visited
<1>7. Visited(f)'
  <2>1. entries'[Len(entries')].file = f /\ Len(entries') \in DOMAIN entries'
    BY <1>1, <1>2 DEF EntryOf
  <2> QED BY <2>1 DEF Visited
<1>8. AllListed(f)'
  <2> DEFINE more == disk[f].includes
  <2>1. /\ more \in Seq(Files) /\ Len(more) \in Nat /\ DOMAIN more = 1 .. Len(more)
        /\ includes \in Seq(Files)
    BY LenProperties DEF LoaderType, Content
  <2>2. CASE includes' = includes \o more
    <3>1. /\ Len(includes') = Len(includes) + Len(more)
          /\ \A i \in 1 .. Len(includes) + Len(more) :
               includes'[i] = IF i <= Len(includes) THEN includes[i]
                              ELSE more[i - Len(includes)]
      BY <2>1, <2>2, ConcatProperties
    <3>2. ASSUME NEW i \in DOMAIN more PROVE Listed(more[i])'
      <4>1. /\ Len(includes) + i \in DOMAIN includes'
            /\ includes'[Len(includes) + i] = more[i]
        BY <1>2, <2>1, <3>1
      <4> QED BY <4>1 DEF Listed
    <3> QED BY <3>2 DEF AllListed
  <2>3. CASE includes' # includes \o more
    <3>1. /\ includes' = SubSeq(includes \o more, 1, MaxIncludes)
          /\ ~(Len(includes \o more) <= MaxIncludes)
      BY <2>3 DEF Parse, AddIncludes
    <3>2. /\ includes \o more \in Seq(Files)
          /\ Len(includes \o more) \in Nat
          /\ MaxIncludes \in Nat
      BY <2>1, ConcatProperties, LenProperties, LoaderAssumption
    <3>3. \A i \in 1 .. MaxIncludes : (includes \o more)[i] \in Files
      BY <3>1, <3>2, ElementOfSeq
    <3>4. Len(includes') = IF 1 <= MaxIncludes THEN MaxIncludes - 1 + 1 ELSE 0
      BY <3>1, <3>2, <3>3, SubSeqProperties
    <3>5. Len(includes') = MaxIncludes
      BY <3>2, <3>4
    <3> QED BY <3>5 DEF AllListed
  <2> QED BY <2>2, <2>3
<1> QED BY <1>5, <1>6, <1>7, <1>8

\* What is read, and what it names, depends on the three variables only.
LEMMA SameLists ==
  ASSUME UNCHANGED <<entries, includes, disk>>
  PROVE  /\ \A g : Visited(g)' <=> Visited(g)
         /\ \A g : AllListed(g)' <=> AllListed(g)
<1>1. \A g : Visited(g)' <=> Visited(g)
  BY DEF Visited
<1>2. \A g : Listed(g)' <=> Listed(g)
  BY DEF Listed
<1>3. \A g : AllListed(g)' <=> AllListed(g)
  BY <1>2 DEF AllListed
<1> QED BY <1>1, <1>3

LEMMA ListInvKept ==
  ASSUME LoaderInv, WatchType, ListInv, [Next]_vars
  PROVE  ListInv'
<1>0. /\ LoaderType
      /\ Main \in Files
      /\ entries \in Seq(Entry) /\ DOMAIN entries = 1 .. Len(entries) /\ Len(entries) \in Nat
      /\ includes \in Seq(Files) /\ DOMAIN includes = 1 .. Len(includes)
      /\ Len(includes) \in Nat
      /\ \A i \in DOMAIN includes : includes[i] \in Files
      /\ \A j \in DOMAIN entries : entries[j].file \in Files
  <2>1. LoaderType /\ entries \in Seq(Entry) /\ includes \in Seq(Files)
    BY DEF LoaderInv, LoaderType
  <2>2. /\ DOMAIN entries = 1 .. Len(entries) /\ Len(entries) \in Nat
        /\ DOMAIN includes = 1 .. Len(includes) /\ Len(includes) \in Nat
    BY <2>1, LenProperties
  <2>3. \A j \in DOMAIN entries : entries[j] \in Entry
    BY <2>1, <2>2, ElementOfSeq
  <2>4. \A i \in DOMAIN includes : includes[i] \in Files
    BY <2>1, <2>2, ElementOfSeq
  <2> QED BY <2>1, <2>2, <2>3, <2>4, LoaderAssumption DEF Entry
<1>1. ASSUME NEW f \in Files, Parse(f), UNCHANGED disk
      PROVE  /\ \A j \in DOMAIN entries' : AllListed(entries[j].file)'
             /\ DOMAIN includes \subseteq DOMAIN includes'
             /\ Len(includes') \in Nat /\ Len(includes') >= Len(includes)
             /\ DOMAIN includes' = 1 .. Len(includes')
             /\ \A i \in DOMAIN includes : includes'[i] = includes[i]
  <2>1. /\ entries' \in Seq(Entry)
        /\ Len(entries') = Len(entries) + 1
        /\ \A j \in 1 .. Len(entries) : entries'[j] = entries[j]
        /\ entries'[Len(entries')] = EntryOf(f)
        /\ includes' \in Seq(Files)
        /\ Len(includes') >= Len(includes)
        /\ \A i \in 1 .. Len(includes) : includes'[i] = includes[i]
    BY <1>0, <1>1, ParseTypes
  <2>2. /\ DOMAIN entries' = 1 .. Len(entries) + 1
        /\ Len(includes') \in Nat /\ DOMAIN includes' = 1 .. Len(includes')
    BY <2>1, LenProperties
  <2>3. ASSUME NEW j \in DOMAIN entries' PROVE AllListed(entries[j].file)'
    <3>1. CASE j \in DOMAIN entries
      <4>1. AllListed(entries[j].file) /\ entries[j].file \in Files
        BY <1>0, <3>1 DEF ListInv
      <4>2. entries'[j].file = entries[j].file
        BY <1>0, <2>1, <3>1
      <4> QED BY <1>0, <1>1, <4>1, <4>2, ParseLists
    <3>2. CASE j \notin DOMAIN entries
      <4>1. j = Len(entries')
        BY <1>0, <2>1, <2>2, <3>2
      <4>2. entries'[j].file = f
        BY <2>1, <4>1 DEF EntryOf
      <4> QED BY <1>0, <1>1, <4>2, ParseLists
    <3> QED BY <3>1, <3>2
  <2> QED BY <1>0, <2>1, <2>2, <2>3
<1>2. CASE LoadRoot /\ UNCHANGED disk
  <2>1. CASE Parse(Main) /\ stack' = <<1>> /\ lpc' = "parsing"
    <3>1. stack'[1] = 1
      BY <2>1
    <3> QED BY <1>0, <1>1, <1>2, <2>1, <3>1 DEF ListInv
  <2>2. CASE lpc' = "failed" /\ UNCHANGED <<stack, entries, includes>>
    BY <1>2, <2>2 DEF ListInv, AllListed, Listed
  <2> QED BY <1>2, <2>1, <2>2 DEF LoadRoot
<1>3. CASE Include /\ UNCHANGED disk
  <2> DEFINE f == includes[Top]
  <2>0. /\ lpc = "parsing" /\ HasNext /\ f \in Files
        /\ UNCHANGED <<lpc, root>>
    BY <1>3, IncludeCases
  <2>1. /\ Len(stack) \in Nat \ {0}
        /\ Top \in Nat \ {0}
        /\ Advance \in Seq(Nat \ {0})
        /\ Len(Advance) = Len(stack)
        /\ \A i \in 1 .. Len(stack) : Advance[i] = IF i = Len(stack) THEN Top + 1 ELSE stack[i]
    BY <2>0, TopTypes
  <2>2. stack[1] \in Nat \ {0} /\ stack[1] <= Len(includes) + 1
    <3>1. stack \in Seq(Nat \ {0}) /\ 1 \in 1 .. Len(stack)
      BY <2>1 DEF LoaderInv, LoaderType
    <3> QED BY <2>0, <3>1, ElementOfSeq DEF ListInv
  <2>3. Top \in DOMAIN includes
    BY <1>0, <2>0, <2>1 DEF HasNext
  <2>4. /\ Len(stack) = 1 => Advance[1] = Top + 1 /\ Top = stack[1]
        /\ Len(stack) # 1 => Advance[1] = stack[1]
    BY <2>1 DEF Top
  <2>5. Advance[1] <= Len(includes) + 1
    BY <1>0, <2>1, <2>2, <2>3, <2>4
  <2>6. \A i \in DOMAIN includes : i < Advance[1] => Visited(includes[i]) \/ (Len(stack) = 1 /\ i = Top)
    <3>1. \A i \in DOMAIN includes : i < stack[1] => Visited(includes[i])
      BY <2>0 DEF ListInv
    <3> QED BY <1>0, <2>1, <2>2, <2>4, <3>1
  <2>7. CASE CanParse(f) /\ Parse(f) /\ stack' = Append(Advance, 1)
    <3>1. stack'[1] = Advance[1]
      BY <2>1, <2>7, AppendProperties
    <3>2. stack'[1] <= Len(includes') + 1
      BY <1>0, <1>1, <1>3, <2>0, <2>1, <2>2, <2>4, <2>5, <2>7, <3>1
    <3>3. ASSUME NEW i \in DOMAIN includes', i < stack'[1] PROVE Visited(includes[i])'
      <4>1. i \in DOMAIN includes
        BY <1>0, <1>1, <1>3, <2>0, <2>1, <2>2, <2>4, <2>5, <2>7, <3>1, <3>3
      <4>2. includes'[i] = includes[i] /\ includes[i] \in Files
        BY <1>0, <1>1, <1>3, <2>0, <2>7, <4>1
      <4>3. Visited(includes[i]) \/ includes[i] = f
        BY <2>6, <3>1, <3>3, <4>1
      <4> QED BY <1>0, <1>3, <2>0, <2>7, <4>2, <4>3, ParseLists
    <3> QED BY <1>0, <1>1, <1>3, <2>0, <2>7, <3>2, <3>3 DEF ListInv
  <2>8. CASE ~CanParse(f) /\ stack' = Advance /\ UNCHANGED <<entries, includes>>
    <3>1. Len(stack) = 1 => ~disk[f].exists
      BY <2>8, LoaderAssumption DEF CanParse
    <3>2. \A i \in DOMAIN includes : i < stack'[1] => Visited(includes[i])
      BY <2>6, <2>8, <3>1 DEF Visited
    <3>3. \A i \in DOMAIN includes : i < stack'[1] => Visited(includes[i])'
      BY <1>3, <2>8, <3>2, SameLists
    <3>4. \A j \in DOMAIN entries : AllListed(entries[j].file)'
      BY <1>3, <2>8, SameLists DEF ListInv
    <3> QED BY <2>0, <2>5, <2>8, <3>3, <3>4 DEF ListInv
  <2> QED BY <1>3, <2>7, <2>8, IncludeCases
<1>4. CASE Return /\ UNCHANGED disk
  <2>1. /\ lpc = "parsing" /\ ~HasNext /\ UNCHANGED <<entries, includes>>
        /\ stack' = SubSeq(stack, 1, Len(stack) - 1)
        /\ lpc' = IF Len(stack) = 1 THEN "loaded" ELSE "parsing"
    BY <1>4 DEF Return
  <2>0. /\ \A g : Visited(g)' <=> Visited(g)
        /\ \A j \in DOMAIN entries : AllListed(entries[j].file)'
    BY <1>4, <2>1, SameLists DEF ListInv
  <2>2. stack \in Seq(Nat \ {0}) /\ Len(stack) \in Nat \ {0} /\ Top \in Nat \ {0}
    BY <2>1, TopTypes DEF LoaderInv, LoaderType
  <2>3. CASE Len(stack) = 1
    <3>1. Len(includes) < stack[1]
      BY <1>0, <2>1, <2>2, <2>3 DEF HasNext, Top
    <3>2. stack[1] \in Nat
      BY <2>2, <2>3, ElementOfSeq
    <3>3. \A i \in DOMAIN includes : i < stack[1] => Visited(includes[i])
      BY <2>1 DEF ListInv
    <3>4. \A i \in 1 .. Len(includes) : i < stack[1]
      BY <1>0, <3>1, <3>2
    <3>5. \A i \in DOMAIN includes : Visited(includes[i])'
      BY <1>0, <2>0, <2>1, <3>3, <3>4
    <3> QED BY <2>0, <2>1, <2>3, <3>5 DEF ListInv
  <2>4. CASE Len(stack) # 1
    <3>1. \A n \in Nat \ {0} : n # 1 => 1 \in 1 .. n - 1 - 1 + 1
      OBVIOUS
    <3>2. 1 \in 1 .. Len(stack) - 1 - 1 + 1
      BY <2>2, <2>4, <3>1, Zenon
    <3>3. \A i \in 1 .. Len(stack) - 1 : stack[i] \in Nat \ {0}
      BY <2>2, ElementOfSeq
    <3>4. stack'[1] = stack[1 + 1 - 1]
      BY <2>1, <2>2, <3>2, <3>3, SubSeqProperties
    <3>5. stack'[1] = stack[1]
      BY <3>4
    <3>6. \A i \in DOMAIN includes : i < stack'[1] => Visited(includes[i])'
      BY <2>0, <2>1, <3>5 DEF ListInv
    <3>7. stack'[1] <= Len(includes') + 1
      BY <2>1, <3>5 DEF ListInv
    <3> QED BY <2>0, <2>1, <2>4, <3>6, <3>7 DEF ListInv
  <2> QED BY <2>3, <2>4
<1>5. CASE FreeConfig /\ UNCHANGED disk
  BY <1>5 DEF FreeConfig, ListInv
<1>6. CASE UNCHANGED loadVars /\ UNCHANGED disk
  BY <1>6 DEF loadVars, ListInv, Visited, AllListed, Listed
<1>7. CASE UNCHANGED loadVars /\ \E content \in Content : Write(content)
  <2>1. \A g \in Files : g # Main => disk'[g] = disk[g]
    BY <1>0, <1>7 DEF Write, LoaderType
  <2>2. \A g \in Files : /\ Visited(g) => Visited(g)'
                         /\ AllListed(g) => AllListed(g)'
    BY <1>7, <2>1 DEF loadVars, Visited, AllListed, Listed
  <2> QED BY <1>0, <1>7, <2>2 DEF loadVars, ListInv
<1> QED BY <1>2, <1>3, <1>4, <1>5, <1>6, <1>7, LoaderSteps DEF LoaderCases

\* Every file that the parsed files name is parsed as well when the load ends, if it is
\* there and the list was not full, though a call at the depth limit ignores it and the
\* list grows under the loops that go over it (parse_toml_file, lines 241-246): the loop of
\* the first call is never too deep and sees the whole list.
THEOREM NothingEverLost == Spec => []NothingIncludedIsLost
<1> DEFINE Inv == LoaderInv /\ WatchType /\ ListInv
<1>1. Init => Inv
  BY LoaderInitially DEF Init, LoaderInit, ListInv
<1>2. Inv /\ [Next]_vars => Inv'
  BY LoaderInvKept, WatchTypeKept, ListInvKept
<1>3. Inv => NothingIncludedIsLost
  BY DEF ListInv, Visited, AllListed, Listed, NothingIncludedIsLost
<1> QED BY <1>1, <1>2, <1>3, PTL DEF Spec

-----------------------------------------------------------------------------
(* The application *)

\* What the cases of Next come to for the application: one thread begins, takes a step or
\* ends, or nothing happens.
ApplyCases ==
  \/ \E a \in Appliers : ApplyStep(a) \/ EndApply(a)
  \/ \E a \in Appliers : \E c : IsConfig(c) /\ BeginApply(a, c)
  \/ UNCHANGED applyVars

\* The lookup gives a value to every key that is defined.
LEMMA ToConfigType == ASSUME LoaderInv PROVE IsConfig(ToConfig)
<1> DEFINE D == {k \in Keys : Defining(k) # {}}
<1>1. entries \in Seq(Entry) /\ DOMAIN entries = 1 .. Len(entries) /\ Len(entries) \in Nat
  BY LenProperties DEF LoaderInv, LoaderType
<1>2. ASSUME NEW k \in D PROVE KvGet(k) \in Value
  <2> DEFINE i == CHOOSE i \in Defining(k) : \A j \in Defining(k) : i <= j
  <2>1. Defining(k) \in SUBSET Nat /\ Defining(k) # {}
    BY <1>1 DEF Defining
  <2>2. \E x \in Defining(k) : \A y \in Defining(k) : x <= y
    BY <2>1, SmallestNumber
  <2>3. i \in Defining(k)
    BY <2>2, Zenon
  <2> HIDE DEF i
  <2>4. i \in 1 .. Len(entries)
    BY <1>1, <2>3 DEF Defining
  <2>5. entries[i] \in Entry
    BY <1>1, <2>4, ElementOfSeq
  <2>6. [file |-> entries[i].file, stamp |-> entries[i].stamp] \in Value
    BY <2>5 DEF Entry, Value
  <2>7. KvGet(k) = [file |-> entries[i].file, stamp |-> entries[i].stamp]
    BY Zenon DEF KvGet, i
  <2> QED BY <2>6, <2>7
<1>3. ToConfig = [k \in D |-> KvGet(k)]
  BY DEF ToConfig
<1>4. ToConfig \in [D -> Value]
  BY <1>2, <1>3
<1>5. D \in SUBSET Keys
  OBVIOUS
<1> QED BY <1>4, <1>5 DEF IsConfig

LEMMA RequestType ==
  ASSUME NEW D \in Payloads, NEW n \in Nat
  PROVE  IsConfig([k \in D |-> [file |-> "request", stamp |-> n]])
<1>1. [file |-> "request", stamp |-> n] \in Value
  BY DEF Value
<1>2. [k \in D |-> [file |-> "request", stamp |-> n]] \in [D -> Value]
  BY <1>1
<1>3. D \in SUBSET Keys
  BY WatchAssumption
<1> QED BY <1>2, <1>3 DEF IsConfig

LEMMA ApplySteps == ASSUME LoaderInv, WatchType, [Next]_vars PROVE ApplyCases
<1> USE DEF ApplyCases
<1>0. {"main", "watcher"} \subseteq Appliers /\ Clients \subseteq Appliers
  BY WatchAssumption
<1>1. CASE Edit
  BY <1>1 DEF Edit, SaveInPlace, SaveAndRename, UnlinkToSave, CreateAgain, FinishSave,
              BeginSave, Aside
<1>2. CASE Load
  BY <1>2 DEF Load
<1>3. CASE MainStep
  BY <1>0, <1>3, ToConfigType
     DEF MainStep, Stat, MainApplies, MainGoesOn, StartWatcher, ApplyLoaded, Applied, LoadFailed
<1>4. CASE WatcherStep
  BY <1>0, <1>4, ToConfigType
     DEF WatcherStep, Read, Debounce, Drain, WatcherGoto, WatcherApplies, WatcherGoesOn,
         ApplyLoaded, Applied, LoadFailed
<1>5. CASE \E a \in Appliers : Apply(a)
  BY <1>5 DEF Apply
<1>6. ASSUME NEW c \in Clients, BeginRequest(c) PROVE ApplyCases
  <2>1. applies \in Nat
    BY DEF WatchType
  <2>2. PICK D \in Payloads : BeginApply(c, [k \in D |-> [file |-> "request", stamp |-> applies]])
    BY <1>6 DEF BeginRequest
  <2> QED BY <1>0, <2>1, <2>2, RequestType
<1>7. CASE \E c \in Clients : EndRequest(c)
  BY <1>0, <1>7 DEF EndRequest
<1>8. CASE UNCHANGED vars
  BY <1>8 DEF vars
<1> QED BY <1>1, <1>2, <1>3, <1>4, <1>5, <1>6, <1>7, <1>8 DEF Next

\* A file that differs from what the compositor has read is being written by a thread that
\* has the reload before it.
SettledInv ==
  /\ apc \in [Appliers -> ApplyPcs]
  /\ (\A a \in Appliers : apc[a] \notin {"write", "lua_open", "lua_write", "reload"}) =>
       compositor = [conf |-> conf, lua |-> lua]

LEMMA SettledInvKept ==
  ASSUME LoaderInv, WatchType, SettledInv, [Next]_vars
  PROVE  SettledInv'
<1>1. ASSUME NEW a \in Appliers, ApplyStep(a) PROVE SettledInv'
  <2>1. CASE OpenConf(a)
    BY <2>1 DEF OpenConf, ApplyGoto, SettledInv, ApplyPcs
  <2>2. CASE WriteConf(a)
    BY <2>2 DEF WriteConf, ApplyGoto, SettledInv, ApplyPcs
  <2>3. CASE OpenLua(a)
    BY <2>3 DEF OpenLua, AfterLuaFails, ApplyGoto, SettledInv, ApplyPcs
  <2>4. CASE WriteLua(a)
    BY <2>4 DEF WriteLua, ApplyGoto, SettledInv, ApplyPcs
  <2>5. CASE ReloadConfig(a)
    BY <2>5 DEF ReloadConfig, ApplyGoto, SettledInv, ApplyPcs
  <2> QED BY <1>1, <2>1, <2>2, <2>3, <2>4, <2>5 DEF ApplyStep
<1>2. ASSUME NEW a \in Appliers, EndApply(a) PROVE SettledInv'
  BY <1>2 DEF EndApply, SettledInv, ApplyPcs
<1>3. ASSUME NEW a \in Appliers, NEW c, BeginApply(a, c) PROVE SettledInv'
  BY <1>3 DEF BeginApply, ApplyGoto, SettledInv, ApplyPcs
<1>4. CASE UNCHANGED applyVars
  BY <1>4 DEF applyVars, SettledInv
<1> QED BY <1>1, <1>2, <1>3, <1>4, ApplySteps DEF ApplyCases

\* When nobody is applying, the compositor has read what its files hold, however many
\* threads have written them, in whatever order, and whichever failed to open.
THEOREM AlwaysSettledOnDisk == Spec => []SettledOnDisk
<1> DEFINE Inv == LoaderInv /\ WatchType /\ SettledInv
<1>1. Init => SettledInv
  BY DEF Init, ApplyInit, SettledInv, ApplyPcs
<1>2. Init => Inv
  BY <1>1, LoaderInitially
<1>3. Inv /\ [Next]_vars => Inv'
  BY LoaderInvKept, WatchTypeKept, SettledInvKept
<1>4. Inv => SettledOnDisk
  BY DEF SettledInv, SettledOnDisk, Applying
<1> QED BY <1>2, <1>3, <1>4, PTL DEF Spec

-----------------------------------------------------------------------------
(* Type correctness *)

IsBlock(b) == IsConfig(b) \/ b = Hole

LEMMA TextDomain ==
  ASSUME NEW file, IsText(file)
  PROVE  /\ Len(file) \in Nat
         /\ DOMAIN file = 1 .. Len(file)
         /\ \A i \in 1 .. Len(file) : IsBlock(file[i])
<1>1. Len(file) \in Nat /\ DOMAIN file = 1 .. Len(file)
  BY LenProperties DEF IsText
<1> QED BY <1>1 DEF IsText, IsBlock

LEMMA EmptyText == IsText(<<>>)
<1>1. /\ <<>> \in Seq({(<<>>)[i] : i \in DOMAIN <<>>})
      /\ DOMAIN <<>> = {}
  BY EmptySeq
<1> QED BY <1>1 DEF IsText

\* A block that is put into a text, at its end or behind it, leaves a text.
LEMMA PutBlockText ==
  ASSUME NEW file, IsText(file), NEW at \in Nat \ {0}, NEW block, IsConfig(block)
  PROVE  IsText(PutBlock(file, at, block))
<1> DEFINE n == IF Len(file) < at THEN at ELSE Len(file)
           e(i) == IF i = at THEN block ELSE IF i <= Len(file) THEN file[i] ELSE Hole
           new == PutBlock(file, at, block)
<1>1. Len(file) \in Nat /\ \A i \in 1 .. Len(file) : IsBlock(file[i])
  BY TextDomain
<1>2. n \in Nat
  BY <1>1
<1>3. new = [i \in 1 .. n |-> e(i)]
  BY DEF PutBlock
<1>4. DOMAIN new = 1 .. n /\ \A i \in 1 .. n : new[i] = e(i)
  BY <1>3
<1>5. \A i \in 1 .. n : IsBlock(e(i))
  BY <1>1 DEF IsBlock
<1> HIDE DEF e, n, new
<1>6. new \in [1 .. n -> {new[i] : i \in DOMAIN new}]
  BY <1>3, <1>4
<1>7. new \in Seq({new[i] : i \in DOMAIN new})
  BY <1>2, <1>6, SeqDef
<1>8. IsText(new)
  BY <1>4, <1>5, <1>7 DEF IsText, IsBlock
<1> QED BY <1>8 DEF new

LEMMA NoConfigType == IsConfig(NoConfig)
<1>1. NoConfig \in [{} -> Value]
  BY DEF NoConfig
<1>2. {} \in SUBSET Keys
  OBVIOUS
<1> QED BY <1>1, <1>2 DEF IsConfig

LEMMA ApplyTypeInitially == Init => ApplyType
<1> SUFFICES ASSUME Init PROVE ApplyType
  OBVIOUS
<1>1. IsText(conf) /\ IsText(lua) /\ IsText(compositor.conf) /\ IsText(compositor.lua)
  BY EmptyText DEF Init, ApplyInit
<1>2. /\ DOMAIN acfg = Appliers
      /\ \A a \in Appliers : acfg[a] = NoConfig
      /\ last = NoConfig
  BY DEF Init, ApplyInit
<1>3. (\A a \in Appliers : IsConfig(acfg[a])) /\ IsConfig(last)
  BY <1>2, NoConfigType
<1>4. apos \in [Appliers -> Nat \ {0}] /\ apc \in [Appliers -> ApplyPcs] /\ clean \in BOOLEAN
  BY DEF Init, ApplyInit, ApplyPcs
<1> QED BY <1>1, <1>2, <1>3, <1>4 DEF ApplyType

LEMMA ApplyTypeKept ==
  ASSUME LoaderInv, WatchType, ApplyType, [Next]_vars
  PROVE  ApplyType'
<1>0. \A n \in Nat \ {0} : n + 1 \in Nat \ {0}
  OBVIOUS
<1>1. ASSUME NEW a \in Appliers, ApplyStep(a) PROVE ApplyType'
  <2>0. apos[a] \in Nat \ {0} /\ IsConfig(acfg[a]) /\ 1 \in Nat \ {0}
    BY DEF ApplyType
  <2>1. CASE OpenConf(a)
    <3>1. IsText(conf')
      BY <2>1, EmptyText DEF OpenConf, Truncate, ApplyType
    <3>2. apc' \in [Appliers -> ApplyPcs] /\ apos' \in [Appliers -> Nat \ {0}]
      BY <2>1 DEF OpenConf, ApplyGoto, ApplyType, ApplyPcs
    <3>3. clean' \in BOOLEAN
      BY <2>1 DEF OpenConf, ApplyType
    <3>4. UNCHANGED <<lua, compositor, acfg, last>>
      BY <2>1 DEF OpenConf
    <3> QED BY <3>1, <3>2, <3>3, <3>4 DEF ApplyType
  <2>2. CASE WriteConf(a)
    <3>1. IsText(conf')
      BY <2>0, <2>2, PutBlockText DEF WriteConf, ApplyType
    <3>2. apos' \in [Appliers -> Nat \ {0}]
      BY <1>0, <2>0, <2>2 DEF WriteConf, ApplyType
    <3> QED BY <2>2, <3>1, <3>2 DEF WriteConf, ApplyGoto, ApplyType, ApplyPcs
  <2>3. CASE OpenLua(a)
    <3>1. IsText(lua')
      BY <2>3, EmptyText DEF OpenLua, Truncate, ApplyType
    <3>2. apc' \in [Appliers -> ApplyPcs] /\ apos' \in [Appliers -> Nat \ {0}]
      BY <2>3 DEF OpenLua, AfterLuaFails, ApplyGoto, ApplyType, ApplyPcs
    <3>3. clean' \in BOOLEAN
      BY <2>3 DEF OpenLua, ApplyType
    <3>4. UNCHANGED <<conf, compositor, acfg, last>>
      BY <2>3 DEF OpenLua
    <3> QED BY <3>1, <3>2, <3>3, <3>4 DEF ApplyType
  <2>4. CASE WriteLua(a)
    <3>1. IsText(lua')
      BY <2>0, <2>4, PutBlockText DEF WriteLua, ApplyType
    <3>2. apos' \in [Appliers -> Nat \ {0}]
      BY <1>0, <2>0, <2>4 DEF WriteLua, ApplyType
    <3> QED BY <2>4, <3>1, <3>2 DEF WriteLua, ApplyGoto, ApplyType, ApplyPcs
  <2>5. CASE ReloadConfig(a)
    BY <2>5 DEF ReloadConfig, ApplyGoto, ApplyType, ApplyPcs
  <2> QED BY <1>1, <2>1, <2>2, <2>3, <2>4, <2>5 DEF ApplyStep
<1>2. ASSUME NEW a \in Appliers, EndApply(a) PROVE ApplyType'
  <2>1. DOMAIN acfg' = Appliers /\ \A b \in Appliers : IsConfig(acfg'[b])
    BY <1>2, NoConfigType DEF EndApply, ApplyType
  <2> QED BY <1>2, <2>1 DEF EndApply, ApplyType, ApplyPcs
<1>3. ASSUME NEW a \in Appliers, NEW c, IsConfig(c), BeginApply(a, c) PROVE ApplyType'
  <2>1. DOMAIN acfg' = Appliers /\ \A b \in Appliers : IsConfig(acfg'[b])
    BY <1>3 DEF BeginApply, ApplyType
  <2> QED BY <1>3, <2>1 DEF BeginApply, ApplyGoto, ApplyType, ApplyPcs
<1>4. CASE UNCHANGED applyVars
  BY <1>4 DEF applyVars, ApplyType
<1> QED BY <1>1, <1>2, <1>3, <1>4, ApplySteps DEF ApplyCases

\* Type correctness: the list of includes stays within its array, every lookup finds an
\* entry, and the generated files hold blocks of configurations or the holes between them.
THEOREM ConfigTypes == Spec => []TypeOK
<1> DEFINE Inv == LoaderInv /\ WatchType /\ ApplyType
<1>1. Init => Inv
  BY LoaderInitially, ApplyTypeInitially
<1>2. Inv /\ [Next]_vars => Inv'
  BY LoaderInvKept, WatchTypeKept, ApplyTypeKept
<1>3. Inv => TypeOK
  BY DEF LoaderInv, TypeOK
<1> QED BY <1>1, <1>2, <1>3, PTL DEF Spec

-----------------------------------------------------------------------------
(* The watcher *)

\* One thread loads at a time, and each load begins from nothing.
TurnInv ==
  /\ wpc # "off" => mpc = "serve"
  /\ lpc # "idle" => mpc \in {"load", "apply"} \/ wpc \in {"load", "apply"}
  /\ {mpc, wpc} \cap {"apply"} # {} => lpc # "idle"

\* A file that differs from what was loaded will be loaded: the watcher has not begun to,
\* or has events to read.
ReloadInv ==
  /\ inode \in Nat
  /\ watch \in Int /\ watch <= inode
  /\ wpc = "off" /\ ~unseen => loaded = disk[Main]
  /\ wpc # "off" /\ watch = inode /\ ~unseen =>
       \/ pending
       \/ wpc \in {"debounce", "drain"}
       \/ wpc = "load" /\ lpc = "idle"
       \/ loaded = disk[Main]

LEMMA TurnInvKept ==
  ASSUME WatchType, LoaderInv, TurnInv, [Next]_vars
  PROVE  TurnInv'
<1>1. CASE Edit
  BY <1>1 DEF Edit, SaveInPlace, SaveAndRename, UnlinkToSave, CreateAgain, FinishSave,
              BeginSave, Aside, loadVars, TurnInv
<1>2. CASE Load
  <2>1. CASE LoadRoot
    BY <1>2, <2>1 DEF Load, LoadRoot, TurnInv, WatchType
  <2>2. CASE LoadStep
    BY <1>2, <2>2 DEF Load, LoadStep, Include, Return, TurnInv, WatchType
  <2> QED BY <1>2, <2>1, <2>2 DEF Load
<1>3. CASE MainStep
  BY <1>3 DEF MainStep, Stat, MainApplies, MainGoesOn, StartWatcher, ApplyLoaded, Applied,
              LoadFailed, FreeConfig, loadVars, TurnInv, WatchType
<1>4. CASE WatcherStep
  BY <1>4 DEF WatcherStep, Read, Debounce, Drain, WatcherGoto, WatcherApplies, WatcherGoesOn,
              ApplyLoaded, Applied, LoadFailed, FreeConfig, loadVars, TurnInv, WatchType
<1>5. CASE \E a \in Appliers : Apply(a)
  BY <1>5 DEF Apply, loadVars, TurnInv
<1>6. CASE \E c \in Clients : BeginRequest(c) \/ EndRequest(c)
  BY <1>6 DEF BeginRequest, EndRequest, loadVars, TurnInv
<1>7. CASE UNCHANGED vars
  BY <1>7 DEF vars, loadVars, TurnInv
<1> QED BY <1>1, <1>2, <1>3, <1>4, <1>5, <1>6, <1>7 DEF Next

LEMMA ReloadInvKept ==
  ASSUME WatchType, LoaderInv, TurnInv, ReloadInv, [Next]_vars
  PROVE  ReloadInv'
<1>1. ASSUME NEW content, Modify(content), UNCHANGED <<wpc, lpc, loaded>> PROVE ReloadInv'
  <2>1. UNCHANGED <<inode, watch>>
    BY <1>1 DEF Modify
  <2>2. unseen' = (wpc = "off") /\ pending' = (pending \/ watch = inode)
    BY <1>1 DEF Modify, Watched
  <2> QED BY <1>1, <2>1, <2>2 DEF ReloadInv
<1>2. ASSUME NEW content, Relink(content), UNCHANGED <<wpc, lpc, loaded>> PROVE ReloadInv'
  <2>1. /\ inode' = inode + 1
        /\ watch' = IF watch = inode THEN NoWatch ELSE watch
        /\ unseen' = (wpc = "off")
    BY <1>2 DEF Relink, Watched
  <2>2. inode' \in Nat /\ watch' \in Int /\ watch' < inode'
    BY <2>1 DEF ReloadInv, NoWatch
  <2>3. watch' # inode' /\ watch' <= inode'
    BY <2>2
  <2> QED BY <1>2, <2>1, <2>2, <2>3 DEF ReloadInv
<1>3. CASE Edit
  BY <1>1, <1>2, <1>3
     DEF Edit, SaveInPlace, SaveAndRename, UnlinkToSave, CreateAgain, FinishSave, BeginSave,
         Aside, loadVars
<1>4. CASE Load
  <2>1. UNCHANGED <<disk, inode, watch, pending, mpc, wpc, unseen>>
    BY <1>4 DEF Load, Unwatched, editVars, watchVars
  <2>2. CASE LoadRoot /\ loaded' = disk[Main]
    BY <2>1, <2>2 DEF ReloadInv
  <2>3. CASE LoadStep /\ UNCHANGED loaded
    <3>1. lpc # "idle"
      BY <2>3 DEF LoadStep, Include, Return
    <3> QED BY <2>1, <2>3, <3>1 DEF ReloadInv
  <2> QED BY <1>4, <2>2, <2>3 DEF Load
<1>5. CASE Stat \/ MainApplies \/ MainGoesOn
  <2>1. /\ UNCHANGED <<disk, inode, watch, pending, wpc, loaded, unseen>>
        /\ wpc = "off"
    BY <1>5 DEF Stat, MainApplies, MainGoesOn, ApplyLoaded, Applied, LoadFailed, Unwatched,
                editVars, watchVars, TurnInv
  <2> QED BY <2>1 DEF ReloadInv
<1>6. CASE StartWatcher
  <2>1. /\ watch' = IF disk[Main].exists THEN inode ELSE NoWatch
        /\ UNCHANGED <<disk, inode, loaded, unseen>>
        /\ wpc = "off"
    BY <1>6 DEF StartWatcher, Unwatched, editVars, TurnInv
  <2>2. watch' \in Int /\ watch' <= inode
    BY <2>1 DEF ReloadInv, NoWatch
  <2> QED BY <1>6, <2>1, <2>2 DEF StartWatcher, ReloadInv
<1>7. CASE WatcherStep
  <2>1. UNCHANGED <<disk, inode, watch, loaded, unseen>> /\ wpc # "off" /\ wpc' # "off"
    BY <1>7 DEF WatcherStep, Read, Debounce, Drain, WatcherGoto, WatcherApplies, WatcherGoesOn,
                ApplyLoaded, Applied, LoadFailed, Unwatched, editVars, watchVars
  <2>2. CASE Read \/ Debounce
    BY <2>1, <2>2 DEF Read, Debounce, WatcherGoto, ReloadInv
  <2>3. CASE Drain
    <3>1. wpc = "drain" /\ lpc' = lpc
      BY <2>3 DEF Drain, WatcherGoto, loadVars
    <3>2. lpc = "idle"
      BY <3>1 DEF TurnInv
    <3> QED BY <2>1, <2>3, <3>1, <3>2 DEF Drain, WatcherGoto, ReloadInv
  <2>4. CASE WatcherApplies
    BY <2>1, <2>4 DEF WatcherApplies, ApplyLoaded, watchVars, ReloadInv
  <2>5. CASE WatcherGoesOn
    <3>1. lpc # "idle" /\ wpc \in {"load", "apply"} /\ UNCHANGED pending
      BY <2>5 DEF WatcherGoesOn, LoadFailed, Applied, watchVars, TurnInv
    <3> QED BY <2>1, <3>1 DEF ReloadInv
  <2> QED BY <1>7, <2>2, <2>3, <2>4, <2>5 DEF WatcherStep
<1>8. CASE \/ \E a \in Appliers : Apply(a)
           \/ \E c \in Clients : BeginRequest(c) \/ EndRequest(c)
           \/ UNCHANGED vars
  <2>1. UNCHANGED <<disk, inode, watch, pending, wpc, lpc, loaded, unseen>>
    BY <1>8 DEF Apply, BeginRequest, EndRequest, Unwatched, editVars, watchVars, loadVars, vars
  <2> QED BY <2>1 DEF ReloadInv
<1> QED BY <1>3, <1>4, <1>5, <1>6, <1>7, <1>8 DEF Next, MainStep

\* A watcher that waits while its watch is on the file has loaded what the file holds,
\* whatever was saved, in pieces or whole, while it slept, drained or loaded (watcher_loop,
\* lines 469-508).
THEOREM ReloadAlwaysSettles == Spec => []ReloadSettles
<1> DEFINE Inv == LoaderInv /\ WatchType /\ TurnInv /\ ReloadInv
<1>1. Init => TurnInv /\ ReloadInv
  BY DEF Init, LoaderInit, TurnInv, ReloadInv, NoWatch
<1>2. Init => Inv
  BY <1>1, LoaderInitially
<1>3. Inv /\ [Next]_vars => Inv'
  BY LoaderInvKept, WatchTypeKept, TurnInvKept, ReloadInvKept
<1>4. Inv => ReloadSettles
  BY DEF ReloadInv, TurnInv, ReloadSettles, Quiet, Watched
<1> QED BY <1>2, <1>3, <1>4, PTL DEF Spec

-----------------------------------------------------------------------------
(* Whole files *)

Size(c) == 1 + Cardinality(DOMAIN c)

Prefix(c, n) == [i \in 1 .. n |-> c]

\* Where an application has got to that began alone and still is.
WholeInv ==
  clean /\ last # NoConfig =>
    \/ Applying = {} /\ conf = Text(last) /\ lua = Text(last)
    \/ \E a \in Appliers :
         /\ Applying = {a}
         /\ acfg[a] = last
         /\ apc[a] = "write" => apos[a] <= Size(last) /\ conf = Prefix(last, apos[a] - 1)
         /\ apc[a] \in {"lua_open", "lua_write", "reload"} => conf = Text(last)
         /\ apc[a] = "lua_write" => apos[a] <= Size(last) /\ lua = Prefix(last, apos[a] - 1)
         /\ apc[a] = "reload" => lua = Text(last)

LEMMA TextSize ==
  ASSUME NEW c, IsConfig(c)
  PROVE  /\ Size(c) \in Nat \ {0}
         /\ Text(c) = Prefix(c, Size(c))
         /\ Len(Text(c)) = Size(c)
<1>1. DOMAIN c \in SUBSET Keys
  BY DEF IsConfig
<1>2. IsFiniteSet(DOMAIN c)
  BY <1>1, FS_Subset, LoaderAssumption
<1>3. Cardinality(DOMAIN c) \in Nat
  BY <1>2, FS_CardinalityType
<1>4. Size(c) \in Nat \ {0}
  BY <1>3 DEF Size
<1>5. Text(c) = Prefix(c, Size(c))
  BY DEF Text, Prefix, Size
<1>6. Prefix(c, Size(c)) \in [1 .. Size(c) -> {c}]
  BY DEF Prefix
<1>7. Len(Prefix(c, Size(c))) = Size(c)
  BY <1>4 DEF Prefix
<1> QED BY <1>4, <1>5, <1>7

\* A prefix grows by the block behind it.
LEMMA PutPrefix ==
  ASSUME NEW c, NEW n \in Nat \ {0}
  PROVE  PutBlock(Prefix(c, n - 1), n, c) = Prefix(c, n)
<1>1. n - 1 \in Nat /\ n - 1 < n
  OBVIOUS
<1>2. Len(Prefix(c, n - 1)) = n - 1 /\ \A i \in 1 .. n - 1 : Prefix(c, n - 1)[i] = c
  BY <1>1 DEF Prefix
<1>3. PutBlock(Prefix(c, n - 1), n, c) =
        [i \in 1 .. n |-> IF i = n THEN c ELSE IF i <= n - 1 THEN Prefix(c, n - 1)[i] ELSE Hole]
  BY <1>1, <1>2 DEF PutBlock
<1>4. \A i \in 1 .. n : i # n => i \in 1 .. n - 1
  OBVIOUS
<1> HIDE DEF Prefix
<1>5. PutBlock(Prefix(c, n - 1), n, c) = [i \in 1 .. n |-> c]
  BY <1>2, <1>3, <1>4
<1> QED BY <1>5 DEF Prefix

\* Only a thread that is applying takes a step.
LEMMA StepApplying ==
  ASSUME NEW a \in Appliers, ApplyStep(a)
  PROVE  a \in Applying
BY DEF ApplyStep, OpenConf, WriteConf, OpenLua, WriteLua, ReloadConfig, Applying

LEMMA WholeInvKept ==
  ASSUME LoaderInv, WatchType, ApplyType, WholeInv, [Next]_vars
  PROVE  WholeInv'
<1>1. ASSUME NEW a \in Appliers, ApplyStep(a) PROVE WholeInv'
  <2>1. SUFFICES ASSUME clean', last' # NoConfig PROVE WholeInv'
    BY DEF WholeInv
  <2>2. clean /\ last' = last /\ acfg' = acfg
    BY <1>1, <2>1 DEF ApplyStep, OpenConf, WriteConf, OpenLua, WriteLua, ReloadConfig
  <2>3. /\ Applying = {a}
        /\ acfg[a] = last
        /\ apc[a] = "write" => apos[a] <= Size(last) /\ conf = Prefix(last, apos[a] - 1)
        /\ apc[a] \in {"lua_open", "lua_write", "reload"} => conf = Text(last)
        /\ apc[a] = "lua_write" => apos[a] <= Size(last) /\ lua = Prefix(last, apos[a] - 1)
        /\ apc[a] = "reload" => lua = Text(last)
    BY <1>1, <2>1, <2>2, StepApplying DEF WholeInv
  <2>4. /\ Size(last) \in Nat \ {0}
        /\ Text(last) = Prefix(last, Size(last))
        /\ Len(Text(last)) = Size(last)
        /\ apos[a] \in Nat \ {0}
    BY TextSize DEF ApplyType
  <2>5. ASSUME NEW pc \in ApplyPcs \ {"idle", "returned"}, apc' = [apc EXCEPT ![a] = pc]
        PROVE  Applying' = {a} /\ apc'[a] = pc
    BY <2>3, <2>5 DEF Applying, ApplyType
  <2>6. ASSUME apos[a] \in Nat \ {0}, apos[a] <= Size(last)
        PROVE  /\ apos[a] < Size(last) => apos[a] + 1 <= Size(last)
               /\ ~(apos[a] < Size(last)) => apos[a] = Size(last)
               /\ apos[a] + 1 - 1 = apos[a]
    BY <2>4, <2>6
  <2>7. Prefix(last, 1 - 1) = <<>> /\ 1 <= Size(last)
    BY <2>4 DEF Prefix
  <2>8. CASE OpenConf(a)
    <3>1. conf' = <<>> /\ apos' = [apos EXCEPT ![a] = 1] /\ apc' = [apc EXCEPT ![a] = "write"]
      BY <2>1, <2>8 DEF OpenConf, Truncate, ApplyGoto
    <3>2. Applying' = {a} /\ apc'[a] = "write"
      BY <2>5, <3>1 DEF ApplyPcs
    <3>3. apos'[a] = 1
      BY <3>1 DEF ApplyType
    <3> QED BY <2>2, <2>3, <2>7, <3>1, <3>2, <3>3 DEF WholeInv
  <2>9. CASE WriteConf(a)
    <3>1. /\ apc[a] = "write" /\ conf' = PutBlock(conf, apos[a], acfg[a])
          /\ apos' = [apos EXCEPT ![a] = apos[a] + 1]
          /\ apc' = [apc EXCEPT ![a] = IF apos[a] < Size(last) THEN "write" ELSE "lua_open"]
      BY <2>3, <2>4, <2>9 DEF WriteConf, ApplyGoto
    <3>2. conf' = Prefix(last, apos[a])
      BY <2>3, <2>4, <3>1, PutPrefix
    <3>3. apos'[a] = apos[a] + 1
      BY <3>1 DEF ApplyType
    <3>4. CASE apos[a] < Size(last)
      <4>1. Applying' = {a} /\ apc'[a] = "write"
        BY <2>5, <3>1, <3>4 DEF ApplyPcs
      <4>2. apos'[a] <= Size(last) /\ conf' = Prefix(last, apos'[a] - 1)
        BY <2>3, <2>4, <2>6, <3>1, <3>2, <3>3, <3>4
      <4> QED BY <2>2, <2>3, <4>1, <4>2 DEF WholeInv
    <3>5. CASE ~(apos[a] < Size(last))
      <4>1. Applying' = {a} /\ apc'[a] = "lua_open"
        BY <2>5, <3>1, <3>5 DEF ApplyPcs
      <4>2. conf' = Text(last)
        BY <2>3, <2>4, <2>6, <3>1, <3>2, <3>5
      <4> QED BY <2>2, <2>3, <4>1, <4>2 DEF WholeInv
    <3> QED BY <3>4, <3>5
  <2>10. CASE OpenLua(a)
    <3>1. /\ apc[a] = "lua_open" /\ lua' = <<>> /\ conf' = conf
          /\ apos' = [apos EXCEPT ![a] = 1] /\ apc' = [apc EXCEPT ![a] = "lua_write"]
      BY <2>1, <2>10 DEF OpenLua, Truncate, ApplyGoto
    <3>2. Applying' = {a} /\ apc'[a] = "lua_write"
      BY <2>5, <3>1 DEF ApplyPcs
    <3>3. apos'[a] = 1
      BY <3>1 DEF ApplyType
    <3> QED BY <2>2, <2>3, <2>7, <3>1, <3>2, <3>3 DEF WholeInv
  <2>11. CASE WriteLua(a)
    <3>1. /\ apc[a] = "lua_write" /\ lua' = PutBlock(lua, apos[a], acfg[a]) /\ conf' = conf
          /\ apos' = [apos EXCEPT ![a] = apos[a] + 1]
          /\ apc' = [apc EXCEPT ![a] = IF apos[a] < Size(last) THEN "lua_write" ELSE "reload"]
      BY <2>3, <2>4, <2>11 DEF WriteLua, ApplyGoto
    <3>2. lua' = Prefix(last, apos[a])
      BY <2>3, <2>4, <3>1, PutPrefix
    <3>3. apos'[a] = apos[a] + 1
      BY <3>1 DEF ApplyType
    <3>4. CASE apos[a] < Size(last)
      <4>1. Applying' = {a} /\ apc'[a] = "lua_write"
        BY <2>5, <3>1, <3>4 DEF ApplyPcs
      <4>2. apos'[a] <= Size(last) /\ lua' = Prefix(last, apos'[a] - 1)
        BY <2>3, <2>4, <2>6, <3>1, <3>2, <3>3, <3>4
      <4> QED BY <2>2, <2>3, <3>1, <4>1, <4>2 DEF WholeInv
    <3>5. CASE ~(apos[a] < Size(last))
      <4>1. Applying' = {a} /\ apc'[a] = "reload"
        BY <2>5, <3>1, <3>5 DEF ApplyPcs
      <4>2. lua' = Text(last)
        BY <2>3, <2>4, <2>6, <3>1, <3>2, <3>5
      <4> QED BY <2>2, <2>3, <3>1, <4>1, <4>2 DEF WholeInv
    <3> QED BY <3>4, <3>5
  <2>12. CASE ReloadConfig(a)
    <3>1. /\ apc[a] = "reload" /\ UNCHANGED <<conf, lua>>
          /\ apc' = [apc EXCEPT ![a] = "returned"]
      BY <2>12 DEF ReloadConfig, ApplyGoto
    <3>2. Applying' = {}
      BY <2>3, <3>1 DEF Applying, ApplyType
    <3> QED BY <2>2, <2>3, <3>1, <3>2 DEF WholeInv
  <2> QED BY <1>1, <2>8, <2>9, <2>10, <2>11, <2>12 DEF ApplyStep
<1>2. ASSUME NEW b \in Appliers, EndApply(b) PROVE WholeInv'
  <2>1. /\ Applying' = Applying /\ b \notin Applying
        /\ \A a \in Applying : UNCHANGED <<apc[a], acfg[a], apos[a]>>
        /\ UNCHANGED <<conf, lua, last, clean>>
    BY <1>2 DEF EndApply, Applying, ApplyType
  <2> QED BY <2>1 DEF WholeInv
<1>3. ASSUME NEW b \in Appliers, NEW c, BeginApply(b, c) PROVE WholeInv'
  <2>1. SUFFICES ASSUME clean' PROVE WholeInv'
    BY DEF WholeInv
  <2>2. /\ \A a \in Appliers : apc[a] \in {"idle", "returned"}
        /\ apc' = [apc EXCEPT ![b] = "open"]
        /\ acfg' = [acfg EXCEPT ![b] = c]
        /\ last' = c
    BY <1>3, <2>1 DEF BeginApply, ApplyGoto
  <2>3. Applying' = {b} /\ apc'[b] = "open" /\ acfg'[b] = last'
    BY <2>2 DEF Applying, ApplyType
  <2> QED BY <2>3 DEF WholeInv
<1>4. CASE UNCHANGED applyVars
  BY <1>4 DEF applyVars, WholeInv, Applying
<1> QED BY <1>1, <1>2, <1>3, <1>4, ApplySteps DEF ApplyCases

\* An application during which no other began leaves two whole files of its own
\* configuration, also where threads have mixed them before (axctl_config_handler_apply,
\* lines 153-193).
THEOREM FilesAlwaysWhole == Spec => []FilesWhole
<1> DEFINE Inv == LoaderInv /\ WatchType /\ ApplyType /\ WholeInv
<1>1. Init => WholeInv
  BY DEF Init, ApplyInit, WholeInv
<1>2. Init => Inv
  BY <1>1, LoaderInitially, ApplyTypeInitially
<1>3. Inv /\ [Next]_vars => Inv'
  BY LoaderInvKept, WatchTypeKept, ApplyTypeKept, WholeInvKept
<1>4. Inv => FilesWhole
  BY DEF WholeInv, FilesWhole
<1> QED BY <1>2, <1>3, <1>4, PTL DEF Spec

=============================================================================
