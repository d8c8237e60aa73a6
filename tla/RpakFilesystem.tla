--------------------------- MODULE RpakFilesystem ---------------------------
(***************************************************************************)
(* Paks: the hooks of the engine's LoadPakAsync and UnloadPak.             *)
(*                                                                         *)
(* When the game loads a pak, the hook first loads the paks mods want      *)
(* always, then those they add to this one, and afterwards those they want *)
(* after it.  It does so by calling the hooked function, so that hooks     *)
(* nest; bShouldLoadPaks and bShouldUnloadPaks keep the nested ones from   *)
(* doing the same again.  A record of hooks is one call under way, and the  *)
(* steps between its calls are the actions.                                *)
(*                                                                         *)
(* External: the engine, which gives a pak a handle that is not in use or, *)
(* when it fails, -1, and which unloads only handles it got itself.  The   *)
(* game loads and unloads paks on one thread.                              *)
(***************************************************************************)
EXTENDS Integers, Sequences, FiniteSets

CONSTANTS
    Names,          \* paks the game asks for
    AliasOf,        \* what the mods' aliases make of a name
    Original,       \* the names the game has a file of
    Entries,        \* the paks of enabled mods, in order: [path, name, auto, after]
    OnDedicated,    \* names a dedicated server loads
    MayFail,        \* paths and names the engine may fail to load
    MaxHandle       \* bound: handles in use at a time

Handles == 0..MaxHandle
Failed == -1
Entry == DOMAIN Entries
EntryPaths == {Entries[i].path : i \in Entry}
Files == Names \cup EntryPaths

ASSUME PaksAssumption ==
    /\ MaxHandle \in Nat
    /\ AliasOf \in [Names -> Names]
    /\ Entries \in Seq([path : Files \ Names, name : Names, auto : BOOLEAN,
                        after : Files \cup {"never"}])
    /\ "none" \notin Files /\ "never" \notin Files

VARIABLES
    isDedicated,    \* whether this is a dedicated server
    tracked,        \* m_vLoadedPaks
    loaded,         \* handles in use in the engine
    shouldLoad,     \* bShouldLoadPaks
    shouldUnload,   \* bShouldUnloadPaks
    hooks,          \* the hooks under way, innermost first
    crashed         \* whether the process died in undefined behaviour

pakVars == <<isDedicated, tracked, loaded, shouldLoad, shouldUnload, hooks, crashed>>

Untracked == [name |-> "none", source |-> "none"]
Sources == {"UNTRACKED", "CONSTANT", "MAP"}

LoadFrames ==
    [hook : {"load"}, name : Files, path : Files, source : Sources,
     step : {"enter", "preload", "map", "engine", "post"}, todo : SUBSET Entry,
     handle : Handles \cup {Failed}]
UnloadFrames ==
    [hook : {"unload"}, handle : Handles, step : {"enter", "maps", "engine"},
     at : Handles \cup {Failed}]

\* Tracked paks, handles, flags and frames have their types.
PaksTypeOK ==
    /\ isDedicated \in BOOLEAN
    /\ tracked \in [Handles \cup {Failed} ->
                       [name : Files, source : Sources] \cup {Untracked}]
    /\ loaded \subseteq Handles
    /\ shouldLoad \in BOOLEAN /\ shouldUnload \in BOOLEAN
    /\ hooks \in Seq(LoadFrames \cup UnloadFrames)
    /\ crashed \in BOOLEAN

inner == Head(hooks)
Running(hook, step) == ~crashed /\ hooks # <<>> /\ inner.hook = hook /\ inner.step = step

\* A call of the hooked LoadPakAsync, by the game or by PakLoadManager.
LoadCall(path, source) ==
    [hook |-> "load", name |-> path, path |-> path, source |-> source, step |-> "enter",
     todo |-> {}, handle |-> Failed]

UnloadCall(handle) == [hook |-> "unload", handle |-> handle, step |-> "enter", at |-> Failed]

-----------------------------------------------------------------------------
(* Loading.                                                                 *)

\* GetPakHandle: the lowest handle tracked for a name; the one of a failed load is
\* the lowest of all.
HandleOf(name) ==
    LET of == {h \in DOMAIN tracked : tracked[h].name = name}
    IN IF of = {} THEN Failed ELSE CHOOSE h \in of : \A g \in of : h <= g

\* The call the innermost hook is in returns handle.  PakLoadManager::LoadPakAsync
\* sets the source of what it has loaded.
Returns(handle) ==
    /\ hooks' = Tail(hooks)
    /\ tracked' = IF handle # Failed THEN [tracked EXCEPT ![handle].source = inner.source]
                  ELSE tracked

\* The game loads a pak.
Request(name) ==
    /\ ~crashed /\ hooks = <<>>
    /\ Cardinality(Handles \ loaded) > Len(Entries)
    /\ hooks' = <<LoadCall(name, "UNTRACKED")>>
    /\ UNCHANGED <<isDedicated, tracked, loaded, shouldLoad, shouldUnload, crashed>>

\* LoadPreloadPaks has these to load.
Preloads == {i \in Entry : Entries[i].auto}

\* Mutant: nested hooks load them too.
EnterNested ==
    /\ Running("load", "enter")
    /\ LET name == IF inner.name \in Names THEN AliasOf[inner.name] ELSE inner.name IN
       IF HandleOf(name) # Failed
       THEN Returns(Failed)
       ELSE /\ hooks' = <<[inner EXCEPT !.name = name, !.path = name,
                                      !.step = "preload", !.todo = Preloads]>> \o Tail(hooks)
            /\ UNCHANGED tracked
    /\ UNCHANGED <<isDedicated, loaded, shouldLoad, shouldUnload, crashed>>

\* The hook is entered: HandlePakAliases, and nothing for a pak that is tracked.  The
\* outermost hook goes on with the paks that are always loaded.
Enter ==
    /\ Running("load", "enter")
    /\ LET name == IF inner.name \in Names THEN AliasOf[inner.name] ELSE inner.name IN
       IF HandleOf(name) # Failed
       THEN /\ Returns(Failed)
            /\ UNCHANGED shouldLoad
       ELSE /\ hooks' = <<[inner EXCEPT !.name = name, !.path = name,
                             !.step = IF shouldLoad THEN "preload" ELSE "engine",
                             !.todo = IF shouldLoad THEN Preloads ELSE {}]>> \o Tail(hooks)
            /\ shouldLoad' = FALSE
            /\ UNCHANGED tracked
    /\ UNCHANGED <<isDedicated, loaded, shouldUnload, crashed>>

\* The first of some entries in the order of the list.
First(of) == CHOOSE i \in of : \A j \in of : i <= j

\* One of the paks a hook has to load before or after its own.
LoadNext ==
    /\ \E source \in {"CONSTANT", "MAP"} :
         /\ \/ source = "CONSTANT" /\ (Running("load", "preload") \/ Running("load", "post"))
            \/ source = "MAP" /\ Running("load", "map")
         /\ inner.todo # {}
         /\ hooks' = <<LoadCall(Entries[First(inner.todo)].path, source),
                       [inner EXCEPT !.todo = @ \ {First(inner.todo)}]>> \o Tail(hooks)
    /\ UNCHANGED <<isDedicated, tracked, loaded, shouldLoad, shouldUnload, crashed>>

\* LoadCustomMapPaks: a pak the game has no file of is replaced by the first that a
\* mod has, after which no other has its name; else those of the mods are loaded too.
MapPaks ==
    /\ Running("load", "preload") /\ inner.todo = {}
    /\ LET same == {i \in Entry : ~Entries[i].auto /\ Entries[i].name = inner.path}
           next == IF inner.path \notin Original /\ same # {}
                   THEN [inner EXCEPT !.path = Entries[First(same)].path, !.step = "map"]
                   ELSE [inner EXCEPT !.todo = same, !.step = "map"]
       IN hooks' = <<next>> \o Tail(hooks)
    /\ UNCHANGED <<isDedicated, tracked, loaded, shouldLoad, shouldUnload, crashed>>

\* Nested hooks are over; a dedicated server does without most paks.
MapPaksEnd ==
    /\ Running("load", "map") /\ inner.todo = {}
    /\ shouldLoad' = TRUE
    /\ IF isDedicated /\ inner.name \notin OnDedicated
       THEN Returns(Failed)
       ELSE /\ hooks' = <<[inner EXCEPT !.step = "engine"]>> \o Tail(hooks)
            /\ UNCHANGED tracked
    /\ UNCHANGED <<isDedicated, loaded, shouldUnload, crashed>>

\* Mutant: a pak is tracked under the path of the file that replaces it.
TrackingPath(handle, name) ==
    IF tracked[handle] # Untracked THEN tracked
    ELSE [tracked EXCEPT ![handle] = [name |-> inner.path, source |-> "UNTRACKED"]]

\* TrackLoadedPak does not replace what is tracked, which is so for failed loads only.
Tracking(handle, name) ==
    IF tracked[handle] # Untracked THEN tracked
    ELSE [tracked EXCEPT ![handle] = [name |-> name, source |-> "UNTRACKED"]]

\* The engine loads the pak; LoadPostloadPaks then goes by the path that was loaded.
EngineLoads ==
    /\ Running("load", "engine")
    /\ \E handle \in (Handles \ loaded) \cup (IF inner.path \in MayFail THEN {Failed} ELSE {}) :
         /\ loaded' = loaded \cup ({handle} \ {Failed})
         /\ tracked' = Tracking(handle, inner.name)
         /\ hooks' = <<[inner EXCEPT !.step = "post", !.handle = handle,
                          !.todo = {i \in Entry : Entries[i].after = inner.path}]>>
                     \o Tail(hooks)
    /\ UNCHANGED <<isDedicated, shouldLoad, shouldUnload, crashed>>

LoadEnds ==
    /\ Running("load", "post") /\ inner.todo = {}
    /\ Returns(inner.handle)
    /\ UNCHANGED <<isDedicated, loaded, shouldLoad, shouldUnload, crashed>>

-----------------------------------------------------------------------------
(* Unloading.                                                               *)

\* The game unloads a pak it has loaded.
RequestUnload(handle) ==
    /\ ~crashed /\ hooks = <<>>
    /\ handle \in loaded /\ tracked[handle].source = "UNTRACKED"
    /\ hooks' = <<UnloadCall(handle)>>
    /\ UNCHANGED <<isDedicated, tracked, loaded, shouldLoad, shouldUnload, crashed>>

\* The pak is not tracked any more; the outermost hook goes on with UnloadMapPaks.
EnterUnload ==
    /\ Running("unload", "enter")
    /\ tracked' = [tracked EXCEPT ![inner.handle] = Untracked]
    /\ hooks' = <<[inner EXCEPT !.step = IF shouldUnload THEN "maps" ELSE "engine"]>>
                \o Tail(hooks)
    /\ shouldUnload' = FALSE
    /\ UNCHANGED <<isDedicated, loaded, shouldLoad, crashed>>

\* Mutant: all paks Ronin has loaded count.
RoninPaks(after) == {h \in Handles : h > after /\ tracked[h].source \in {"CONSTANT", "MAP"}}

\* The paks of maps the loop of UnloadMapPaks has not come to.
MapPaksAfter(after) == {h \in Handles : h > after /\ tracked[h].source = "MAP"}

\* UnloadMapPaks comes to the next one.  The nested hook erases the element the loop
\* is at, and how the loop goes on from there is undefined: with the next element or
\* with none, or not at all.
UnloadNext ==
    /\ Running("unload", "maps")
    /\ \/ /\ \E h \in MapPaksAfter(inner.at) :
               /\ \A g \in MapPaksAfter(inner.at) : h <= g
               /\ hooks' = <<UnloadCall(h), [inner EXCEPT !.at = h]>> \o Tail(hooks)
          /\ UNCHANGED <<shouldUnload, crashed>>
       \/ /\ MapPaksAfter(inner.at) = {} \/ inner.at # Failed
          /\ hooks' = <<[inner EXCEPT !.step = "engine"]>> \o Tail(hooks)
          /\ shouldUnload' = TRUE
          /\ UNCHANGED crashed
       \/ /\ inner.at # Failed
          /\ crashed' = TRUE
          /\ UNCHANGED <<hooks, shouldUnload>>
    /\ UNCHANGED <<isDedicated, tracked, loaded, shouldLoad>>

EngineUnloads ==
    /\ Running("unload", "engine")
    /\ loaded' = loaded \ {inner.handle}
    /\ hooks' = Tail(hooks)
    /\ UNCHANGED <<isDedicated, tracked, shouldLoad, shouldUnload, crashed>>

-----------------------------------------------------------------------------

PaksInit ==
    /\ isDedicated \in BOOLEAN
    /\ tracked = [h \in Handles \cup {Failed} |-> Untracked]
    /\ loaded = {}
    /\ shouldLoad = TRUE /\ shouldUnload = TRUE
    /\ hooks = <<>>
    /\ crashed = FALSE

PaksNext ==
    \/ \E name \in Names : Request(name)
    \/ Enter \/ LoadNext \/ MapPaks \/ MapPaksEnd \/ EngineLoads \/ LoadEnds
    \/ \E handle \in Handles : RequestUnload(handle)
    \/ EnterUnload \/ UnloadNext \/ EngineUnloads

PaksSpec == PaksInit /\ [][PaksNext]_pakVars

-----------------------------------------------------------------------------
(* Properties.                                                              *)

\* Names that can be loaded twice: the one that a failed load has left under -1, and
\* those of a mod's paks that may fail, each of which is tried again whenever it was
\* not tracked, and again inside its own hook when it is always loaded.
Excused(name) == name = tracked[Failed].name \/ name \in MayFail \ Names

\* Between two requests of the game, what is tracked is what is loaded, and no name
\* twice, however loads and unloads nested: except names of which a load has failed.
TrackedOnce ==
    hooks = <<>> =>
        /\ loaded = {h \in Handles : tracked[h] # Untracked}
        /\ \A g, h \in loaded :
             tracked[g].name = tracked[h].name => g = h \/ Excused(tracked[g].name)

\* As soon as the game has any pak, the paks mods want at all times are loaded, and
\* they stay: no unloading of maps takes them, and none of their names refuses them.
AutoloadsStay ==
    hooks = <<>> /\ loaded # {} =>
        \A i \in Entry : Entries[i].auto /\ Entries[i].path \notin MayFail =>
            \E h \in loaded : tracked[h] = [name |-> Entries[i].path, source |-> "CONSTANT"]

\* A pak that is being loaded, and cannot fail, is not loaded again by the paks that
\* belong to it, so that paks which want to be loaded after each other do not do so
\* for ever.
LoadsDoNotRecur ==
    \A i, j \in DOMAIN hooks :
        /\ hooks[i].hook = "load" /\ hooks[j].hook = "load"
        /\ hooks[i].step # "enter" /\ hooks[j].step # "enter"
        /\ hooks[i].name = hooks[j].name /\ hooks[i].path \notin MayFail
        => i = j

\* Mods' paks that others want to follow.
Followed == {p \in EntryPaths : \E i \in Entry : Entries[i].after = p}

\* However the mods' paks follow each other, hooks do not nest deeper than by one for
\* each of those that others follow, and three more: the game's, one that tries again
\* what could not be loaded and is always wanted, and the innermost.
NestingBounded == Followed \cap MayFail = {} => Len(hooks) <= Cardinality(Followed) + 3

\* "dont load the pak if it's currently loaded already".  The code does otherwise for
\* a pak whose first load failed.
LoadedOnce ==
    \A g, h \in loaded :
        tracked[g].name = tracked[h].name /\ tracked[g] # Untracked => g = h
=============================================================================
