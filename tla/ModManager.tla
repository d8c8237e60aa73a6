----------------------------- MODULE ModManager -----------------------------
(***************************************************************************)
(* How mods are loaded and how the engine gets their files.                *)
(*                                                                         *)
(* LoadMods reads the mod directories, decides with enabledmods.json which *)
(* mods are enabled, sorts them by priority and fills m_ModFiles, the table *)
(* of the files mods override.  When the engine opens a file, hooks first  *)
(* build it if it is one that is put together from all mods, then look it  *)
(* up in the table and put the directory it belongs to at the head of the  *)
(* engine's search paths, from which the engine then reads.  Nothing but   *)
(* the order of these paths says which copy it finds.                      *)
(*                                                                         *)
(* All of this happens on the main thread, so that each hook is one step.  *)
(* External: which paths the engine adds, and that it takes a file of its  *)
(* archives before any other unless the hook of the archives refuses it.   *)
(***************************************************************************)
EXTENDS Naturals, Sequences, FiniteSets

CONSTANTS
    Mods,           \* directories with a readable mod.json
    Names,          \* what mods can be called
    NameOf,         \* each mod's name
    Priority,       \* each mod's LoadPriority
    Overrides,      \* the paths under each mod's "mod" directory
    Patches,        \* the paths under its "keyvalues" directory
    Defines,        \* its dependency constants, pairs <<constant, name>>
    Paths,          \* normalised paths
    Vanilla,        \* those in the game's archives
    Lists,          \* scripts.rson and kb_act.lst
    Pdef,           \* the definition of persistent data
    PdefSpelled,    \* its path as BuildPdef spells it, which is not normalised
    GameFiles,      \* paths the engine's own search path has outside archives
    NoFile,         \* enabledmods.json does not exist
    Invalid         \* it, or the document, is not a JSON object

ASSUME PathsAssumption ==
    /\ Vanilla \subseteq Paths /\ Lists \subseteq Paths /\ GameFiles \subseteq Paths
    /\ Pdef \in Paths \ Lists /\ PdefSpelled \notin Paths
    /\ Lists \cup {Pdef} \subseteq Vanilla

ASSUME ModsAssumption ==
    /\ NameOf \in [Mods -> Names]
    /\ Priority \in [Mods -> Nat]
    /\ Overrides \in [Mods -> SUBSET Paths]
    /\ Patches \in [Mods -> SUBSET (Paths \ (Lists \cup {Pdef}))]
    /\ IsFiniteSet(Mods)
    /\ \A m \in Mods : \A d, e \in Defines[m] : d[1] = e[1] => d = e
    /\ {"none", "built", "game", "archive", "missing"} \cap Mods = {}

ASSUME FileAssumption ==
    /\ NoFile # Invalid
    /\ {NoFile, Invalid} \cap [Names -> {"on", "off", "absent"}] = {}

VARIABLES
    running,    \* whether the game runs
    file,       \* enabledmods.json
    doc,        \* m_EnabledModsCfg
    hasCfg,     \* m_bHasEnabledModsCfg
    loaded,     \* m_LoadedMods, lowest priority first
    enabled,    \* m_bEnabled of the loaded mods
    active,     \* the mods that were enabled when they were loaded
    constants,  \* m_DependencyConstants
    modFiles,   \* m_ModFiles: the owner of each overridden path
    compiled,   \* the compiled assets: where the original of each came from
    search,     \* the engine's search paths, head first
    current,    \* sCurrentModPath
    served      \* history: the file the last step opened, and from where it was read

settings == <<file, doc, hasCfg>>
mods == <<loaded, enabled, active, constants>>
files == <<modFiles, compiled>>
paths == <<search, current>>
vars == <<running, settings, mods, files, paths, served>>

Settings == [Names -> {"on", "off", "absent"}]
NoSettings == [n \in Names |-> "absent"]
Keys == Paths \cup {PdefSpelled}
Directories == Mods \cup {"built", "game"}
NothingOpened == [path |-> "none", from |-> "none"]

\* Settings, mods, tables and paths have their types.
TypeOK ==
    /\ running \in BOOLEAN
    /\ file \in Settings \cup {NoFile, Invalid}
    /\ doc \in Settings \cup {Invalid}
    /\ hasCfg \in BOOLEAN
    /\ loaded \in Seq(Mods)
    /\ enabled \in [Mods -> BOOLEAN]
    /\ active \subseteq Mods
    /\ constants \subseteq UNION {Defines[m] : m \in Mods}
    /\ modFiles \in [Keys -> Mods \cup {"built", "none"}]
    /\ compiled \in [Paths -> Directories \cup {"archive", "missing", "none"}]
    /\ search \in Seq(Directories)
    /\ current \in Mods \cup {"none"}
    /\ served \in [path : Paths, from : Directories \cup {"archive", "missing"}]
                  \cup {NothingOpened}

LoadedMods == {loaded[i] : i \in DOMAIN loaded}

-----------------------------------------------------------------------------
(* Loading.                                                                 *)

\* The orders in which a set can be gone through.
Orders(S) ==
    {f \in [1..Cardinality(S) -> S] : \A x \in S : \E i \in 1..Cardinality(S) : f[i] = x}

\* What the directories before the i-th have added, when each adds what adds says.
Defined(order, adds, i) == UNION {adds[order[j]] : j \in 1..(i - 1)}

\* Constants of a mod that already mean another mod.
Clashes(m, defined) == {d \in Defines[m] : \E e \in defined : e[1] = d[1] /\ e[2] # d[2]}

\* A mod adds its constants, in no particular order and until one of them clashes.
Adds(order, adds, i) ==
    LET m == order[i]
        clashes == Clashes(m, Defined(order, adds, i))
    IN /\ adds[m] \subseteq Defines[m] \ clashes
       /\ clashes = {} => adds[m] = Defines[m]

\* Mutant: a mod with a constant that means something else is loaded all the same.
ReadAll(order, adds) == Mods

\* m_bWasReadSuccessfully
ReadSuccessfully(order, adds) ==
    {m \in Mods : \E i \in DOMAIN order :
        order[i] = m /\ Clashes(m, Defined(order, adds, i)) = {}}

\* What reading all directories, in the order of the file system, can end in.
Readings ==
    LET Added == {adds \in [Mods -> SUBSET UNION {Defines[m] : m \in Mods}] :
                    \A m \in Mods : adds[m] \subseteq Defines[m]}
    IN {[constants |-> UNION {r[2][m] : m \in Mods}, mods |-> ReadSuccessfully(r[1], r[2])] :
           r \in {p \in Orders(Mods) \X Added : \A i \in DOMAIN p[1] : Adds(p[1], p[2], i)}}

\* std::sort by priority, which may order mods of the same priority in any way.
Sorted(S) ==
    {f \in Orders(S) : \A i, j \in DOMAIN f : i < j => Priority[f[i]] <= Priority[f[j]]}

\* Whether a mod is enabled according to the document, when there is one.
EnabledBy(cfg, usable, m) ==
    IF usable /\ cfg # Invalid /\ cfg[NameOf[m]] # "absent"
    THEN cfg[NameOf[m]] = "on" ELSE TRUE

\* The last of a sequence that is in a set, or "none".
LastOf(seq, S) ==
    LET found == {i \in DOMAIN seq : seq[i] \in S}
    IN IF found = {} THEN "none" ELSE seq[CHOOSE i \in found : \A j \in found : j <= i]

\* The table after the files of the enabled mods are registered, the last mod's
\* first: a path that is in the table stays with its owner.
Registered(table, seq, on) ==
    [k \in Keys |->
        IF table[k] # "none" \/ k \notin Paths THEN table[k]
        ELSE LastOf(seq, {m \in on : k \in Overrides[m]})]

NoFiles == [k \in Keys |-> "none"]
NothingBuilt == [p \in Paths |-> "none"]

\* LoadMods with a table of files that UnloadMods, if it ran, has cleared, and what
\* it wrote: readable says what is in the file, document what is in memory.  In a
\* null document, Invalid, no mod is found.
Load(table, readable, document) ==
    /\ doc' = IF readable = NoFile THEN document ELSE readable
    /\ hasCfg' = IF readable = NoFile THEN hasCfg ELSE readable # Invalid
    /\ \E read \in Readings :
         /\ constants' = read.constants
         /\ loaded' \in Sorted(read.mods)
         /\ active' = {m \in read.mods : EnabledBy(doc', hasCfg', m)}
    /\ enabled' = [m \in Mods |-> m \in active']
    /\ modFiles' = Registered(table, loaded', active')
    /\ compiled' = NothingBuilt
    /\ served' = NothingOpened

\* The game starts and the constructor loads the mods.  m_bHasEnabledModsCfg is not
\* initialised.
Start ==
    /\ ~running
    /\ running' = TRUE
    /\ Load(NoFiles, file, Invalid)
    /\ UNCHANGED <<file, paths>>

\* Mutant: the table is not cleared before the mods are loaded anew.
NotCleared(table) == table

\* What UnloadMods keeps of the table.
Cleared(table) == NoFiles

\* Mutant: only mods the file does not name yet are written to it.
SavedNewOnly ==
    IF hasCfg /\ doc = Invalid THEN Invalid
    ELSE [n \in Names |->
            LET last == LastOf(loaded, {m \in Mods : NameOf[m] = n}) IN
            IF hasCfg /\ doc[n] # "absent" THEN doc[n]
            ELSE IF last # "none" THEN IF enabled[last] THEN "on" ELSE "off" ELSE "absent"]

\* What UnloadMods writes: the flags of the loaded mods by name, those of a later
\* mod over those of an earlier one with the same name.
Saved ==
    IF hasCfg /\ doc = Invalid THEN Invalid
    ELSE [n \in Names |->
            LET last == LastOf(loaded, {m \in Mods : NameOf[m] = n}) IN
            IF last # "none" THEN IF enabled[last] THEN "on" ELSE "off"
            ELSE IF hasCfg THEN doc[n] ELSE "absent"]

\* reload_mods and NSReloadMods: UnloadMods, then LoadMods.  The file may not be
\* writable, in which case it keeps its content, and the names in the document refer
\* to memory of mods that are gone; they are taken as intact.
Reload(writable) ==
    /\ running
    /\ file' = IF writable THEN Saved ELSE file
    /\ Load(Cleared(modFiles), file', Saved)
    /\ UNCHANGED <<running, paths>>

\* The game ends; when it does so while UnloadMods writes, the file is cut short.
\* The next process starts with nothing, and with any value of the flag.
Exit ==
    /\ running
    /\ running' = FALSE
    /\ file' \in {file, Invalid}
    /\ doc' = Invalid
    /\ hasCfg' \in BOOLEAN
    /\ loaded' = <<>> /\ active' = {} /\ constants' = {}
    /\ enabled' = [m \in Mods |-> FALSE]
    /\ modFiles' = NoFiles
    /\ search' = <<"game">> /\ current' = "none"
    /\ served' = NothingOpened
    /\ UNCHANGED compiled

\* NSSetModEnabled: the flag of the first mod with the name.  The files a mod
\* overrides stay what they are until the next reload.
SetModEnabled(n, on) ==
    /\ running
    /\ \E i \in DOMAIN loaded :
         /\ NameOf[loaded[i]] = n
         /\ \A j \in DOMAIN loaded : NameOf[loaded[j]] = n => i <= j
         /\ enabled[loaded[i]] # on
         /\ enabled' = [enabled EXCEPT ![loaded[i]] = on]
    /\ served' = NothingOpened
    /\ UNCHANGED <<running, settings, loaded, active, constants, files, paths>>

-----------------------------------------------------------------------------
(* Opening files.                                                           *)

\* A search path that is added to the head is taken from where it was.
ToHead(directory, order) ==
    LET found == {i \in DOMAIN order : order[i] = directory}
        at == IF found = {} THEN Len(order) + 1 ELSE CHOOSE i \in found : TRUE
    IN [i \in 1..(IF found = {} THEN at ELSE Len(order)) |->
            IF i = 1 THEN directory ELSE order[IF i <= at THEN i - 1 ELSE i]]

\* Whether a directory has the path.
Has(directory, path, built) ==
    CASE directory = "built" -> built[path] # "none"
      [] directory = "game" -> path \in GameFiles
      [] OTHER -> path \in Overrides[directory]

\* The first search path that has the file.
Found(path, order, built) ==
    LET having == {i \in DOMAIN order : Has(order[i], path, built)}
    IN IF having = {} THEN "missing" ELSE order[CHOOSE i \in having : \A j \in having : i <= j]

\* ReadVPKOriginalFile: no hook looks at the table meanwhile.
Original(path) == IF path \in Vanilla THEN "archive" ELSE Found(path, search, compiled)

\* TryBuildKeyValues succeeds: a mod has keyvalues for the path, and there is an
\* original to apply them to.  The keyvalues of a mod are only known when it was
\* enabled at the time it was loaded.
BuildsKeyValues(path) ==
    /\ \E m \in LoadedMods \cap active : enabled[m] /\ path \in Patches[m]
    /\ Original(path) # "missing"

Builds(path) == path \in Lists \cup {Pdef} \/ BuildsKeyValues(path)

\* The key BuildScriptsRson, BuildKBActionsList, BuildPdef and TryBuildKeyValues put
\* into the table.
KeyOf(path) == IF path = Pdef THEN PdefSpelled ELSE path

\* Mutant: the directory of compiled assets counts as the current mod's.
OpenedOnce(owner) ==
    /\ search' = CASE owner = "none" \/ owner = current -> search
                   [] owner = "built" -> IF current # "none" THEN search ELSE ToHead("built", search)
                   [] OTHER -> ToHead(owner, search)
    /\ current' = IF owner \in Mods THEN owner ELSE current

\* Before a path is looked up, it is built.
CompileAssetsForFile(path) ==
    IF Builds(path)
    THEN /\ modFiles' = [modFiles EXCEPT ![KeyOf(path)] = "built"]
         /\ compiled' = [compiled EXCEPT ![path] = Original(path)]
    ELSE UNCHANGED files

\* SetNewModSearchPaths for the owner of a file, if it has one.
Opened(owner) ==
    /\ search' = CASE owner = "none" \/ owner = current -> search
                   [] owner = "built" -> ToHead("built", search)
                   [] OTHER -> ToHead(owner, search)
    /\ current' = IF owner \in Mods THEN owner ELSE current

\* The engine opens a file: CBaseFileSystem::OpenEx, and the hooks of its cache and
\* of its archives.
Open(path) ==
    /\ running
    /\ CompileAssetsForFile(path)
    /\ Opened(modFiles'[path])
    /\ served' =
         [path |-> path,
          from |-> IF modFiles'[path] = "none" /\ path \in Vanilla THEN "archive"
                   ELSE Found(path, search', compiled')]
    /\ UNCHANGED <<running, settings, mods>>

\* AddSearchPathHook: the paths of the current mod and of the compiled assets go
\* before whatever the engine adds.
Readded(order) == ToHead("built", IF current = "none" THEN order ELSE ToHead(current, order))

EngineAddsSearchPath ==
    /\ running
    /\ search' = Readded(ToHead("game", search))
    /\ served' = NothingOpened
    /\ UNCHANGED <<running, settings, mods, files, current>>

Init ==
    /\ running = FALSE
    /\ file \in {NoFile, Invalid, [NoSettings EXCEPT ![CHOOSE n \in Names : TRUE] = "off"]}
    /\ doc = Invalid
    /\ hasCfg \in BOOLEAN
    /\ loaded = <<>> /\ active = {} /\ constants = {}
    /\ enabled = [m \in Mods |-> FALSE]
    /\ modFiles = NoFiles
    /\ compiled = NothingBuilt
    /\ search = <<"game">> /\ current = "none"
    /\ served = NothingOpened

Next ==
    \/ Start \/ Exit
    \/ \E writable \in BOOLEAN : Reload(writable)
    \/ \E n \in Names, on \in BOOLEAN : SetModEnabled(n, on)
    \/ \E path \in Paths : Open(path)
    \/ EngineAddsSearchPath

Spec == Init /\ [][Next]_vars

-----------------------------------------------------------------------------
(* Properties.                                                              *)

\* The constants VMCreated defines are those of the loaded mods, and each means one
\* mod, whatever the mods that were not loaded have left in the table.
ConstantsDefined ==
    /\ \A m \in LoadedMods : Defines[m] \subseteq constants
    /\ \A d, e \in constants : d[1] = e[1] => d[2] = e[2]

\* A path that belongs to a mod belongs to one of the highest priority among those
\* that were enabled when they were loaded and that have it, also after reloads and
\* builds; and a path that belongs to nobody is in none of these mods.
OwnersWin ==
    running =>
    \A p \in Paths :
        LET having == {m \in active : p \in Overrides[m]} IN
        /\ modFiles[p] \in Mods =>
             /\ modFiles[p] \in having \cap LoadedMods
             /\ \A m \in having : Priority[m] <= Priority[modFiles[p]]
        /\ modFiles[p] = "none" => having = {}

\* The engine reads a file from the mod, or the build, the table names: whatever was
\* opened before, and whatever paths the engine and earlier mods left in front.  A
\* file of the archives that nobody overrides comes from there.  (For the definition
\* of persistent data see PdefServed.)
ServesOwner ==
    LET path == served.path IN
    path \notin {"none", Pdef} =>
        /\ modFiles[path] # "none" => served.from = modFiles[path]
        /\ modFiles[path] = "none" /\ path \in Vanilla => served.from = "archive"

\* A reload keeps what the player enabled and disabled, when the file can be written,
\* no other mod of the same name says otherwise, and the flag that was never
\* initialised does not claim that there are settings.
ChoicesKept ==
    [][ Reload(TRUE) /\ ~(hasCfg /\ doc = Invalid) =>
          \A m \in LoadedMods \cap LoadedMods' :
             (\A o \in LoadedMods : NameOf[o] = NameOf[m] => enabled[o] = enabled[m])
                => enabled'[m] = enabled[m] ]_vars

\* The definition of persistent data the mods' changes are built into is what the
\* engine gets, as the comment at the paths of compiled assets ("use backslashes for
\* these", modmanager.cpp) is to ensure.  BuildPdef enters it with slashes.
PdefServed == served.path = Pdef => served.from = "built"
=============================================================================
