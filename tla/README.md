# TLA+ models of R2Ronin

R2Ronin modifies Titanfall 2. A launcher starts the game, and a library
(`src/RoninDLL`) hooks the engine: it loads mods, lets scripts do more, connects
clients and servers through a *master server*, and keeps the players' persistent
data there. This directory holds TLA+ models of the parts in which several actors
share state, the TLC configurations that check them on small instances, and
proofs of the properties for instances of any size.

## 1. The system

### 1.1 Actors

* **The main thread** of the game. The engine calls hooks on it: host state
  changes, frames, clients that connect and leave, script natives, console
  commands. Hooks do not overlap, so a hook is one step of a model unless another
  actor can observe it half-way.
* **Request threads.** Nearly every request over HTTP runs on a thread of its own,
  detached, that writes plain (unlocked, non-atomic) flags and fields the main
  thread polls. Only the server presence uses `std::future`. There is one lock for
  the authentication data and one per message buffer.
* **The master server** ("Atlas"), other game servers, operators who edit files,
  and the game's scripts. None of them is in the repository; they are modelled
  from how the code uses them.

### 1.2 Components

| Component | State it keeps | Operations | What is hard |
|---|---|---|---|
| Server presence (`server/serverpresence.cpp`, reporter in `masterserver/masterserver.cpp`) | has a presence, first update; own id and token; attempts, cool-down; two futures | create, destroy, frame, add, update, remove | answers that arrive after their game is gone; retries; an uninitialised cool-down |
| Master server requests of a client (`masterserver.cpp`, `clientauthhooks.cpp`) | flags of the list, of origin authentication and of promos; the list | request and clear list, authenticate with Origin's token, request promos | check-then-set on plain flags; waits that may not end |
| Client authentication (`masterserver.cpp`, `scriptserverbrowser.cpp`, `misccommands.cpp`) | flags of authentication and saving, pending connection info | authenticate with a server or ourselves, connect, save, leave for the lobby | the order in which a thread publishes a result; flags shared by threads of different requests |
| Server authentication (`server/auth/serverauthentication.cpp`, packets in `masterserver.cpp`) | data by token, client slots, handled tokens | connect packet, connect, activate, write, disconnect | retransmitted packets, slots used again, bots, several tokens of one account |
| Ban system (`server/auth/bansystem.cpp`) | `banlist.txt` and a copy of it | ban, unban, clear, check | the file is read anew for each check, on any thread; edits by hand |
| Scripts' HTTP requests and message buffers (`scripthttprequesthandler.cpp`, `squirrel.cpp/.h`) | handle counter, a buffer per script context, the VMs | request, answer, call, create and destroy a VM | answers that outlive their VM; a buffer deleted while it is used |
| Mod manager and compiled assets (`mods/`) | loaded mods by priority, dependency constants, table of overridden files, `enabledmods.json`, built files | load, reload, enable, build a file | order of priorities, reloads, what a failed mod leaves behind, a file overridden by one mod and built from another |
| File system hooks (`core/filesystem/filesystem.cpp`) | the current mod path; the order of the engine's search paths | open, read, add a search path | nothing but the order of the paths says which copy of a file is read |
| Rpak hooks (`core/filesystem/rpakfilesystem.cpp`) | tracked paks by handle, two flags | load and unload paks | hooks that call themselves; failed loads; a loop over a map it erases from |
| Plugins and game presence (`plugins/`, `shared/gamepresence.cpp`) | loaded plugins, requests for game state | load, inform, answer | requests from other threads |
| Hooks and DLL callbacks (`core/hooks.cpp`) | callbacks in order of registration, tags already called | register, call on load | dependency order, loads that nest, and a wait for a tag that never comes |
| Convars, commands, bit buffers, KeyValues, data tables, JSON | values and trees | convert, read, write | boundaries; sequential |
| Input (`fzzy/`) | recorded and pressed input by frame | play, record, bind | timing by frame |
| Audio, chat, logging, overlays, limits, launcher | little | forward, draw, print | layout and operating system calls |

`PROJECT.json` lists every component with its files and whether it is modelled.

### 1.3 How the components interact

The host state (`engine/hoststate.cpp`) calls the presence on a new game, on
shutdown and in every active frame, and processes the message buffers of the VMs
in every frame. The presence's id and token serve the connect packets of the server
authentication. Server authentication asks the ban system, on two kinds of threads,
and uploads data through the same `WritePlayerPersistentData` whose flag
`m_bSavingPersistentData` the client authentication waits for. Client authentication
with our own server puts a token into the same map the server authentication reads.
Mods add the scripts that run in the VMs and the console commands that push calls
into their buffers; their table of files decides what the file system hooks do, and their
paks what the rpak hooks load. All of these parts come into being in the callbacks of
`core/hooks.cpp`, and use convars and commands that other callbacks make.

### 1.4 What makes each part correct

* *Presence*: id and token of one grant, but for a heartbeat answer that holds only one of them; one registration at a time, within
  its attempts and its cool-down; nothing of an earlier game survives; never stuck.
* *Requests*: one writer of the token and, as a comment has it, of the list; every wait ends, as there is always
  somebody to end it.
* *Client authentication*: one at a time; success means info of the server asked
  for; connections made of one answer; every authentication ends, if no empty write is in its way.
* *Server authentication*: only an account's own data is written to it; an account
  plays once; what was just fetched is not written back.
* *Ban system*: a set of accounts, whatever the file looks like, and what the server knew of it when it cannot be opened.
* *Script requests*: exactly one answer, to the scripts that asked.
* *Mods and files*: each file belongs to the enabled mod of the highest priority that has it, and the
  engine reads it from there, whatever was opened or added before; constants mean one mod; choices are kept.
* *Rpaks*: what is tracked is what is loaded; paks that mods want at all times stay; nothing recurs, and hooks nest
  no deeper than mods' paks follow each other.
* *Callbacks*: each is called once, after whatever it uses; no pass over them is to no purpose, and every load returns.

## 2. Modules

Each component has a module `X`, an `MCX` module that names a small instance, one or
two configurations, and a module `X_proofs`; the proofs of `DllCallbacks` and `RpakFilesystem`,
which reason about stacks of nested calls with the same lemmas, share `Hooks_proofs`. Operators whose comment begins with
"Mutant" are plausible mistakes in the code they stand beside; no specification uses
them. They document which mistake each property would notice.

### ServerPresence

`manager` is `ServerPresenceManager` with the convars it reads, `rep` the reporter with
the fields of `g_pMasterServerManager` it owns. The bodies of `RunFrame`,
`CreatePresence`, `ReportPresence` and `DestroyPresence` are functions on the reporter
(`Polled`, `Created`, `Reported`, `Destroyed`) which one frame composes in the order of
the code: `ReportFrame` is poll, create on the first update, report. A future is "none",
"running" or "ready"; the thread behind it ends in `AddServerDone` or `UpdateServerDone`
with any result the code can produce, and `get()` empties it. `removers` are the threads
of `DestroyPresence`, which read the id when they run. `entries` is the master server's
list, external. Time is counted down, in ticks, by `Tick`; the cool-down starts at any
value of `InitialCooldown`, for the field is never initialised.

An answer holds an id and a token in two optionals, which `Granted` copies one by one. The token granted with an id has
that id's value, so that `ownToken = ownId` says they belong together. An answer to `add_server` is a success only with
both; one to a heartbeat may hold either, both or none. `FreshIds` makes the ids the master server grants ids nothing refers
to any more.

### ServerAuth

A thread walks through `ProcessConnectionlessPacketSigreq1`: `Packet`, `CheckHandled`,
`MarkHandled`, `FetchPdata`, `AddRemotePlayer`, `Respond`; `contains` and `insert` of the
handled tokens are two steps. The main thread's hooks are one step each:
`ConnectClient` (the hooks of `CBaseServer::ConnectClient` and `CBaseClient::Connect`),
`ConnectBot`, `ActivatePlayer`, `EarlyWrite`, `Disconnect`, `ConnectionClosing`, `Ban`. Data is
named by the account it belongs to. `RemovePlayerAuthData` removes *some* entry of the uid:
the first in the order of a hash table.
`ConnectClient` is one step although the lock is released between `CheckAuthentication` and `AuthenticatePlayer`: slots and bans are
the main thread's alone, a request thread only adds entries, and an entry added in between belongs to another token, or is another
copy of the same account's data.

### ClientAuth

Every assignment a request thread makes to something the main thread polls is a step:
`FillPending` (address, then token and flag, then success, then current server), `ClearAuth`,
`ScriptClear`, `LeaveToLobby`. Calls on the main thread are one step each. Scripts connect the
way the natives are meant to be used: when no authentication is running and the last was
successful.

### MasterRequests

The three other requests with their flags. `ListWait` and `ListClaim` are two steps, as the loop
and the assignment are; so are the two assignments of each `REQUEST_END_CLEANUP`. Scripts ask for the list and clear it
whenever they like, as nothing in the natives keeps them from it.

### BanList and BanSystem

`BanList` is what the ban system promises: accounts on file (`banned`), accounts the server goes by (`known`), whether the file can be
opened (`access`), and checks that answer from the file if it can and from what is known if not. A ban or an unban changes the standing of
one account; it makes a missing file anew, and is lost on a locked one.

`BanSystem` is the code: `banlist.txt` as a set of lines (an account with a form: plain, with an
inline comment, or commented out), whether another program has `locked` it, the copy `m_vBannedUids`, commands in two steps around
the moment at which the file is written, and a check of one step per line, as other threads
may run in between. `Edit` is everything others may do to the file between two operations: change, make, delete, lock and release it. An open
that fails (`Opens`) leaves the copy as it was. `Abstract == INSTANCE BanList WITH banned <- Banned, known <- Known, access <- Access`: `Banned` is
what the file bans, or will once the command under way has written it; `Known` is the copy together with what a check has yet to read. Both
specifications name the last operation (`last`, history), so an unban that leaves the account banned cannot pass for an edit by hand.

### ScriptRequests

`buffer` is the content of each context's message buffer, `vm` the number of the VM it belongs
to. A request thread resolves, performs, reads the pointer to the buffer (`AsyncCall`) and pushes
(`Push`). When the VM whose buffer it found is gone, the push has no defined effect: the program
ends, or the answer is lost. `asked` is what scripts wait for, external: a VM keeps the handles it
was given and ignores answers with any other. Properties are about programs that go on.

### ModManager

One module for the mod manager, the compiled assets and the file system hooks, as their states are read and
written by each other's code. `Start` and `Reload` are `LoadMods` (with `UnloadMods` before it): `Readings` is what
reading the directories, in the order of the file system, may end in; each mod adds its constants one after
another, in the order of a hash table, until one clashes with a constant of an earlier mod (`Adds`), and only a mod
without a clash is loaded (`ReadSuccessfully`). `Sorted` is `std::sort`, which may order equals in any way.
`Registered` fills `m_ModFiles` from the last mod down. `Saved` is what a reload writes to `enabledmods.json`; the write may fail,
and an exit may cut it short. `m_bHasEnabledModsCfg` is any value at the start, for it is never
initialised. `SetModEnabled` changes a flag and no table.

`Open` is a whole `OpenEx` with the hooks of the cache and the archives: build what is built
(`CompileAssetsForFile`), look the path up, move its owner's directory to the head (`Opened`), and let the engine search
(`served`, history). `EngineAddsSearchPath` puts a path of the engine's in front and the hook puts the current mod's and the
compiled assets' before it. A path is a name without slashes; that the definition of persistent data is
entered under another spelling is `KeyOf`. External: the engine moves a path that is added again, and reads from
its archives unless the hook of the archives refuses.

### RpakFilesystem

`LoadPakAsyncHook` and `UnloadPakHook` call themselves through the functions they hook, so a state has a
stack of calls under way (`hooks`, the innermost is `inner`), and the actions are what happens between two calls: `Enter` (aliases, tracked
already, `bShouldLoadPaks`), `LoadNext`, `MapPaks`, `MapPaksEnd`, `EngineLoads` (load and track), `LoadEnds`;
`EnterUnload`, `UnloadNext`, `EngineUnloads`. What a hook has yet to load are positions of the list of the mods'
paks (`todo`), taken from the first on (`First`). `tracked` is `m_vLoadedPaks`, whose entry under -1 belongs to failed loads.
`UnloadMapPaks` erases, in the nested hook, the element its loop is at: the loop goes on, ends or crashes
(`crashed`). External: the engine gives handles that are not in use, or -1, and the game unloads handles it was given.

A name that a load has failed for can be loaded twice, which finding 3 is about; `Excused` says which names these
are, and `TrackedOnce` is about all others. The initial predicate and the rest are named `PaksInit`, `PaksNext` and
`PaksSpec`, as a module of proofs has both stacks.

### DllCallbacks

`Registered` is the list of callbacks in order of registration, `stack` the loads under way.
`CallbackBegins` goes on to the next callback whose tags have all been called, `CallbackReturns` sets its flag *after* the
call, as the code does, and `PassEnds` ends the loop or starts another pass. `LoadNested` is a callback that loads a library
itself (LatencyFlex). `MCDllCallbacks` has the 75 callbacks of the five DLLs with more than one, in the
order in which `RoninDLL.vcxproj` links their files, which is the order in which their objects are initialised.
`Uses` adds to `reliesOn` what a callback needs without saying so: those that make a `ConVar` or call
`RegisterConCommand`. `Level` is how deep a callback is in what it relies on, computed from the list; that it can be computed is
what `ReliesAssumption` needs, namely that no chain of reliance within a DLL comes back to where it began. External: `engine.dll` is loaded before `client.dll`, `server.dll` and `inputsystem.dll`.

### Composition

The models other than `ModManager` are separate because their states interleave without sharing anything but what
is named here. `BanSystem`'s checks appear in `ServerAuth` as a set `banned` (which `IsBanList`
justifies for one thread and a file that can be opened, and `BannedAreRefused` shows not to hold for two threads), and uploads
appear in `ServerAuth` as `writes` and in `ClientAuth` as `write` threads. Paks of enabled mods appear in `RpakFilesystem` as the
constant `Entries`: a reload builds the list anew and does not load or unload anything.

## 3. Runs

| Run | Shows | Instance, and why it is enough |
|---|---|---|
| `presence` | 4 invariants, where id and token may part, what a frame leaves under way, and 2 liveness properties of the presence | 2 ids (the one of this game and of the last), 2 attempts (first and last), update rate 1, cool-down 2 (longer than a report interval), initial cool-down 0 or 1. No other bound: the state space is finite (968 thousand states) |
| `auth` | 3 properties of the server authentication | 2 accounts, one token each, 2 slots (one that is used again while the other plays), 1 request thread at a time: with two threads, or two tokens for an account, the state space is too large to check in minutes, and what they add is left to the theorems, which hold for any number of both. 855 thousand states |
| `client_auth` | 4 properties of the client authentication, and that a flag that is set has a thread to reset it | 2 servers, 3 calls, 3 threads: an old thread, a new one and an upload; uploads of some data and of none. 253 thousand states |
| `requests` | types, 3 properties of the other requests, and that a flag that is set has a thread to reset it | 4 calls, 3 threads (two requests and the origin authentication they may wait for). `MaxCalls` bounds the liveness properties too: they are about any 4 calls. 104 thousand states |
| `list_race` (violation) | two threads may write the server list at once | same, without fairness |
| `ban` | refinement of `BanList`, completeness of the copy | 2 accounts, every set of lines, every edit, deletion and lock of the file, one thread. 59 thousand states |
| `ban_race` (violation) | a banned account may be allowed | 2 threads |
| `script` | 4 properties, and answers that come | 2 contexts, 2 threads, 2 requests, 3 VMs (one that replaces another), 1 command |
| `mods` | constants, owners of files, the file that is read, and choices that are kept | 3 mods: a low one, a high one, and a third with the name and the priority of the second and a constant that clashes with the first; 4 paths, one of each kind: in the archives and patched, in the game's directory, built from all mods, the definition of persistent data. No other bound |
| `paks` | 4 properties of the tracked and the loaded paks, and of how hooks nest | five paks of mods: three that are always loaded (two of them may fail; one of these also follows a pak of the game, and the third follows a map's), one that goes with a map and follows, by mistake, itself, and one that stands for a map the game does not have; an alias; handles 0 to 7 (`MaxHandle`): enough for a request with every pak it may load, while two others are loaded. 4 million states |
| `paks_failed` (violation) | a pak is loaded twice after a failed load | same |
| `loading` | order and completeness of callbacks, passes that call something, and loads that return | the 75 callbacks themselves, on a client and on a dedicated server: nothing is smaller than the program but what callbacks do |

Type invariants are theorems for every module; the run `requests` checks one as well, in which something can be out of its type
for a reason of the code (a malformed server gets into the list). `CHECK_DEADLOCK FALSE` stands where the number of calls is bounded, so that the model ends, and in `paks`, where a
crash ends the program. Symmetry is used only in runs without liveness properties.

Runs named as violations check what a comment of the code says, and TLC shows that the code
does otherwise. `PROJECT.json` quotes each comment under "findings":

1. A check of the ban list clears the copy another check is searching.
2. Two requests for the server list pass the wait for `m_bRequestingServerList` before either sets it, or `ClearServerList` resets it under
   a thread that holds it: two threads write the list at once.
3. A failed load of a pak stays tracked under -1 and hides a later, successful one of the same name.

### Other disagreements

These properties stand in the modules and state what a reader of the code, or one of its comments, would expect. No configuration lists
them, as the code violates them; each can be seen by adding it to the one named.

| Property | Add it to | Why it fails |
|---|---|---|
| `RemovesDestroyed` (PROPERTY) | `Presence.cfg`, with `InitialCooldown = {0}` | `DestroyPresence` empties the id and then starts the thread that formats it into its request |
| `LaterActivationsWrite` (PROPERTY) | `Auth.cfg`, with `Uids = {u1}`, `Tokens = {t1, t2}`, `Clients = {c1}` and no symmetry | `ActivatePlayer` takes a later activation for the first when the account has entries under two tokens |
| `BotsHaveNoRemoteData` (INVARIANT) | `Auth.cfg`, with `Uids = {u1}`, `Tokens = {t1, t2}` and no symmetry | `pNextPlayerToken` is read for fake players, outside the call it was set in |
| `SavedBeforeAuth` (PROPERTY) | `ClientAuth.cfg` | the saving flag is cleared by the first of several uploads |
| `AuthenticationAlwaysEnds` (PROPERTY) | `ClientAuth.cfg` | a write of size 0 sets `m_bSavingPersistentData` and returns without an upload that would reset it: an authentication then waits until another upload ends, or for ever (`masterserver.cpp`, lines 717 to 723) |
| `PdefServed` (INVARIANT) | `Mods.cfg` | `BuildPdef` enters the built definition of persistent data under a path with slashes (`modpdef.cpp`, lines 9 and 114), and `TryReplaceFile` looks paths up with backslashes, as the note in `modmanager.cpp`, line 286, says |

### Fairness

Weak fairness on the main thread's frames (the engine runs them for as long as the program does),
on time, and on each request thread: the operating system runs it, and
`CURLOPT_TIMEOUT` (30 seconds for the master server, at most 60 for scripts) ends every transfer.
Calls of scripts, players, operators and the engine's changes of state have no fairness. `AuthWithStryder`
is fair because, in the code's words, the "game will call this forever". In `DllCallbacks` the thread that loads a DLL runs, and
callbacks return (`WF_vars(Hook)`): without it a load could simply stop. That its loop ends is then a matter of the tags. `RegistrationSettles`
and `HeartbeatsContinue` are stated for servers that stay up and reported, as nothing promises
anything otherwise.

`AuthenticationEnds` needs no assumption on the data that is saved: `ClientAuth.cfg` has writes of size 0, and the property names the wait
they cause as the only one that may not end (`StuckOnEmptyWrite`). One assumption matters: `Requests.cfg` has a spare thread for the origin
authentication, as the system always has.

## 4. Proofs

TLAPS checks the eight modules of proofs; the theorems hold for every value of the constants that satisfies the ASSUMEs of the
module. Each follows the same path: an inductive invariant, `Init => IInv`,
`IInv /\ [Next]_vars => IInv'` with a step for each action, and the properties as consequences.

Every invariant and every action property that a passing run checks is stated by a theorem. Liveness is out of the prover's
reach; what of it can be said without fairness is proved as a safety property beside it. A wait ends if somebody is there to end it
(`FlagsHaveThreads`), reports go on if each leaves something under way (`NeverIdle`), an answer comes if its thread
or itself is on the way (`AnswerUnderWay`), and a loop ends if each pass gets something done (`EveryPassCalls`).

* **ServerPresence.** Types; what the answers in the two futures can hold: a registration's both id and token, which belong together, a
  heartbeat's any part of such a pair; no id while a registration
  is out; a ready registration counts as an attempt not yet counted, which relates `adds` (history) to
  `attempts`; no cool-down while a registration is out. `ReportsGoOn` says what each frame whose report is due leaves under way. It names one
  frame that sends no heartbeat although there is an id: the registration has just been granted, and the answer to a heartbeat of the
  presence before it has waited all the while. `PairingSafe` follows
  id and token through every copy and clear: whatever else happens in whatever order, only a frame that takes a half answer parts them.
* **ServerAuth.** What a slot's buffer holds is determined by its readiness: remote data is the
  data of the slot's own account, unless the account is a bot; a connected human with remote data has
  an entry until it activates, unless it was erased with a player of the same account, of which there is only
  one. The last part is what makes `FirstActivationWritesNothing` inductive.
* **ClientAuth.** One thread at most is in `AuthPlaces`, and the flag is set while one is; what
  this thread has filled in so far is what its place says; success implies that the filling is over. `WaitsHaveEnds` follows the
  three flags that are waited for to the thread that will reset each; the saving flag alone may be without one, after an empty write.
* **MasterRequests.** Who is between the start and the end of an origin authentication, and which flag that implies. Nothing of the kind holds
  for the list (finding 2), but `WaitsHaveEnds` does: whoever else resets a flag, none is left set by a thread that is gone.
* **BanSystem.** Under `Alone` (only the main thread checks) each step is a step of `BanList` or a stutter, whatever others do to the file
  between two operations. During a reload, what was read plus what is unread is the file (`Reading`), so the search at its end answers from it, or, if
  the file did not open, from what was known; a locked file counts as one others had, and nothing is about to be written to it (`Locks`).
  `CopyComplete` follows from the same invariant, and so does `BannedAreRefused` (`BannedRefusedAlone`): that the run `ban_race`
  finds it violated is due to the second thread and to nothing else.
* **ScriptRequests.** Nothing is under way without a VM (`NothingWithoutVm`); every request, thread and message carries a handle that was
  issued (`Issued`), so that a new request's is new; a thread whose handle its context waits for was started by the VM that is there
  now (`RequestsMatch`), which is `AnswersMatch` for answers yet to come. That answers come once and are not lost is inductive beside it.
* **ModManager.** That the engine reads a file from its owner needs two facts no property states: nothing but the directory
  of compiled assets is in front of the current mod's, whatever the engine has added (`InFront`), and this directory has a file just
  when the table says so (`Compiled`). `OwnersWin` is proved from what the last of a sequence sorted by priority is. `ReloadsKeepChoices` is an
  action property: what a reload that can write the file leaves in it agrees, for every mod there was and is, with what was chosen. The assumptions are
  that the set of mods is finite, that a mod gives each of its constants one meaning, and that a missing or an unreadable file is not taken for
  one with settings (`FileAssumption`).
* **DllCallbacks** (in `Hooks_proofs`). A load knows how far its pass has come: every callback before that place which relies on nothing has been
  called (`Passed`); the tags recorded are those of the callbacks that were called, in an order in which each comes after what it
  uses (`Recorded`, `InOrder`). `UnstatedAssumption` is what the unstated uses need: what is used belongs to a DLL that was loaded before,
  or is registered earlier for the same DLL and relies on nothing. TLC evaluates it on the real list: the order of the files in the
  project is a part of the program. `PassesCall` needs `ReliesAssumption` instead: of the callbacks a load has still to call, one on the
  lowest `Level` has everything it relies on behind it, so that a pass that begins has something to call.
* **RpakFilesystem** (in `Hooks_proofs`, from `PaksInv`). What is tracked is what is loaded but for what the calls under way have still to do
  (`Accounted`, `PostsDiffer`), and a name is tracked once or excused (`Unique`). The heart of it is which calls can be inside which. The first load of the game gathers
  the paks that are always wanted and those that follow them (`Wanted`, the least set with these two properties); those of them that
  cannot fail are loaded then and never again (`Lasting`, `Established`). While that load is under way, all of them are there, or arriving, or
  still to do for some call on the stack (`Gathering`), which is why a later hook that gathers again finds each of them
  tracked and returns. The proof found what a smaller instance had not: a pak of a mod that fails may be loaded twice within one request,
  and such names had to be excused. `NestingIsBounded` counts: the calls between the
  game's and the innermost one are of different paks that others follow, and at most one is gathering. `LoadedOnceUnlessFailed` says that finding 3 is
  due to failed loads and to nothing else.

Only model-checked: the liveness properties (`RegistrationSettles`, `HeartbeatsContinue`, `AuthenticationEnds`, `ListEnds`, `PromosFollowAuth`,
`RequestsAnswered`, `LoadsEnd`), as fairness is out of the prover's reach, and the properties that the runs show violated, as far as they
do not hold under the assumptions named above.

## 5. Not modelled, and why

Within the modelled components: texts, names, passwords and the content of persistent data (no
decision depends on them); the special cases of a listen server in `ServerAuth` (`m_bStartingLocalSPGame`,
`m_bNeedLocalAuthForNewgame`, the local player's reset); the decoding and authentication of packets in
`servernethooks.cpp`; torn reads of single flags (each is one byte); data races inside the standard library's
containers, which have no defined outcome at all. `ScriptRequests` leaves out
`-disablehttprequests`, under which there are no requests. `ModManager` leaves out what a `mod.json` holds beyond constants
and priority, the archives of mods, and convars, commands and audio, whose
registration changes nothing the hooks look at; `RpakFilesystem` leaves out starpaks, which depend on no state but the mods' tables;
`DllCallbacks` the parsing of offsets and the creation of hooks.

Observations made on the way which no property states, because the outcome is undefined, harmless or a choice of design:

* `dRpakJson["Postload"]` is read for every pak of a mod without `rpak.json` (`modmanager.cpp`, line 586), a member of a null
  document.
* Search paths of mods are never removed: the files of a mod that was disabled, if nobody overrides them and the archives do not have them, are
  read from its directory until the game ends.
* A file of no archive that is built a second time has the first build as its original; after a reload it may be built from it.
* Choices are lost when `m_bHasEnabledModsCfg`, never initialised, is true by chance (the document is then null), and may be when a write of
  `enabledmods.json` fails or is cut short: `ChoicesKept` is about reloads that write.
* A player who does not agree to send the token leaves a thread waiting for each request of the promos.
* `UnbanUID` truncates the file before it writes the lines back: a check on a request thread in between answers from an empty list.
* Mods with the same name share an entry of `enabledmods.json`; the later one's flag wins.
* Any unload, also that of a pak that is no map, unloads the paks of the map; a pak that replaced a missing map is tracked
  under the map's name and can be loaded again under its own.
* A pak that is always loaded, has failed, fails again and wants to follow the pak under way is loaded twice within one request. Of two paks that
  fail and follow each other, or of one that fails and follows itself, the hook loads one within the other without end, as a failed load is
  tracked under -1 at most, and -1 counts as not loaded: `LoadsDoNotRecur` and `NestingBounded` are about paks that cannot fail.
* The hooks of `LoadLibrary` take no lock, and `bReadingOriginalFile` is one global: both rely on one thread.

The other components are listed in `PROJECT.json` with the reason: pure input and output, raw memory
and patches, vendored code, or later in the plan.

## 6. Plan

Done: all nine models and the proofs of their safety properties.

Left, in this order of what they would add:

1. Composition of `BanSystem` with `ServerAuth`, and of `ServerAuth` with the uploads of `ClientAuth` (what is fetched is
   what was last written); listen servers.
2. **Input playback** (`fzzy/tas`, `fzzy/ckf`): frames, holds and a release that overtakes its press.
3. **Plugins** and game presence: requests for the game's state from other threads.
4. Pure algorithms against reference definitions: bit buffers, LZSS, the UTF-8 check, convar conversion, data tables.
5. Proofs across modules: that the set of accounts `ServerAuth` takes for the ban list is the one `BanList` promises.
