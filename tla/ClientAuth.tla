----------------------------- MODULE ClientAuth -----------------------------
(***************************************************************************)
(* How a client gets onto a game server through the master server.         *)
(*                                                                         *)
(* The main thread runs the UI scripts and console commands: they start    *)
(* AuthenticateWithServer, AuthenticateWithOwnServer and                   *)
(* WritePlayerPersistentData, each of which leaves a detached thread       *)
(* behind, and learn of the outcome by polling plain flags that the        *)
(* threads set.  A call on the main thread is one step; a thread takes one *)
(* step per flag it sets.                                                  *)
(*                                                                         *)
(* The scripts are not in the repository.  They connect once they saw that *)
(* no authentication is running and that the last one was successful.      *)
(* m_bSuccessfullyConnected, which no decision depends on, is left out.    *)
(***************************************************************************)
EXTENDS Naturals

CONSTANTS
    Threads,        \* threads that can be alive at once
    Servers,        \* the game servers in the server list
    NoServer,
    PdataSizes,     \* the sizes of persistent data: "zero", "some"
    MaxCalls        \* bound: calls the main thread makes

ASSUME ClientAssumption ==
    /\ NoServer \notin Servers
    /\ PdataSizes \subseteq {"zero", "some"}
    /\ MaxCalls \in Nat

VARIABLES
    thread,         \* the request threads
    authenticating, \* m_bAuthenticatingWithGameServer
    scriptAuth,     \* m_bScriptAuthenticatingWithGameServer
    successful,     \* m_bSuccessfullyAuthenticatedWithGameServer
    hasPending,     \* m_bHasPendingConnectionInfo
    pending,        \* m_pendingConnectionInfo: address and token
    current,        \* m_currentServer
    ownData,        \* m_RemoteAuthenticationData holds our own token
    newgame,        \* m_bNewgameAfterSelfAuth
    leaving,        \* ns_end_reauth_and_leave_to_lobby is in the command buffer
    saving,         \* m_bSavingPersistentData
    asked,          \* history: the server asked for last, NoServer for our own
    empty,          \* history: no upload ended since an empty write
    calls           \* bounded by MaxCalls

authFlags == <<authenticating, scriptAuth, successful>>
vars == <<thread, authFlags, hasPending, pending, current, ownData, newgame,
          leaving, saving, asked, empty, calls>>

Places == {"savewait", "server", "address", "token", "announce", "current",
           "own", "store", "proclaim", "failed", "scriptfailed", "clear",
           "scriptclear", "leave", "reset", "write", "written"}
ServerPlaces == {"savewait", "server", "address", "token", "announce", "current",
                 "failed", "scriptfailed", "clear", "scriptclear"}

\* Only the threads of AuthenticateWithServer have a server.
ThreadStates ==
    [pc : {"idle"} \cup Places, server : {NoServer}]
    \cup [pc : ServerPlaces, server : Servers]

\* Threads are where the code has them, and flags are flags.
TypeOK ==
    /\ thread \in [Threads -> ThreadStates]
    /\ authenticating \in BOOLEAN /\ scriptAuth \in BOOLEAN /\ successful \in BOOLEAN
    /\ hasPending \in BOOLEAN
    /\ pending \in [address : Servers \cup {NoServer}, token : Servers \cup {NoServer}]
    /\ current \in Servers \cup {NoServer}
    /\ ownData \in BOOLEAN /\ newgame \in BOOLEAN /\ leaving \in BOOLEAN
    /\ saving \in BOOLEAN
    /\ asked \in Servers \cup {NoServer} /\ empty \in BOOLEAN
    /\ calls \in 0..MaxCalls

Idle == {th \in Threads : thread[th].pc = "idle"}

Init ==
    /\ thread = [th \in Threads |-> [pc |-> "idle", server |-> NoServer]]
    /\ authenticating = FALSE /\ scriptAuth = FALSE /\ successful = FALSE
    /\ hasPending = FALSE
    /\ pending = [address |-> NoServer, token |-> NoServer]
    /\ current = NoServer
    /\ ownData = FALSE /\ newgame = FALSE /\ leaving = FALSE /\ saving = FALSE
    /\ asked = NoServer /\ empty = FALSE
    /\ calls = 0

-----------------------------------------------------------------------------
(* The main thread.                                                         *)

Call == calls < MaxCalls /\ calls' = calls + 1

\* Mutants: the flags of the last authentication stay; a second one may start.
BeginAuthKeepingSuccess(server) ==
    /\ authenticating' = TRUE /\ scriptAuth' = TRUE /\ UNCHANGED successful
    /\ asked' = server
BeginAuth(server) ==
    /\ authenticating' = TRUE /\ scriptAuth' = TRUE /\ successful' = FALSE
    /\ asked' = server

MayBeginAlways == TRUE
MayBegin == ~authenticating

\* The writes of a local server's players, each on a thread of its own; the
\* flag is set for data of any size, and empty data starts no thread.
SavingAfter(saves, zero) == saving \/ saves # {} \/ zero

\* NSTryAuthWithServer: write what the local server holds, then authenticate
\* unless an authentication is running: such a call is dropped, and the script is
\* not told.
TryAuthWithServer ==
    /\ Call
    /\ \E server \in Servers, th \in Idle, saves \in SUBSET Idle, sizes \in SUBSET PdataSizes :
         /\ th \notin saves
         /\ "some" \in sizes <=> saves # {}
         /\ saving' = SavingAfter(saves, "zero" \in sizes)
         /\ empty' = (empty \/ "zero" \in sizes)
         /\ IF MayBegin THEN BeginAuth(server) ELSE UNCHANGED <<authFlags, asked>>
         /\ thread' = [t \in Threads |->
              CASE t \in saves -> [pc |-> "write", server |-> NoServer]
                [] t = th /\ MayBegin -> [pc |-> "savewait", server |-> server]
                [] OTHER -> thread[t]]
    /\ UNCHANGED <<hasPending, pending, current, ownData, newgame, leaving>>

AuthenticateWithOwnServer ==
    \E th \in Idle :
      IF MayBegin
      THEN /\ BeginAuth(NoServer)
           /\ thread' = [thread EXCEPT ![th].pc = "own"]
      ELSE UNCHANGED <<thread, authFlags, asked>>

\* NSTryAuthWithLocalServer
TryAuthWithLocalServer ==
    /\ Call
    /\ AuthenticateWithOwnServer
    /\ UNCHANGED <<hasPending, pending, current, ownData, newgame, leaving, saving, empty>>

\* ns_start_reauth_and_leave_to_lobby
StartReauth ==
    /\ Call
    /\ newgame' = TRUE
    /\ AuthenticateWithOwnServer
    /\ UNCHANGED <<hasPending, pending, current, ownData, leaving, saving, empty>>

\* ns_end_reauth_and_leave_to_lobby leaves for the lobby, with our own token if
\* we hold one.
EndReauth ==
    /\ leaving
    /\ leaving' = FALSE
    /\ UNCHANGED <<thread, authFlags, hasPending, pending, current, ownData,
                   newgame, saving, asked, empty, calls>>

\* Our own player left the local server, or activated there: its entry goes.
EraseOwnData ==
    /\ ownData
    /\ ownData' = FALSE
    /\ UNCHANGED <<thread, authFlags, hasPending, pending, current, newgame,
                   leaving, saving, asked, empty, calls>>

\* WritePlayerPersistentData, called while playing on a local server.
WritePersistence ==
    /\ Call
    /\ saving' = TRUE
    /\ \E size \in PdataSizes, th \in Idle :
         /\ thread' = IF size = "zero" THEN thread ELSE [thread EXCEPT ![th].pc = "write"]
         /\ empty' = (empty \/ size = "zero")
    /\ UNCHANGED <<authFlags, hasPending, pending, current, ownData, newgame,
                   leaving, asked>>

\* NSConnectToAuthedServer, called the way the scripts do.
ConnectToAuthedServer ==
    /\ ~scriptAuth /\ successful
    /\ hasPending
    /\ hasPending' = FALSE
    /\ UNCHANGED <<thread, authFlags, pending, current, ownData, newgame,
                   leaving, saving, asked, empty, calls>>

-----------------------------------------------------------------------------
(* The request threads.                                                     *)

At(th, pc) == thread[th].pc = pc

Goto(th, pc) ==
    thread' = [thread EXCEPT ![th] =
      [pc |-> pc, server |-> IF pc = "idle" THEN NoServer ELSE @.server]]

mainVars == <<newgame, leaving, saving, asked, empty, calls>>

\* while (m_bSavingPersistentData) Sleep(100);
WaitForSaves(th) == At(th, "savewait") /\ ~saving /\ Goto(th, "server")

SaveWait(th) ==
    /\ WaitForSaves(th)
    /\ UNCHANGED <<authFlags, hasPending, pending, current, ownData, mainVars>>

\* The answer to /client/auth_with_server, or to /client/auth_with_self.
Answer(th) ==
    /\ \/ At(th, "server") /\ \E pc \in {"address", "clear", "failed"} : Goto(th, pc)
       \/ At(th, "own") /\ \E pc \in {"store", "clear", "failed"} : Goto(th, pc)
    /\ UNCHANGED <<authFlags, hasPending, pending, current, ownData, mainVars>>

\* The connection info, its flag, and success, in this order.
\* Mutant: success is announced before the info is there.
AnnounceFirst(th) ==
    \/ /\ At(th, "address") /\ Goto(th, "token")
       /\ successful' = TRUE
       /\ UNCHANGED <<hasPending, pending, current>>
    \/ /\ At(th, "token") /\ Goto(th, "announce")
       /\ pending' = [pending EXCEPT !.address = thread[th].server]
       /\ UNCHANGED <<hasPending, successful, current>>
    \/ /\ At(th, "announce") /\ Goto(th, "current")
       /\ pending' = [pending EXCEPT !.token = thread[th].server]
       /\ hasPending' = TRUE
       /\ UNCHANGED <<successful, current>>
    \/ /\ At(th, "current") /\ Goto(th, "clear")
       /\ current' = thread[th].server
       /\ UNCHANGED <<hasPending, pending, successful>>
FillPending(th) ==
    \/ /\ At(th, "address") /\ Goto(th, "token")
       /\ pending' = [pending EXCEPT !.address = thread[th].server]
       /\ UNCHANGED <<hasPending, successful, current>>
    \/ /\ At(th, "token") /\ Goto(th, "announce")
       /\ pending' = [pending EXCEPT !.token = thread[th].server]
       /\ hasPending' = TRUE
       /\ UNCHANGED <<successful, current>>
    \/ /\ At(th, "announce") /\ Goto(th, "current")
       /\ successful' = TRUE
       /\ UNCHANGED <<hasPending, pending, current>>
    \/ /\ At(th, "current") /\ Goto(th, "clear")
       /\ current' = thread[th].server
       /\ UNCHANGED <<hasPending, pending, successful>>

ServerAuthed(th) ==
    /\ FillPending(th)
    /\ UNCHANGED <<authenticating, scriptAuth, ownData, mainVars>>

\* Our own token replaces whatever authentication data there was.
OwnAuthed(th) ==
    /\ \/ /\ At(th, "store") /\ Goto(th, "proclaim")
          /\ ownData' = TRUE
          /\ UNCHANGED successful
       \/ /\ At(th, "proclaim") /\ Goto(th, "clear")
          /\ successful' = TRUE
          /\ UNCHANGED ownData
    /\ UNCHANGED <<authenticating, scriptAuth, hasPending, pending, current, mainVars>>

\* The transfer failed: curl returned an error.
Failed(th) ==
    /\ \/ /\ At(th, "failed") /\ Goto(th, "scriptfailed")
          /\ successful' = FALSE /\ UNCHANGED scriptAuth
       \/ /\ At(th, "scriptfailed") /\ Goto(th, "clear")
          /\ scriptAuth' = FALSE /\ UNCHANGED successful
    /\ UNCHANGED <<authenticating, hasPending, pending, current, ownData, mainVars>>

\* REQUEST_END_CLEANUP clears the two flags one after the other.
\* Mutant: only a successful request gets there.
ClearOnSuccess(th) ==
    /\ At(th, "clear") /\ Goto(th, "scriptclear")
    /\ authenticating' = (authenticating /\ ~successful)
ClearAuth(th) ==
    /\ At(th, "clear") /\ Goto(th, "scriptclear")
    /\ authenticating' = FALSE

Clear(th) ==
    /\ ClearAuth(th)
    /\ UNCHANGED <<scriptAuth, successful, hasPending, pending, current,
                   ownData, mainVars>>

ScriptClear(th) ==
    /\ At(th, "scriptclear")
    /\ Goto(th, IF thread[th].server = NoServer THEN "leave" ELSE "idle")
    /\ scriptAuth' = FALSE
    /\ UNCHANGED <<authenticating, successful, hasPending, pending, current,
                   ownData, mainVars>>

\* The end of AuthenticateWithOwnServer: the command, and then the flag.
LeaveToLobby(th) ==
    /\ \/ /\ At(th, "leave") /\ ~newgame /\ Goto(th, "idle")
          /\ UNCHANGED <<leaving, newgame>>
       \/ /\ At(th, "leave") /\ newgame /\ Goto(th, "reset")
          /\ leaving' = TRUE /\ UNCHANGED newgame
       \/ /\ At(th, "reset") /\ Goto(th, "idle")
          /\ newgame' = FALSE /\ UNCHANGED leaving
    /\ UNCHANGED <<authFlags, hasPending, pending, current, ownData, saving,
                   asked, empty, calls>>

\* The upload ends, and then the flag is cleared, whoever else is uploading.
Uploaded(th) ==
    /\ At(th, "write") /\ Goto(th, "written")
    /\ UNCHANGED <<authFlags, hasPending, pending, current, ownData, mainVars>>

SaveDone(th) ==
    /\ At(th, "written") /\ Goto(th, "idle")
    /\ saving' = FALSE /\ empty' = FALSE
    /\ UNCHANGED <<authFlags, hasPending, pending, current, ownData, newgame,
                   leaving, asked, calls>>

Run(th) ==
    \/ SaveWait(th) \/ Answer(th) \/ ServerAuthed(th) \/ OwnAuthed(th)
    \/ Failed(th) \/ Clear(th) \/ ScriptClear(th) \/ LeaveToLobby(th)
    \/ Uploaded(th) \/ SaveDone(th)

Next ==
    \/ TryAuthWithServer \/ TryAuthWithLocalServer \/ StartReauth \/ EndReauth
    \/ EraseOwnData \/ WritePersistence \/ ConnectToAuthedServer
    \/ \E th \in Threads : Run(th)

Spec == Init /\ [][Next]_vars

\* Threads run, and requests end: curl gives up after 30 seconds.
FairSpec == Spec /\ \A th \in Threads : WF_vars(Run(th))

-----------------------------------------------------------------------------
(* Properties.                                                              *)

\* Busy: between the check of m_bAuthenticatingWithGameServer and its reset.
AuthPlaces == {"savewait", "server", "address", "token", "announce", "current",
               "own", "store", "proclaim", "failed", "scriptfailed", "clear"}
Busy(th) == thread[th].pc \in AuthPlaces

\* However late the threads clear the two flags, at most one authentication
\* is between its start and the reset of m_bAuthenticatingWithGameServer, and
\* the flag is set for as long ("dont wait, just stop if we're trying to do 2
\* auth requests at once").
OneAuthentication ==
    \A th, other \in Threads :
      Busy(th) => authenticating /\ (Busy(other) => other = th)

\* Whoever waits for one of the flags waits for a thread that is going to reset it:
\* m_bAuthenticatingWithGameServer, the flag the scripts poll, and
\* m_bSavingPersistentData.  No thread ends and leaves one set, and none that resets
\* one for itself leaves another thread's without an owner; the one write that sets a
\* flag for nobody is that of empty data, until the end of an upload resets it.
FlagsHaveThreads ==
    /\ authenticating => \E th \in Threads : Busy(th)
    /\ scriptAuth => \E th \in Threads : Busy(th) \/ At(th, "scriptclear")
    /\ saving /\ ~empty => \E th \in Threads : At(th, "write") \/ At(th, "written")

\* Once an authentication counts as successful, the pending connection info
\* is that of the server asked for last, whole, and not what an earlier
\* request left (AuthenticateWithServer resets success first, sets it last).
AuthedWhatWasAsked ==
    successful /\ asked # NoServer =>
      pending = [address |-> asked, token |-> asked]

\* A connection goes to the address and with the token of one answer, though
\* the flag scripts poll may be reset by the thread of an earlier request
\* while a later one fills the info in (NSConnectToAuthedServer).
ConnectsToOneServer ==
    [][hasPending /\ ~hasPending' => pending.address = pending.token]_vars

\* Every authentication ends, whatever the answers (m_bAuthenticatingWithGameServer
\* is reset on each path to REQUEST_END_CLEANUP, after the saves it waits for), with
\* one exception: it waits on the flag of an empty write, which the early return of
\* WritePlayerPersistentData leaves set.
StuckOnEmptyWrite == empty /\ \E th \in Threads : At(th, "savewait")
AuthenticationEnds == authenticating ~> (~authenticating \/ StuckOnEmptyWrite)

\* The same without exception, as AuthenticateWithServer supposes when it waits for
\* "any persistence saving" to be done.  Empty writes break it.
AuthenticationAlwaysEnds == authenticating ~> ~authenticating

\* The comment in AuthenticateWithServer, "esnure that any persistence saving
\* is done, so we know masterserver has newest": no upload is running when the
\* wait ends.
SavedBeforeAuth ==
    [][\A th, other \in Threads :
         At(th, "savewait") /\ thread'[th].pc = "server" => ~At(other, "write")]_vars
=============================================================================
