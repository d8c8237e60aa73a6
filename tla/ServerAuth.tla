----------------------------- MODULE ServerAuth -----------------------------
(***************************************************************************)
(* How a dedicated server lets players in and keeps their persistence.     *)
(*                                                                         *)
(* Atlas (the master server) announces a player with a connect packet, as  *)
(* often as it likes; each packet is handled by a thread of its own        *)
(* (ProcessConnectionlessPacketSigreq1), which fetches the player's data   *)
(* and leaves it in m_RemoteAuthenticationData under the player's token.   *)
(* On the main thread the engine connects, activates (once per map) and    *)
(* disconnects clients; the hooks of server/auth/serverauthentication.cpp  *)
(* check the token, copy the data to the client, and write it back.        *)
(*                                                                         *)
(* The data of an account is named by its uid: what matters is whose data  *)
(* a buffer holds.  Settings of a listen server (a local player, a local   *)
(* single player game) are off: this is a dedicated server.                *)
(***************************************************************************)
EXTENDS Naturals

CONSTANTS
    Uids, Tokens,      \* accounts, and the connection tokens Atlas hands out
    UidOf,             \* the account a token was issued to
    Clients,           \* the engine's client slots, g_pClientArray
    Threads,           \* request threads that can be alive at once
    BotUid,            \* m_UID of a fake player
    None,              \* no token, no uid, no data
    AllowInsecure,     \* ns_auth_allow_insecure
    EraseAuthInfo      \* ns_erase_auth_info

ASSUME AuthAssumption ==
    /\ UidOf \in [Tokens -> Uids]
    /\ BotUid \notin Uids
    /\ None \notin Uids \cup Tokens
    /\ BotUid # None
    /\ AllowInsecure \in BOOLEAN
    /\ EraseAuthInfo \in BOOLEAN

VARIABLES
    thread,     \* the connect-request threads
    handled,    \* m_handledServerConnections
    auth,       \* m_RemoteAuthenticationData: the tokens with data
    client,     \* CBaseClient: uid, persistence state and buffer
    player,     \* m_PlayerAuthenticationData
    nextToken,  \* pNextPlayerToken
    banned,     \* the ban system's list
    writes      \* write_persistence requests in flight

vars == <<thread, handled, auth, client, player, nextToken, banned,
          writes>>

ThreadStates ==
    [pc : {"idle"}, token : {None}]
    \cup [pc : {"entered", "marking", "fetching", "adding", "answering"},
          token : Tokens]

AnyUid == Uids \cup {BotUid, None}
Writes == [uid : AnyUid, data : AnyUid]

\* What a free slot holds.  activated is history: activated since it connected.
FreeClient ==
    [connected |-> FALSE, uid |-> None, ready |-> "NOT_READY", data |-> None,
     activated |-> FALSE]

\* Threads, clients and maps keep their types.
TypeOK ==
    /\ thread \in [Threads -> ThreadStates]
    /\ handled \subseteq Tokens
    /\ auth \subseteq Tokens
    /\ client \in [Clients ->
         [connected : BOOLEAN, uid : AnyUid,
          ready : {"NOT_READY", "READY_INSECURE", "READY_REMOTE"},
          data : AnyUid, activated : BOOLEAN]]
    /\ player \in [Clients -> {"absent", "write", "written"}]
    /\ nextToken \in Tokens \cup {None}
    /\ banned \subseteq Uids
    /\ writes \subseteq Writes

Init ==
    /\ thread = [th \in Threads |-> [pc |-> "idle", token |-> None]]
    /\ handled = {} /\ auth = {}
    /\ client = [c \in Clients |-> FreeClient]
    /\ player = [c \in Clients |-> "absent"]
    /\ nextToken = None
    /\ banned \in SUBSET Uids
    /\ writes = {}

-----------------------------------------------------------------------------
(* Connect requests: ProcessConnectionlessPacketSigreq1, step by step.      *)

mainVars == <<client, player, nextToken, banned, writes>>

Goto(th, pc) ==
    thread' = [thread EXCEPT ![th] =
                 [pc |-> pc, token |-> IF pc = "idle" THEN None ELSE @.token]]
At(th, pc) == thread[th].pc = pc

\* A packet, a retransmission included, starts a thread.
Packet(th) ==
    /\ At(th, "idle")
    /\ \E token \in Tokens :
         thread' = [thread EXCEPT ![th] = [pc |-> "entered", token |-> token]]
    /\ UNCHANGED <<handled, auth, mainVars>>

\* m_handledServerConnections.contains(token)
CheckHandled(th) ==
    /\ At(th, "entered")
    /\ Goto(th, IF thread[th].token \in handled THEN "idle" ELSE "marking")
    /\ UNCHANGED <<handled, auth, mainVars>>

\* insert(token), then the ban check.
MarkHandled(th) ==
    /\ At(th, "marking")
    /\ handled' = handled \cup {thread[th].token}
    /\ Goto(th, IF UidOf[thread[th].token] \in banned THEN "answering" ELSE "fetching")
    /\ UNCHANGED <<auth, mainVars>>

\* The request for the player's data, which may fail.
FetchPdata(th) ==
    /\ At(th, "fetching")
    /\ \E pc \in {"adding", "idle"} : Goto(th, pc)
    /\ UNCHANGED <<handled, auth, mainVars>>

AddRemotePlayer(th) ==
    /\ At(th, "adding")
    /\ auth' = auth \cup {thread[th].token}
    /\ Goto(th, "answering")
    /\ UNCHANGED <<handled, mainVars>>

\* Accepts or rejects the connection at Atlas; the request may fail.
Respond(th) ==
    /\ At(th, "answering")
    /\ Goto(th, "idle")
    /\ UNCHANGED <<handled, auth, mainVars>>

-----------------------------------------------------------------------------
(* Clients, on the main thread.                                             *)

requestVars == <<thread, handled>>

Connected == {c \in Clients : client[c].connected}

\* Every slot counts; the engine leaves no account's uid in a free one.
IsDuplicateAccount(c, uid) ==
    \E other \in Clients \ {c} : client[other].uid = uid

\* Mutants: a token is good whoever it was issued to; accounts may connect twice.
CheckTokenOnly(c, uid, token) ==
    AllowInsecure \/ (~IsDuplicateAccount(c, uid) /\ token \in auth)
CheckDuplicable(c, uid, token) ==
    AllowInsecure \/ (token \in auth /\ UidOf[token] = uid)
CheckAuthentication(c, uid, token) ==
    \/ AllowInsecure
    \/ ~IsDuplicateAccount(c, uid) /\ token \in auth /\ UidOf[token] = uid

\* AuthenticatePlayer and AddPlayer, after the engine's Connect.  AddPlayer
\* inserts: an entry left over from the slot's last player stays as it is.
Authenticated(c, uid, token, bot) ==
    /\ client' = [client EXCEPT ![c] =
         [connected |-> TRUE, uid |-> uid, activated |-> FALSE,
          ready |-> CASE token \in auth -> "READY_REMOTE"
                      [] token \notin auth /\ (AllowInsecure \/ bot) -> "READY_INSECURE"
                      [] OTHER -> "NOT_READY",
          data |-> IF token \in auth THEN UidOf[token] ELSE client[c].data]]
    /\ player' = [player EXCEPT ![c] = IF @ = "absent" THEN "write" ELSE @]

\* CBaseServer::ConnectClient, which remembers the token, and CBaseClient::
\* Connect.  A rejected client (a bad name included) leaves the token behind.  The
\* map is locked for the check and again for the copy; in between request threads
\* can only add to it, so that one step has the same outcomes as two.
ConnectClient(c) ==
    /\ ~client[c].connected
    /\ \E uid \in Uids, token \in Tokens \cup {None} :
         /\ nextToken' = token
         /\ \/ /\ uid \notin banned
               /\ CheckAuthentication(c, uid, token)
               /\ Authenticated(c, uid, token, FALSE)
            \/ UNCHANGED <<client, player>>
    /\ UNCHANGED <<requestVars, auth, banned, writes>>

\* The engine connects a fake player; the hook takes whatever token is left.
ConnectBot(c) ==
    /\ ~client[c].connected
    /\ Authenticated(c, BotUid, nextToken, TRUE)
    /\ UNCHANGED <<requestVars, auth, nextToken, banned, writes>>

AuthDataOf(uid) == {token \in auth : UidOf[token] = uid}

\* The first entry with the client's uid, in the order of a hash table, goes.
\* Mutant: every entry goes, the data of other players included.
RemoveAllAuthData(c) == auth' = {}
RemovePlayerAuthData(c) ==
    IF EraseAuthInfo /\ AuthDataOf(client[c].uid) # {}
    THEN \E token \in AuthDataOf(client[c].uid) : auth' = auth \ {token}
    ELSE UNCHANGED auth

WritePersistentData(c) ==
    writes' = IF client[c].ready = "READY_REMOTE"
              THEN writes \cup {[uid |-> client[c].uid, data |-> client[c].data]}
              ELSE writes

\* CBaseClient::ActivatePlayer, on connecting and on every map load.
\* Mutant: it writes whether or not there was authentication data to remove.
WritesAlways(c) == client[c].ready # "NOT_READY"
WritesOnActivate(c) ==
    /\ client[c].ready # "NOT_READY"
    /\ ~(EraseAuthInfo /\ AuthDataOf(client[c].uid) # {})

ActivatePlayer(c) ==
    /\ client[c].connected
    /\ client' = [client EXCEPT ![c].activated = TRUE]
    /\ IF client[c].ready # "NOT_READY" THEN RemovePlayerAuthData(c)
                                        ELSE UNCHANGED auth
    /\ IF WritesOnActivate(c) THEN WritePersistentData(c) ELSE UNCHANGED writes
    /\ UNCHANGED <<requestVars, player, nextToken, banned>>

\* NSEarlyWritePlayerPersistenceForLeave
EarlyWrite(c) ==
    /\ client[c].connected
    /\ player[c] # "absent"
    /\ player' = [player EXCEPT ![c] = "written"]
    /\ WritePersistentData(c)
    /\ UNCHANGED <<requestVars, auth, client, nextToken, banned>>

\* CBaseClient::Disconnect: write, clear the buffer, forget the player.  The entry
\* that operator[] makes for an unknown player is forgotten at once.
\* Mutant: the buffer is cleared before it is written.
WriteOnLeaveCleared(c) ==
    writes' = IF player[c] = "write" /\ client[c].ready = "READY_REMOTE"
              THEN writes \cup {[uid |-> client[c].uid, data |-> None]}
              ELSE writes
WriteOnLeave(c) ==
    IF player[c] = "write" THEN WritePersistentData(c) ELSE UNCHANGED writes

Leave(c) ==
    /\ WriteOnLeave(c)
    /\ RemovePlayerAuthData(c)
    /\ player' = [player EXCEPT ![c] = "absent"]
    /\ client' = [client EXCEPT ![c] = FreeClient]

Disconnect(c) ==
    /\ client[c].connected
    /\ Leave(c)
    /\ UNCHANGED <<requestVars, nextToken, banned>>

\* "Connection closing": only the engine's part; entry and buffer stay.
ConnectionClosing(c) ==
    /\ client[c].connected
    /\ client' = [client EXCEPT ![c] = [FreeClient EXCEPT !.data = client[c].data]]
    /\ UNCHANGED <<requestVars, auth, player, nextToken, banned, writes>>

\* ConCommand_ban bans and disconnects a player, ConCommand_unban lifts a ban.
Ban(c) ==
    /\ client[c].connected /\ client[c].uid \in Uids
    /\ banned' = banned \cup {client[c].uid}
    /\ Leave(c)
    /\ UNCHANGED <<requestVars, nextToken>>

Unban ==
    /\ \E uid \in banned : banned' = banned \ {uid}
    /\ UNCHANGED <<requestVars, auth, client, player, nextToken, writes>>

\* WritePlayerPersistentData's thread ends, successfully or not.
WriteDone ==
    /\ \E w \in writes : writes' = writes \ {w}
    /\ UNCHANGED <<requestVars, auth, client, player, nextToken, banned>>

Next ==
    \/ \E th \in Threads :
         \/ Packet(th) \/ CheckHandled(th) \/ MarkHandled(th)
         \/ FetchPdata(th) \/ AddRemotePlayer(th) \/ Respond(th)
    \/ \E c \in Clients :
         \/ ConnectClient(c) \/ ConnectBot(c) \/ ActivatePlayer(c)
         \/ EarlyWrite(c) \/ Disconnect(c) \/ ConnectionClosing(c) \/ Ban(c)
    \/ Unban \/ WriteDone

Spec == Init /\ [][Next]_vars

-----------------------------------------------------------------------------
(* Properties.                                                              *)

\* Without ns_auth_allow_insecure, what is written to an account is that
\* account's own data: never another's, never a cleared buffer, however
\* clients come and go in the slots (CheckAuthentication, AuthenticatePlayer,
\* and the order of the steps of Disconnect).
WritesOwnData ==
    ~AllowInsecure => \A w \in writes : w.uid \in Uids => w.data = w.uid

\* Without ns_auth_allow_insecure, an account plays in one slot at a time,
\* with however many tokens it holds (IsDuplicateAccount).
NoDuplicateAccounts ==
    ~AllowInsecure =>
      \A c, other \in Connected :
        c # other /\ client[c].uid \in Uids => client[c].uid # client[other].uid

\* Data that was just fetched is not written back: with ns_erase_auth_info,
\* the first activation of a player starts no write, whatever other players
\* and requests did since it connected (RemovePlayerAuthData by uid).
FirstActivationWritesNothing ==
    [][~AllowInsecure /\ EraseAuthInfo =>
        \A c \in Clients :
          /\ client[c].uid \in Uids
          /\ ~client[c].activated
          /\ client'[c].activated
          => writes' = writes]_vars

\* The comment in ActivatePlayer, "on first call only, and we only want to
\* write on >= second call": every later activation of a player with remote
\* data writes it.
LaterActivationsWrite ==
    [][\A c \in Clients :
          /\ client[c].activated /\ client'[c].activated
          /\ client[c].ready = "READY_REMOTE"
          /\ \E token \in auth \ auth' : UidOf[token] = client[c].uid
          => [uid |-> client[c].uid, data |-> client[c].data] \in writes']_vars

\* The comment on pNextPlayerToken, "this is fine because ptrs won't decay by
\* the time we use this, just don't use it outside of calls from
\* cbaseclient::connectclient": a fake player never gets a human's data.
BotsHaveNoRemoteData ==
    \A c \in Connected : client[c].uid = BotUid => client[c].ready # "READY_REMOTE"
=============================================================================
