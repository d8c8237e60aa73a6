------------------------- MODULE ServerAuth_proofs --------------------------
(***************************************************************************)
(* The safety of ServerAuth for all accounts, tokens, slots and threads.   *)
(*                                                                         *)
(* Safe is what one can rely on while ns_auth_allow_insecure is off: a     *)
(* human in a slot holds its own data (Own), accounts are not shared, and  *)
(* a player not yet activated still has an entry to remove (Waiting): an   *)
(* entry is only ever removed for its own account, and no other slot has   *)
(* that account.                                                           *)
(***************************************************************************)
EXTENDS ServerAuth, TLAPS

Human(c) == client[c].connected /\ client[c].uid \in Uids

Own == \A c \in Clients : Human(c) =>
         client[c].ready = "READY_REMOTE" /\ client[c].data = client[c].uid

Distinct == \A c, other \in Clients :
              Human(c) /\ Human(other) /\ client[c].uid = client[other].uid => c = other

Waiting == EraseAuthInfo =>
             \A c \in Clients : Human(c) /\ ~client[c].activated =>
               \E token \in auth : UidOf[token] = client[c].uid

Safe == ~AllowInsecure => Own /\ Distinct /\ Waiting

\* The inductive invariant.
IInv == TypeOK /\ Safe /\ WritesOwnData

-----------------------------------------------------------------------------

LEMMA InitIInv == Init => IInv
<1> SUFFICES ASSUME Init PROVE IInv
  OBVIOUS
<1> USE AuthAssumption
<1>1. TypeOK
  BY DEF Init, TypeOK, ThreadStates, FreeClient, AnyUid
<1>2. Safe
  BY DEF Init, Safe, Own, Distinct, Waiting, Human, FreeClient
<1> QED BY <1>1, <1>2 DEF IInv, Init, WritesOwnData

\* Data that arrives disturbs nobody.
LEMMA SafeKept ==
    ASSUME Safe, client' = client, auth \subseteq auth' PROVE Safe'
<1> SUFFICES ASSUME ~AllowInsecure PROVE (Own /\ Distinct /\ Waiting)'
  BY DEF Safe
<1>1. Own /\ Distinct /\ Waiting
  BY DEF Safe
<1>2. Own'
  BY <1>1 DEF Own, Human
<1>3. Distinct'
  BY <1>1 DEF Distinct, Human
<1>4. Waiting'
  <2> SUFFICES ASSUME EraseAuthInfo, NEW c \in Clients,
                      Human(c)', ~client'[c].activated
               PROVE  \E token \in auth' : UidOf[token] = client'[c].uid
    BY DEF Waiting
  <2>1. Human(c) /\ ~client[c].activated
    BY DEF Human
  <2>2. PICK token \in auth : UidOf[token] = client[c].uid
    BY <1>1, <2>1 DEF Waiting
  <2>3. token \in auth' /\ UidOf[token] = client'[c].uid
    BY <2>2
  <2> QED BY <2>3
<1> QED BY <1>2, <1>3, <1>4

\* The request threads leave the main thread's state alone and only add data.
LEMMA StepRequest ==
    ASSUME IInv, NEW th \in Threads,
           \/ Packet(th) \/ CheckHandled(th) \/ MarkHandled(th)
           \/ FetchPdata(th) \/ AddRemotePlayer(th) \/ Respond(th)
    PROVE  IInv'
<1> USE AuthAssumption
<1>1. UNCHANGED mainVars
  BY DEF Packet, CheckHandled, MarkHandled, FetchPdata, AddRemotePlayer, Respond
<1>2. thread[th].pc # "idle" => thread[th].token \in Tokens
  BY DEF IInv, TypeOK, ThreadStates
<1>3. auth \subseteq auth' /\ auth' \subseteq Tokens /\ handled' \subseteq Tokens
  BY <1>2 DEF IInv, TypeOK, At, Packet, CheckHandled, MarkHandled, FetchPdata,
              AddRemotePlayer, Respond
<1>4. thread' \in [Threads -> ThreadStates]
  <2>1. CASE Packet(th)
    BY <2>1 DEF IInv, TypeOK, ThreadStates, Packet
  <2>2. ASSUME NEW pc \in {"idle", "marking", "fetching", "adding", "answering"},
               Goto(th, pc), thread[th].pc # "idle"
        PROVE  thread' \in [Threads -> ThreadStates]
    BY <1>2, <2>2 DEF IInv, TypeOK, ThreadStates, Goto
  <2> QED BY <2>1, <2>2 DEF At, CheckHandled, MarkHandled, FetchPdata,
                            AddRemotePlayer, Respond
<1>5. TypeOK'
  BY <1>1, <1>3, <1>4 DEF IInv, TypeOK, mainVars
<1>6. Safe'
  BY <1>1, <1>3, SafeKept DEF IInv, mainVars
<1>7. WritesOwnData'
  BY <1>1 DEF IInv, mainVars, WritesOwnData
<1> QED BY <1>5, <1>6, <1>7 DEF IInv

\* A slot that is taken over: by a human with a token of its own account, or
\* by a fake player.
LEMMA StepAuthenticated ==
    ASSUME IInv, NEW c \in Clients, ~client[c].connected,
           NEW uid \in Uids \cup {BotUid}, NEW token \in Tokens \cup {None},
           NEW bot \in BOOLEAN,
           uid \in Uids => CheckAuthentication(c, uid, token),
           Authenticated(c, uid, token, bot),
           nextToken' \in Tokens \cup {None},
           UNCHANGED <<thread, handled, auth, banned, writes>>
    PROVE  IInv'
<1> USE AuthAssumption
<1>1. client[c].data \in AnyUid /\ (token \in auth => UidOf[token] \in AnyUid)
  BY DEF IInv, TypeOK, AnyUid
<1>2. TypeOK'
  <2>1. client' \in [Clients ->
          [connected : BOOLEAN, uid : AnyUid,
           ready : {"NOT_READY", "READY_INSECURE", "READY_REMOTE"},
           data : AnyUid, activated : BOOLEAN]]
    BY <1>1 DEF IInv, TypeOK, Authenticated, AnyUid
  <2>2. player' \in [Clients -> {"absent", "write", "written"}]
    BY DEF IInv, TypeOK, Authenticated
  <2> QED BY <2>1, <2>2 DEF IInv, TypeOK
<1>3. Safe'
  <2> SUFFICES ASSUME ~AllowInsecure PROVE (Own /\ Distinct /\ Waiting)'
    BY DEF Safe
  <2>1. Own /\ Distinct /\ Waiting
    BY DEF IInv, Safe
  <2>2. /\ client'[c].connected /\ client'[c].uid = uid /\ ~client'[c].activated
        /\ \A other \in Clients \ {c} : client'[other] = client[other]
    BY DEF IInv, TypeOK, Authenticated
  <2>3. uid \in Uids =>
          /\ client'[c].ready = "READY_REMOTE" /\ client'[c].data = uid
          /\ token \in auth /\ UidOf[token] = uid
          /\ \A other \in Clients \ {c} : Human(other) => client[other].uid # uid
    BY DEF IInv, TypeOK, Authenticated, CheckAuthentication,
           IsDuplicateAccount, Human
  <2>4. Own'
    BY <2>1, <2>2, <2>3 DEF Own, Human
  <2>5. Distinct'
    BY <2>1, <2>2, <2>3 DEF Distinct, Human
  <2>6. Waiting'
    <3> SUFFICES ASSUME EraseAuthInfo, NEW other \in Clients,
                        Human(other)', ~client'[other].activated
                 PROVE  \E t \in auth' : UidOf[t] = client'[other].uid
      BY DEF Waiting
    <3>1. CASE other = c
      BY <2>2, <2>3, <3>1 DEF Human
    <3>2. CASE other # c
      <4>1. Human(other) /\ ~client[other].activated /\ client'[other] = client[other]
        BY <2>2, <3>2 DEF Human
      <4>2. PICK t \in auth : UidOf[t] = client[other].uid
        BY <2>1, <4>1 DEF Waiting
      <4> QED BY <4>1, <4>2
    <3> QED BY <3>1, <3>2
  <2> QED BY <2>4, <2>5, <2>6
<1> QED BY <1>2, <1>3 DEF IInv, WritesOwnData

\* Removing a player's entry takes only entries of its own account.
LEMMA RemovesOwn ==
    ASSUME IInv, NEW c \in Clients,
           RemovePlayerAuthData(c) \/ UNCHANGED auth
    PROVE  /\ auth' \subseteq auth
           /\ \A token \in auth : UidOf[token] # client[c].uid => token \in auth'
BY AuthAssumption DEF IInv, TypeOK, RemovePlayerAuthData, AuthDataOf

\* What a connected player writes is its own data.
LEMMA WritesOwn ==
    ASSUME IInv, NEW c \in Clients, client[c].connected,
           WritePersistentData(c) \/ UNCHANGED writes
    PROVE  WritesOwnData' /\ writes' \subseteq Writes
<1> USE AuthAssumption
<1>1. [uid |-> client[c].uid, data |-> client[c].data] \in Writes
  BY DEF IInv, TypeOK, Writes
<1>2. ~AllowInsecure /\ client[c].uid \in Uids => client[c].data = client[c].uid
  BY DEF IInv, Safe, Own, Human
<1> QED BY <1>1, <1>2 DEF IInv, TypeOK, WritePersistentData, WritesOwnData

\* A player that leaves, and one that is freed by the engine alone.
LEMMA StepFreed ==
    ASSUME IInv, NEW c \in Clients, client[c].connected,
           NEW free, client' = [client EXCEPT ![c] = free],
           free \in {FreeClient, [FreeClient EXCEPT !.data = client[c].data]},
           RemovePlayerAuthData(c) \/ UNCHANGED auth,
           WritePersistentData(c) \/ UNCHANGED writes,
           player' \in [Clients -> {"absent", "write", "written"}],
           banned' \subseteq Uids,
           UNCHANGED <<thread, handled, nextToken>>
    PROVE  IInv'
<1> USE AuthAssumption
<1>1. /\ free \in [connected : BOOLEAN, uid : AnyUid,
                   ready : {"NOT_READY", "READY_INSECURE", "READY_REMOTE"},
                   data : AnyUid, activated : BOOLEAN]
      /\ ~free.connected
  <2>1. client[c].data \in AnyUid /\ None \in AnyUid
    BY DEF IInv, TypeOK, AnyUid
  <2>2. free = [connected |-> FALSE, uid |-> None, ready |-> "NOT_READY",
                data |-> None, activated |-> FALSE]
        \/ free = [connected |-> FALSE, uid |-> None, ready |-> "NOT_READY",
                   data |-> client[c].data, activated |-> FALSE]
    BY DEF FreeClient
  <2>3. CASE free = [connected |-> FALSE, uid |-> None, ready |-> "NOT_READY",
                     data |-> None, activated |-> FALSE]
    BY <2>1, <2>3
  <2>4. CASE free = [connected |-> FALSE, uid |-> None, ready |-> "NOT_READY",
                     data |-> client[c].data, activated |-> FALSE]
    BY <2>1, <2>4
  <2> QED BY <2>2, <2>3, <2>4
<1>2. TypeOK'
  BY <1>1, RemovesOwn, WritesOwn DEF IInv, TypeOK
<1>3. Safe'
  <2> SUFFICES ASSUME ~AllowInsecure PROVE (Own /\ Distinct /\ Waiting)'
    BY DEF Safe
  <2>1. Own /\ Distinct /\ Waiting
    BY DEF IInv, Safe
  <2>2. /\ ~client'[c].connected
        /\ \A other \in Clients \ {c} : client'[other] = client[other]
    BY <1>1 DEF IInv, TypeOK
  <2>3. Own' /\ Distinct'
    BY <2>1, <2>2 DEF Own, Distinct, Human
  <2>4. Waiting'
    <3> SUFFICES ASSUME EraseAuthInfo, NEW other \in Clients,
                        Human(other)', ~client'[other].activated
                 PROVE  \E t \in auth' : UidOf[t] = client'[other].uid
      BY DEF Waiting
    <3>1. /\ other # c /\ client'[other] = client[other]
          /\ Human(other) /\ ~client[other].activated
      BY <2>2 DEF Human
    <3>2. PICK token \in auth : UidOf[token] = client[other].uid
      BY <2>1, <3>1 DEF Waiting
    <3>3. CASE client[other].uid # client[c].uid
      BY <3>1, <3>2, <3>3, RemovesOwn
    <3>4. CASE client[other].uid = client[c].uid
      BY <2>1, <3>1, <3>4 DEF Distinct, Human
    <3> QED BY <3>3, <3>4
  <2> QED BY <2>3, <2>4
<1> QED BY <1>2, <1>3, WritesOwn DEF IInv

\* An activation removes an entry of the player or writes its data.
LEMMA StepActivate ==
    ASSUME IInv, NEW c \in Clients, ActivatePlayer(c) PROVE IInv'
<1> USE AuthAssumption
<1>1. /\ RemovePlayerAuthData(c) \/ UNCHANGED auth
      /\ WritePersistentData(c) \/ UNCHANGED writes
      /\ client[c].connected
      /\ client' = [client EXCEPT ![c].activated = TRUE]
      /\ UNCHANGED <<thread, handled, player, nextToken, banned>>
  BY DEF ActivatePlayer, requestVars
<1>2. TypeOK'
  BY <1>1, RemovesOwn, WritesOwn DEF IInv, TypeOK
<1>3. Safe'
  <2> SUFFICES ASSUME ~AllowInsecure PROVE (Own /\ Distinct /\ Waiting)'
    BY DEF Safe
  <2>1. Own /\ Distinct /\ Waiting
    BY DEF IInv, Safe
  <2>2. \A other \in Clients :
          /\ client'[other].connected = client[other].connected
          /\ client'[other].uid = client[other].uid
          /\ client'[other].ready = client[other].ready
          /\ client'[other].data = client[other].data
          /\ ~client'[other].activated => other # c /\ ~client[other].activated
    BY <1>1 DEF IInv, TypeOK
  <2>3. Own' /\ Distinct'
    BY <2>1, <2>2 DEF Own, Distinct, Human
  <2>4. Waiting'
    <3> SUFFICES ASSUME EraseAuthInfo, NEW other \in Clients,
                        Human(other)', ~client'[other].activated
                 PROVE  \E t \in auth' : UidOf[t] = client'[other].uid
      BY DEF Waiting
    <3>1. other # c /\ Human(other) /\ ~client[other].activated
      BY <2>2 DEF Human
    <3>2. PICK token \in auth : UidOf[token] = client[other].uid
      BY <2>1, <3>1 DEF Waiting
    <3>3. CASE client[other].uid # client[c].uid
      BY <1>1, <2>2, <3>2, <3>3, RemovesOwn
    <3>4. CASE client[other].uid = client[c].uid
      BY <1>1, <2>1, <3>1, <3>4 DEF Distinct, Human
    <3> QED BY <3>3, <3>4
  <2> QED BY <2>3, <2>4
<1> QED BY <1>1, <1>2, <1>3, WritesOwn DEF IInv

LEMMA StepIInv == IInv /\ [Next]_vars => IInv'
<1> SUFFICES ASSUME IInv, [Next]_vars PROVE IInv'
  OBVIOUS
<1> USE AuthAssumption
<1>1. ASSUME NEW c \in Clients, ConnectClient(c) PROVE IInv'
  <2>1. PICK uid \in Uids, token \in Tokens \cup {None} :
          /\ nextToken' = token
          /\ \/ CheckAuthentication(c, uid, token) /\ Authenticated(c, uid, token, FALSE)
             \/ UNCHANGED <<client, player>>
    BY <1>1 DEF ConnectClient
  <2>2. /\ ~client[c].connected
        /\ UNCHANGED <<thread, handled, auth, banned, writes>>
    BY <1>1 DEF ConnectClient, requestVars
  <2>3. CASE CheckAuthentication(c, uid, token) /\ Authenticated(c, uid, token, FALSE)
    BY <2>1, <2>2, <2>3, StepAuthenticated
  <2>4. CASE UNCHANGED <<client, player>>
    <3>1. TypeOK' /\ WritesOwnData'
      BY <2>1, <2>2, <2>4 DEF IInv, TypeOK, WritesOwnData
    <3> QED BY <2>2, <2>4, <3>1, SafeKept DEF IInv
  <2> QED BY <2>1, <2>3, <2>4
<1>2. ASSUME NEW c \in Clients, ConnectBot(c) PROVE IInv'
  <2>1. /\ ~client[c].connected
        /\ Authenticated(c, BotUid, nextToken, TRUE)
        /\ nextToken' = nextToken /\ nextToken \in Tokens \cup {None}
        /\ UNCHANGED <<thread, handled, auth, banned, writes>>
    BY <1>2 DEF ConnectBot, requestVars, IInv, TypeOK
  <2> QED BY <2>1, StepAuthenticated
<1>3. ASSUME NEW c \in Clients, Disconnect(c) \/ ConnectionClosing(c) \/ Ban(c)
      PROVE  IInv'
  <2>1. PICK free \in {FreeClient, [FreeClient EXCEPT !.data = client[c].data]} :
          client' = [client EXCEPT ![c] = free]
    BY <1>3 DEF Disconnect, ConnectionClosing, Ban, Leave
  <2>2. /\ client[c].connected
        /\ RemovePlayerAuthData(c) \/ UNCHANGED auth
        /\ WritePersistentData(c) \/ UNCHANGED writes
        /\ UNCHANGED <<thread, handled, nextToken>>
    BY <1>3 DEF Disconnect, ConnectionClosing, Ban, Leave, WriteOnLeave, requestVars
  <2>3. player' \in [Clients -> {"absent", "write", "written"}]
    BY <1>3 DEF Disconnect, ConnectionClosing, Ban, Leave, IInv, TypeOK
  <2>4. banned' \subseteq Uids
    BY <1>3 DEF Disconnect, ConnectionClosing, Ban, Leave, IInv, TypeOK
  <2> QED BY <2>1, <2>2, <2>3, <2>4, StepFreed
<1>4. ASSUME NEW c \in Clients, EarlyWrite(c) PROVE IInv'
  <2>1. WritesOwnData' /\ writes' \subseteq Writes
    BY <1>4, WritesOwn DEF EarlyWrite
  <2>2. TypeOK'
    BY <1>4, <2>1 DEF EarlyWrite, IInv, TypeOK, requestVars
  <2>3. Safe'
    BY <1>4, SafeKept DEF EarlyWrite, IInv, requestVars
  <2> QED BY <2>1, <2>2, <2>3 DEF IInv
<1>5. CASE Unban \/ WriteDone
  <2>1. TypeOK' /\ WritesOwnData'
    BY <1>5 DEF Unban, WriteDone, requestVars, IInv, TypeOK, WritesOwnData
  <2>2. Safe'
    BY <1>5, SafeKept DEF Unban, WriteDone, requestVars, IInv
  <2> QED BY <2>1, <2>2 DEF IInv
<1>6. CASE UNCHANGED vars
  <2>1. TypeOK' /\ WritesOwnData'
    BY <1>6 DEF vars, IInv, TypeOK, WritesOwnData
  <2> QED BY <1>6, <2>1, SafeKept DEF vars, IInv
<1> QED BY <1>1, <1>2, <1>3, <1>4, <1>5, <1>6, StepRequest, StepActivate DEF Next

THEOREM Invariance == Spec => []IInv
<1>1. Init => IInv
  BY InitIInv
<1>2. IInv /\ [Next]_vars => IInv'
  BY StepIInv
<1> QED BY <1>1, <1>2, PTL DEF Spec

\* Threads, clients and the maps keep their types.
THEOREM TypeCorrect == Spec => []TypeOK
<1>1. IInv => TypeOK
  BY DEF IInv
<1> QED BY <1>1, Invariance, PTL

\* An account is only ever written with its own data.
THEOREM OwnDataWritten == Spec => []WritesOwnData
<1>1. IInv => WritesOwnData
  BY DEF IInv
<1> QED BY <1>1, Invariance, PTL

\* An account plays in one slot at a time.
THEOREM AccountsDistinct == Spec => []NoDuplicateAccounts
<1>1. IInv => NoDuplicateAccounts
  BY DEF IInv, Safe, Distinct, Human, NoDuplicateAccounts, Connected
<1> QED BY <1>1, Invariance, PTL

\* The first activation writes nothing back, with any number of request
\* threads adding data and any number of players removing theirs.
THEOREM FirstActivationQuiet == Spec => FirstActivationWritesNothing
<1> DEFINE Quiet ==
      ~AllowInsecure /\ EraseAuthInfo =>
        \A c \in Clients :
          /\ client[c].uid \in Uids
          /\ ~client[c].activated
          /\ client'[c].activated
          => writes' = writes
<1>1. IInv /\ [Next]_vars => [Quiet]_vars
  <2> SUFFICES ASSUME IInv, Next, ~AllowInsecure, EraseAuthInfo,
                      NEW c \in Clients, client[c].uid \in Uids,
                      ~client[c].activated, client'[c].activated
               PROVE  writes' = writes
    OBVIOUS
  <2>1. ActivatePlayer(c)
    <3>1. PICK d \in Clients :
            \/ ConnectClient(d) \/ ConnectBot(d) \/ ActivatePlayer(d)
            \/ Disconnect(d) \/ ConnectionClosing(d) \/ Ban(d)
      <4>1. client' # client
        OBVIOUS
      <4> QED BY <4>1 DEF Next, Packet, CheckHandled, MarkHandled, FetchPdata,
                 AddRemotePlayer, Respond, mainVars, EarlyWrite, Unban, WriteDone
    <3>2. client \in [Clients -> [connected : BOOLEAN, uid : AnyUid,
             ready : {"NOT_READY", "READY_INSECURE", "READY_REMOTE"},
             data : AnyUid, activated : BOOLEAN]]
      BY DEF IInv, TypeOK
    <3>3. CASE ConnectClient(d) \/ ConnectBot(d)
      <4>1. PICK new : client' = [client EXCEPT ![d] = new] /\ ~new.activated
        BY <3>3 DEF ConnectClient, ConnectBot, Authenticated
      <4> QED BY <3>2, <4>1
    <3>4. CASE Disconnect(d) \/ ConnectionClosing(d) \/ Ban(d)
      <4>1. ~FreeClient.activated
            /\ ~[FreeClient EXCEPT !.data = client[d].data].activated
        BY DEF FreeClient
      <4> QED BY <3>2, <3>4, <4>1 DEF Disconnect, ConnectionClosing, Ban, Leave
    <3>5. CASE ActivatePlayer(d)
      BY <3>2, <3>5 DEF ActivatePlayer
    <3> QED BY <3>1, <3>3, <3>4, <3>5
  <2>2. AuthDataOf(client[c].uid) # {}
    BY <2>1 DEF ActivatePlayer, IInv, Safe, Waiting, Human, AuthDataOf
  <2> QED BY <2>1, <2>2 DEF ActivatePlayer, WritesOnActivate
<1> QED BY <1>1, Invariance, PTL DEF Spec, FirstActivationWritesNothing
=============================================================================
