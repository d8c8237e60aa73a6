-------------------------- MODULE ClientAuth_proofs -------------------------
(***************************************************************************)
(* The safety of ClientAuth for any servers, threads and number of calls.  *)
(*                                                                         *)
(* One thread at a time is busy authenticating; it works for the server    *)
(* asked for last and has not announced success before the info is whole   *)
(* (Filling).  A successful flag with nobody busy therefore goes with the  *)
(* info of the last answer.                                                *)
(***************************************************************************)
EXTENDS ClientAuth, TLAPS

\* What a busy thread has done so far.
Filling(th) ==
    /\ thread[th].server = asked
    /\ thread[th].pc \in {"server", "savewait", "own", "store", "address", "token", "announce"} =>
         ~successful
    /\ thread[th].pc \in {"token", "announce", "current"} => pending.address = asked
    /\ thread[th].pc \in {"announce", "current"} => pending.token = asked
    /\ thread[th].pc \in {"savewait", "server", "address", "token", "announce", "current"} =>
         asked # NoServer
    /\ thread[th].pc \in {"own", "store", "proclaim"} => asked = NoServer

BusyFilling == \A th \in Threads : Busy(th) => Filling(th)

\* The info is the mixture of two answers only while a thread is at it.
Whole ==
    pending.address = pending.token \/ \E th \in Threads : thread[th].pc = "token"

\* The inductive invariant.
IInv == TypeOK /\ OneAuthentication /\ BusyFilling /\ AuthedWhatWasAsked /\ Whole

\* Safe: the part of the invariant that is about the busy thread.
Safe == OneAuthentication /\ BusyFilling /\ AuthedWhatWasAsked /\ Whole

-----------------------------------------------------------------------------

LEMMA InitIInv == Init => IInv
<1> SUFFICES ASSUME Init PROVE IInv
  OBVIOUS
<1> USE ClientAssumption
<1>1. \A th \in Threads : thread[th].pc = "idle"
  BY DEF Init
<1>2. TypeOK
  <2>1. [pc |-> "idle", server |-> NoServer] \in ThreadStates
    BY DEF ThreadStates
  <2>2. [address |-> NoServer, token |-> NoServer]
          \in [address : Servers \cup {NoServer}, token : Servers \cup {NoServer}]
    OBVIOUS
  <2>3. calls \in 0..MaxCalls
    BY DEF Init
  <2>4. thread \in [Threads -> ThreadStates]
    BY <2>1 DEF Init
  <2> QED BY <2>2, <2>3, <2>4 DEF Init, TypeOK
<1>3. \A th \in Threads : ~Busy(th)
  BY <1>1 DEF Busy, AuthPlaces
<1>4. OneAuthentication /\ BusyFilling
  BY <1>3 DEF OneAuthentication, BusyFilling
<1>5. AuthedWhatWasAsked /\ Whole
  BY DEF Init, AuthedWhatWasAsked, Whole
<1> QED BY <1>2, <1>4, <1>5 DEF IInv

\* A step in which nobody becomes busy, and which leaves the flags and the
\* info alone that busy threads rely on.
LEMMA StepAside ==
    ASSUME IInv,
           \A t \in Threads : Busy(t)' =>
             thread'[t] = thread[t] /\ UNCHANGED <<authenticating, successful>>,
           \A t \in Threads : thread[t].pc = "token" => thread'[t] = thread[t],
           successful' => successful,
           UNCHANGED <<asked, pending>>
    PROVE  Safe'
<1>1. ASSUME NEW t \in Threads, Busy(t)' PROVE Busy(t) /\ Filling(t)'
  <2>1. thread'[t] = thread[t] /\ UNCHANGED <<authenticating, successful>>
    BY <1>1
  <2>2. Busy(t)
    BY <1>1, <2>1 DEF Busy
  <2>3. Filling(t)
    BY <2>2 DEF IInv, BusyFilling
  <2> QED BY <2>1, <2>2, <2>3 DEF Filling
<1>2. OneAuthentication'
  <2> SUFFICES ASSUME NEW t \in Threads, NEW other \in Threads, Busy(t)'
               PROVE  authenticating' /\ (Busy(other)' => other = t)
    BY DEF OneAuthentication
  <2> QED BY <1>1 DEF IInv, OneAuthentication
<1>3. BusyFilling'
  BY <1>1 DEF BusyFilling
<1>4. AuthedWhatWasAsked'
  BY DEF IInv, AuthedWhatWasAsked
<1>5. Whole'
  BY DEF IInv, Whole
<1> QED BY <1>2, <1>3, <1>4, <1>5 DEF Safe

\* The busy thread takes a step.
LEMMA StepBusy ==
    ASSUME IInv, NEW th \in Threads, Busy(th),
           \A t \in Threads \ {th} : thread'[t] = thread[t],
           authenticating' = authenticating,
           Busy(th)' => Filling(th)',
           AuthedWhatWasAsked', Whole'
    PROVE  Safe'
<1>1. \A t \in Threads \ {th} : ~Busy(t)'
  BY DEF IInv, OneAuthentication, Busy
<1>2. OneAuthentication'
  BY <1>1 DEF IInv, OneAuthentication
<1>3. BusyFilling'
  BY <1>1 DEF BusyFilling
<1> QED BY <1>2, <1>3 DEF Safe

\* With no thread busy, one starts; others may start an upload.
LEMMA StepBegin ==
    ASSUME IInv, NEW th \in Threads, NEW server \in Servers \cup {NoServer},
           MayBegin, BeginAuth(server),
           thread'[th].server = server,
           thread'[th].pc = IF server = NoServer THEN "own" ELSE "savewait",
           \A t \in Threads \ {th} : thread'[t] = thread[t] \/ thread'[t].pc = "write",
           pending' = pending
    PROVE  Safe'
<1>1. \A t \in Threads : ~Busy(t)
  BY DEF IInv, OneAuthentication, MayBegin
<1>2. \A t \in Threads \ {th} : ~Busy(t)'
  BY <1>1 DEF Busy, AuthPlaces
<1>3. authenticating' /\ ~successful' /\ asked' = server
  BY DEF BeginAuth
<1>4. OneAuthentication'
  BY <1>2, <1>3 DEF OneAuthentication
<1>5. BusyFilling'
  BY <1>2, <1>3 DEF BusyFilling, Filling
<1>6. AuthedWhatWasAsked'
  BY <1>3 DEF AuthedWhatWasAsked
<1>7. Whole'
  BY <1>1 DEF IInv, Whole, Busy, AuthPlaces
<1> QED BY <1>4, <1>5, <1>6, <1>7 DEF Safe

-----------------------------------------------------------------------------
(* The main thread.                                                         *)

LEMMA StepTryServer == ASSUME IInv, TryAuthWithServer PROVE IInv'
<1> USE ClientAssumption
<1>1. PICK server \in Servers, th \in Idle, saves \in SUBSET Idle, sizes \in SUBSET PdataSizes :
        /\ th \notin saves
        /\ saving' = SavingAfter(saves, "zero" \in sizes)
        /\ empty' = (empty \/ "zero" \in sizes)
        /\ IF MayBegin THEN BeginAuth(server) ELSE UNCHANGED <<authFlags, asked>>
        /\ thread' = [t \in Threads |->
              CASE t \in saves -> [pc |-> "write", server |-> NoServer]
                [] t = th /\ MayBegin -> [pc |-> "savewait", server |-> server]
                [] OTHER -> thread[t]]
  BY DEF TryAuthWithServer
<1>2. /\ calls' \in 0..MaxCalls
      /\ UNCHANGED <<hasPending, pending, current, ownData, newgame, leaving>>
  BY DEF TryAuthWithServer, Call, IInv, TypeOK
<1>3. th \in Threads /\ saves \subseteq Threads /\ ~Busy(th) /\ \A t \in saves : ~Busy(t)
  BY DEF Idle, Busy, AuthPlaces
<1>4. TypeOK'
  <2>1. thread' \in [Threads -> ThreadStates]
    <3>1. [pc |-> "write", server |-> NoServer] \in ThreadStates
          /\ [pc |-> "savewait", server |-> server] \in ThreadStates
      BY DEF ThreadStates, Places, ServerPlaces
    <3>2. \A t \in Threads : thread[t] \in ThreadStates
      BY DEF IInv, TypeOK
    <3>3. \A t \in Threads : thread'[t] \in ThreadStates
      BY <1>1, <3>1, <3>2
    <3> QED BY <1>1, <3>3
  <2>2. saving' \in BOOLEAN /\ empty' \in BOOLEAN
    BY <1>1 DEF SavingAfter, IInv, TypeOK
  <2>3. /\ authenticating' \in BOOLEAN /\ scriptAuth' \in BOOLEAN /\ successful' \in BOOLEAN
        /\ asked' \in Servers \cup {NoServer}
    BY <1>1 DEF BeginAuth, authFlags, IInv, TypeOK
  <2> QED BY <1>2, <2>1, <2>2, <2>3 DEF IInv, TypeOK, ThreadStates
<1>5. CASE MayBegin
  <2>1. thread'[th] = [pc |-> "savewait", server |-> server] /\ server # NoServer
    BY <1>1, <1>3, <1>5
  <2>2. \A t \in Threads \ {th} : thread'[t] = thread[t] \/ thread'[t].pc = "write"
    BY <1>1
  <2>3. Safe'
    BY <1>1, <1>2, <1>3, <1>5, <2>1, <2>2, StepBegin
  <2> QED BY <1>4, <2>3 DEF IInv, Safe
<1>6. CASE ~MayBegin
  <2>1. \A t \in Threads : IF t \in saves THEN thread'[t].pc = "write" ELSE thread'[t] = thread[t]
    BY <1>1, <1>6
  <2>2. \A t \in saves : thread[t].pc = "idle"
    BY DEF Idle
  <2>3. \A t \in Threads : Busy(t)' => thread'[t] = thread[t]
    BY <2>1 DEF Busy, AuthPlaces
  <2>4. \A t \in Threads : thread[t].pc = "token" => thread'[t] = thread[t]
    BY <2>1, <2>2
  <2>5. Safe'
    BY <1>1, <1>2, <1>6, <2>3, <2>4, StepAside DEF authFlags
  <2> QED BY <1>4, <2>5 DEF IInv, Safe
<1> QED BY <1>5, <1>6

LEMMA StepOwnServer ==
    ASSUME IInv, AuthenticateWithOwnServer, pending' = pending,
           UNCHANGED <<hasPending, current, ownData, leaving, saving, empty>>,
           newgame' \in BOOLEAN, calls' \in 0..MaxCalls
    PROVE  IInv'
<1> USE ClientAssumption
<1>1. PICK th \in Idle :
        IF MayBegin THEN /\ BeginAuth(NoServer)
                         /\ thread' = [thread EXCEPT ![th].pc = "own"]
                    ELSE UNCHANGED <<thread, authFlags, asked>>
  BY DEF AuthenticateWithOwnServer
<1>2. th \in Threads /\ thread[th].pc = "idle"
  BY DEF Idle
<1>3. thread[th].server = NoServer
  BY <1>2 DEF IInv, TypeOK, ThreadStates, ServerPlaces
<1>4. CASE MayBegin
  <2>1. /\ thread'[th].pc = "own" /\ thread'[th].server = NoServer
        /\ \A t \in Threads \ {th} : thread'[t] = thread[t]
        /\ thread' \in [Threads -> ThreadStates]
    <3>1. [thread[th] EXCEPT !.pc = "own"] = [pc |-> "own", server |-> NoServer]
      BY <1>2, <1>3 DEF IInv, TypeOK, ThreadStates
    <3>2. [pc |-> "own", server |-> NoServer] \in ThreadStates
      BY DEF ThreadStates, Places
    <3>3. thread' = [thread EXCEPT ![th] = [pc |-> "own", server |-> NoServer]]
      BY <1>1, <1>4, <3>1
    <3> QED BY <1>2, <3>2, <3>3 DEF IInv, TypeOK
  <2>2. Safe'
    BY <1>1, <1>2, <1>4, <2>1, StepBegin
  <2>3. TypeOK'
    BY <1>1, <1>4, <2>1 DEF IInv, TypeOK, BeginAuth, ThreadStates
  <2> QED BY <2>2, <2>3 DEF IInv, Safe
<1>5. CASE ~MayBegin
  <2>1. UNCHANGED <<thread, authenticating, scriptAuth, successful, asked>>
    BY <1>1, <1>5 DEF authFlags
  <2>2. Safe'
    BY <2>1, StepAside
  <2>3. TypeOK'
    BY <2>1 DEF IInv, TypeOK
  <2> QED BY <2>2, <2>3 DEF IInv, Safe
<1> QED BY <1>4, <1>5

LEMMA StepScript ==
    ASSUME IInv,
           \/ TryAuthWithLocalServer \/ StartReauth \/ EndReauth
           \/ EraseOwnData \/ WritePersistence \/ ConnectToAuthedServer
    PROVE  IInv'
<1> USE ClientAssumption
<1>1. CASE TryAuthWithLocalServer
  BY <1>1, StepOwnServer DEF TryAuthWithLocalServer, Call, IInv, TypeOK
<1>2. CASE StartReauth
  BY <1>2, StepOwnServer DEF StartReauth, Call, IInv, TypeOK
<1>3. CASE EndReauth \/ EraseOwnData \/ ConnectToAuthedServer
  <2>1. UNCHANGED <<thread, authenticating, scriptAuth, successful, asked, pending>>
    BY <1>3 DEF EndReauth, EraseOwnData, ConnectToAuthedServer, authFlags
  <2>2. TypeOK'
    BY <1>3 DEF EndReauth, EraseOwnData, ConnectToAuthedServer, authFlags, IInv, TypeOK
  <2>3. Safe'
    BY <2>1, StepAside
  <2> QED BY <2>2, <2>3 DEF IInv, Safe
<1>4. CASE WritePersistence
  <2>1. PICK size \in PdataSizes, th \in Idle :
          /\ thread' = IF size = "zero" THEN thread ELSE [thread EXCEPT ![th].pc = "write"]
          /\ empty' = (empty \/ size = "zero")
    BY <1>4 DEF WritePersistence
  <2>2. /\ saving' = TRUE /\ empty' \in BOOLEAN /\ calls' \in 0..MaxCalls
        /\ UNCHANGED <<authenticating, scriptAuth, successful, hasPending, pending,
                       current, ownData, newgame, leaving, asked>>
    BY <1>4 DEF WritePersistence, Call, authFlags, IInv, TypeOK
  <2>3. thread[th].pc = "idle" /\ th \in Threads
    BY DEF Idle
  <2>4. CASE size = "zero"
    <3>1. Safe'
      BY <2>1, <2>2, <2>4, StepAside
    <3>2. TypeOK'
      BY <2>1, <2>2, <2>4 DEF IInv, TypeOK
    <3> QED BY <3>1, <3>2 DEF IInv, Safe
  <2>5. CASE size # "zero"
    <3>1. thread' = [thread EXCEPT ![th] = [pc |-> "write", server |-> NoServer]]
      <4>1. [thread[th] EXCEPT !.pc = "write"] = [pc |-> "write", server |-> NoServer]
        BY <2>3 DEF IInv, TypeOK, ThreadStates, ServerPlaces
      <4> QED BY <2>1, <2>5, <4>1
    <3>2. [pc |-> "write", server |-> NoServer] \in ThreadStates
      BY DEF ThreadStates, Places
    <3>3. TypeOK'
      BY <2>2, <3>1, <3>2 DEF IInv, TypeOK
    <3>4. /\ thread'[th].pc = "write"
          /\ \A t \in Threads \ {th} : thread'[t] = thread[t]
      BY <2>3, <3>1 DEF IInv, TypeOK
    <3>5. \A t \in Threads : Busy(t)' => thread'[t] = thread[t]
      BY <3>4 DEF Busy, AuthPlaces
    <3>6. Safe'
      BY <2>2, <2>3, <3>4, <3>5, StepAside
    <3> QED BY <3>3, <3>6 DEF IInv, Safe
  <2> QED BY <2>4, <2>5
<1> QED BY <1>1, <1>2, <1>3, <1>4

-----------------------------------------------------------------------------
(* The threads.                                                             *)

\* Where Goto takes a thread.
LEMMA Went ==
    ASSUME IInv, NEW th \in Threads, NEW pc, Goto(th, pc)
    PROVE  /\ thread'[th].pc = pc
           /\ pc # "idle" => thread'[th].server = thread[th].server
           /\ pc = "idle" => thread'[th].server = NoServer
           /\ \A t \in Threads \ {th} : thread'[t] = thread[t]
BY DEF IInv, TypeOK, Goto

LEMMA WentTyped ==
    ASSUME IInv, NEW th \in Threads, NEW pc, Goto(th, pc),
           \/ pc = "idle"
           \/ pc \in Places /\ thread[th].server = NoServer
           \/ pc \in ServerPlaces /\ thread[th].server \in Servers
    PROVE  thread' \in [Threads -> ThreadStates]
<1>1. [pc |-> pc, server |-> IF pc = "idle" THEN NoServer ELSE thread[th].server]
        \in ThreadStates
  BY DEF ThreadStates, Places, ServerPlaces
<1>2. thread' = [thread EXCEPT ![th] =
        [pc |-> pc, server |-> IF pc = "idle" THEN NoServer ELSE thread[th].server]]
  BY DEF Goto, IInv, TypeOK
<1> QED BY <1>1, <1>2 DEF IInv, TypeOK

\* Steps that no longer concern an authentication.
LEMMA StepAfter ==
    ASSUME IInv, NEW th \in Threads,
           ScriptClear(th) \/ LeaveToLobby(th) \/ Uploaded(th) \/ SaveDone(th)
    PROVE  IInv'
<1>1. PICK pc \in {"leave", "reset", "idle", "written"} : Goto(th, pc)
  BY DEF ScriptClear, LeaveToLobby, Uploaded, SaveDone
<1>2. thread[th].pc \in {"scriptclear", "leave", "reset", "write", "written"}
  BY DEF ScriptClear, LeaveToLobby, Uploaded, SaveDone, At
<1>3. UNCHANGED <<authenticating, successful, asked, pending>>
  BY DEF ScriptClear, LeaveToLobby, Uploaded, SaveDone, authFlags, mainVars
<1>4. /\ thread'[th].pc = pc
      /\ \A t \in Threads \ {th} : thread'[t] = thread[t]
  BY <1>1, Went
<1>5. Safe'
  <2>1. \A t \in Threads : Busy(t)' => thread'[t] = thread[t]
    BY <1>4 DEF Busy, AuthPlaces
  <2>2. \A t \in Threads : thread[t].pc = "token" => thread'[t] = thread[t]
    BY <1>2, <1>4
  <2> QED BY <1>3, <2>1, <2>2, StepAside
<1>6. TypeOK'
  <2>1. thread' \in [Threads -> ThreadStates]
    <3>1. pc # "idle" => thread[th].server = NoServer
      <4>1. CASE ScriptClear(th)
        BY <4>1, <1>4, Went DEF ScriptClear
      <4>2. CASE LeaveToLobby(th)
        BY <4>2, <1>4 DEF LeaveToLobby, At, Goto, IInv, TypeOK, ThreadStates, ServerPlaces
      <4>4. CASE SaveDone(th)
        BY <4>4, <1>4 DEF SaveDone, Goto, IInv, TypeOK
      <4>3. CASE Uploaded(th)
        BY <4>3 DEF Uploaded, At, IInv, TypeOK, ThreadStates, ServerPlaces
      <4> QED BY <4>1, <4>2, <4>3, <4>4
    <3> QED BY <1>1, <3>1, WentTyped DEF Places
  <2> QED BY <2>1 DEF ScriptClear, LeaveToLobby, Uploaded, SaveDone, authFlags,
             mainVars, IInv, TypeOK
<1> QED BY <1>5, <1>6 DEF IInv, Safe

LEMMA StepClear ==
    ASSUME IInv, NEW th \in Threads, Clear(th) PROVE IInv'
<1>1. /\ thread[th].pc = "clear" /\ authenticating' = FALSE
      /\ UNCHANGED <<scriptAuth, successful, hasPending, pending, current, ownData,
                     newgame, leaving, saving, asked, empty, calls>>
      /\ Goto(th, "scriptclear")
  BY DEF Clear, ClearAuth, At, mainVars
<1>2. /\ thread'[th].pc = "scriptclear"
      /\ \A t \in Threads \ {th} : thread'[t] = thread[t]
  BY <1>1, Went
<1>3. Safe'
  <2>1. \A t \in Threads : ~Busy(t)'
    BY <1>1, <1>2 DEF IInv, OneAuthentication, Busy, AuthPlaces
  <2>2. \A t \in Threads : thread[t].pc = "token" => thread'[t] = thread[t]
    BY <1>1, <1>2
  <2> QED BY <1>1, <2>1, <2>2, StepAside
<1>4. TypeOK'
  <2>1. thread' \in [Threads -> ThreadStates]
    <3>1. thread[th].server \in Servers \/ thread[th].server = NoServer
      BY DEF IInv, TypeOK, ThreadStates
    <3> QED BY <1>1, <3>1, WentTyped DEF Places, ServerPlaces
  <2> QED BY <1>1, <2>1 DEF IInv, TypeOK
<1> QED BY <1>3, <1>4 DEF IInv, Safe

LEMMA StepWork ==
    ASSUME IInv, NEW th \in Threads,
           SaveWait(th) \/ Answer(th) \/ ServerAuthed(th) \/ OwnAuthed(th) \/ Failed(th)
    PROVE  IInv'
<1>1. PICK pc \in AuthPlaces : Goto(th, pc)
  BY DEF SaveWait, WaitForSaves, Answer, ServerAuthed, FillPending, OwnAuthed, Failed,
         AuthPlaces
<1>2. Busy(th)
  BY DEF SaveWait, WaitForSaves, Answer, ServerAuthed, FillPending, OwnAuthed, Failed,
         At, Busy, AuthPlaces
<1>3. UNCHANGED <<authenticating, newgame, leaving, saving, asked, empty, calls>>
  BY DEF SaveWait, Answer, ServerAuthed, OwnAuthed, Failed, authFlags, mainVars
<1>4. /\ thread'[th].pc = pc /\ thread'[th].server = thread[th].server
      /\ \A t \in Threads \ {th} : thread'[t] = thread[t]
  BY <1>1, Went DEF AuthPlaces
<1>5. Filling(th)
  BY <1>2 DEF IInv, BusyFilling
<1>6. \A t \in Threads \ {th} : ~Busy(t) /\ thread[t].pc # "token"
  BY <1>2 DEF IInv, OneAuthentication, Busy, AuthPlaces
<1>7. thread[th].server = asked
  BY <1>5 DEF Filling
<1>8. ASSUME Busy(th)' => Filling(th)', AuthedWhatWasAsked', Whole', TypeOK' PROVE IInv'
  <2>1. Safe'
    BY <1>2, <1>3, <1>4, <1>8, StepBusy
  <2> QED BY <1>8, <2>1 DEF IInv, Safe
<1>9. thread[th].server \in Servers \/ thread[th].server = NoServer
  BY DEF IInv, TypeOK, ThreadStates
<1>10. thread' \in [Threads -> ThreadStates]
  <2>1. thread[th].server \in Servers => pc \in ServerPlaces
    <3>1. thread[th].server \in Servers => thread[th].pc \in ServerPlaces
      BY ClientAssumption DEF IInv, TypeOK, ThreadStates
    <3>2. thread[th].pc \in ServerPlaces => pc \in ServerPlaces
      BY <1>4, Went DEF SaveWait, WaitForSaves, Answer, ServerAuthed, FillPending,
             OwnAuthed, Failed, At, ServerPlaces
    <3> QED BY <3>1, <3>2
  <2> QED BY <1>1, <1>9, <2>1, WentTyped DEF AuthPlaces, Places
<1>11. CASE SaveWait(th) \/ Answer(th)
  <2>1. UNCHANGED <<scriptAuth, successful, hasPending, pending, current, ownData>>
    BY <1>11 DEF SaveWait, Answer, authFlags
  <2>2. thread[th].pc \in {"savewait", "server", "own"}
        /\ pc \in {"server", "address", "clear", "failed", "store"}
        /\ (pc \in {"server", "address"} => thread[th].pc # "own")
        /\ (pc = "store" => thread[th].pc = "own")
    BY <1>4, <1>11, Went DEF SaveWait, WaitForSaves, Answer, At
  <2>3. Filling(th)'
    BY <1>3, <1>4, <1>5, <2>1, <2>2 DEF Filling
  <2>4. AuthedWhatWasAsked'
    BY <1>3, <2>1 DEF IInv, AuthedWhatWasAsked
  <2>5. Whole'
    BY <1>4, <2>1, <2>2 DEF IInv, Whole
  <2>6. TypeOK'
    BY <1>3, <1>10, <2>1 DEF IInv, TypeOK
  <2> QED BY <1>8, <2>3, <2>4, <2>5, <2>6
<1>12. CASE ServerAuthed(th)
  <2>1. UNCHANGED <<scriptAuth, ownData>> /\ FillPending(th)
    BY <1>12 DEF ServerAuthed
  <2>2. asked # NoServer /\ asked \in Servers
    BY <1>5, <2>1 DEF FillPending, At, Filling, IInv, TypeOK
  <2>3. CASE At(th, "address")
    <3>1. /\ pc = "token" /\ pending' = [pending EXCEPT !.address = asked]
          /\ UNCHANGED <<hasPending, successful, current>>
      BY <1>4, <1>7, <2>1, <2>3, Went DEF FillPending, At
    <3>2. /\ pending'.address = asked /\ ~successful
          /\ pending' \in [address : Servers \cup {NoServer}, token : Servers \cup {NoServer}]
      BY <1>5, <2>2, <2>3, <3>1 DEF Filling, At, IInv, TypeOK
    <3>3. Filling(th)' /\ AuthedWhatWasAsked' /\ Whole'
      BY <1>3, <1>4, <1>7, <2>2, <3>1, <3>2 DEF Filling, AuthedWhatWasAsked, Whole
    <3>4. TypeOK'
      BY <1>3, <1>10, <2>1, <3>1, <3>2 DEF IInv, TypeOK
    <3> QED BY <1>8, <3>3, <3>4
  <2>4. CASE At(th, "token")
    <3>1. /\ pc = "announce" /\ pending' = [pending EXCEPT !.token = asked]
          /\ hasPending' = TRUE
          /\ UNCHANGED <<successful, current>>
      BY <1>4, <1>7, <2>1, <2>4, Went DEF FillPending, At
    <3>2. /\ pending'.address = asked /\ pending'.token = asked /\ ~successful
          /\ pending' \in [address : Servers \cup {NoServer}, token : Servers \cup {NoServer}]
      BY <1>5, <2>2, <2>4, <3>1 DEF Filling, At, IInv, TypeOK
    <3>3. Filling(th)' /\ AuthedWhatWasAsked' /\ Whole'
      BY <1>3, <1>4, <1>7, <2>2, <3>1, <3>2 DEF Filling, AuthedWhatWasAsked, Whole
    <3>4. TypeOK'
      BY <1>3, <1>10, <2>1, <3>1, <3>2 DEF IInv, TypeOK
    <3> QED BY <1>8, <3>3, <3>4
  <2>5. CASE At(th, "announce")
    <3>1. pc = "current" /\ successful' = TRUE /\ UNCHANGED <<hasPending, pending, current>>
      BY <1>4, <2>1, <2>5, Went DEF FillPending, At
    <3>2. pending = [address |-> asked, token |-> asked]
      BY <1>5, <2>5 DEF Filling, At, IInv, TypeOK
    <3>3. Filling(th)' /\ AuthedWhatWasAsked' /\ Whole'
      BY <1>3, <1>4, <1>7, <2>2, <3>1, <3>2 DEF Filling, AuthedWhatWasAsked, Whole
    <3>4. TypeOK'
      BY <1>3, <1>10, <2>1, <3>1 DEF IInv, TypeOK
    <3> QED BY <1>8, <3>3, <3>4
  <2>6. CASE At(th, "current")
    <3>1. /\ pc = "clear" /\ current' = asked /\ UNCHANGED <<hasPending, pending, successful>>
      BY <1>4, <1>7, <2>1, <2>6, Went DEF FillPending, At
    <3>2. Filling(th)' /\ AuthedWhatWasAsked'
      BY <1>3, <1>4, <1>7, <3>1 DEF Filling, IInv, AuthedWhatWasAsked
    <3>3. Whole'
      BY <1>5, <2>6, <3>1 DEF Filling, At, Whole
    <3>4. TypeOK'
      BY <1>3, <1>10, <2>1, <2>2, <3>1 DEF IInv, TypeOK
    <3> QED BY <1>8, <3>2, <3>3, <3>4
  <2> QED BY <2>1, <2>3, <2>4, <2>5, <2>6 DEF FillPending
<1>13. CASE OwnAuthed(th)
  <2>1. /\ UNCHANGED <<scriptAuth, hasPending, pending, current>>
        /\ \/ /\ thread[th].pc = "store" /\ pc = "proclaim" /\ ownData' = TRUE
              /\ UNCHANGED successful
           \/ /\ thread[th].pc = "proclaim" /\ pc = "clear" /\ successful' = TRUE
              /\ UNCHANGED ownData
    BY <1>4, <1>13, Went DEF OwnAuthed, At
  <2>2. asked = NoServer
    BY <1>5, <2>1 DEF Filling
  <2>3. Filling(th)' /\ AuthedWhatWasAsked'
    BY <1>3, <1>4, <1>7, <2>1, <2>2 DEF Filling, AuthedWhatWasAsked
  <2>4. Whole'
    BY <1>4, <2>1 DEF IInv, Whole
  <2>5. successful' \in BOOLEAN /\ ownData' \in BOOLEAN
    BY <2>1 DEF IInv, TypeOK
  <2>6. TypeOK'
    BY <1>3, <1>10, <2>1, <2>5 DEF IInv, TypeOK
  <2> QED BY <1>8, <2>3, <2>4, <2>6
<1>14. CASE Failed(th)
  <2>1. /\ thread[th].pc \in {"failed", "scriptfailed"} /\ pc \in {"scriptfailed", "clear"}
        /\ successful' \in {FALSE, successful} /\ scriptAuth' \in {FALSE, scriptAuth}
        /\ UNCHANGED <<hasPending, pending, current, ownData>>
    BY <1>4, <1>14, Went DEF Failed, At
  <2>2. Filling(th)' /\ AuthedWhatWasAsked'
    <3>1. thread'[th].pc \in {"scriptfailed", "clear"} /\ thread'[th].server = asked'
      BY <1>3, <1>4, <1>7, <2>1
    <3>2. Filling(th)'
      BY <3>1 DEF Filling
    <3>3. successful' => successful
      BY <2>1
    <3> QED BY <1>3, <2>1, <3>2, <3>3 DEF AuthedWhatWasAsked, IInv
  <2>3. Whole'
    BY <1>4, <2>1 DEF IInv, Whole
  <2>4. successful' \in BOOLEAN /\ scriptAuth' \in BOOLEAN
    BY <2>1 DEF IInv, TypeOK
  <2>5. TypeOK'
    BY <1>3, <1>10, <2>1, <2>4 DEF IInv, TypeOK
  <2> QED BY <1>8, <2>2, <2>3, <2>5
<1> QED BY <1>11, <1>12, <1>13, <1>14

LEMMA StepIInv == IInv /\ [Next]_vars => IInv'
<1> SUFFICES ASSUME IInv, [Next]_vars PROVE IInv'
  OBVIOUS
<1>1. CASE UNCHANGED vars
  <2>1. TypeOK'
    BY <1>1 DEF vars, authFlags, IInv, TypeOK
  <2>2. Safe'
    BY <1>1, StepAside DEF vars, authFlags
  <2> QED BY <2>1, <2>2 DEF IInv, Safe
<1>2. ASSUME NEW th \in Threads, Run(th) PROVE IInv'
  BY <1>2, StepWork, StepClear, StepAfter DEF Run
<1> QED BY <1>1, <1>2, StepTryServer, StepScript DEF Next

-----------------------------------------------------------------------------
(* The flags somebody waits for.                                            *)

\* A step that sets none of the flags, and after which those that are set still have
\* their threads.
LEMMA FlagsKept ==
    ASSUME FlagsHaveThreads,
           authenticating' => authenticating, scriptAuth' => scriptAuth,
           saving' => saving /\ empty' = empty,
           \A t \in Threads : Busy(t) => Busy(t)' \/ ~authenticating',
           \A t \in Threads : Busy(t) \/ At(t, "scriptclear") =>
             Busy(t)' \/ At(t, "scriptclear")' \/ ~scriptAuth',
           \A t \in Threads : At(t, "write") \/ At(t, "written") =>
             At(t, "write")' \/ At(t, "written")' \/ ~saving'
    PROVE  FlagsHaveThreads'
BY DEF FlagsHaveThreads

\* Calls of the main thread take only idle threads.
LEMMA FlagsCalls ==
    ASSUME IInv, FlagsHaveThreads,
           \/ TryAuthWithServer \/ TryAuthWithLocalServer \/ StartReauth \/ EndReauth
           \/ EraseOwnData \/ WritePersistence \/ ConnectToAuthedServer
    PROVE  FlagsHaveThreads'
<1> USE DEF Busy, AuthPlaces, At
<1>1. CASE TryAuthWithServer
  <2>1. PICK server \in Servers, th \in Idle, saves \in SUBSET Idle, sizes \in SUBSET PdataSizes :
          /\ th \notin saves
          /\ "some" \in sizes <=> saves # {}
          /\ saving' = SavingAfter(saves, "zero" \in sizes)
          /\ empty' = (empty \/ "zero" \in sizes)
          /\ IF MayBegin THEN BeginAuth(server) ELSE UNCHANGED <<authFlags, asked>>
          /\ thread' = [t \in Threads |->
                CASE t \in saves -> [pc |-> "write", server |-> NoServer]
                  [] t = th /\ MayBegin -> [pc |-> "savewait", server |-> server]
                  [] OTHER -> thread[t]]
    BY <1>1 DEF TryAuthWithServer
  <2>2. \A t \in Threads : thread[t].pc # "idle" => thread'[t] = thread[t]
    BY <2>1 DEF Idle
  <2>3. th \in Threads /\ \A t \in saves : t \in Threads /\ thread'[t].pc = "write"
    BY <2>1 DEF Idle
  <2>4. saving' /\ ~empty' =>
          \E t \in Threads : thread'[t].pc \in {"write", "written"}
    BY <2>1, <2>2, <2>3 DEF SavingAfter, FlagsHaveThreads
  <2>5. CASE MayBegin
    <3>1. thread'[th].pc = "savewait"
      BY <2>1, <2>3, <2>5
    <3> QED
      BY <2>3, <2>4, <3>1 DEF FlagsHaveThreads
  <2>6. CASE ~MayBegin
    <3>1. UNCHANGED <<authenticating, scriptAuth>>
      BY <2>1, <2>6 DEF authFlags
    <3> QED
      BY <2>2, <2>4, <3>1 DEF FlagsHaveThreads
  <2> QED
    BY <2>5, <2>6
<1>2. CASE TryAuthWithLocalServer \/ StartReauth
  <2>1. AuthenticateWithOwnServer /\ UNCHANGED <<saving, empty>>
    BY <1>2 DEF TryAuthWithLocalServer, StartReauth
  <2>2. PICK th \in Idle :
          IF MayBegin THEN /\ BeginAuth(NoServer)
                           /\ thread' = [thread EXCEPT ![th].pc = "own"]
                      ELSE UNCHANGED <<thread, authFlags, asked>>
    BY <2>1 DEF AuthenticateWithOwnServer
  <2>3. th \in Threads /\ thread[th].pc = "idle" /\ thread \in [Threads -> ThreadStates]
    BY DEF Idle, IInv, TypeOK
  <2>4. CASE MayBegin
    <3>1. /\ thread'[th].pc = "own"
          /\ \A t \in Threads \ {th} : thread'[t] = thread[t]
      BY <2>2, <2>3, <2>4 DEF ThreadStates
    <3> QED
      BY <2>1, <2>3, <3>1 DEF FlagsHaveThreads
  <2>5. CASE ~MayBegin
    BY <2>1, <2>2, <2>5 DEF authFlags, FlagsHaveThreads
  <2> QED
    BY <2>4, <2>5
<1>3. CASE EndReauth \/ EraseOwnData \/ ConnectToAuthedServer
  BY <1>3 DEF EndReauth, EraseOwnData, ConnectToAuthedServer, authFlags, FlagsHaveThreads
<1>4. CASE WritePersistence
  <2>1. PICK size \in PdataSizes, th \in Idle :
          /\ thread' = IF size = "zero" THEN thread ELSE [thread EXCEPT ![th].pc = "write"]
          /\ empty' = (empty \/ size = "zero")
    BY <1>4 DEF WritePersistence
  <2>2. UNCHANGED <<authenticating, scriptAuth>>
    BY <1>4 DEF WritePersistence, authFlags
  <2>3. th \in Threads /\ thread[th].pc = "idle" /\ thread \in [Threads -> ThreadStates]
    BY DEF Idle, IInv, TypeOK
  <2>4. CASE size = "zero"
    BY <2>1, <2>2, <2>4 DEF FlagsHaveThreads
  <2>5. CASE size # "zero"
    <3>1. /\ thread'[th].pc = "write"
          /\ \A t \in Threads \ {th} : thread'[t] = thread[t]
      BY <2>1, <2>3, <2>5 DEF ThreadStates
    <3> QED
      BY <2>2, <2>3, <3>1 DEF FlagsHaveThreads
  <2> QED
    BY <2>4, <2>5
<1> QED
  BY <1>1, <1>2, <1>3, <1>4

\* A thread resets a flag before it leaves the places at which it is the one to do so.
LEMMA FlagsRun ==
    ASSUME IInv, FlagsHaveThreads, NEW th \in Threads, Run(th)
    PROVE  FlagsHaveThreads'
<1> USE DEF At
<1>1. ASSUME NEW pc, Goto(th, pc)
      PROVE  /\ thread'[th].pc = pc
             /\ \A t \in Threads \ {th} : thread'[t] = thread[t]
  BY <1>1, Went
<1>2. CASE SaveWait(th) \/ Answer(th) \/ ServerAuthed(th) \/ OwnAuthed(th) \/ Failed(th)
  <2>1. PICK pc \in AuthPlaces : Goto(th, pc)
    BY <1>2 DEF SaveWait, WaitForSaves, Answer, ServerAuthed, FillPending, OwnAuthed, Failed,
                AuthPlaces
  <2>2. Busy(th)
    BY <1>2 DEF SaveWait, WaitForSaves, Answer, ServerAuthed, FillPending, OwnAuthed, Failed,
                Busy, AuthPlaces
  <2>3. UNCHANGED <<authenticating, saving, empty>> /\ (scriptAuth' = scriptAuth \/ ~scriptAuth')
    BY <1>2 DEF SaveWait, Answer, ServerAuthed, OwnAuthed, Failed, authFlags, mainVars
  <2> QED
    BY <1>1, <2>1, <2>2, <2>3, FlagsKept DEF Busy, AuthPlaces
<1>3. CASE Clear(th)
  <2>1. Goto(th, "scriptclear") /\ authenticating' = FALSE /\ thread[th].pc = "clear"
        /\ UNCHANGED <<scriptAuth, saving, empty>>
    BY <1>3 DEF Clear, ClearAuth, mainVars
  <2> QED
    BY <1>1, <2>1, FlagsKept DEF Busy, AuthPlaces
<1>4. CASE ScriptClear(th)
  <2>1. PICK pc \in {"leave", "idle"} : Goto(th, pc)
    BY <1>4 DEF ScriptClear
  <2>2. scriptAuth' = FALSE /\ thread[th].pc = "scriptclear" /\ UNCHANGED <<authenticating, saving, empty>>
    BY <1>4 DEF ScriptClear, mainVars
  <2> QED
    BY <1>1, <2>1, <2>2, FlagsKept DEF Busy, AuthPlaces
<1>5. CASE LeaveToLobby(th)
  <2>1. PICK pc \in {"idle", "reset"} : Goto(th, pc)
    BY <1>5 DEF LeaveToLobby
  <2>2. thread[th].pc \in {"leave", "reset"} /\ UNCHANGED <<authenticating, scriptAuth, saving, empty>>
    BY <1>5 DEF LeaveToLobby, authFlags
  <2> QED
    BY <1>1, <2>1, <2>2, FlagsKept DEF Busy, AuthPlaces
<1>6. CASE Uploaded(th)
  <2>1. Goto(th, "written") /\ thread[th].pc = "write" /\ UNCHANGED <<authenticating, scriptAuth, saving, empty>>
    BY <1>6 DEF Uploaded, authFlags, mainVars
  <2> QED
    BY <1>1, <2>1, FlagsKept DEF Busy, AuthPlaces
<1>7. CASE SaveDone(th)
  <2>1. Goto(th, "idle") /\ thread[th].pc = "written" /\ saving' = FALSE
        /\ UNCHANGED <<authenticating, scriptAuth>>
    BY <1>7 DEF SaveDone, authFlags
  <2> QED
    BY <1>1, <2>1, FlagsKept DEF Busy, AuthPlaces
<1> QED
  BY <1>2, <1>3, <1>4, <1>5, <1>6, <1>7 DEF Run

-----------------------------------------------------------------------------

THEOREM Invariance == Spec => []IInv
<1>1. Init => IInv
  BY InitIInv
<1>2. IInv /\ [Next]_vars => IInv'
  BY StepIInv
<1> QED BY <1>1, <1>2, PTL DEF Spec

\* Threads are where the code has them, and flags are flags.
THEOREM TypeCorrect == Spec => []TypeOK
<1>1. IInv => TypeOK
  BY DEF IInv
<1> QED BY <1>1, Invariance, PTL

\* At most one authentication runs, whatever the interleaving.
THEOREM SingleAuthentication == Spec => []OneAuthentication
<1>1. IInv => OneAuthentication
  BY DEF IInv
<1> QED BY <1>1, Invariance, PTL

\* A successful flag goes with the whole info of the last server asked for.
THEOREM InfoMatches == Spec => []AuthedWhatWasAsked
<1>1. IInv => AuthedWhatWasAsked
  BY DEF IInv
<1> QED BY <1>1, Invariance, PTL

\* A connection never mixes the address and the token of two answers.
THEOREM ConnectionsWhole == Spec => ConnectsToOneServer
<1> DEFINE Connects == hasPending /\ ~hasPending' => pending.address = pending.token
<1>1. IInv /\ [Next]_vars => [Connects]_vars
  <2> SUFFICES ASSUME IInv, Next, hasPending, ~hasPending'
               PROVE  pending.address = pending.token
    OBVIOUS
  <2>1. ConnectToAuthedServer
    BY DEF Next, TryAuthWithServer, TryAuthWithLocalServer, StartReauth, EndReauth,
           EraseOwnData, WritePersistence, Run, SaveWait, Answer, ServerAuthed,
           FillPending, OwnAuthed, Failed, Clear, ScriptClear, LeaveToLobby, Uploaded,
           SaveDone
  <2>2. successful
    BY <2>1 DEF ConnectToAuthedServer
  <2>3. ASSUME NEW th \in Threads, thread[th].pc = "token" PROVE FALSE
    BY <2>2, <2>3 DEF IInv, BusyFilling, Filling, Busy, AuthPlaces
  <2> QED BY <2>3 DEF IInv, Whole
<1> QED BY <1>1, Invariance, PTL DEF Spec, ConnectsToOneServer
\* Each flag that somebody waits for belongs to a thread that is going to reset it: the
\* part of AuthenticationEnds that does not depend on fairness.
THEOREM WaitsHaveEnds == Spec => []FlagsHaveThreads
<1>1. Init => FlagsHaveThreads
  BY DEF Init, FlagsHaveThreads
<1>2. IInv /\ FlagsHaveThreads /\ [Next]_vars => FlagsHaveThreads'
  <2> SUFFICES ASSUME IInv, FlagsHaveThreads, [Next]_vars PROVE FlagsHaveThreads'
    OBVIOUS
  <2>1. CASE UNCHANGED vars
    BY <2>1 DEF vars, authFlags, FlagsHaveThreads, Busy, At
  <2> QED
    BY <2>1, FlagsCalls, FlagsRun DEF Next
<1> QED BY <1>1, <1>2, Invariance, PTL DEF Spec
=============================================================================
