--------------------------- MODULE ServerPresence ---------------------------
(***************************************************************************)
(* How a game server announces itself to the master server.                *)
(*                                                                         *)
(* ServerPresenceManager (server/serverpresence.cpp) is driven by the host *)
(* state: a new game creates a presence, the end of the game destroys it,  *)
(* and every frame runs the manager, which runs its one reporter,          *)
(* MasterServerPresenceReporter (masterserver/masterserver.cpp).  The      *)
(* reporter owns two std::futures, one for add_server and one for          *)
(* update_values; each request runs on a thread of its own and is polled   *)
(* from the frame.  DestroyPresence starts a detached thread that asks the *)
(* master server to remove this server.                                    *)
(*                                                                         *)
(* The auth token granted with a server id has that id's value, so that    *)
(* the two can be told to belong together; they are kept, sent and copied  *)
(* apart.  Time is counted in ticks, as the time left until the next       *)
(* report and the time left of the cool-down.                              *)
(***************************************************************************)
EXTENDS Naturals

CONSTANTS
    Ids,              \* server ids the master server grants
    NoId,             \* the empty m_sOwnServerId / m_sOwnServerAuthToken
    MaxAttempts,      \* MAX_REGISTRATION_ATTEMPTS
    UpdateRate,       \* ns_server_presence_update_rate, in ticks
    Cooldown,         \* the twenty seconds after DUPLICATE_SERVER, in ticks
    InitialCooldown   \* what the never initialised m_fNextAddServerAttemptTime
                      \* may hold, as ticks still to wait

ASSUME PresenceAssumption ==
    /\ NoId \notin Ids
    /\ MaxAttempts \in Nat \ {0}
    /\ UpdateRate \in Nat
    /\ Cooldown \in Nat \ {0}
    /\ InitialCooldown \subseteq Nat

VARIABLES
    manager,   \* ServerPresenceManager and the convars it reads
    rep,       \* MasterServerPresenceReporter and the own id and token
    removers,  \* started remove_server threads, by the id each is to remove
    entries,   \* external: the ids on the master server's list
    adds       \* history: add_server requests since the last CreatePresence

vars == <<manager, rep, removers, entries, adds>>

OptionalId == Ids \cup {NoId}

AddResults == {"Success", "Failed", "FailedNoRetry", "FailedNoConnect",
               "FailedDuplicateServer"}
UpdateResults == {"Success", "Failed"}

(* A future: "none" is !valid(), "ready" holds a result.  req is the id the *)
(* request was sent with; id and token are the two optionals of the answer. *)
Futures(Results) ==
    [st : {"none", "running", "ready"}, req : OptionalId,
     result : Results \cup {"-"}, id : OptionalId, token : OptionalId]

NoFuture ==
    [st |-> "none", req |-> NoId, result |-> "-", id |-> NoId, token |-> NoId]

Launched(req) == [NoFuture EXCEPT !.st = "running", !.req = req]

Finished(future, result, id, token) ==
    [future EXCEPT !.st = "ready", !.result = result, !.id = id, !.token = token]

Managers ==
    [hasPresence : BOOLEAN, firstUpdate : BOOLEAN, isSingleplayer : BOOLEAN,
     reportTo : {"none", "mp", "all"}, untilReport : 0..UpdateRate]

Reporters ==
    [ownId : OptionalId, ownToken : OptionalId, attempts : Nat,
     cooldown : Nat, connected : BOOLEAN,
     add : Futures(AddResults), update : Futures(UpdateResults)]

\* The records above keep their shape and ranges in every step.
TypeOK ==
    /\ manager \in Managers
    /\ rep \in Reporters
    /\ removers \subseteq Ids
    /\ entries \subseteq Ids
    /\ adds \in Nat

\* The code leaves m_nNumRegistrationAttempts uninitialised; the first frame
\* that reads it has set it in CreatePresence.
Init ==
    /\ manager = [hasPresence |-> FALSE, firstUpdate |-> FALSE,
                  isSingleplayer |-> FALSE, reportTo |-> "mp",
                  untilReport |-> 0]
    /\ \E wait \in InitialCooldown :
         rep = [ownId |-> NoId, ownToken |-> NoId, attempts |-> 0,
                cooldown |-> wait, connected |-> TRUE,
                add |-> NoFuture, update |-> NoFuture]
    /\ removers = {}
    /\ entries = {}
    /\ adds = 0

-----------------------------------------------------------------------------
(* The reporter's handlers, as functions of its state.                      *)

\* Copying the id and the token of an answer, each if it is there.  Mutant: the
\* id only.
GrantedIdOnly(r, id, token) == [r EXCEPT !.ownId = IF id # NoId THEN id ELSE @]
Granted(r, id, token) ==
    [r EXCEPT !.ownId = IF id # NoId THEN id ELSE @,
              !.ownToken = IF token # NoId THEN token ELSE @]

\* m_nNumRegistrationAttempts after the result of an add_server request.
\* Mutant: a duplicate is not counted.
AttemptsAfterUncounted(r) ==
    CASE r.add.result \in {"FailedNoRetry", "FailedNoConnect"} -> MaxAttempts
      [] r.add.result = "Failed" -> r.attempts + 1
      [] OTHER -> r.attempts
AttemptsAfter(r) ==
    CASE r.add.result \in {"FailedNoRetry", "FailedNoConnect"} -> MaxAttempts
      [] r.add.result \in {"Failed", "FailedDuplicateServer"} -> r.attempts + 1
      [] OTHER -> r.attempts

\* m_bSuccessfullyConnected, as the add_server request found it.
Reached(r) == r.add.result # "FailedNoConnect"

\* RunFrame, a finished add_server request: get() empties the future.
AddTaken(r) ==
    LET done == [r EXCEPT
                   !.add = NoFuture,
                   !.connected = Reached(r),
                   !.attempts = AttemptsAfter(r),
                   !.cooldown = IF r.add.result = "FailedDuplicateServer"
                                THEN Cooldown ELSE @]
    IN  IF r.add.result = "Success" THEN Granted(done, r.add.id, r.add.token) ELSE done

\* RunFrame, a finished update_values request.
UpdateTaken(r) ==
    LET done == [r EXCEPT !.update = NoFuture]
    IN  IF r.update.result = "Success"
        THEN Granted(done, r.update.id, r.update.token)
        ELSE done

\* RunFrame polls the add future and, only when there is none, the update one.
\* Mutants: the update future is polled without looking at the add future; it
\* is polled only together with a finished add.
PolledInAnyOrder(r) ==
    CASE r.add.st = "ready" -> AddTaken(r)
      [] r.update.st = "ready" -> UpdateTaken(r)
      [] OTHER -> r
PolledAddOnly(r) == IF r.add.st = "ready" THEN AddTaken(r) ELSE r
Polled(r) ==
    CASE r.add.st = "ready" -> AddTaken(r)
      [] r.add.st = "none" /\ r.update.st = "ready" -> UpdateTaken(r)
      [] OTHER -> r

\* CreatePresence resets the attempts and nothing else.
Created(r) == [r EXCEPT !.attempts = 0]

\* Mutants: the cool-down is not looked at; the last attempt is never made.
MayAddHot(r) == r.attempts < MaxAttempts /\ r.add.st = "none"
MayAddOneLess(r) == r.attempts + 1 < MaxAttempts /\ r.cooldown = 0 /\ r.add.st = "none"
MayAdd(r) == r.attempts < MaxAttempts /\ r.cooldown = 0 /\ r.add.st = "none"

\* ReportPresence: without an id register, with one send a heartbeat.
Reported(r) ==
    IF r.ownId = NoId
    THEN IF MayAdd(r)
         THEN [r EXCEPT !.ownToken = NoId, !.add = Launched(NoId)]
         ELSE r
    ELSE IF r.update.st = "none"
         THEN [r EXCEPT !.update = Launched(r.ownId)]
         ELSE r

\* DestroyPresence empties the id and keeps the token and both futures.
Destroyed(r) == [r EXCEPT !.ownId = NoId]

-----------------------------------------------------------------------------
(* The manager and the host state.                                          *)

\* CHostState__State_NewGame, once the level is loaded.
NewGame ==
    /\ \E singleplayer \in BOOLEAN :
         manager' = [manager EXCEPT !.hasPresence = TRUE, !.firstUpdate = TRUE,
                                    !.isSingleplayer = singleplayer]
    /\ UNCHANGED <<rep, removers, entries, adds>>

\* The reporter's DestroyPresence starts a thread, or returns early without an
\* id.
RemoversAfter == IF rep.ownId = NoId THEN removers ELSE removers \cup {rep.ownId}

\* CHostState__State_GameShutdown.
GameShutdown ==
    /\ manager' = [manager EXCEPT !.hasPresence = FALSE]
    /\ rep' = Destroyed(rep)
    /\ removers' = RemoversAfter
    /\ UNCHANGED <<entries, adds>>

\* An operator changes ns_report_server_to_masterserver or
\* ns_report_sp_server_to_masterserver.
SetReportConVars ==
    /\ \E to \in {"none", "mp", "all"} : manager' = [manager EXCEPT !.reportTo = to]
    /\ UNCHANGED <<rep, removers, entries, adds>>

\* Mutant: RunFrame does not ask whether there is a presence.
ReportingAlways ==
    /\ manager.reportTo # "none"
    /\ manager.isSingleplayer => manager.reportTo = "all"

Reporting ==
    /\ manager.hasPresence
    /\ manager.reportTo # "none"
    /\ manager.isSingleplayer => manager.reportTo = "all"

Due == manager.untilReport = 0

\* The reporter at the moment its ReportPresence is called.
Prepared == IF manager.firstUpdate THEN Created(Polled(rep)) ELSE Polled(rep)

\* ServerPresenceManager::RunFrame before the report is due: only the poll.
PollFrame ==
    /\ Reporting
    /\ ~Due
    /\ rep' = Polled(rep)
    /\ UNCHANGED <<manager, removers, entries, adds>>

\* ServerPresenceManager::RunFrame when the report is due: poll, create the
\* presence on the first update, report.
ReportFrame ==
    /\ Reporting
    /\ Due
    /\ rep' = Reported(Prepared)
    /\ manager' = [manager EXCEPT !.firstUpdate = FALSE,
                                  !.untilReport = UpdateRate]
    /\ adds' = (IF manager.firstUpdate THEN 0 ELSE adds)
               + (IF Prepared.ownId = NoId /\ MayAdd(Prepared) THEN 1 ELSE 0)
    /\ UNCHANGED <<removers, entries>>

Frame == PollFrame \/ ReportFrame

\* Time passes.
Tick ==
    /\ ~Due \/ rep.cooldown > 0
    /\ manager' = [manager EXCEPT !.untilReport = IF @ = 0 THEN 0 ELSE @ - 1]
    /\ rep' = [rep EXCEPT !.cooldown = IF @ = 0 THEN 0 ELSE @ - 1]
    /\ UNCHANGED <<removers, entries, adds>>

-----------------------------------------------------------------------------
(* The request threads and, external, the master server that answers them.  *)

\* Ids nothing refers to any more; the master server grants one of them.
FreshIds ==
    Ids \ (entries \cup removers
           \cup {rep.ownId, rep.ownToken, rep.add.id,
                 rep.update.req, rep.update.id, rep.update.token})

\* InternalAddServer's thread returns.  The master server either registered
\* the server (its answer may still be lost or unreadable) or did not.  An
\* answer counts as success only with both the id and the token.
AddServerDone ==
    /\ rep.add.st = "running"
    /\ \/ \E id \in FreshIds :
            /\ entries' = entries \cup {id}
            /\ \/ rep' = [rep EXCEPT !.add = Finished(@, "Success", id, id)]
               \/ \E result \in {"FailedNoConnect", "FailedNoRetry"} :
                    rep' = [rep EXCEPT !.add = Finished(@, result, NoId, NoId)]
       \/ /\ \E result \in AddResults \ {"Success"} :
               rep' = [rep EXCEPT !.add = Finished(@, result, NoId, NoId)]
          /\ UNCHANGED entries
    /\ UNCHANGED <<manager, removers, adds>>

\* InternalUpdateServer's thread returns.  A master server that no longer knows
\* the id registers the server again, under a new id.  What the answer holds, an
\* id, a token, both or, as an error, neither, counts as success.
UpdateServerDone ==
    /\ rep.update.st = "running"
    /\ \/ /\ \E result \in UpdateResults :
               rep' = [rep EXCEPT !.update = Finished(@, result, NoId, NoId)]
          /\ UNCHANGED entries
       \/ \E known \in IF rep.update.req \in entries THEN {rep.update.req} ELSE FreshIds :
            /\ entries' = entries \cup {known}
            /\ \E id, token \in {NoId, known} :
                 rep' = [rep EXCEPT !.update = Finished(@, "Success", id, token)]
    /\ UNCHANGED <<manager, removers, adds>>

\* DestroyPresence's thread formats m_sOwnServerId into its request when it
\* runs, not when it is started; the request may be lost.
RemoveServerRuns ==
    \E id \in removers :
        /\ removers' = removers \ {id}
        /\ entries' \in {entries, entries \ {rep.ownId}}
        /\ UNCHANGED <<manager, rep, adds>>

\* The master server drops a server it holds for dead, or restarts.
EntryExpires ==
    /\ \E id \in entries : entries' = entries \ {id}
    /\ UNCHANGED <<manager, rep, removers, adds>>

Next ==
    \/ NewGame \/ GameShutdown \/ SetReportConVars
    \/ Frame \/ Tick
    \/ AddServerDone \/ UpdateServerDone \/ RemoveServerRuns \/ EntryExpires

Spec == Init /\ [][Next]_vars

\* The host runs frames, time passes, and curl's timeout ends every request.
Fairness ==
    /\ WF_vars(PollFrame)
    /\ WF_vars(ReportFrame)
    /\ WF_vars(Tick)
    /\ WF_vars(AddServerDone)
    /\ WF_vars(UpdateServerDone)

FairSpec == Spec /\ Fairness

-----------------------------------------------------------------------------
(* Properties.                                                              *)

\* One presence sends at most MAX_REGISTRATION_ATTEMPTS add_server requests,
\* whatever results of requests of earlier presences come in between
\* (ReportPresence's first guard and the counting in RunFrame).
AtMostMaxAdds == adds <= MaxAttempts

\* While an add_server request is out, the server holds no id: nothing polled
\* in the meantime, the late answer to a heartbeat of an earlier presence
\* included, may put one there (RunFrame's early return while still running).
RegisteringHasNoId == rep.add.st # "none" => rep.ownId = NoId

\* No add_server request is out during the cool-down after a duplicate
\* (ReportPresence: "Make sure to wait til the cooldown is over").
NoAddDuringCooldown == rep.add.st # "none" => rep.cooldown = 0

\* Between the end of a game and the next one the server holds no id, however
\* late the answers to its requests come (RunFrame's m_bHasPresence guard).
NoIdWithoutPresence == ~manager.hasPresence => rep.ownId = NoId

\* The answer to a heartbeat holds only one of id and token.
HalfAnswer == rep.update.st = "ready" /\ ((rep.update.id = NoId) # (rep.update.token = NoId))

Paired(r) == r.ownId # NoId => r.ownToken = r.ownId

\* The id of a server and the token it authenticates the master server's packets
\* with were granted together, over late answers, RunFrame's separate copies, and
\* the clears of DestroyPresence and InternalAddServer in any order.  One thing
\* alone parts them: a frame that takes a heartbeat answer holding only one.
IdTokenPaired ==
    [][Paired(rep) => Paired(rep') \/ (Frame /\ rep.add.st = "none" /\ HalfAnswer)]_vars

\* A frame whose report is due leaves something under way: of a registered server a
\* heartbeat, or the late answer of one while the registration has only just been
\* granted; of any other a registration, or the cool-down, or no attempts are left.  A
\* future that nobody polls, or a guard that stays shut, would stop the reports.
NeverIdle ==
    [][ReportFrame =>
         IF rep'.ownId # NoId
         THEN \/ rep'.update.st = "running"
              \/ rep'.update.st = "ready" /\ rep.add.st = "ready"
         ELSE rep'.add.st = "running" \/ rep'.cooldown > 0 \/ rep'.attempts >= MaxAttempts]_vars

\* A server that stays up and reported gets registered or runs out of its
\* attempts: a lost or refused add_server leaves no state in which it waits
\* for ever (the futures, the cool-down and the attempt counter together).
RegistrationSettles ==
    <>[](Reporting /\ ~manager.firstUpdate)
        => <>[](rep.ownId # NoId \/ rep.attempts >= MaxAttempts)

\* A server that stays up, reported and registered keeps sending heartbeats:
\* a failed or unanswered one never blocks the next (updateServerFuture).
HeartbeatsContinue ==
    <>[](Reporting /\ rep.ownId # NoId) => []<>(rep.update.st = "running")

\* What masterserver.h says of DestroyPresence ("Called when we need to remove
\* the server from the master server"): its request names the id the destroyed
\* presence had.
RemovesDestroyed ==
    [][\A id \in removers \ removers' : rep.ownId = id]_vars
=============================================================================
