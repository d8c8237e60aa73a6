--------------------------- MODULE MasterRequests ---------------------------
(***************************************************************************)
(* The client's other requests to the master server: the origin            *)
(* authentication, the server list and the main menu promos.               *)
(*                                                                         *)
(* Each request runs on a detached thread.  Main thread and threads share  *)
(* plain flags; a loop that polls one and the assignment that follows are  *)
(* two steps, as are the assignments that end a request.                   *)
(***************************************************************************)
EXTENDS Naturals

CONSTANTS
    Threads,    \* threads that can be alive at once
    Servers,    \* ids of game servers
    Malformed,  \* a server entry that lacks a field or has one of a wrong type
    MaxCalls    \* bound: calls of the scripts

ASSUME RequestsAssumption ==
    /\ Malformed \notin Servers
    /\ MaxCalls \in Nat

VARIABLES
    pc,               \* what each thread is doing
    requesting,       \* m_bRequestingServerList
    scriptRequesting, \* m_bScriptRequestingServerList
    remoteServers,    \* m_vRemoteServers
    consent,          \* ns_has_agreed_to_send_token
    inProgress,       \* m_bOriginAuthWithMasterServerInProgress
    done,             \* m_bOriginAuthWithMasterServerDone
    clientToken,      \* m_sOwnClientAuthToken is set
    hasPromos,        \* m_bHasMainMenuPromoData
    calls             \* bounded by MaxCalls

listVars == <<requesting, scriptRequesting, remoteServers>>
originVars == <<consent, inProgress, done, clientToken>>
vars == <<pc, listVars, originVars, hasPromos, calls>>

Consents == {"NOT_DECIDED", "AGREED", "DISAGREED"}

\* Threads and flags have their types.
TypeOK ==
    /\ pc \in [Threads ->
         {"idle", "origin", "failed", "finish", "done", "listwait", "claim",
          "listing", "listed", "listdone", "promowait", "promos"}]
    /\ requesting \in BOOLEAN /\ scriptRequesting \in BOOLEAN
    /\ remoteServers \subseteq Servers
    /\ consent \in Consents
    /\ inProgress \in BOOLEAN /\ done \in BOOLEAN /\ clientToken \in BOOLEAN
    /\ hasPromos \in BOOLEAN
    /\ calls \in 0..MaxCalls

Init ==
    /\ pc = [th \in Threads |-> "idle"]
    /\ requesting = FALSE /\ scriptRequesting = FALSE /\ remoteServers = {}
    /\ consent \in Consents
    /\ inProgress = FALSE /\ done = FALSE /\ clientToken = FALSE
    /\ hasPromos = FALSE
    /\ calls = 0

At(th, place) == pc[th] = place
Goto(th, place) == pc' = [pc EXCEPT ![th] = place]
Call == calls < MaxCalls /\ calls' = calls + 1

\* Bound: the scripts' requests leave a thread for the origin authentication.
Spare == \E th, other \in Threads : th # other /\ At(th, "idle") /\ At(other, "idle")

-----------------------------------------------------------------------------
(* The origin authentication, and the promos that wait for it.              *)

\* The player decides in a dialog, or changes the convar.
Decide ==
    /\ Call
    /\ consent' \in Consents \ {consent}
    /\ UNCHANGED <<pc, listVars, inProgress, done, clientToken, hasPromos>>

\* Mutant: the flag is set by the thread, not "here so it's instantly set".
StartOriginLate(th) ==
    /\ ~inProgress
    /\ At(th, "idle") /\ Goto(th, "origin")
    /\ UNCHANGED inProgress
StartOrigin(th) ==
    /\ ~inProgress
    /\ At(th, "idle") /\ Goto(th, "origin")
    /\ inProgress' = TRUE

\* The engine calls the hooked AuthWithStryder until it has a valid key.
AuthWithStryder ==
    /\ ~done
    /\ consent = "AGREED"
    /\ \E th \in Threads : StartOrigin(th)
    /\ UNCHANGED <<listVars, consent, done, clientToken, hasPromos, calls>>

\* The answer holds a token, or is an error of whatever kind.
OriginAnswer(th) ==
    /\ At(th, "origin")
    /\ \/ clientToken' = TRUE /\ Goto(th, "finish")
       \/ UNCHANGED clientToken /\ Goto(th, "failed")
    /\ UNCHANGED <<listVars, consent, inProgress, done, hasPromos, calls>>

\* REQUEST_END_CLEANUP; a failure is final too.
\* Mutant: a failure returns early, and leaves the flags as they are.
FinishOnSuccess(th) ==
    \/ /\ At(th, "finish") /\ Goto(th, "done")
       /\ inProgress' = FALSE /\ UNCHANGED done
    \/ /\ At(th, "failed") /\ Goto(th, "idle")
       /\ UNCHANGED <<inProgress, done>>
    \/ /\ At(th, "done") /\ Goto(th, "idle")
       /\ done' = TRUE /\ UNCHANGED inProgress
Finish(th) ==
    \/ /\ pc[th] \in {"finish", "failed"} /\ Goto(th, "done")
       /\ inProgress' = FALSE /\ UNCHANGED done
    \/ /\ At(th, "done") /\ Goto(th, "idle")
       /\ done' = TRUE /\ UNCHANGED inProgress

OriginEnd(th) ==
    /\ Finish(th)
    /\ UNCHANGED <<listVars, consent, clientToken, hasPromos, calls>>

RequestMainMenuPromos ==
    /\ Call
    /\ Spare
    /\ hasPromos' = FALSE
    /\ \E th \in Threads : At(th, "idle") /\ Goto(th, "promowait")
    /\ UNCHANGED <<listVars, originVars>>

PromoWait(th) ==
    /\ At(th, "promowait")
    /\ ~inProgress /\ done
    /\ Goto(th, "promos")
    /\ UNCHANGED <<listVars, originVars, hasPromos, calls>>

PromoAnswer(th) ==
    /\ At(th, "promos") /\ Goto(th, "idle")
    /\ hasPromos' \in {hasPromos, TRUE}
    /\ UNCHANGED <<listVars, originVars, calls>>

-----------------------------------------------------------------------------
(* The server list.                                                         *)

\* Whoever asks for the list, and however many requests there are already.
RequestServerList ==
    /\ Call
    /\ Spare
    /\ \E th \in Threads : At(th, "idle") /\ Goto(th, "listwait")
    /\ scriptRequesting' = TRUE
    /\ UNCHANGED <<requesting, remoteServers, originVars, hasPromos>>

\* ClearServerList sets the flag, clears the list and resets the flag.
ClearServerList ==
    /\ Call
    /\ requesting' = FALSE
    /\ remoteServers' = {}
    /\ UNCHANGED <<pc, scriptRequesting, originVars, hasPromos>>

\* while (m_bRequestingServerList) Sleep(100);
ListWait(th) ==
    /\ At(th, "listwait")
    /\ ~requesting
    /\ Goto(th, "claim")
    /\ UNCHANGED <<listVars, originVars, hasPromos, calls>>

ListClaim(th) ==
    /\ At(th, "claim") /\ Goto(th, "listing")
    /\ requesting' = TRUE /\ scriptRequesting' = TRUE
    /\ UNCHANGED <<remoteServers, originVars, hasPromos, calls>>

\* Servers whose fields are malformed are skipped, those in the list already
\* are updated.  Mutant: malformed ones are added too.
AddUnverified(new) == remoteServers' = remoteServers \cup new
AddServers(new) == remoteServers' = remoteServers \cup (new \cap Servers)

\* The answer is taken as far as it can be read.
ListAnswer(th) ==
    /\ At(th, "listing") /\ Goto(th, "listed")
    /\ \E new \in SUBSET (Servers \cup {Malformed}) : AddServers(new)
    /\ UNCHANGED <<requesting, scriptRequesting, originVars, hasPromos, calls>>

\* Mutant: the label is missed and m_bRequestingServerList stays set.
ReleaseScriptOnly(th) ==
    \/ At(th, "listed") /\ Goto(th, "listdone") /\ UNCHANGED <<requesting, scriptRequesting>>
    \/ At(th, "listdone") /\ Goto(th, "idle") /\ scriptRequesting' = FALSE /\ UNCHANGED requesting
Release(th) ==
    \/ At(th, "listed") /\ Goto(th, "listdone") /\ requesting' = FALSE /\ UNCHANGED scriptRequesting
    \/ At(th, "listdone") /\ Goto(th, "idle") /\ scriptRequesting' = FALSE /\ UNCHANGED requesting

ListEnd(th) ==
    /\ Release(th)
    /\ UNCHANGED <<remoteServers, originVars, hasPromos, calls>>

Run(th) ==
    \/ OriginAnswer(th) \/ OriginEnd(th) \/ PromoWait(th) \/ PromoAnswer(th)
    \/ ListWait(th) \/ ListClaim(th) \/ ListAnswer(th) \/ ListEnd(th)

Next ==
    \/ Decide \/ AuthWithStryder \/ RequestMainMenuPromos
    \/ RequestServerList \/ ClearServerList
    \/ \E th \in Threads : Run(th)

Spec == Init /\ [][Next]_vars

\* Threads run and their requests end (curl gives up after 30 seconds); the
\* "game will call this forever, until it gets a valid auth key".
FairSpec ==
    /\ Spec
    /\ WF_vars(AuthWithStryder)
    /\ \A th \in Threads : WF_vars(Run(th))

-----------------------------------------------------------------------------
(* Properties.                                                              *)

\* At most one thread asks for, and then writes, the client's token
\* (AuthenticateOriginWithMasterServer sets its flag before the thread starts).
Authing(th) == pc[th] \in {"origin", "failed", "finish"}
OneOriginAuth == \A th, other \in Threads : Authing(th) /\ Authing(other) => th = other

\* A thread between taking m_bRequestingServerList and releasing it.
Writing(th) == pc[th] \in {"listing", "listed"}

\* A thread of a list request.
Listing(th) == pc[th] \in {"listwait", "claim", "listing", "listed", "listdone"}

\* Whoever waits for one of the flags waits for a thread that is going to reset it:
\* promos for the origin authentication, list requests for each other, scripts for the
\* list.  That other threads and ClearServerList reset the same flags leaves none set.
FlagsHaveThreads ==
    /\ inProgress => \E th \in Threads : Authing(th)
    /\ requesting => \E th \in Threads : Writing(th)
    /\ scriptRequesting => \E th \in Threads : Listing(th)

\* A script that waits for the server list does not wait forever.
ListEnds == scriptRequesting ~> ~scriptRequesting

\* Once the player agrees for good to send the token, promos that were asked
\* for are requested, whether or not the authentication succeeds.
PromosFollowAuth ==
    \A th \in Threads :
      <>[](consent = "AGREED") => (At(th, "promowait") ~> ~At(th, "promowait"))

\* What the comment in RequestServerList says of its loop, "make sure we never have
\* 2 threads writing at once".
OneListWriter == \A th, other \in Threads : Writing(th) /\ Writing(other) => th = other
=============================================================================
