----------------------- MODULE MasterRequests_proofs -----------------------
(***************************************************************************)
(* Proofs about MasterRequests, for any number of threads and calls.       *)
(*                                                                         *)
(* OneOriginAuth is not inductive: it needs that the flag which keeps a     *)
(* second thread out is set for as long as the first one is under way.     *)
(* No such thing holds of the server list, whose flag the threads take     *)
(* after they have waited for it: two can leave that loop together.        *)
(***************************************************************************)
EXTENDS MasterRequests, TLAPS

\* The thread of an origin authentication is alone and its flag is set.
OriginAlone ==
    \A th \in Threads : Authing(th) =>
      inProgress /\ \A other \in Threads : Authing(other) => th = other

IInv == TypeOK /\ OriginAlone

-----------------------------------------------------------------------------
(* The type invariant.                                                      *)

LEMMA StepTypeOK == ASSUME TypeOK, [Next]_vars PROVE TypeOK'
<1> USE DEF TypeOK, Goto, At, Consents
<1>0. ASSUME Call PROVE calls' \in 0..MaxCalls
  BY <1>0, RequestsAssumption DEF Call
<1>1. CASE Decide
  BY <1>1, <1>0 DEF Decide, listVars
<1>2. CASE AuthWithStryder
  BY <1>2 DEF AuthWithStryder, StartOrigin, listVars
<1>3. CASE RequestMainMenuPromos
  BY <1>3, <1>0 DEF RequestMainMenuPromos, listVars, originVars
<1>4. CASE RequestServerList
  BY <1>4, <1>0 DEF RequestServerList, originVars
<1>5. CASE ClearServerList
  BY <1>5, <1>0 DEF ClearServerList, originVars
<1>6. ASSUME NEW th \in Threads, Run(th) PROVE TypeOK'
  <2>1. CASE OriginAnswer(th)
    BY <2>1 DEF OriginAnswer, listVars
  <2>2. CASE OriginEnd(th)
    BY <2>2 DEF OriginEnd, Finish, listVars
  <2>3. CASE PromoWait(th)
    BY <2>3 DEF PromoWait, listVars, originVars
  <2>4. CASE PromoAnswer(th)
    BY <2>4 DEF PromoAnswer, listVars, originVars
  <2>5. CASE ListWait(th)
    BY <2>5 DEF ListWait, listVars, originVars
  <2>6. CASE ListClaim(th)
    BY <2>6 DEF ListClaim, originVars
  <2>7. CASE ListAnswer(th)
    BY <2>7 DEF ListAnswer, AddServers, originVars
  <2>8. CASE ListEnd(th)
    BY <2>8 DEF ListEnd, Release, originVars
  <2> QED
    BY <1>6, <2>1, <2>2, <2>3, <2>4, <2>5, <2>6, <2>7, <2>8 DEF Run
<1>7. CASE UNCHANGED vars
  BY <1>7 DEF vars, listVars, originVars
<1> QED
  BY <1>1, <1>2, <1>3, <1>4, <1>5, <1>6, <1>7 DEF Next

-----------------------------------------------------------------------------
(* One origin authentication.  A step moves one thread, and a thread        *)
(* becomes an authentication's only by the first step of one.               *)

\* A step of one thread that begins no origin authentication, and keeps the
\* flag unless the thread leaves one, leaves it alone.
LEMMA OriginKept ==
    ASSUME OriginAlone, TypeOK, NEW th \in Threads, NEW place, Goto(th, place),
           place \in {"origin", "failed", "finish"} => Authing(th),
           \/ inProgress' = inProgress
           \/ /\ Authing(th)
              /\ place \notin {"origin", "failed", "finish"}
    PROVE  OriginAlone'
<1>1. \A t \in Threads : pc'[t] = IF t = th THEN place ELSE pc[t]
  BY DEF Goto, TypeOK
<1>2. \A t \in Threads : Authing(t)' => Authing(t)
  BY <1>1 DEF Authing
<1>3. CASE inProgress' = inProgress
  BY <1>2, <1>3 DEF OriginAlone
<1>4. CASE Authing(th) /\ place \notin {"origin", "failed", "finish"}
  <2>1. \A t \in Threads : ~Authing(t)'
    BY <1>1, <1>2, <1>4 DEF OriginAlone, Authing
  <2> QED
    BY <2>1 DEF OriginAlone
<1> QED
  BY <1>3, <1>4

\* Steps of the main thread that start a request.
LEMMA StepStart ==
    ASSUME IInv, AuthWithStryder \/ RequestMainMenuPromos \/ RequestServerList
    PROVE  OriginAlone'
<1>1. CASE AuthWithStryder
  <2>1. PICK th \in Threads : StartOrigin(th)
    BY <1>1 DEF AuthWithStryder
  <2>2. \A t \in Threads : ~Authing(t)
    BY <2>1 DEF StartOrigin, IInv, OriginAlone
  <2>3. \A t \in Threads : pc'[t] = IF t = th THEN "origin" ELSE pc[t]
    BY <2>1 DEF StartOrigin, Goto, IInv, TypeOK
  <2>4. \A t \in Threads : Authing(t)' => t = th
    BY <2>2, <2>3 DEF Authing
  <2> QED
    BY <2>1, <2>4 DEF OriginAlone, StartOrigin
<1>2. CASE RequestMainMenuPromos
  <2>1. PICK th \in Threads : Goto(th, "promowait")
    BY <1>2 DEF RequestMainMenuPromos
  <2> QED
    BY <1>2, <2>1, OriginKept DEF IInv, RequestMainMenuPromos, originVars
<1>3. CASE RequestServerList
  <2>1. PICK th \in Threads : Goto(th, "listwait")
    BY <1>3 DEF RequestServerList
  <2> QED
    BY <1>3, <2>1, OriginKept DEF IInv, RequestServerList, originVars
<1> QED
  BY <1>1, <1>2, <1>3

\* Steps of a request thread.
LEMMA StepRun ==
    ASSUME IInv, NEW th \in Threads, Run(th) PROVE OriginAlone'
<1> USE DEF IInv, At, Authing
<1>1. CASE OriginAnswer(th)
  <2>1. PICK place \in {"finish", "failed"} : Goto(th, place)
    BY <1>1 DEF OriginAnswer
  <2> QED
    BY <1>1, <2>1, OriginKept DEF OriginAnswer, listVars
<1>2. CASE OriginEnd(th)
  <2>1. CASE pc[th] \in {"finish", "failed"}
    BY <1>2, <2>1, OriginKept DEF OriginEnd, Finish, listVars
  <2>2. CASE At(th, "done")
    BY <1>2, <2>2, OriginKept DEF OriginEnd, Finish, listVars
  <2> QED
    BY <1>2, <2>1, <2>2 DEF OriginEnd, Finish
<1>3. CASE PromoWait(th)
  BY <1>3, OriginKept DEF PromoWait, listVars, originVars
<1>4. CASE PromoAnswer(th)
  BY <1>4, OriginKept DEF PromoAnswer, listVars, originVars
<1>5. CASE ListWait(th)
  BY <1>5, OriginKept DEF ListWait, listVars, originVars
<1>6. CASE ListClaim(th)
  BY <1>6, OriginKept DEF ListClaim, originVars
<1>7. CASE ListAnswer(th)
  BY <1>7, OriginKept DEF ListAnswer, originVars
<1>8. CASE ListEnd(th)
  <2>1. CASE At(th, "listed")
    BY <1>8, <2>1, OriginKept DEF ListEnd, Release, originVars
  <2>2. CASE At(th, "listdone")
    BY <1>8, <2>2, OriginKept DEF ListEnd, Release, originVars
  <2> QED
    BY <1>8, <2>1, <2>2 DEF ListEnd, Release
<1> QED
  BY <1>1, <1>2, <1>3, <1>4, <1>5, <1>6, <1>7, <1>8 DEF Run

-----------------------------------------------------------------------------
(* The flags somebody waits for.                                            *)

\* A step of one thread that sets a flag only as the thread whose flag it is then, and
\* resets those it leaves.
LEMMA FlagsKept ==
    ASSUME TypeOK, FlagsHaveThreads, NEW th \in Threads, NEW place, Goto(th, place),
           inProgress' => place \in {"origin", "failed", "finish"} \/ (inProgress /\ ~Authing(th)),
           requesting' => place \in {"listing", "listed"} \/ (requesting /\ ~Writing(th)),
           scriptRequesting' =>
             \/ place \in {"listwait", "claim", "listing", "listed", "listdone"}
             \/ scriptRequesting /\ ~Listing(th)
    PROVE  FlagsHaveThreads'
<1>1. \A t \in Threads : pc'[t] = IF t = th THEN place ELSE pc[t]
  BY DEF Goto, TypeOK
<1>2. \A t \in Threads \ {th} :
        (Authing(t) => Authing(t)') /\ (Writing(t) => Writing(t)') /\ (Listing(t) => Listing(t)')
  BY <1>1 DEF Authing, Writing, Listing
<1>3. inProgress' => \E t \in Threads : Authing(t)'
  BY <1>1, <1>2 DEF FlagsHaveThreads, Authing
<1>4. requesting' => \E t \in Threads : Writing(t)'
  BY <1>1, <1>2 DEF FlagsHaveThreads, Writing
<1>5. scriptRequesting' => \E t \in Threads : Listing(t)'
  BY <1>1, <1>2 DEF FlagsHaveThreads, Listing
<1> QED
  BY <1>3, <1>4, <1>5 DEF FlagsHaveThreads

LEMMA FlagsStep ==
    ASSUME TypeOK, FlagsHaveThreads, [Next]_vars PROVE FlagsHaveThreads'
<1> USE DEF At, Authing, Writing, Listing
<1>1. CASE Decide \/ ClearServerList \/ UNCHANGED vars
  BY <1>1 DEF Decide, ClearServerList, vars, listVars, originVars, FlagsHaveThreads
<1>2. CASE AuthWithStryder
  <2>1. PICK th \in Threads : StartOrigin(th)
    BY <1>2 DEF AuthWithStryder
  <2> QED
    BY <1>2, <2>1, FlagsKept DEF AuthWithStryder, StartOrigin, listVars
<1>3. CASE RequestMainMenuPromos
  <2>1. PICK th \in Threads : At(th, "idle") /\ Goto(th, "promowait")
    BY <1>3 DEF RequestMainMenuPromos
  <2> QED
    BY <1>3, <2>1, FlagsKept DEF RequestMainMenuPromos, listVars, originVars
<1>4. CASE RequestServerList
  <2>1. PICK th \in Threads : At(th, "idle") /\ Goto(th, "listwait")
    BY <1>4 DEF RequestServerList
  <2> QED
    BY <1>4, <2>1, FlagsKept DEF RequestServerList, originVars
<1>5. ASSUME NEW th \in Threads, Run(th) PROVE FlagsHaveThreads'
  <2>1. CASE OriginAnswer(th)
    BY <2>1, FlagsKept DEF OriginAnswer, listVars
  <2>2. CASE OriginEnd(th)
    BY <2>2, FlagsKept DEF OriginEnd, Finish, listVars
  <2>3. CASE PromoWait(th)
    BY <2>3, FlagsKept DEF PromoWait, listVars, originVars
  <2>4. CASE PromoAnswer(th)
    BY <2>4, FlagsKept DEF PromoAnswer, listVars, originVars
  <2>5. CASE ListWait(th)
    BY <2>5, FlagsKept DEF ListWait, listVars, originVars
  <2>6. CASE ListClaim(th)
    BY <2>6, FlagsKept DEF ListClaim, originVars
  <2>7. CASE ListAnswer(th)
    BY <2>7, FlagsKept DEF ListAnswer, originVars
  <2>8. CASE ListEnd(th)
    BY <2>8, FlagsKept DEF ListEnd, Release, originVars
  <2> QED
    BY <1>5, <2>1, <2>2, <2>3, <2>4, <2>5, <2>6, <2>7, <2>8 DEF Run
<1> QED
  BY <1>1, <1>2, <1>3, <1>4, <1>5 DEF Next

\* IInv holds in every state a behaviour reaches.
THEOREM Invariance == Spec => []IInv
<1>1. Init => IInv
  <2> SUFFICES ASSUME Init PROVE IInv
    OBVIOUS
  <2>1. TypeOK
    <3>1. 0 \in 0..MaxCalls
      BY RequestsAssumption
    <3> QED
      BY <3>1 DEF Init, TypeOK, Consents
  <2>2. OriginAlone
    BY DEF Init, OriginAlone, Authing
  <2> QED
    BY <2>1, <2>2 DEF IInv
<1>2. ASSUME IInv, [Next]_vars PROVE IInv'
  <2>1. TypeOK'
    BY <1>2, StepTypeOK DEF IInv
  <2>2. OriginAlone'
    <3>1. CASE Decide \/ ClearServerList \/ UNCHANGED vars
      BY <1>2, <3>1
      DEF Decide, ClearServerList, vars, listVars, originVars, IInv,
          OriginAlone, Authing
    <3>2. CASE AuthWithStryder \/ RequestMainMenuPromos \/ RequestServerList
      BY <1>2, <3>2, StepStart
    <3>3. CASE \E th \in Threads : Run(th)
      BY <1>2, <3>3, StepRun
    <3> QED
      BY <1>2, <3>1, <3>2, <3>3 DEF Next
  <2> QED
    BY <2>1, <2>2 DEF IInv
<1> QED
  BY <1>1, <1>2, PTL DEF Spec

\* Threads, flags and the list keep their types.
THEOREM TypeCorrect == Spec => []TypeOK
<1>1. IInv => TypeOK
  BY DEF IInv
<1> QED
  BY <1>1, Invariance, PTL

\* At most one thread at a time asks for the client's token, however often the
\* engine calls AuthWithStryder.
THEOREM SingleOriginAuth == Spec => []OneOriginAuth
<1>1. IInv => OneOriginAuth
  BY DEF IInv, OriginAlone, OneOriginAuth
<1> QED
  BY <1>1, Invariance, PTL

\* Each flag that somebody waits for belongs to a thread that is going to reset it: the
\* part of ListEnds and PromosFollowAuth that does not depend on fairness.
THEOREM WaitsHaveEnds == Spec => []FlagsHaveThreads
<1>1. Init => FlagsHaveThreads
  BY DEF Init, FlagsHaveThreads
<1>2. TypeOK /\ FlagsHaveThreads /\ [Next]_vars => FlagsHaveThreads'
  BY FlagsStep
<1> QED
  BY <1>1, <1>2, TypeCorrect, PTL DEF Spec
=============================================================================
