----------------------- MODULE ServerPresence_proofs ------------------------
(***************************************************************************)
(* The safety properties of ServerPresence, for every set of ids, attempt  *)
(* limit, update rate and cool-down.                                       *)
(*                                                                         *)
(* Good says what the reporter's handlers preserve by themselves; Budget   *)
(* relates the add_server requests n sent for the presence to the attempts *)
(* counted for it: a request in flight is the only one not yet counted.    *)
(***************************************************************************)
EXTENDS ServerPresence, TLAPS

Good(r) ==
    /\ r \in Reporters
    /\ r.attempts <= MaxAttempts
    /\ r.add.st # "none" =>
         r.ownId = NoId /\ r.cooldown = 0 /\ r.attempts < MaxAttempts
    /\ r.add.st = "ready" =>
         /\ r.add.result \in AddResults
         /\ r.add.result = "Success" => r.add.id # NoId /\ r.add.token = r.add.id
    /\ r.update.token \in {NoId, r.update.id} \/ r.update.id = NoId

\* A request in flight is at most one more than the counted attempts.
Pending(r, n) == r.add.st # "none" => n <= r.attempts + 1

Budget(r, n) ==
    /\ Pending(r, n)
    /\ r.add.st = "none" /\ r.ownId = NoId => n <= r.attempts

\* The inductive invariant.
IInv ==
    /\ manager \in Managers
    /\ Good(rep)
    /\ removers \subseteq Ids
    /\ entries \subseteq Ids
    /\ adds \in 0..MaxAttempts
    /\ Pending(rep, adds)
    /\ manager.hasPresence /\ ~manager.firstUpdate => Budget(rep, adds)
    /\ NoIdWithoutPresence

-----------------------------------------------------------------------------
(* What the reporter's handlers preserve.                                   *)

\* Taking the result of either request keeps the reporter good.
LEMMA PolledGood ==
    ASSUME NEW r, Good(r) PROVE Good(Polled(r))
<1> USE PresenceAssumption
<1>1. CASE r.add.st = "ready"
  <2>1. Polled(r) = AddTaken(r)
    BY <1>1 DEF Polled
  <2>2. AttemptsAfter(r) \in 0..MaxAttempts
    BY <1>1 DEF Good, AttemptsAfter, Reporters, Futures, AddResults
  <2>3. NoFuture \in Futures(AddResults) /\ NoFuture.st = "none"
    BY DEF NoFuture, Futures, OptionalId
  <2>4. /\ r \in Reporters /\ r.add.id \in OptionalId
        /\ r.add.result = "Success" => r.add.id # NoId /\ r.add.token = r.add.id
    BY <1>1 DEF Good, Reporters, Futures
  <2>5. AddTaken(r) =
          [r EXCEPT
             !.ownId = IF r.add.result = "Success" THEN r.add.id ELSE r.ownId,
             !.ownToken = IF r.add.result = "Success" THEN r.add.id ELSE r.ownToken,
             !.attempts = AttemptsAfter(r),
             !.cooldown = IF r.add.result = "FailedDuplicateServer"
                          THEN Cooldown ELSE r.cooldown,
             !.connected = Reached(r),
             !.add = NoFuture]
    BY <2>4 DEF AddTaken, Granted, Reporters
  <2>6. AddTaken(r) \in Reporters
    <3> DEFINE i == IF r.add.result = "Success" THEN r.add.id ELSE r.ownId
               t == IF r.add.result = "Success" THEN r.add.id ELSE r.ownToken
               w == IF r.add.result = "FailedDuplicateServer"
                    THEN Cooldown ELSE r.cooldown
    <3>1. Reached(r) \in BOOLEAN
      BY DEF Reached
    <3>2. i \in OptionalId /\ t \in OptionalId /\ w \in Nat
      BY <2>4 DEF Reporters
    <3>3. AddTaken(r) = [r EXCEPT !.ownId = i, !.ownToken = t,
                                  !.attempts = AttemptsAfter(r), !.cooldown = w,
                                  !.connected = Reached(r), !.add = NoFuture]
      BY <2>5
    <3> HIDE DEF i, t, w
    <3>4. PICK q \in Reporters : q = [r EXCEPT !.connected = Reached(r)]
      BY <2>4, <3>1, Zenon DEF Reporters
    <3>5. AddTaken(r) = [q EXCEPT !.ownId = i, !.ownToken = t,
                                  !.attempts = AttemptsAfter(r), !.cooldown = w,
                                  !.add = NoFuture]
      BY <2>4, <3>3, <3>4 DEF Reporters
    <3>6. AttemptsAfter(r) \in Nat
      BY <2>2
    <3> QED BY <2>3, <3>2, <3>4, <3>5, <3>6 DEF Reporters
  <2>7. /\ AddTaken(r).attempts = AttemptsAfter(r)
        /\ AddTaken(r).add.st = "none"
        /\ AddTaken(r).update = r.update
    BY <2>3, <2>4, <2>5 DEF Good, Reporters
  <2> QED BY <2>1, <2>2, <2>6, <2>7 DEF Good
<1>2. CASE r.add.st = "none" /\ r.update.st = "ready"
  <2>1. Polled(r) = UpdateTaken(r)
    BY <1>2 DEF Polled
  <2>2. NoFuture \in Futures(UpdateResults)
    BY DEF NoFuture, Futures, OptionalId
  <2>3. r \in Reporters /\ r.update.id \in OptionalId /\ r.update.token \in OptionalId
    BY DEF Good, Reporters, Futures
  <2>4. UpdateTaken(r) \in Reporters
    BY <2>2, <2>3 DEF UpdateTaken, Granted, Reporters
  <2>5. /\ UpdateTaken(r).attempts = r.attempts
        /\ UpdateTaken(r).add = r.add
        /\ UpdateTaken(r).update = NoFuture
    BY <2>3 DEF Good, UpdateTaken, Granted, Reporters
  <2>6. NoFuture.id = NoId
    BY DEF NoFuture
  <2> QED BY <1>2, <2>1, <2>4, <2>5, <2>6 DEF Good
<1>3. CASE r.add.st # "ready" /\ ~(r.add.st = "none" /\ r.update.st = "ready")
  BY <1>3 DEF Polled
<1> QED BY <1>1, <1>2, <1>3

\* Taking a result leaves no request uncounted.
LEMMA PolledPending ==
    ASSUME NEW r, Good(r), NEW n \in 0..MaxAttempts, Pending(r, n)
    PROVE  /\ Pending(Polled(r), n)
           /\ Budget(r, n) => Budget(Polled(r), n)
<1> USE PresenceAssumption
<1>1. CASE r.add.st = "ready"
  <2>1. Polled(r).add.st = "none" /\ Polled(r).attempts = AttemptsAfter(r)
    <3>1. Polled(r) = AddTaken(r) /\ r \in Reporters
      BY <1>1 DEF Polled, Good
    <3>2. NoFuture.st = "none"
      BY DEF NoFuture
    <3> QED BY <3>1, <3>2 DEF AddTaken, Granted, Reporters
  <2>2. Pending(Polled(r), n)
    BY <2>1 DEF Pending
  <2>3. CASE r.add.result = "Success"
    <3>1. Polled(r).ownId = r.add.id
      BY <1>1, <2>3 DEF Polled, AddTaken, Granted, Good, Reporters
    <3> QED BY <1>1, <2>2, <2>3, <3>1 DEF Budget, Good
  <2>4. CASE r.add.result # "Success"
    <3>1. r.add.result \in {"Failed", "FailedNoRetry", "FailedNoConnect",
                            "FailedDuplicateServer"}
      BY <1>1, <2>4 DEF Good, AddResults
    <3>2. n <= AttemptsAfter(r)
      BY <1>1, <3>1 DEF AttemptsAfter, Pending, Good, Reporters
    <3> QED BY <2>1, <2>2, <3>2 DEF Budget
  <2> QED BY <2>3, <2>4
<1>2. CASE r.add.st = "none" /\ r.update.st = "ready"
  <2>1. /\ Polled(r).add = r.add
        /\ Polled(r).attempts = r.attempts
        /\ Polled(r).ownId = r.ownId \/ Polled(r).ownId # NoId
    BY <1>2 DEF Polled, UpdateTaken, Granted, Good, Reporters
  <2> QED BY <1>2, <2>1 DEF Budget, Pending
<1>3. CASE r.add.st # "ready" /\ ~(r.add.st = "none" /\ r.update.st = "ready")
  BY <1>3 DEF Polled
<1> QED BY <1>1, <1>2, <1>3

\* A new presence starts with no attempt counted and no request of its own.
LEMMA CreatedGood ==
    ASSUME NEW r, Good(r) PROVE Good(Created(r)) /\ Budget(Created(r), 0)
BY PresenceAssumption DEF Good, Created, Reporters, Budget, Pending

\* Reporting keeps the reporter good and its requests within the budget.
LEMMA ReportedGood ==
    ASSUME NEW r, Good(r), NEW n \in 0..MaxAttempts, Budget(r, n)
    PROVE  LET m == n + (IF r.ownId = NoId /\ MayAdd(r) THEN 1 ELSE 0)
           IN  /\ Good(Reported(r))
               /\ m \in 0..MaxAttempts
               /\ Budget(Reported(r), m)
<1> USE PresenceAssumption
<1>1. CASE r.ownId = NoId /\ MayAdd(r)
  <2>1. Reported(r) = [r EXCEPT !.ownToken = NoId, !.add = Launched(NoId)]
    BY <1>1 DEF Reported
  <2>2. /\ Launched(NoId) \in Futures(AddResults)
        /\ Launched(NoId).st = "running"
    BY DEF Launched, NoFuture, Futures, OptionalId
  <2>3. Good(Reported(r))
    BY <1>1, <2>1, <2>2 DEF Good, Reporters, OptionalId, MayAdd
  <2>4. n <= r.attempts /\ r.attempts < MaxAttempts /\ r.attempts \in Nat
    BY <1>1 DEF MayAdd, Budget, Good, Reporters
  <2>5. Reported(r).add.st = "running" /\ Reported(r).attempts = r.attempts
    BY <2>1, <2>2 DEF Good, Reporters
  <2> QED BY <1>1, <2>3, <2>4, <2>5 DEF Budget, Pending
<1>2. CASE r.ownId = NoId /\ ~MayAdd(r)
  BY <1>2 DEF Reported
<1>3. CASE r.ownId # NoId
  <2>1. Launched(r.ownId) \in Futures(UpdateResults)
    BY DEF Launched, NoFuture, Futures, OptionalId, Good, Reporters
  <2>2. Launched(r.ownId).token = NoId
    BY DEF Launched, NoFuture
  <2> QED BY <1>3, <2>1, <2>2 DEF Reported, Good, Reporters, Budget, Pending
<1> QED BY <1>1, <1>2, <1>3

-----------------------------------------------------------------------------
(* The invariant.                                                           *)

LEMMA InitIInv == Init => IInv
<1> SUFFICES ASSUME Init PROVE IInv
  OBVIOUS
<1> USE PresenceAssumption
<1>1. /\ NoFuture \in Futures(AddResults)
      /\ NoFuture \in Futures(UpdateResults)
      /\ NoFuture.st = "none" /\ NoFuture.id = NoId
  BY DEF NoFuture, Futures, OptionalId
<1>2. Good(rep)
  BY <1>1 DEF Init, Good, Reporters, OptionalId
<1> QED BY <1>1, <1>2 DEF Init, IInv, Managers, Pending, NoIdWithoutPresence

LEMMA StepIInv == IInv /\ [Next]_vars => IInv'
<1> SUFFICES ASSUME IInv, [Next]_vars PROVE IInv'
  OBVIOUS
<1> USE PresenceAssumption
<1>1. CASE NewGame
  BY <1>1 DEF NewGame, IInv, Managers, Good, Pending, NoIdWithoutPresence
<1>2. CASE GameShutdown
  <2>1. Good(rep')
    BY <1>2 DEF GameShutdown, RemoversAfter, Destroyed, IInv, Good, Reporters, OptionalId
  <2>2. Pending(rep', adds') /\ rep'.ownId = NoId
    BY <1>2 DEF GameShutdown, RemoversAfter, Destroyed, IInv, Good, Reporters, Pending
  <2>3. removers' \subseteq Ids
    BY <1>2 DEF GameShutdown, RemoversAfter, IInv, Good, Reporters, OptionalId
  <2> QED BY <1>2, <2>1, <2>2, <2>3
          DEF GameShutdown, RemoversAfter, IInv, Managers, NoIdWithoutPresence, Good, Pending
<1>3. CASE SetReportConVars
  BY <1>3 DEF SetReportConVars, IInv, Managers, Good, Pending, Budget,
              NoIdWithoutPresence
<1>4. CASE PollFrame
  <2>1. rep' = Polled(rep) /\ manager.hasPresence
    BY <1>4 DEF PollFrame, Reporting
  <2>2. Good(rep')
    BY <2>1, PolledGood DEF IInv
  <2>3. /\ Pending(rep', adds)
        /\ Budget(rep, adds) => Budget(rep', adds)
    BY <2>1, PolledPending DEF IInv
  <2> QED BY <1>4, <2>1, <2>2, <2>3
          DEF PollFrame, IInv, NoIdWithoutPresence, Good, Pending, Budget
<1>5. CASE ReportFrame
  <2> DEFINE n == IF manager.firstUpdate THEN 0 ELSE adds
  <2>1. manager.hasPresence /\ rep' = Reported(Prepared)
    BY <1>5 DEF ReportFrame, Reporting
  <2>2. Good(Prepared) /\ Budget(Prepared, n) /\ n \in 0..MaxAttempts
    <3>1. Good(Polled(rep))
      BY PolledGood DEF IInv
    <3>2. CASE manager.firstUpdate
      BY <3>1, <3>2, CreatedGood DEF Prepared
    <3>3. CASE ~manager.firstUpdate
      BY <2>1, <3>1, <3>3, PolledPending DEF Prepared, IInv
    <3> QED BY <3>2, <3>3
  <2>3. /\ Good(rep')
        /\ adds' \in 0..MaxAttempts
        /\ Budget(rep', adds')
    <3>1. adds' = n + (IF Prepared.ownId = NoId /\ MayAdd(Prepared) THEN 1 ELSE 0)
      BY <1>5 DEF ReportFrame
    <3> HIDE DEF n
    <3> QED BY <2>1, <2>2, <3>1, ReportedGood
  <2>4. manager' \in Managers /\ manager'.hasPresence
    <3>1. manager' = [manager EXCEPT !.firstUpdate = FALSE,
                                     !.untilReport = UpdateRate]
      BY <1>5 DEF ReportFrame
    <3>2. UpdateRate \in 0..UpdateRate
      OBVIOUS
    <3> QED BY <2>1, <3>1, <3>2 DEF IInv, Managers
  <2> QED BY <1>5, <2>3, <2>4
          DEF ReportFrame, IInv, NoIdWithoutPresence, Good, Pending, Budget
<1>6. CASE Tick
  <2>1. manager' \in Managers
    BY <1>6 DEF Tick, IInv, Managers
  <2>2. Good(rep')
    BY <1>6 DEF Tick, IInv, Good, Reporters
  <2>3. /\ rep'.add = rep.add
        /\ rep'.ownId = rep.ownId
        /\ rep'.attempts = rep.attempts
    BY <1>6 DEF Tick, IInv, Good, Reporters
  <2>4. /\ manager'.hasPresence = manager.hasPresence
        /\ manager'.firstUpdate = manager.firstUpdate
    BY <1>6 DEF Tick, IInv, Managers
  <2> QED BY <1>6, <2>1, <2>2, <2>3, <2>4
          DEF Tick, IInv, Pending, Budget, NoIdWithoutPresence, Good
<1>7. CASE AddServerDone
  <2>1. PICK result \in AddResults, id \in OptionalId :
          /\ rep' = [rep EXCEPT !.add = Finished(@, result, id, id)]
          /\ result = "Success" => id # NoId
    BY <1>7 DEF AddServerDone, FreshIds, OptionalId, AddResults
  <2>2. rep.add.st = "running"
    BY <1>7 DEF AddServerDone
  <2>3. /\ Finished(rep.add, result, id, id) \in Futures(AddResults)
        /\ Finished(rep.add, result, id, id).st = "ready"
        /\ Finished(rep.add, result, id, id).result = result
        /\ Finished(rep.add, result, id, id).id = id
        /\ Finished(rep.add, result, id, id).token = id
    BY DEF Finished, Futures, IInv, Good, Reporters
  <2>4. Good(rep')
    BY <2>1, <2>2, <2>3 DEF IInv, Good, Reporters
  <2>5. /\ rep'.add.st = "ready"
        /\ rep'.attempts = rep.attempts
        /\ rep'.ownId = rep.ownId
    BY <2>1, <2>3 DEF IInv, Good, Reporters
  <2>6. entries' \subseteq Ids
    BY <1>7 DEF AddServerDone, FreshIds, IInv
  <2> QED BY <1>7, <2>2, <2>4, <2>5, <2>6
          DEF AddServerDone, IInv, Pending, Budget, NoIdWithoutPresence, Good
<1>8. CASE UpdateServerDone
  <2>1. PICK result \in UpdateResults, id \in OptionalId, token \in OptionalId :
          /\ rep' = [rep EXCEPT !.update = Finished(@, result, id, token)]
          /\ token \in {NoId, id} \/ id = NoId
    <3>1. CASE \E result \in UpdateResults :
                 rep' = [rep EXCEPT !.update = Finished(@, result, NoId, NoId)]
      BY <3>1 DEF OptionalId
    <3>2. CASE \E known \in Ids : \E id, token \in {NoId, known} :
                 rep' = [rep EXCEPT !.update = Finished(@, "Success", id, token)]
      BY <3>2 DEF OptionalId, UpdateResults
    <3>3. entries \subseteq Ids
      BY DEF IInv
    <3> QED BY <1>8, <3>1, <3>2, <3>3 DEF UpdateServerDone, FreshIds
  <2>2. /\ Finished(rep.update, result, id, token) \in Futures(UpdateResults)
        /\ Finished(rep.update, result, id, token).id = id
        /\ Finished(rep.update, result, id, token).token = token
    BY DEF Finished, Futures, IInv, Good, Reporters
  <2>3. Good(rep')
    BY <2>1, <2>2 DEF IInv, Good, Reporters
  <2>4. /\ rep'.add = rep.add
        /\ rep'.attempts = rep.attempts
        /\ rep'.ownId = rep.ownId
    BY <2>1 DEF IInv, Good, Reporters
  <2>5. entries' \subseteq Ids
    BY <1>8 DEF UpdateServerDone, FreshIds, IInv
  <2> QED BY <1>8, <2>3, <2>4, <2>5
          DEF UpdateServerDone, IInv, Pending, Budget, NoIdWithoutPresence, Good
<1>9. CASE RemoveServerRuns
  BY <1>9 DEF RemoveServerRuns, IInv, Pending, Budget, NoIdWithoutPresence, Good
<1>10. CASE EntryExpires
  BY <1>10 DEF EntryExpires, IInv, Pending, Budget, NoIdWithoutPresence, Good
<1>11. CASE UNCHANGED vars
  BY <1>11 DEF vars, IInv, Pending, Budget, NoIdWithoutPresence, Good
<1> QED BY <1>1, <1>2, <1>3, <1>4, <1>5, <1>6, <1>7, <1>8, <1>9, <1>10, <1>11
        DEF Next, Frame

THEOREM Invariance == Spec => []IInv
<1>1. Init => IInv
  BY InitIInv
<1>2. IInv /\ [Next]_vars => IInv'
  BY StepIInv
<1> QED BY <1>1, <1>2, PTL DEF Spec

\* The manager, the reporter and the master server's list keep their types.
THEOREM TypeCorrect == Spec => []TypeOK
<1>1. IInv => TypeOK
  BY PresenceAssumption DEF IInv, TypeOK, Good
<1> QED BY <1>1, Invariance, PTL

\* No presence sends more than MAX_REGISTRATION_ATTEMPTS add_server requests.
THEOREM AddsBounded == Spec => []AtMostMaxAdds
<1>1. IInv => AtMostMaxAdds
  BY PresenceAssumption DEF IInv, AtMostMaxAdds
<1> QED BY <1>1, Invariance, PTL

\* No id appears while an add_server request is out.
THEOREM RegisteringSafe == Spec => []RegisteringHasNoId
<1>1. IInv => RegisteringHasNoId
  BY DEF IInv, RegisteringHasNoId, Good
<1> QED BY <1>1, Invariance, PTL

\* No add_server request is out during the cool-down.
THEOREM CooldownRespected == Spec => []NoAddDuringCooldown
<1>1. IInv => NoAddDuringCooldown
  BY DEF IInv, NoAddDuringCooldown, Good
<1> QED BY <1>1, Invariance, PTL

\* No late answer gives an id to a server without a presence.
THEOREM NoLateId == Spec => []NoIdWithoutPresence
<1>1. IInv => NoIdWithoutPresence
  BY DEF IInv
<1> QED BY <1>1, Invariance, PTL

-----------------------------------------------------------------------------
(* What a frame leaves under way.                                           *)

\* A poll leaves an answer only where it may not take it: that of a registration never,
\* that of a heartbeat while one is out, when there is no id, or has just been granted.
LEMMA PolledStates ==
    ASSUME NEW r, Good(r)
    PROVE  LET p == Polled(r) IN
           /\ p \in Reporters
           /\ p.add.st \in {"none", "running"}
           /\ p.add.st = "running" => p.ownId = NoId
           /\ p.update.st \in {"none", "running", "ready"}
           /\ p.update.st = "ready" => p.ownId = NoId \/ r.add.st = "ready"
<1>1. /\ r \in Reporters /\ r.add.st \in {"none", "running", "ready"}
      /\ r.update.st \in {"none", "running", "ready"}
      /\ r.add.st # "none" => r.ownId = NoId
  BY DEF Good, Reporters, Futures
<1>2. Polled(r) \in Reporters
  BY PolledGood DEF Good
<1>3. NoFuture.st = "none"
  BY DEF NoFuture
<1>4. CASE r.add.st = "ready"
  <2>1. Polled(r) = AddTaken(r)
    BY <1>4 DEF Polled
  <2>2. AddTaken(r).add = NoFuture /\ AddTaken(r).update = r.update
    BY <1>1 DEF AddTaken, Granted, Reporters
  <2> QED
    BY <1>1, <1>2, <1>3, <1>4, <2>1, <2>2
<1>5. CASE r.add.st = "none" /\ r.update.st = "ready"
  <2>1. Polled(r) = UpdateTaken(r)
    BY <1>5 DEF Polled
  <2>2. UpdateTaken(r).add = r.add /\ UpdateTaken(r).update = NoFuture
    BY <1>1 DEF UpdateTaken, Granted, Reporters
  <2> QED
    BY <1>2, <1>3, <1>5, <2>1, <2>2
<1>6. CASE r.add.st # "ready" /\ ~(r.add.st = "none" /\ r.update.st = "ready")
  <2>1. Polled(r) = r
    BY <1>6 DEF Polled
  <2> QED
    BY <1>1, <1>6, <2>1
<1> QED
  BY <1>4, <1>5, <1>6

\* A frame whose report is due leaves a heartbeat or a registration under way, or its
\* cool-down, or no attempts: the report that finds a future in use or a guard shut is
\* never the last of its kind.
THEOREM ReportsGoOn == Spec => NeverIdle
<1> DEFINE Goal ==
      ReportFrame =>
        IF rep'.ownId # NoId
        THEN \/ rep'.update.st = "running"
             \/ rep'.update.st = "ready" /\ rep.add.st = "ready"
        ELSE rep'.add.st = "running" \/ rep'.cooldown > 0 \/ rep'.attempts >= MaxAttempts
<1>1. IInv => Goal
  <2> SUFFICES ASSUME IInv, ReportFrame PROVE Goal
    OBVIOUS
  <2>1. PICK q : q = Prepared
    OBVIOUS
  <2>2. /\ q \in Reporters /\ q.add.st \in {"none", "running"}
        /\ q.add.st = "running" => q.ownId = NoId
        /\ q.update.st \in {"none", "running", "ready"}
        /\ q.update.st = "ready" => q.ownId = NoId \/ rep.add.st = "ready"
    <3> DEFINE p == Polled(rep)
    <3>1. /\ p \in Reporters /\ p.add.st \in {"none", "running"}
          /\ p.add.st = "running" => p.ownId = NoId
          /\ p.update.st \in {"none", "running", "ready"}
          /\ p.update.st = "ready" => p.ownId = NoId \/ rep.add.st = "ready"
      BY PolledStates DEF IInv
    <3> HIDE DEF p
    <3>2. Created(p) = [p EXCEPT !.attempts = 0]
      BY DEF Created
    <3>3. /\ Created(p) \in Reporters /\ Created(p).add = p.add
          /\ Created(p).update = p.update /\ Created(p).ownId = p.ownId
      BY <3>1, <3>2 DEF Reporters
    <3>4. q = p \/ q = Created(p)
      BY <2>1 DEF Prepared, p
    <3> QED
      BY <3>1, <3>3, <3>4
  <2>3. rep' = Reported(q)
    BY <2>1 DEF ReportFrame
  <2>4. CASE q.ownId = NoId /\ MayAdd(q)
    <3>1. rep' = [q EXCEPT !.ownToken = NoId, !.add = Launched(NoId)]
      BY <2>3, <2>4 DEF Reported
    <3>2. Launched(NoId).st = "running"
      BY DEF Launched, NoFuture
    <3> QED
      BY <2>2, <2>4, <3>1, <3>2 DEF Reporters
  <2>5. CASE q.ownId = NoId /\ ~MayAdd(q)
    <3>1. rep' = q
      BY <2>3, <2>5 DEF Reported
    <3>2. q.attempts \in Nat /\ q.cooldown \in Nat
      BY <2>2 DEF Reporters
    <3>3. q.add.st = "running" \/ q.cooldown > 0 \/ q.attempts >= MaxAttempts
      BY <2>2, <2>5, <3>2, PresenceAssumption DEF MayAdd
    <3> QED
      BY <2>5, <3>1, <3>3
  <2>6. CASE q.ownId # NoId /\ q.update.st = "none"
    <3>1. rep' = [q EXCEPT !.update = Launched(q.ownId)]
      BY <2>3, <2>6 DEF Reported
    <3>2. Launched(q.ownId).st = "running"
      BY DEF Launched, NoFuture
    <3>3. rep'.ownId = q.ownId /\ rep'.update.st = "running"
      BY <2>2, <3>1, <3>2 DEF Reporters
    <3> QED
      BY <2>6, <3>3
  <2>7. CASE q.ownId # NoId /\ q.update.st # "none"
    <3>1. rep' = q
      BY <2>3, <2>7 DEF Reported
    <3> QED
      BY <2>2, <2>7, <3>1
  <2> QED
    BY <2>4, <2>5, <2>6, <2>7
<1>2. []IInv => [][Goal]_vars
  BY <1>1, PTL
<1>3. [][Goal]_vars => NeverIdle
  BY DEF NeverIdle
<1> QED
  BY <1>2, <1>3, Invariance, PTL

-----------------------------------------------------------------------------
(* The id and its token.                                                    *)

\* A poll parts the id from its token only by taking half an answer.
LEMMA PolledPaired ==
    ASSUME NEW r, Good(r), Paired(r)
    PROVE  \/ Paired(Polled(r))
           \/ /\ r.add.st = "none" /\ r.update.st = "ready"
              /\ (r.update.id = NoId) # (r.update.token = NoId)
<1>1. r \in Reporters
  BY DEF Good
<1>2. CASE r.add.st = "ready"
  <2>1. r.add.result = "Success" => r.add.id # NoId /\ r.add.token = r.add.id
    BY <1>2 DEF Good
  <2> QED BY <1>1, <1>2, <2>1 DEF Polled, AddTaken, Granted, Paired, Reporters
<1>3. CASE r.add.st = "none" /\ r.update.st = "ready"
  <2>1. r.update.token \in {NoId, r.update.id} \/ r.update.id = NoId
    BY DEF Good
  <2> QED BY <1>1, <1>3, <2>1 DEF Polled, UpdateTaken, Granted, Paired, Reporters
<1>4. CASE r.add.st # "ready" /\ ~(r.add.st = "none" /\ r.update.st = "ready")
  BY <1>4 DEF Polled
<1> QED BY <1>2, <1>3, <1>4

\* The id in use and the token in use were granted together, unless a heartbeat was
\* answered with one of the two.
THEOREM PairingSafe == Spec => IdTokenPaired
<1> DEFINE Goal == Paired(rep) => Paired(rep') \/ (Frame /\ rep.add.st = "none" /\ HalfAnswer)
<1>1. IInv /\ [Next]_vars => Goal
  <2> SUFFICES ASSUME IInv, [Next]_vars, Paired(rep) PROVE Goal
    OBVIOUS
  <2>1. rep \in Reporters /\ Good(rep)
    BY DEF IInv, Good
  <2>2. CASE PollFrame
    BY <2>1, <2>2, PolledPaired DEF PollFrame, Frame, HalfAnswer
  <2>3. CASE ReportFrame
    <3>1. Good(Polled(rep)) /\ Polled(rep) \in Reporters
      BY <2>1, PolledGood DEF Good
    <3>2. Paired(Polled(rep)) => Paired(Prepared)
      BY <3>1 DEF Prepared, Created, Paired, Reporters
    <3>3. PICK q \in Reporters : q = Prepared
      <4>1. Created(Polled(rep)) \in Reporters
        BY <3>1, CreatedGood DEF Good
      <4> QED BY <3>1, <4>1 DEF Prepared
    <3>4. Paired(q) => Paired(Reported(q))
      BY <3>3 DEF Reported, Paired, Reporters
    <3> QED BY <2>1, <2>3, <3>2, <3>3, <3>4, PolledPaired DEF ReportFrame, Frame, HalfAnswer
  <2>4. CASE Tick \/ AddServerDone \/ UpdateServerDone
    BY <2>1, <2>4 DEF Tick, AddServerDone, UpdateServerDone, Paired, Reporters
  <2>5. CASE GameShutdown
    BY <2>1, <2>5 DEF GameShutdown, Destroyed, Paired, Reporters
  <2>6. CASE UNCHANGED rep
    BY <2>6 DEF Paired
  <2> QED BY <2>2, <2>3, <2>4, <2>5, <2>6
          DEF Next, Frame, NewGame, SetReportConVars, RemoveServerRuns, EntryExpires, vars
<1>2. []IInv /\ [][Next]_vars => [][Goal]_vars
  BY <1>1, PTL
<1>3. [][Goal]_vars => IdTokenPaired
  BY DEF IdTokenPaired
<1> QED BY <1>2, <1>3, Invariance, PTL DEF Spec
=============================================================================
