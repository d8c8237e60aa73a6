----------------------- MODULE ScriptRequests_proofs ------------------------
(***************************************************************************)
(* The safety properties of ScriptRequests, for every set of contexts and  *)
(* threads and every bound.                                                *)
(*                                                                         *)
(* Issued says that all handles in use are below the next one;             *)
(* RequestsMatch is AnswersMatch for the answers that threads have yet to  *)
(* give; NothingWithoutVm makes a new VM start with an empty buffer and no *)
(* handles.  A step of a thread before the last (Advances) only moves the  *)
(* request on.                                                             *)
(***************************************************************************)
EXTENDS ScriptRequests, TLAPS

NothingWithoutVm == \A c \in Contexts : vm[c] = 0 => buffer[c] = <<>> /\ asked[c] = {}

Issued ==
    /\ \A c \in Contexts : \A h \in asked[c] : h <= lastHandle
    /\ \A th \in Threads : thread[th] # Idle => thread[th].handle <= lastHandle
    /\ \A c \in Contexts : \A i \in 1..Len(buffer[c]) : buffer[c][i].handle <= lastHandle

RequestsMatch ==
    \A th \in Threads :
        thread[th] # Idle /\ thread[th].handle \in asked[thread[th].context]
            => thread[th].vm = vm[thread[th].context]

Matching == NothingWithoutVm /\ Issued /\ RequestsMatch /\ AnswersMatch /\ CommandsStay

\* The inductive invariant.
IInv == TypeOK /\ Matching /\ AnsweredOnce /\ AnswerUnderWay

\* A thread goes on with its request.
Advances(th) ==
    \E r \in Requests :
        /\ thread[th] \in Requests
        /\ thread' = [thread EXCEPT ![th] = r]
        /\ r.context = thread[th].context /\ r.handle = thread[th].handle
        /\ r.vm = thread[th].vm
        /\ r.pc = "pushing" => r.target = vm[r.context]
        /\ UNCHANGED <<vmVars, buffer, lastHandle, crashed>>

-----------------------------------------------------------------------------
(* Threads.                                                                 *)

\* A thread that is anywhere in its function has a request.
LEMMA AtRequest ==
    ASSUME TypeOK, NEW th \in Threads, thread[th].pc # "idle"
    PROVE  thread[th] \in Requests
<1>1. thread[th] \in Requests \cup {Idle}
  BY DEF TypeOK
<1>2. Idle.pc = "idle"
  BY DEF Idle
<1> QED
  BY <1>1, <1>2

LEMMA NotIdle ==
    ASSUME NEW r \in Requests PROVE r # Idle
<1>1. r.pc # "idle"
  BY DEF Requests
<1>2. Idle.pc = "idle"
  BY DEF Idle
<1> QED
  BY <1>1, <1>2

LEMMA ContextOf ==
    ASSUME TypeOK, NEW th \in Threads, thread[th] # Idle
    PROVE  thread[th].context \in Contexts
<1>1. thread[th] \in Requests
  BY DEF TypeOK
<1> QED
  BY <1>1 DEF Requests

\* The steps of a thread before its push.
LEMMA StepAdvances ==
    ASSUME TypeOK, NEW th \in Threads, Resolve(th) \/ Perform(th) \/ AsyncCall(th)
    PROVE  Advances(th)
<1> DEFINE q == thread[th]
<1>1. q \in Requests
  BY AtRequest DEF Resolve, Perform, AsyncCall, At
<1>2. vm[q.context] \in 0..MaxVms
  BY <1>1 DEF TypeOK, Requests
<1>3. CASE Resolve(th) \/ Perform(th)
  <2>1. PICK pc \in {"performing", "calling"}, refused \in BOOLEAN :
            thread' = [thread EXCEPT ![th] = [q EXCEPT !.pc = pc, !.refused = refused]]
    <3>1. CASE thread' = [thread EXCEPT ![th] = [q EXCEPT !.pc = "calling", !.refused = TRUE]]
      BY <3>1
    <3>2. ASSUME NEW pc \in {"performing", "calling"}, Goto(th, pc)
          PROVE  thread' = [thread EXCEPT ![th] = [q EXCEPT !.pc = pc, !.refused = q.refused]]
      <4>1. [q EXCEPT !.pc = pc] = [q EXCEPT !.pc = pc, !.refused = q.refused]
        BY <1>1 DEF Requests
      <4> QED
        BY <3>2, <4>1 DEF Goto
    <3>3. q.refused \in BOOLEAN
      BY <1>1 DEF Requests
    <3>4. CASE Goto(th, "performing") \/ Goto(th, "calling")
      BY <3>2, <3>3, <3>4
    <3> QED
      BY <1>3, <3>1, <3>4 DEF Resolve, Perform, Performed
  <2> DEFINE r == [q EXCEPT !.pc = pc, !.refused = refused]
  <2>2. /\ r \in Requests /\ r.pc # "pushing"
        /\ r.context = q.context /\ r.handle = q.handle /\ r.vm = q.vm
    BY <1>1 DEF Requests
  <2>3. UNCHANGED <<vmVars, buffer, lastHandle, crashed>>
    BY <1>3 DEF Resolve, Perform
  <2> HIDE DEF r
  <2> QED
    BY <1>1, <2>1, <2>2, <2>3 DEF Advances, r
<1>4. CASE AsyncCall(th)
  <2> DEFINE r == [q EXCEPT !.pc = "pushing", !.target = vm[q.context]]
  <2>1. /\ r \in Requests /\ r.target = vm[q.context]
        /\ r.context = q.context /\ r.handle = q.handle /\ r.vm = q.vm
    BY <1>1, <1>2 DEF Requests
  <2>2. /\ thread' = [thread EXCEPT ![th] = r]
        /\ UNCHANGED <<vmVars, buffer, lastHandle, crashed>>
    BY <1>4 DEF AsyncCall
  <2> HIDE DEF r
  <2> QED
    BY <1>1, <2>1, <2>2 DEF Advances
<1> QED
  BY <1>3, <1>4

LEMMA AdvanceTypeOK ==
    ASSUME TypeOK, NEW th \in Threads, Advances(th) PROVE TypeOK'
<1>1. PICK r \in Requests :
        thread' = [thread EXCEPT ![th] = r] /\ UNCHANGED <<vmVars, buffer, lastHandle, crashed>>
  BY DEF Advances
<1>2. thread' \in [Threads -> Requests \cup {Idle}]
  BY <1>1 DEF TypeOK
<1> QED
  BY <1>1, <1>2 DEF TypeOK, vmVars

LEMMA AdvanceMatching ==
    ASSUME IInv, NEW th \in Threads, Advances(th)
    PROVE  Matching' /\ AnsweredOnce' /\ AnswerUnderWay'
<1>1. PICK r \in Requests :
        /\ thread[th] \in Requests
        /\ thread' = [thread EXCEPT ![th] = r]
        /\ r.context = thread[th].context /\ r.handle = thread[th].handle
        /\ r.vm = thread[th].vm
        /\ r.pc = "pushing" => r.target = vm[r.context]
        /\ UNCHANGED <<vmVars, buffer, lastHandle, crashed>>
  BY DEF Advances
<1>2. thread[th] # Idle /\ r # Idle
  BY <1>1, NotIdle
<1>3. /\ thread'[th] = r
      /\ \A o \in Threads : o # th => thread'[o] = thread[o]
  BY <1>1 DEF IInv, TypeOK
<1>4. UNCHANGED <<vm, buffer, asked, lastHandle, crashed>>
  BY <1>1 DEF vmVars
<1>5. Matching'
  BY <1>1, <1>2, <1>3, <1>4
  DEF IInv, Matching, NothingWithoutVm, Issued, RequestsMatch, AnswersMatch, CommandsStay,
      MessagesOf
<1>6. AnsweredOnce'
  <2>1. \A o \in Threads :
          /\ thread'[o] # Idle <=> thread[o] # Idle
          /\ thread[o] # Idle => thread'[o].handle = thread[o].handle
    BY <1>1, <1>2, <1>3
  <2> QED
    BY <2>1, <1>4 DEF IInv, AnsweredOnce, MessagesOf
<1>7. AnswerUnderWay'
  <2> SUFFICES ASSUME NEW c \in Contexts, NEW h \in asked[c], ~crashed,
                      ~\E m \in MessagesOf(c) : m.handle = h
               PROVE  \E o \in Threads :
                         /\ thread'[o] # Idle
                         /\ thread'[o].context = c /\ thread'[o].handle = h
                         /\ thread'[o].pc = "pushing" => thread'[o].target = vm[c]
    BY <1>4 DEF AnswerUnderWay, At, MessagesOf
  <2>1. PICK o \in Threads :
          /\ thread[o] # Idle
          /\ thread[o].context = c /\ thread[o].handle = h
          /\ thread[o].pc = "pushing" => thread[o].target = vm[c]
    BY DEF IInv, AnswerUnderWay, At
  <2>2. CASE o = th
    BY <2>1, <2>2, <1>1, <1>2, <1>3
  <2>3. CASE o # th
    BY <2>1, <2>3, <1>3
  <2> QED
    BY <2>2, <2>3
<1> QED
  BY <1>5, <1>6, <1>7

-----------------------------------------------------------------------------
(* The push.                                                                *)

\* A push that finds the buffer adds the answer to it; any other loses the answer, and
\* then nobody waits for it who has the same VM as the thread found.
LEMMA StepPush ==
    ASSUME IInv, NEW th \in Threads, Push(th)
    PROVE  TypeOK' /\ Matching' /\ AnsweredOnce' /\ AnswerUnderWay'
<1> DEFINE q == thread[th]
           m == [handle |-> q.handle, vm |-> q.vm]
           b == buffer[q.context]
<1>1. q \in Requests /\ q # Idle /\ q.pc = "pushing"
  <2>1. q.pc = "pushing"
    BY DEF Push, At
  <2>2. q \in Requests
    BY <2>1, AtRequest DEF IInv
  <2> QED
    BY <2>1, <2>2, NotIdle
<1>2. q.context \in Contexts /\ m \in Messages /\ b \in Seq(Messages) /\ m.handle # 0
  <2>1. /\ q.context \in Contexts /\ q.handle \in 1..MaxHandle /\ q.vm \in 1..MaxVms
    BY <1>1 DEF Requests
  <2>2. q.handle \in 0..MaxHandle /\ q.handle # 0
    BY <2>1, RequestsAssumption
  <2>3. m \in Messages /\ m.handle # 0
    BY <2>1, <2>2 DEF Messages
  <2>4. b \in Seq(Messages)
    BY <2>1 DEF IInv, TypeOK
  <2> QED
    BY <2>1, <2>3, <2>4
<1>3. /\ thread' = [thread EXCEPT ![th] = Idle]
      /\ UNCHANGED <<vm, vms, asked, frame, commands, lastHandle>>
  BY DEF Push, Return, vmVars
<1>4. /\ thread'[th] = Idle
      /\ \A o \in Threads : o # th => thread'[o] = thread[o]
  BY <1>3 DEF IInv, TypeOK
<1>5. thread' \in [Threads -> Requests \cup {Idle}]
  BY <1>3 DEF IInv, TypeOK
<1>6. CASE /\ q.target = vm[q.context] /\ vm[q.context] # 0
           /\ buffer' = [buffer EXCEPT ![q.context] = Append(@, m)]
           /\ UNCHANGED crashed
  <2>1. buffer'[q.context] = Append(b, m)
    BY <1>2, <1>6 DEF IInv, TypeOK
  <2>2. /\ Len(buffer'[q.context]) = Len(b) + 1 /\ buffer'[q.context][Len(b) + 1] = m
        /\ \A i \in 1..Len(b) : buffer'[q.context][i] = b[i]
    BY <1>2, <2>1
  <2>3. \A c \in Contexts : c # q.context => buffer'[c] = buffer[c]
    BY <1>6 DEF IInv, TypeOK
  <2>4. TypeOK'
    <3>1. buffer' \in [Contexts -> Seq(Messages)]
      BY <1>2, <1>6 DEF IInv, TypeOK
    <3> QED
      BY <3>1, <1>3, <1>5, <1>6 DEF IInv, TypeOK
  \* The messages of a buffer are those it had, and the answer.
  <2>5. /\ Len(b) \in Nat
        /\ \A c \in Contexts : \A i \in 1..Len(buffer'[c]) :
             \/ c = q.context /\ i = Len(b) + 1 /\ buffer'[c][i] = m
             \/ i \in 1..Len(buffer[c]) /\ buffer'[c][i] = buffer[c][i]
    BY <1>2, <2>2, <2>3
  <2> HIDE DEF b, m
  <2>6. m.handle = q.handle /\ m.vm = q.vm
    BY DEF m
  <2>7. Matching'
    <3>1. NothingWithoutVm'
      BY <1>3, <1>6, <2>3 DEF IInv, Matching, NothingWithoutVm
    <3>2. Issued'
      BY <1>1, <1>3, <1>4, <2>5, <2>6 DEF IInv, Matching, Issued
    <3>3. RequestsMatch'
      BY <1>3, <1>4 DEF IInv, Matching, RequestsMatch
    <3>4. AnswersMatch'
      BY <1>1, <1>3, <2>5, <2>6 DEF IInv, Matching, RequestsMatch, AnswersMatch, MessagesOf
    <3>5. CommandsStay'
      BY <1>2, <1>3, <2>5 DEF IInv, Matching, CommandsStay, MessagesOf
    <3> QED
      BY <3>1, <3>2, <3>3, <3>4, <3>5 DEF Matching
  <2>8. AnsweredOnce'
    <3>1. \A o, p \in Threads :
            o # p /\ thread'[o] # Idle /\ thread'[p] # Idle
               => thread'[o].handle # thread'[p].handle
      BY <1>4 DEF IInv, AnsweredOnce
    <3>2. \A o \in Threads, c \in Contexts : \A i \in 1..Len(buffer'[c]) :
            thread'[o] # Idle => buffer'[c][i].handle # thread'[o].handle
      BY <1>1, <1>4, <2>5, <2>6 DEF IInv, AnsweredOnce, MessagesOf
    <3>3. ASSUME NEW c \in Contexts, NEW d \in Contexts,
                 NEW i \in 1..Len(buffer'[c]), NEW j \in 1..Len(buffer'[d]),
                 buffer'[c][i].handle = buffer'[d][j].handle, buffer'[c][i].handle # 0
          PROVE  c = d /\ i = j
      <4>1. ASSUME NEW e \in Contexts, NEW k \in 1..Len(buffer[e])
            PROVE  buffer[e][k].handle # q.handle
        BY <1>1 DEF IInv, AnsweredOnce, MessagesOf
      <4>2. CASE buffer'[c][i].handle = q.handle
        <5>1. c = q.context /\ i = Len(b) + 1
          BY <4>1, <4>2, <2>5
        <5>2. d = q.context /\ j = Len(b) + 1
          <6>1. buffer'[d][j].handle = q.handle
            BY <3>3, <4>2
          <6>2. ~(j \in 1..Len(buffer[d]) /\ buffer'[d][j] = buffer[d][j])
            BY <4>1, <6>1
          <6> QED
            BY <6>2, <2>5
        <5> QED
          BY <5>1, <5>2
      <4>3. CASE buffer'[c][i].handle # q.handle
        <5>1. i \in 1..Len(buffer[c]) /\ buffer'[c][i] = buffer[c][i]
          BY <4>3, <2>5, <2>6
        <5>2. j \in 1..Len(buffer[d]) /\ buffer'[d][j] = buffer[d][j]
          BY <3>3, <4>3, <2>5, <2>6
        <5> QED
          BY <3>3, <5>1, <5>2 DEF IInv, AnsweredOnce
      <4> QED
        BY <4>2, <4>3
    <3> QED
      BY <3>1, <3>2, <3>3 DEF AnsweredOnce, MessagesOf
  <2>9. AnswerUnderWay'
    <3> SUFFICES ASSUME NEW c \in Contexts, NEW h \in asked[c], ~crashed,
                        ~\E o \in Threads :
                           /\ thread'[o] # Idle
                           /\ thread'[o].context = c /\ thread'[o].handle = h
                           /\ thread'[o].pc = "pushing" => thread'[o].target = vm[c]
                 PROVE  \E i \in 1..Len(buffer'[c]) : buffer'[c][i].handle = h
      BY <1>3, <1>6 DEF AnswerUnderWay, At, MessagesOf
    <3>1. CASE \E i \in 1..Len(buffer[c]) : buffer[c][i].handle = h
      BY <1>2, <2>2, <2>3, <2>5, <3>1 DEF b
    <3>2. CASE \E o \in Threads :
                 /\ thread[o] # Idle
                 /\ thread[o].context = c /\ thread[o].handle = h
                 /\ thread[o].pc = "pushing" => thread[o].target = vm[c]
      <4>1. q.context = c /\ q.handle = h
        BY <3>2, <1>4
      <4> QED
        BY <4>1, <2>2, <2>5, <2>6
    <3> QED
      BY <3>1, <3>2 DEF IInv, AnswerUnderWay, At, MessagesOf
  <2> QED
    BY <2>4, <2>7, <2>8, <2>9
<1>7. CASE /\ q.target = 0 \/ q.target # vm[q.context]
           /\ UNCHANGED buffer
           /\ UNCHANGED crashed \/ crashed'
  <2>1. TypeOK'
    BY <1>3, <1>5, <1>7 DEF IInv, TypeOK
  <2>2. Matching'
    BY <1>3, <1>4, <1>7
    DEF IInv, Matching, NothingWithoutVm, Issued, RequestsMatch, AnswersMatch, CommandsStay,
        MessagesOf
  <2>3. AnsweredOnce'
    BY <1>3, <1>4, <1>7 DEF IInv, AnsweredOnce, MessagesOf
  <2>4. AnswerUnderWay'
    <3> SUFFICES ASSUME NEW c \in Contexts, NEW h \in asked[c], ~crashed', UNCHANGED crashed,
                        ~\E m2 \in MessagesOf(c) : m2.handle = h
                 PROVE  \E o \in Threads :
                           /\ thread'[o] # Idle
                           /\ thread'[o].context = c /\ thread'[o].handle = h
                           /\ thread'[o].pc = "pushing" => thread'[o].target = vm[c]
      BY <1>3, <1>7 DEF AnswerUnderWay, At, MessagesOf
    <3>1. PICK o \in Threads :
            /\ thread[o] # Idle
            /\ thread[o].context = c /\ thread[o].handle = h
            /\ thread[o].pc = "pushing" => thread[o].target = vm[c]
      BY DEF IInv, AnswerUnderWay, At
    <3>2. vm[c] # 0
      BY DEF IInv, Matching, NothingWithoutVm
    <3>3. o # th
      BY <3>1, <3>2, <1>1, <1>7
    <3> QED
      BY <3>1, <3>3, <1>4
  <2> QED
    BY <2>1, <2>2, <2>3, <2>4
<1> QED
  BY <1>6, <1>7 DEF Push

-----------------------------------------------------------------------------
(* The main thread.                                                         *)

\* The steps that touch neither VMs nor buffers, handles and threads.
LEMMA StepFrame ==
    ASSUME IInv, BeginFrame \/ (\E c \in Contexts : BufferProcessed(c)) \/ UNCHANGED vars
    PROVE  IInv'
<1>1. UNCHANGED <<vm, vms, buffer, asked, thread, lastHandle, commands, crashed>>
  BY DEF BeginFrame, BufferProcessed, vars
<1>2. frame' \subseteq Contexts
  BY DEF IInv, TypeOK, BeginFrame, BufferProcessed, vars
<1>3. TypeOK'
  BY <1>1, <1>2 DEF IInv, TypeOK
<1>4. Matching'
  BY <1>1
  DEF IInv, Matching, NothingWithoutVm, Issued, RequestsMatch, AnswersMatch, CommandsStay,
      MessagesOf
<1>5. AnsweredOnce' /\ AnswerUnderWay'
  BY <1>1 DEF IInv, AnsweredOnce, AnswerUnderWay, MessagesOf, At
<1> QED
  BY <1>3, <1>4, <1>5 DEF IInv

\* A new VM finds an empty buffer.
LEMMA StepCreated ==
    ASSUME IInv, NEW c \in Contexts, VMCreated(c)
    PROVE  IInv'
<1>1. /\ vm[c] = 0 /\ vm' = [vm EXCEPT ![c] = vms + 1] /\ vms' = vms + 1 /\ vms < MaxVms
      /\ UNCHANGED <<buffer, asked, thread, lastHandle, frame, commands, crashed>>
  BY DEF VMCreated
<1>2. /\ buffer[c] = <<>> /\ asked[c] = {} /\ Len(buffer[c]) = 0
  BY <1>1 DEF IInv, Matching, NothingWithoutVm
<1>3. /\ vm'[c] = vms + 1 /\ vm'[c] # 0
      /\ \A d \in Contexts : d # c => vm'[d] = vm[d]
  BY <1>1 DEF IInv, TypeOK
<1>4. TypeOK'
  <2>1. vms + 1 \in 0..MaxVms
    BY <1>1, RequestsAssumption DEF IInv, TypeOK
  <2>2. vm' \in [Contexts -> 0..MaxVms]
    BY <1>1, <2>1 DEF IInv, TypeOK
  <2> QED
    BY <1>1, <2>1, <2>2 DEF IInv, TypeOK
<1>5. Matching'
  <2>1. NothingWithoutVm' /\ Issued'
    BY <1>1, <1>3 DEF IInv, Matching, NothingWithoutVm, Issued
  <2>2. RequestsMatch'
    BY <1>1, <1>2, <1>3, ContextOf DEF IInv, Matching, RequestsMatch
  <2>3. AnswersMatch' /\ CommandsStay'
    BY <1>1, <1>2, <1>3 DEF IInv, Matching, AnswersMatch, CommandsStay, MessagesOf
  <2> QED
    BY <2>1, <2>2, <2>3 DEF Matching
<1>6. AnsweredOnce'
  BY <1>1 DEF IInv, AnsweredOnce, MessagesOf
<1>7. AnswerUnderWay'
  BY <1>1, <1>2, <1>3 DEF IInv, AnswerUnderWay, MessagesOf, At
<1> QED
  BY <1>4, <1>5, <1>6, <1>7 DEF IInv

\* With a VM go its messages and whatever it waited for.
LEMMA StepDestroyed ==
    ASSUME IInv, NEW c \in Contexts, VMDestroyed(c)
    PROVE  IInv'
<1>1. /\ vm' = [vm EXCEPT ![c] = 0]
      /\ buffer' = [buffer EXCEPT ![c] = <<>>]
      /\ asked' = [asked EXCEPT ![c] = {}]
      /\ UNCHANGED <<vms, thread, lastHandle, frame, commands, crashed>>
  BY DEF VMDestroyed, DeleteBuffer
<1>2. /\ vm'[c] = 0 /\ buffer'[c] = <<>> /\ asked'[c] = {} /\ Len(buffer'[c]) = 0
      /\ \A d \in Contexts : d # c =>
            vm'[d] = vm[d] /\ buffer'[d] = buffer[d] /\ asked'[d] = asked[d]
  BY <1>1 DEF IInv, TypeOK
<1>3. TypeOK'
  <2>1. vm' \in [Contexts -> 0..MaxVms]
    BY <1>1, RequestsAssumption DEF IInv, TypeOK
  <2>2. buffer' \in [Contexts -> Seq(Messages)]
    BY <1>1 DEF IInv, TypeOK
  <2>3. asked' \in [Contexts -> SUBSET (1..MaxHandle)]
    BY <1>1 DEF IInv, TypeOK
  <2> QED
    BY <1>1, <2>1, <2>2, <2>3 DEF IInv, TypeOK
<1>4. Matching'
  <2>1. NothingWithoutVm' /\ Issued'
    BY <1>1, <1>2 DEF IInv, Matching, NothingWithoutVm, Issued
  <2>2. RequestsMatch'
    BY <1>1, <1>2, ContextOf DEF IInv, Matching, RequestsMatch
  <2>3. AnswersMatch' /\ CommandsStay'
    BY <1>1, <1>2 DEF IInv, Matching, AnswersMatch, CommandsStay, MessagesOf
  <2> QED
    BY <2>1, <2>2, <2>3 DEF Matching
<1>5. AnsweredOnce'
  BY <1>1, <1>2 DEF IInv, AnsweredOnce, MessagesOf
<1>6. AnswerUnderWay'
  BY <1>1, <1>2 DEF IInv, AnswerUnderWay, MessagesOf, At
<1> QED
  BY <1>3, <1>4, <1>5, <1>6 DEF IInv

\* A request gets a handle that nothing has.
LEMMA StepRequest ==
    ASSUME IInv, NEW c \in Contexts, MakeHttpRequest(c)
    PROVE  IInv'
<1> DEFINE h == lastHandle + 1
<1>1. PICK th \in Threads :
        /\ thread[th] = Idle
        /\ thread' = [thread EXCEPT ![th] =
              [pc |-> "resolving", context |-> c, handle |-> h, vm |-> vm[c], target |-> 0,
               refused |-> FALSE]]
  BY DEF MakeHttpRequest, NextHandle
<1>2. /\ vm[c] # 0 /\ lastHandle' = h /\ lastHandle < MaxHandle
      /\ asked' = [asked EXCEPT ![c] = @ \cup {h}]
      /\ UNCHANGED <<vm, vms, buffer, frame, commands, crashed>>
  BY DEF MakeHttpRequest, NextHandle
<1>3. h \in 1..MaxHandle /\ lastHandle \in Nat /\ h > lastHandle
  BY <1>2, RequestsAssumption DEF IInv, TypeOK
<1> HIDE DEF h
<1> DEFINE r == [pc |-> "resolving", context |-> c, handle |-> h, vm |-> vm[c], target |-> 0,
                 refused |-> FALSE]
<1>4. r \in Requests
  <2>1. vm[c] \in 1..MaxVms /\ 0 \in 0..MaxVms
    BY <1>2, RequestsAssumption DEF IInv, TypeOK
  <2> QED
    BY <1>3, <2>1 DEF Requests
<1>5. /\ r.context = c /\ r.handle = h /\ r.vm = vm[c] /\ r.pc = "resolving"
      /\ r # Idle
  BY <1>4, NotIdle
<1>6. thread' = [thread EXCEPT ![th] = r]
  BY <1>1
<1> HIDE DEF r
<1>7. /\ thread'[th] = r
      /\ \A o \in Threads : o # th => thread'[o] = thread[o]
      /\ asked'[c] = asked[c] \cup {h}
      /\ \A d \in Contexts : d # c => asked'[d] = asked[d]
  BY <1>2, <1>6 DEF IInv, TypeOK
<1>8. /\ \A d \in Contexts : \A g \in asked[d] : g <= lastHandle /\ g \in Nat
      /\ \A o \in Threads : thread[o] # Idle =>
            thread[o].handle <= lastHandle /\ thread[o].handle \in Nat /\ thread[o].context \in Contexts
      /\ \A d \in Contexts : \A i \in 1..Len(buffer[d]) :
            buffer[d][i].handle <= lastHandle /\ buffer[d][i].handle \in Nat
  <2>1. \A d \in Contexts : \A g \in asked[d] : g \in Nat
    BY DEF IInv, TypeOK
  <2>2. \A o \in Threads : thread[o] # Idle => thread[o] \in Requests
    BY DEF IInv, TypeOK
  <2>3. \A d \in Contexts : \A i \in 1..Len(buffer[d]) : buffer[d][i] \in Messages
    BY DEF IInv, TypeOK
  <2> QED
    BY <2>1, <2>2, <2>3 DEF IInv, Matching, Issued, Requests, Messages
<1>9. TypeOK'
  <2>1. asked' \in [Contexts -> SUBSET (1..MaxHandle)]
    BY <1>2, <1>3 DEF IInv, TypeOK
  <2>2. thread' \in [Threads -> Requests \cup {Idle}]
    BY <1>4, <1>6 DEF IInv, TypeOK
  <2>3. lastHandle' \in 0..MaxHandle
    BY <1>2, <1>3
  <2> QED
    BY <1>2, <2>1, <2>2, <2>3 DEF IInv, TypeOK
<1>10. Matching'
  <2>1. NothingWithoutVm'
    BY <1>2, <1>7 DEF IInv, Matching, NothingWithoutVm
  <2>2. Issued'
    <3>1. \A d \in Contexts : \A g \in asked'[d] : g <= h
      BY <1>3, <1>7, <1>8
    <3>2. \A o \in Threads : thread'[o] # Idle => thread'[o].handle <= h
      BY <1>3, <1>5, <1>7, <1>8
    <3>3. \A d \in Contexts : \A i \in 1..Len(buffer[d]) : buffer[d][i].handle <= h
      BY <1>3, <1>8
    <3> QED
      BY <3>1, <3>2, <3>3, <1>2 DEF Issued
  <2>3. RequestsMatch'
    BY <1>2, <1>3, <1>5, <1>7, <1>8 DEF IInv, Matching, RequestsMatch
  <2>4. AnswersMatch'
    BY <1>2, <1>3, <1>7, <1>8 DEF IInv, Matching, AnswersMatch, MessagesOf
  <2>5. CommandsStay'
    BY <1>2 DEF IInv, Matching, CommandsStay, MessagesOf
  <2> QED
    BY <2>1, <2>2, <2>3, <2>4, <2>5 DEF Matching
<1>11. AnsweredOnce'
  <2>1. \A o, p \in Threads :
          o # p /\ thread'[o] # Idle /\ thread'[p] # Idle => thread'[o].handle # thread'[p].handle
    BY <1>3, <1>5, <1>7, <1>8 DEF IInv, AnsweredOnce
  <2>2. \A o \in Threads, d \in Contexts : \A i \in 1..Len(buffer[d]) :
          thread'[o] # Idle => buffer[d][i].handle # thread'[o].handle
    BY <1>3, <1>5, <1>7, <1>8 DEF IInv, AnsweredOnce, MessagesOf
  <2> QED
    BY <2>1, <2>2, <1>2 DEF IInv, AnsweredOnce, MessagesOf
<1>12. AnswerUnderWay'
  <2> SUFFICES ASSUME NEW d \in Contexts, NEW g \in asked'[d], ~crashed,
                      ~\E i \in 1..Len(buffer[d]) : buffer[d][i].handle = g
               PROVE  \E o \in Threads :
                         /\ thread'[o] # Idle
                         /\ thread'[o].context = d /\ thread'[o].handle = g
                         /\ thread'[o].pc = "pushing" => thread'[o].target = vm[d]
    BY <1>2 DEF AnswerUnderWay, At, MessagesOf
  <2>1. CASE d = c /\ g = h
    BY <2>1, <1>5, <1>7
  <2>2. CASE g \in asked[d]
    <3>1. PICK o \in Threads :
            /\ thread[o] # Idle
            /\ thread[o].context = d /\ thread[o].handle = g
            /\ thread[o].pc = "pushing" => thread[o].target = vm[d]
      BY <2>2 DEF IInv, AnswerUnderWay, At, MessagesOf
    <3> QED
      BY <3>1, <1>1, <1>7
  <2> QED
    BY <2>1, <2>2, <1>7
<1> QED
  BY <1>9, <1>10, <1>11, <1>12 DEF IInv

\* A command waits in the buffer of the VM it is given to.
LEMMA StepCommand ==
    ASSUME IInv, NEW c \in Contexts, ModConCommand(c)
    PROVE  IInv'
<1> DEFINE m == [handle |-> 0, vm |-> vm[c]]
           b == buffer[c]
<1>1. commands' \in 0..MaxCommands
  BY RequestsAssumption DEF ModConCommand, IInv, TypeOK
<1>2. UNCHANGED <<vm, vms, asked, thread, lastHandle, frame, crashed>>
  BY DEF ModConCommand
<1>3. CASE UNCHANGED buffer
  <2>1. TypeOK'
    BY <1>1, <1>2, <1>3 DEF IInv, TypeOK
  <2>2. Matching'
    BY <1>2, <1>3
    DEF IInv, Matching, NothingWithoutVm, Issued, RequestsMatch, AnswersMatch, CommandsStay,
        MessagesOf
  <2>3. AnsweredOnce' /\ AnswerUnderWay'
    BY <1>2, <1>3 DEF IInv, AnsweredOnce, AnswerUnderWay, MessagesOf, At
  <2> QED
    BY <2>1, <2>2, <2>3 DEF IInv
<1>4. CASE vm[c] # 0 /\ buffer' = [buffer EXCEPT ![c] = Append(@, m)]
  <2>1. m \in Messages /\ b \in Seq(Messages)
    <3>1. vm[c] \in 1..MaxVms /\ 0 \in 0..MaxHandle
      BY <1>4, RequestsAssumption DEF IInv, TypeOK
    <3> QED
      BY <3>1 DEF IInv, TypeOK, Messages
  <2>2. buffer'[c] = Append(b, m)
    BY <1>4 DEF IInv, TypeOK
  <2>3. /\ Len(buffer'[c]) = Len(b) + 1 /\ buffer'[c][Len(b) + 1] = m
        /\ \A i \in 1..Len(b) : buffer'[c][i] = b[i]
    BY <2>1, <2>2
  <2>4. \A d \in Contexts : d # c => buffer'[d] = buffer[d]
    BY <1>4 DEF IInv, TypeOK
  <2>5. TypeOK'
    <3>1. buffer' \in [Contexts -> Seq(Messages)]
      BY <2>1, <1>4 DEF IInv, TypeOK
    <3> QED
      BY <3>1, <1>1, <1>2 DEF IInv, TypeOK
  <2>6. /\ Len(b) \in Nat
        /\ \A d \in Contexts : \A i \in 1..Len(buffer'[d]) :
             \/ d = c /\ i = Len(b) + 1 /\ buffer'[d][i] = m
             \/ i \in 1..Len(buffer[d]) /\ buffer'[d][i] = buffer[d][i]
        /\ \A d \in Contexts : \A i \in 1..Len(buffer[d]) :
             i \in 1..Len(buffer'[d]) /\ buffer'[d][i] = buffer[d][i]
    BY <2>1, <2>3, <2>4
  <2> HIDE DEF b, m
  <2>7. m.handle = 0 /\ m.vm = vm[c]
    BY DEF m
  <2>8. /\ lastHandle >= 0
        /\ \A d \in Contexts : 0 \notin asked[d]
        /\ \A o \in Threads : thread[o] # Idle => thread[o].handle # 0
    <3>1. \A o \in Threads : thread[o] # Idle => thread[o] \in Requests
      BY DEF IInv, TypeOK
    <3> QED
      BY <3>1 DEF IInv, TypeOK, Requests
  <2>9. Matching'
    <3>1. NothingWithoutVm'
      BY <1>2, <1>4, <2>4 DEF IInv, Matching, NothingWithoutVm
    <3>2. Issued'
      BY <1>2, <2>6, <2>7, <2>8 DEF IInv, Matching, Issued
    <3>3. RequestsMatch'
      BY <1>2 DEF IInv, Matching, RequestsMatch
    <3>4. AnswersMatch'
      BY <1>2, <2>6, <2>7, <2>8 DEF IInv, Matching, AnswersMatch, MessagesOf
    <3>5. CommandsStay'
      BY <1>2, <2>6, <2>7 DEF IInv, Matching, CommandsStay, MessagesOf
    <3> QED
      BY <3>1, <3>2, <3>3, <3>4, <3>5 DEF Matching
  <2>10. AnsweredOnce'
    <3>1. ASSUME NEW o \in Threads, NEW d \in Contexts, NEW i \in 1..Len(buffer'[d]),
                 thread[o] # Idle
          PROVE  buffer'[d][i].handle # thread[o].handle
      <4>1. ASSUME NEW k \in 1..Len(buffer[d])
            PROVE  buffer[d][k].handle # thread[o].handle
        BY <3>1 DEF IInv, AnsweredOnce, MessagesOf
      <4> QED
        BY <3>1, <4>1, <2>6, <2>7, <2>8
    <3>2. ASSUME NEW d \in Contexts, NEW e \in Contexts,
                 NEW i \in 1..Len(buffer'[d]), NEW j \in 1..Len(buffer'[e]),
                 buffer'[d][i].handle = buffer'[e][j].handle, buffer'[d][i].handle # 0
          PROVE  d = e /\ i = j
      <4>1. i \in 1..Len(buffer[d]) /\ buffer'[d][i] = buffer[d][i]
        BY <3>2, <2>6, <2>7
      <4>2. buffer'[e][j].handle # 0
        BY <3>2
      <4>3. j \in 1..Len(buffer[e]) /\ buffer'[e][j] = buffer[e][j]
        BY <4>2, <2>6, <2>7
      <4> QED
        BY <3>2, <4>1, <4>3 DEF IInv, AnsweredOnce
    <3> QED
      BY <1>2, <3>1, <3>2 DEF IInv, AnsweredOnce, MessagesOf
  <2>11. AnswerUnderWay'
    <3>1. \A d \in Contexts : MessagesOf(d) \subseteq MessagesOf(d)'
      BY <2>6 DEF MessagesOf
    <3> QED
      BY <1>2, <3>1 DEF IInv, AnswerUnderWay, At
  <2> QED
    BY <2>5, <2>9, <2>10, <2>11 DEF IInv
<1> QED
  BY <1>3, <1>4 DEF ModConCommand

\* The scripts are called with the first message.
LEMMA StepProcess ==
    ASSUME IInv, NEW c \in Contexts, ProcessMessage(c)
    PROVE  IInv'
<1> DEFINE b == buffer[c]
           g == Head(b).handle
<1>1. /\ b # <<>> /\ b \in Seq(Messages)
      /\ buffer' = [buffer EXCEPT ![c] = Tail(@)]
      /\ asked' = [asked EXCEPT ![c] = @ \ {g}]
      /\ UNCHANGED <<vm, vms, thread, lastHandle, frame, commands, crashed>>
  BY DEF ProcessMessage, IInv, TypeOK
<1>2. buffer'[c] = Tail(b)
  BY <1>1 DEF IInv, TypeOK
<1>3. /\ Len(b) \in Nat /\ Len(b) > 0 /\ Len(buffer'[c]) = Len(b) - 1
      /\ \A i \in 1..(Len(b) - 1) : buffer'[c][i] = b[i + 1]
      /\ g = b[1].handle
  <2> HIDE DEF b
  <2>1. Len(b) \in Nat /\ Len(b) > 0 /\ Head(b) = b[1]
    BY <1>1
  <2>2. Len(Tail(b)) = Len(b) - 1 /\ \A i \in 1..(Len(b) - 1) : Tail(b)[i] = b[i + 1]
    BY <1>1, <2>1
  <2> QED
    BY <2>1, <2>2, <1>2
<1>4. \A d \in Contexts : d # c => buffer'[d] = buffer[d] /\ asked'[d] = asked[d]
  BY <1>1 DEF IInv, TypeOK
<1>5. asked'[c] = asked[c] \ {g}
  BY <1>1 DEF IInv, TypeOK
<1>6. TypeOK'
  <2>1. Tail(b) \in Seq(Messages)
    BY <1>1
  <2>2. buffer' \in [Contexts -> Seq(Messages)]
    BY <1>1, <2>1 DEF IInv, TypeOK
  <2>3. asked' \in [Contexts -> SUBSET (1..MaxHandle)]
    BY <1>1 DEF IInv, TypeOK
  <2> QED
    BY <1>1, <2>2, <2>3 DEF IInv, TypeOK
<1> DEFINE at(d, i) == IF d = c THEN i + 1 ELSE i
\* The messages of a buffer were there, in the same order.
<1>7. \A d \in Contexts : \A i \in 1..Len(buffer'[d]) :
        at(d, i) \in 1..Len(buffer[d]) /\ buffer'[d][i] = buffer[d][at(d, i)]
  BY <1>3, <1>4
<1>12. UNCHANGED <<vm, thread, lastHandle, crashed>>
  BY <1>1
<1>8. \A d \in Contexts : asked'[d] \subseteq asked[d]
  BY <1>4, <1>5
<1>9. Matching'
  <2>1. NothingWithoutVm'
    BY <1>1, <1>4, <1>5 DEF IInv, Matching, NothingWithoutVm
  <2>2. Issued'
    <3> HIDE DEF at
    <3> QED
      BY <1>1, <1>7, <1>8 DEF IInv, Matching, Issued
  <2>3. RequestsMatch'
    BY <1>1, <1>8, ContextOf DEF IInv, Matching, RequestsMatch
  <2>4. ASSUME NEW d \in Contexts, NEW i \in 1..Len(buffer'[d])
        PROVE  /\ buffer'[d][i].handle \in asked[d] => buffer'[d][i].vm = vm[d]
               /\ vm[d] # 0 /\ buffer'[d][i].handle = 0 => buffer'[d][i].vm = vm[d]
    <3>1. PICK k \in 1..Len(buffer[d]) : buffer'[d][i] = buffer[d][k]
      BY <1>7
    <3> QED
      BY <3>1 DEF IInv, Matching, AnswersMatch, CommandsStay, MessagesOf
  <2>5. AnswersMatch' /\ CommandsStay'
    BY <1>8, <1>12, <2>4 DEF AnswersMatch, CommandsStay, MessagesOf
  <2> QED
    BY <2>1, <2>2, <2>3, <2>5 DEF Matching
<1>10. AnsweredOnce'
  <2>1. ASSUME NEW o \in Threads, NEW d \in Contexts, NEW i \in 1..Len(buffer'[d]),
               thread[o] # Idle
        PROVE  buffer'[d][i].handle # thread[o].handle
    <3> HIDE DEF at
    <3> QED
      BY <2>1, <1>7 DEF IInv, AnsweredOnce, MessagesOf
  <2>2. ASSUME NEW d \in Contexts, NEW e \in Contexts,
               NEW i \in 1..Len(buffer'[d]), NEW j \in 1..Len(buffer'[e]),
               buffer'[d][i].handle = buffer'[e][j].handle, buffer'[d][i].handle # 0
        PROVE  d = e /\ i = j
    <3>1. d = e /\ at(d, i) = at(e, j)
      <4>1. /\ at(d, i) \in 1..Len(buffer[d]) /\ at(e, j) \in 1..Len(buffer[e])
            /\ buffer[d][at(d, i)] = buffer'[d][i] /\ buffer[e][at(e, j)] = buffer'[e][j]
        BY <1>7
      <4>2. \A k \in 1..Len(buffer[d]), l \in 1..Len(buffer[e]) :
              buffer[d][k].handle = buffer[e][l].handle /\ buffer[d][k].handle # 0
                => d = e /\ k = l
        BY DEF IInv, AnsweredOnce
      <4> HIDE DEF at
      <4>3. /\ buffer[d][at(d, i)].handle = buffer[e][at(e, j)].handle
            /\ buffer[d][at(d, i)].handle # 0
        BY <2>2, <4>1
      <4> QED
        BY <4>1, <4>2, <4>3
    <3> QED
      BY <3>1
  <2> QED
    BY <2>1, <2>2, <1>12 DEF IInv, AnsweredOnce, MessagesOf
<1>11. AnswerUnderWay'
  <2> SUFFICES ASSUME NEW d \in Contexts, NEW h \in asked'[d], ~crashed,
                      ~\E o \in Threads :
                         /\ thread[o] # Idle
                         /\ thread[o].context = d /\ thread[o].handle = h
                         /\ thread[o].pc = "pushing" => thread[o].target = vm[d]
               PROVE  \E i \in 1..Len(buffer'[d]) : buffer'[d][i].handle = h
    BY <1>12 DEF AnswerUnderWay, At, MessagesOf
  <2>1. PICK k \in 1..Len(buffer[d]) : buffer[d][k].handle = h
    BY <1>8 DEF IInv, AnswerUnderWay, At, MessagesOf
  <2>2. CASE d = c
    <3>1. k # 1
      BY <2>1, <2>2, <1>3, <1>5
    <3>2. k - 1 \in 1..Len(buffer'[d]) /\ buffer'[d][k - 1] = buffer[d][k]
      BY <2>1, <2>2, <3>1, <1>3
    <3> QED
      BY <2>1, <3>2
  <2>3. CASE d # c
    BY <2>1, <2>3, <1>4
  <2> QED
    BY <2>2, <2>3
<1> QED
  BY <1>6, <1>9, <1>10, <1>11 DEF IInv

-----------------------------------------------------------------------------
(* The theorems.                                                            *)

THEOREM Invariance == Spec => []IInv
<1>1. Init => IInv
  <2> SUFFICES ASSUME Init PROVE IInv
    OBVIOUS
  <2>1. TypeOK
    <3>1. 0 \in 0..MaxVms /\ 0 \in 0..MaxHandle /\ 0 \in 0..MaxCommands
      BY RequestsAssumption
    <3>2. <<>> \in Seq(Messages) /\ {} \in SUBSET (1..MaxHandle)
      OBVIOUS
    <3>3. /\ vm \in [Contexts -> 0..MaxVms]
          /\ buffer \in [Contexts -> Seq(Messages)]
          /\ asked \in [Contexts -> SUBSET (1..MaxHandle)]
          /\ thread \in [Threads -> Requests \cup {Idle}]
      BY <3>1, <3>2 DEF Init
    <3> QED
      BY <3>1, <3>3 DEF Init, TypeOK
  <2>2. Matching /\ AnsweredOnce /\ AnswerUnderWay
    BY DEF Init, Matching, NothingWithoutVm, Issued, RequestsMatch, AnswersMatch,
           CommandsStay, AnsweredOnce, AnswerUnderWay, MessagesOf
  <2> QED
    BY <2>1, <2>2 DEF IInv
<1>2. ASSUME IInv, [Next]_vars PROVE IInv'
  <2>1. CASE UNCHANGED vars
    BY <1>2, <2>1, StepFrame
  <2>2. CASE Main
    <3>1. CASE BeginFrame \/ \E c \in Contexts : BufferProcessed(c)
      BY <1>2, <3>1, StepFrame
    <3>2. ASSUME NEW c \in Contexts,
                 \/ VMCreated(c) \/ VMDestroyed(c) \/ MakeHttpRequest(c)
                 \/ ModConCommand(c) \/ ProcessMessage(c)
          PROVE  IInv'
      BY <1>2, <3>2, StepCreated, StepDestroyed, StepRequest, StepCommand, StepProcess
    <3> QED
      BY <2>2, <3>1, <3>2 DEF Main
  <2>3. ASSUME NEW th \in Threads, Run(th) PROVE IInv'
    <3>1. CASE Push(th)
      BY <1>2, <3>1, StepPush DEF IInv
    <3>2. CASE Resolve(th) \/ Perform(th) \/ AsyncCall(th)
      <4>1. Advances(th)
        BY <1>2, <3>2, StepAdvances DEF IInv
      <4> QED
        BY <1>2, <4>1, AdvanceTypeOK, AdvanceMatching DEF IInv
    <3> QED
      BY <2>3, <3>1, <3>2 DEF Run
  <2> QED
    BY <1>2, <2>1, <2>2, <2>3 DEF Next
<1> QED
  BY <1>1, <1>2, PTL DEF Spec

\* VMs, buffers, threads and handles keep their types.
THEOREM TypeCorrect == Spec => []TypeOK
<1>1. IInv => TypeOK
  BY DEF IInv
<1> QED
  BY <1>1, Invariance, PTL

\* An answer that scripts take for theirs is theirs, however often the engine creates
\* and destroys VMs while requests are under way.
THEOREM AnswersMatching == Spec => []AnswersMatch
<1>1. IInv => AnswersMatch
  BY DEF IInv, Matching
<1> QED
  BY <1>1, Invariance, PTL

\* No request is answered twice.
THEOREM NoSecondAnswer == Spec => []AnsweredOnce
<1>1. IInv => AnsweredOnce
  BY DEF IInv
<1> QED
  BY <1>1, Invariance, PTL

\* No answer gets lost while the VM that waits for it lives.
THEOREM NoAnswerLost == Spec => []AnswerUnderWay
<1>1. IInv => AnswerUnderWay
  BY DEF IInv
<1> QED
  BY <1>1, Invariance, PTL

\* A mod's command is called in the VM it was given to or in none.
THEOREM NoCommandCarriedOver == Spec => []CommandsStay
<1>1. IInv => CommandsStay
  BY DEF IInv, Matching
<1> QED
  BY <1>1, Invariance, PTL
=============================================================================
