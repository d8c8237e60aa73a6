--------------------------- MODULE ScriptRequests ---------------------------
(***************************************************************************)
(* How scripts make HTTP requests and get their answers.                   *)
(*                                                                         *)
(* A script in one of the contexts (UI, CLIENT, SERVER) calls              *)
(* NS_InternalMakeHttpRequest; MakeHttpRequest gives it a handle and       *)
(* performs the request on a thread of its own, which calls the scripts    *)
(* back with AsyncCall: the call waits in the context's message buffer     *)
(* until the main thread runs it in a frame.  Meanwhile the engine may     *)
(* destroy the context's virtual machine, and its buffer, and create       *)
(* others.  Only the buffer's content is locked, not the pointer to it.    *)
(*                                                                         *)
(* The scripts' half is not in the repository: a VM keeps the handles it   *)
(* waits for, and ignores answers with any other.  The handler runs from   *)
(* the start (nothing calls StopHttpRequestHandler), and the game is not   *)
(* launched with -disablehttprequests.                                     *)
(***************************************************************************)
EXTENDS Naturals, Sequences

CONSTANTS
    Contexts,
    Threads,        \* request threads that can be alive at once
    MaxHandle,      \* bound: requests made
    MaxVms,         \* bound: VMs created
    MaxCommands     \* bound: console commands of mods called

ASSUME RequestsAssumption ==
    MaxHandle \in Nat /\ MaxVms \in Nat /\ MaxCommands \in Nat

VARIABLES
    vm,         \* m_pSQVM: the number of each context's VM, 0 for none
    vms,        \* VMs created so far
    buffer,     \* each context's messageBuffer, empty where there is none
    asked,      \* external: the handles each VM's scripts wait for
    thread,     \* the request threads
    lastHandle, \* m_iLastRequestHandle
    frame,      \* contexts whose buffers this frame has yet to process
    commands,   \* bounded by MaxCommands
    crashed     \* the program is gone

vars == <<vm, vms, buffer, asked, thread, lastHandle, frame, commands, crashed>>

\* A call waiting in a buffer: an answer, or, with handle 0, a command.  vm is
\* history: the VM that asked, or whose command it is.
Messages == [handle : 0..MaxHandle, vm : 1..MaxVms]

\* target is the VM whose buffer AsyncCall found, 0 for none.
Requests ==
    [pc : {"resolving", "performing", "calling", "pushing"}, context : Contexts,
     handle : 1..MaxHandle, vm : 1..MaxVms, target : 0..MaxVms, refused : BOOLEAN]
Idle == [pc |-> "idle"]

\* VMs, buffers, threads and handles have their types.
TypeOK ==
    /\ vm \in [Contexts -> 0..MaxVms]
    /\ vms \in 0..MaxVms
    /\ buffer \in [Contexts -> Seq(Messages)]
    /\ asked \in [Contexts -> SUBSET (1..MaxHandle)]
    /\ thread \in [Threads -> Requests \cup {Idle}]
    /\ lastHandle \in 0..MaxHandle
    /\ frame \subseteq Contexts
    /\ commands \in 0..MaxCommands
    /\ crashed \in BOOLEAN

Init ==
    /\ vm = [c \in Contexts |-> 0] /\ vms = 0
    /\ buffer = [c \in Contexts |-> <<>>]
    /\ asked = [c \in Contexts |-> {}]
    /\ thread = [th \in Threads |-> Idle]
    /\ lastHandle = 0
    /\ frame = {}
    /\ commands = 0
    /\ crashed = FALSE

vmVars == <<vm, vms, asked, frame, commands>>

-----------------------------------------------------------------------------
(* The main thread.                                                         *)

\* CreateNewVM's hook, with a new and empty buffer.
VMCreated(c) ==
    /\ vm[c] = 0 /\ frame = {}
    /\ vms < MaxVms
    /\ vms' = vms + 1
    /\ vm' = [vm EXCEPT ![c] = vms + 1]
    /\ UNCHANGED <<buffer, asked, thread, lastHandle, frame, commands, crashed>>

\* The buffer is deleted, whoever is about to use it.
\* Mutant: it is kept, for the next VM.
KeepBuffer(c) == UNCHANGED buffer
DeleteBuffer(c) == buffer' = [buffer EXCEPT ![c] = <<>>]

\* DestroyVM's hook.
VMDestroyed(c) ==
    /\ vm[c] # 0 /\ frame = {}
    /\ vm' = [vm EXCEPT ![c] = 0]
    /\ DeleteBuffer(c)
    /\ asked' = [asked EXCEPT ![c] = {}]
    /\ UNCHANGED <<vms, thread, lastHandle, frame, commands, crashed>>

\* Mutant: the VM's own count.
NextHandleOfVm(c) == CHOOSE h \in 1..MaxHandle : h \notin asked[c]
NextHandle(c) == lastHandle + 1

\* A script makes a request, in a callback or whenever the engine runs it.
MakeHttpRequest(c) ==
    /\ vm[c] # 0
    /\ lastHandle < MaxHandle
    /\ lastHandle' = lastHandle + 1
    /\ asked' = [asked EXCEPT ![c] = @ \cup {NextHandle(c)}]
    /\ \E th \in Threads :
         /\ thread[th] = Idle
         /\ thread' = [thread EXCEPT ![th] =
              [pc |-> "resolving", context |-> c, handle |-> NextHandle(c),
               vm |-> vm[c], target |-> 0, refused |-> FALSE]]
    /\ UNCHANGED <<vm, vms, buffer, frame, commands, crashed>>

\* A console command of a mod, with or without arguments.
ModConCommand(c) ==
    /\ commands < MaxCommands
    /\ commands' = commands + 1
    /\ frame = {}
    /\ IF vm[c] # 0
       THEN buffer' = [buffer EXCEPT ![c] = Append(@, [handle |-> 0, vm |-> vm[c]])]
       ELSE UNCHANGED buffer
    /\ UNCHANGED <<vm, vms, asked, thread, lastHandle, frame, crashed>>

\* CHostState__FrameUpdate processes the buffers of the VMs there are.  Its
\* order makes no difference: the contexts share nothing.
BeginFrame ==
    /\ frame = {}
    /\ frame' = {c \in Contexts : vm[c] # 0}
    /\ UNCHANGED <<vm, vms, buffer, asked, thread, lastHandle, commands, crashed>>

\* ProcessMessageBuffer: pop and call until the buffer is empty.  A message whose
\* function the VM does not have is dropped with an error; it counts as answered.
ProcessMessage(c) ==
    /\ c \in frame
    /\ buffer[c] # <<>>
    /\ buffer' = [buffer EXCEPT ![c] = Tail(@)]
    /\ asked' = [asked EXCEPT ![c] = @ \ {Head(buffer[c]).handle}]
    /\ UNCHANGED <<vm, vms, thread, lastHandle, frame, commands, crashed>>

BufferProcessed(c) ==
    /\ c \in frame
    /\ buffer[c] = <<>>
    /\ frame' = frame \ {c}
    /\ UNCHANGED <<vm, vms, buffer, asked, thread, lastHandle, commands, crashed>>

-----------------------------------------------------------------------------
(* The request threads.                                                     *)

At(th, pc) == thread[th].pc = pc
Goto(th, pc) == thread' = [thread EXCEPT ![th].pc = pc]

\* The destination is resolved, and perhaps refused.
Resolve(th) ==
    /\ At(th, "resolving")
    /\ \/ Goto(th, "performing")
       \/ thread' = [thread EXCEPT ![th].pc = "calling", ![th].refused = TRUE]
    /\ UNCHANGED <<vmVars, buffer, lastHandle, crashed>>

\* Whatever becomes of the request is reported.
\* Mutant: without curl there is nothing to report.
PerformedSilently(th) ==
    Goto(th, "calling") \/ thread' = [thread EXCEPT ![th] = Idle]
Performed(th) == Goto(th, "calling")

Perform(th) ==
    /\ At(th, "performing")
    /\ Performed(th)
    /\ UNCHANGED <<vmVars, buffer, lastHandle, crashed>>

\* AsyncCall reads the pointer to the context's buffer.
AsyncCall(th) ==
    /\ At(th, "calling")
    /\ thread' = [thread EXCEPT ![th].pc = "pushing",
                                ![th].target = vm[thread[th].context]]
    /\ UNCHANGED <<vmVars, buffer, lastHandle, crashed>>

\* The thread's lambda returns.  Mutant: a refusal misses its return.
ReturnMissed(th) ==
    thread' = [thread EXCEPT ![th] =
      IF @.refused THEN [@ EXCEPT !.pc = "performing", !.refused = FALSE] ELSE Idle]
Return(th) == thread' = [thread EXCEPT ![th] = Idle]

\* push locks the buffer that was found.  There is none behind a null pointer,
\* and what a deleted one does is undefined.
Push(th) ==
    LET request == thread[th]
        c == request.context
    IN  /\ At(th, "pushing")
        /\ Return(th)
        /\ \/ /\ request.target = vm[c] /\ vm[c] # 0
              /\ buffer' = [buffer EXCEPT ![c] =
                   Append(@, [handle |-> request.handle, vm |-> request.vm])]
              /\ UNCHANGED crashed
           \/ /\ request.target = 0 \/ request.target # vm[c]
              /\ crashed' = TRUE
              /\ UNCHANGED buffer
           \/ /\ request.target # 0 /\ request.target # vm[c]
              /\ UNCHANGED <<buffer, crashed>>
        /\ UNCHANGED <<vmVars, lastHandle>>

Run(th) == Resolve(th) \/ Perform(th) \/ AsyncCall(th) \/ Push(th)

Main ==
    \/ BeginFrame
    \/ \E c \in Contexts :
         \/ VMCreated(c) \/ VMDestroyed(c) \/ MakeHttpRequest(c) \/ ModConCommand(c)
         \/ ProcessMessage(c) \/ BufferProcessed(c)

Next == ~crashed /\ (Main \/ \E th \in Threads : Run(th))

Spec == Init /\ [][Next]_vars

\* The engine runs frames, and curl's timeout ends every request.
Process(c) == ~crashed /\ (ProcessMessage(c) \/ BufferProcessed(c))
FairSpec ==
    /\ Spec
    /\ WF_vars(~crashed /\ BeginFrame)
    /\ \A c \in Contexts : WF_vars(Process(c))
    /\ \A th \in Threads : WF_vars(~crashed /\ Run(th))

-----------------------------------------------------------------------------
(* Properties.                                                              *)

MessagesOf(c) == {buffer[c][i] : i \in 1..Len(buffer[c])}

\* An answer that scripts take for theirs is theirs: though a thread started
\* by an earlier VM leaves its answer with the context's next one, its handle
\* is none the next one waits for (m_iLastRequestHandle outlives the VMs).
AnswersMatch ==
    \A c \in Contexts : \A m \in MessagesOf(c) :
      m.handle \in asked[c] => m.vm = vm[c]

\* No request is answered twice, on whatever path its thread reports: a handle
\* is with one thread, or in one message, of all contexts.
AnsweredOnce ==
    /\ \A th, other \in Threads :
         th # other /\ thread[th] # Idle /\ thread[other] # Idle
           => thread[th].handle # thread[other].handle
    /\ \A th \in Threads, c \in Contexts : \A m \in MessagesOf(c) :
         thread[th] # Idle => m.handle # thread[th].handle
    /\ \A c, d \in Contexts : \A i \in 1..Len(buffer[c]), j \in 1..Len(buffer[d]) :
         buffer[c][i].handle = buffer[d][j].handle /\ buffer[c][i].handle # 0
           => c = d /\ i = j

\* No answer gets lost while its VM lives: for each handle a VM waits for, a
\* thread is still at work that has not found another VM's buffer, or the
\* answer is in the VM's buffer.
AnswerUnderWay ==
    \A c \in Contexts : \A h \in asked[c] :
      \/ crashed
      \/ \E th \in Threads :
           /\ thread[th] # Idle
           /\ thread[th].context = c /\ thread[th].handle = h
           /\ At(th, "pushing") => thread[th].target = vm[c]
      \/ \E m \in MessagesOf(c) : m.handle = h

\* A mod's command is called in the VM it was given to or in none: the calls
\* a VM left undone do not reach the next one (VMDestroyed, VMCreated).
CommandsStay ==
    \A c \in Contexts : vm[c] # 0 =>
      \A m \in MessagesOf(c) : m.handle = 0 => m.vm = vm[c]

\* Scripts that wait for an answer get it, unless their VM or the program goes.
RequestsAnswered ==
    \A c \in Contexts : \A h \in 1..MaxHandle :
      (h \in asked[c]) ~> (h \notin asked[c] \/ crashed)
=============================================================================
