---------------------------- MODULE DllCallbacks ----------------------------
(***************************************************************************)
(* Callbacks that run as soon as a DLL is loaded.                          *)
(*                                                                         *)
(* Every part of Ronin registers callbacks when its objects are            *)
(* initialised.  The hooks of LoadLibrary run those of the DLL before they *)
(* return: again and again through the list, each callback once all tags   *)
(* it relies on have been called, until a pass has skipped none.  At       *)
(* startup CallAllPendingDLLLoadCallbacks does the same for the DLLs that  *)
(* are there already, in the order in which they were loaded.              *)
(*                                                                         *)
(* External: which DLLs are loaded when.  The hooks take no lock; the game *)
(* loads the DLLs that have callbacks on one thread.                       *)
(***************************************************************************)
EXTENDS Naturals, Sequences, FiniteSets

CONSTANTS
    Dlls,           \* DLLs that have callbacks
    Registered,     \* in order of registration: [tag, dll, side, reliesOn]
    Uses,           \* the tags whose callbacks set up what a callback uses
    Before,         \* the DLLs that are loaded before a DLL
    Nested,         \* the callbacks that load a library without callbacks
    Level           \* how many callbacks of its DLL a callback waits for in a row

NoDll == "library without callbacks"

Callback == DOMAIN Registered
Tags == {Registered[c].tag : c \in Callback}

ASSUME CallbacksAssumption ==
    /\ Registered \in Seq([tag : Tags, dll : Dlls, side : {"unsided", "client", "dedi"},
                           reliesOn : SUBSET Tags])
    /\ \A b, c \in Callback : Registered[b].tag = Registered[c].tag => b = c
    /\ Uses \in [Tags -> SUBSET Tags]
    /\ Before \in [Dlls -> SUBSET Dlls]
    /\ Nested \subseteq Tags
    /\ NoDll \notin Dlls

\* Where a callback does not say that it relies on one it uses, that one belongs to a
\* DLL that is there before, or is registered earlier and relies on nothing itself.
ASSUME UnstatedAssumption ==
    \A c \in Callback : \A t \in Uses[Registered[c].tag] \ Registered[c].reliesOn :
        \E b \in Callback :
            /\ Registered[b].tag = t
            /\ Registered[b].side \in {"unsided", Registered[c].side}
            /\ \/ Registered[b].dll \in Before[Registered[c].dll]
               \/ Registered[b].dll = Registered[c].dll /\ b < c /\ Registered[b].reliesOn = {}

\* Where a callback says what it relies on, that belongs to a DLL that is there before,
\* or to the same DLL, where no chain of these comes back to where it began.
ASSUME ReliesAssumption ==
    /\ Level \in [Callback -> Nat]
    /\ \A c \in Callback : \A t \in Registered[c].reliesOn :
        \E b \in Callback :
            /\ Registered[b].tag = t
            /\ Registered[b].side \in {"unsided", Registered[c].side}
            /\ \/ Registered[b].dll \in Before[Registered[c].dll]
               \/ Registered[b].dll = Registered[c].dll /\ Level[b] < Level[c]

VARIABLES
    dedicated,      \* whether this is a dedicated server
    called,         \* the callbacks that have the flag called
    calledTags,     \* their tags, in the order of the calls
    stack,          \* loads under way, innermost first
    returned        \* history: the DLLs a load of which has returned

vars == <<dedicated, called, calledTags, stack, returned>>

\* A load: its DLL, the callback its pass has come to, the callback it is in, and
\* whether this one has loaded a library.
Frames == [dll : Dlls \cup {NoDll}, at : Callback \cup {0}, in : Callback \cup {0},
           nested : BOOLEAN]
Frame(dll) == [dll |-> dll, at |-> 0, in |-> 0, nested |-> FALSE]

\* Callbacks, tags and loads have their types.
TypeOK ==
    /\ dedicated \in BOOLEAN
    /\ called \subseteq Callback
    /\ calledTags \in Seq(Tags)
    /\ stack \in Seq(Frames)
    /\ returned \subseteq Dlls

\* AddDllLoadCallbackForClient and ...ForDedicatedServer register nothing on the
\* other side.
Present(c) ==
    Registered[c].side = "unsided" \/ (Registered[c].side = "dedi") = dedicated

\* The callbacks a load of a DLL has still to call.
Waiting(dll) == {c \in Callback : Registered[c].dll = dll /\ Present(c) /\ c \notin called}

CalledTags == {calledTags[i] : i \in DOMAIN calledTags}

\* Mutant: only tags of callbacks of the same DLL count.
CalledHere(c) ==
    \A t \in Registered[c].reliesOn :
        \E b \in called : Registered[b].tag = t /\ Registered[b].dll = Registered[c].dll

\* Whether all a callback relies on has been called.
Satisfied(c) == Registered[c].reliesOn \subseteq CalledTags

\* The rest of the pass: what it will not skip.
Callable(frame) == {c \in Waiting(frame.dll) : c > frame.at /\ Satisfied(c)}

top == Head(stack)
Replace(frame) == <<frame>> \o Tail(stack)

\* LoadLibrary, or CallAllPendingDLLLoadCallbacks for a DLL that was loaded before.
\* LoadLibraryA may go through LoadLibraryExA, and a DLL may be loaded again.
Load(dll) ==
    /\ stack = <<>>
    /\ Before[dll] \subseteq returned
    /\ stack' = <<Frame(dll)>>
    /\ UNCHANGED <<dedicated, called, calledTags, returned>>

\* The pass comes to the next callback whose tags are there, and calls it.
CallbackBegins ==
    /\ stack # <<>> /\ top.in = 0
    /\ LET next == Callable(top) IN
       \E c \in next :
         /\ \A b \in next : c <= b
         /\ stack' = Replace([top EXCEPT !.at = c, !.in = c, !.nested = FALSE])
    /\ UNCHANGED <<dedicated, called, calledTags, returned>>

\* A callback loads a library, the first of those it tries that is there: the hook
\* runs, and finds nothing to call.
LoadNested ==
    /\ stack # <<>> /\ top.in # 0
    /\ Registered[top.in].tag \in Nested /\ ~top.nested
    /\ stack' = <<Frame(NoDll), [top EXCEPT !.nested = TRUE]>> \o Tail(stack)
    /\ UNCHANGED <<dedicated, called, calledTags, returned>>

CallbackReturns ==
    /\ stack # <<>> /\ top.in # 0
    /\ called' = called \cup {top.in}
    /\ calledTags' = Append(calledTags, Registered[top.in].tag)
    /\ stack' = Replace([top EXCEPT !.in = 0])
    /\ UNCHANGED <<dedicated, returned>>

\* Mutant: one pass is all there is.
NothingSkipped(frame) == TRUE

\* bDoneCalling: the pass has skipped nothing.
DoneCalling(frame) == Waiting(frame.dll) = {}

\* A pass ends: with the loop, or with another pass, be it of no use.
PassEnds ==
    /\ stack # <<>> /\ top.in = 0 /\ Callable(top) = {}
    /\ IF DoneCalling(top)
       THEN /\ stack' = Tail(stack)
            /\ returned' = returned \cup ({top.dll} \cap Dlls)
       ELSE /\ stack' = Replace([top EXCEPT !.at = 0])
            /\ UNCHANGED returned
    /\ UNCHANGED <<dedicated, called, calledTags>>

Init ==
    /\ dedicated \in BOOLEAN
    /\ called = {}
    /\ calledTags = <<>>
    /\ stack = <<>>
    /\ returned = {}

Hook == CallbackBegins \/ CallbackReturns \/ PassEnds

Next == (\E dll \in Dlls : Load(dll)) \/ LoadNested \/ Hook

\* The thread that loads a DLL runs, and callbacks return.
Spec == Init /\ [][Next]_vars /\ WF_vars(Hook)

-----------------------------------------------------------------------------
(* Properties.                                                              *)

\* Each callback is called once at most, and after the callbacks that set up what it
\* uses, whether it says that it relies on them or has to be lucky with the order of
\* registration; and when the load of a DLL has returned, all its callbacks have been.
CallbacksDone ==
    /\ Cardinality(CalledTags) = Len(calledTags)
    /\ \A i \in DOMAIN calledTags :
         Uses[calledTags[i]] \subseteq {calledTags[j] : j \in 1..(i - 1)}
    /\ \A c \in Callback :
         Registered[c].dll \in returned /\ Present(c) => Registered[c].tag \in CalledTags

\* A pass over the list, from its start, that has not everything behind it calls
\* something: the loop over the passes, which has no other way out, never goes round
\* to no purpose, on either side and whatever is registered in which order.
EveryPassCalls ==
    stack # <<>> =>
        (top.in = 0 /\ top.at = 0 /\ Waiting(top.dll) # {} => Callable(top) # {})

\* Every load returns: on either side, the loop finds all tags its callbacks rely on
\* called in the end.
LoadsEnd == stack # <<>> ~> stack = <<>>
=============================================================================
