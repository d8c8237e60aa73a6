---------------------------- MODULE Hooks_proofs ----------------------------
(***************************************************************************)
(* What holds of the two stacks of nested calls, for all values of their   *)
(* constants: the loads of libraries, whose callbacks are called in        *)
(* passes, and the hooked loads and unloads of paks.  The two have no      *)
(* state in common, only lemmas about stacks.                              *)
(*                                                                         *)
(* Callbacks are called once, after what they use, and all of them.  Two   *)
(* loads can be under way, the inner one of a library without callbacks    *)
(* (Loads): no callback is in progress twice.  A pass that has come to a   *)
(* callback has called those before it that rely on nothing (Passed), and  *)
(* the DLLs that are loaded before have all of theirs called, which is     *)
(* what callbacks with unstated uses depend on.  As no chain of what they  *)
(* rely on comes back to where it began, one of those a load has still to  *)
(* call is always to be called (OneCallable).                              *)
(*                                                                         *)
(* What is tracked of the paks is what is loaded, but for what the calls   *)
(* under way have yet to do (Accounted), and a name is tracked once unless *)
(* a load of it has failed (Unique).  Of the paks mods want at all times,  *)
(* and those that follow them, those that cannot fail are loaded by the    *)
(* first load of the game and never again (Established); while that load   *)
(* is gathering them, all of them are there, or arriving, or still to do   *)
(* (Gathering).  A nested hook that comes to one of them later finds it,   *)
(* so that a pak in a load does not come back in a hook within it, and the *)
(* hooks between the game's and the innermost are for different paks that  *)
(* others follow (PostsFollowed), but for one.                             *)
(***************************************************************************)
EXTENDS DllCallbacks, RpakFilesystem, FiniteSetTheorems, WellFoundedInduction, TLAPS

\* The tags that have been called are those of the callbacks that have, each once.
Recorded ==
    /\ CalledTags = {Registered[c].tag : c \in called}
    /\ IsFiniteSet(CalledTags)
    /\ Cardinality(CalledTags) = Len(calledTags)

InOrder ==
    \A i \in DOMAIN calledTags :
        Uses[calledTags[i]] \subseteq {calledTags[j] : j \in 1..(i - 1)}

ReturnedDone ==
    \A c \in Callback : Registered[c].dll \in returned /\ Present(c) => c \in called

Loads ==
    /\ Len(stack) \in {0, 1, 2}
    /\ Len(stack) = 2 => stack[1].dll = NoDll
    /\ \A k \in 1..Len(stack) : stack[k].dll = NoDll => stack[k].in = 0

\* What a load has come to.
Passed(frame) ==
    /\ frame.dll # NoDll => Before[frame.dll] \subseteq returned
    /\ frame.in # 0 =>
         /\ frame.in = frame.at /\ frame.in \notin called
         /\ Present(frame.in) /\ Registered[frame.in].dll = frame.dll
         /\ Satisfied(frame.in)
    /\ \A b \in Callback :
         /\ Registered[b].dll = frame.dll /\ Present(b)
         /\ Registered[b].reliesOn = {} /\ b <= frame.at
         => b \in called \/ b = frame.in

AllPassed == \A k \in 1..Len(stack) : Passed(stack[k])

\* The inductive invariant of the callbacks.
IInv == TypeOK /\ Recorded /\ InOrder /\ ReturnedDone /\ Loads /\ AllPassed

-----------------------------------------------------------------------------
(* Sequences.                                                               *)

\* The head of a sequence replaced.
LEMMA ReplaceHead ==
    ASSUME NEW S, NEW s \in Seq(S), s # <<>>, NEW f \in S
    PROVE  LET r == <<f>> \o Tail(s) IN
           /\ r \in Seq(S) /\ Len(r) = Len(s) /\ r[1] = f
           /\ \A k \in 2..Len(s) : r[k] = s[k]
<1>1. /\ Tail(s) \in Seq(S) /\ Len(Tail(s)) = Len(s) - 1 /\ Len(s) \in Nat
      /\ \A k \in 1..(Len(s) - 1) : Tail(s)[k] = s[k + 1]
  OBVIOUS
<1>2. <<f>> \in Seq(S) /\ Len(<<f>>) = 1 /\ <<f>>[1] = f
  OBVIOUS
<1> DEFINE r == <<f>> \o Tail(s)
<1>3. r \in Seq(S) /\ Len(r) = Len(s)
  BY <1>1, <1>2
<1>4. r[1] = f
  BY <1>1, <1>2
<1>5. ASSUME NEW k \in 2..Len(s) PROVE r[k] = s[k]
  <2>1. r[k] = Tail(s)[k - 1]
    BY <1>1, <1>2
  <2> QED
    BY <2>1, <1>1
<1> QED
  BY <1>3, <1>4, <1>5

\* Another element pushed while the head is replaced.
LEMMA PushReplaced ==
    ASSUME NEW S, NEW s \in Seq(S), s # <<>>, NEW f \in S, NEW g \in S
    PROVE  LET r == <<f, g>> \o Tail(s) IN
           /\ r \in Seq(S) /\ Len(r) = Len(s) + 1 /\ r[1] = f /\ r[2] = g
           /\ \A k \in 3..(Len(s) + 1) : r[k] = s[k - 1]
<1>1. /\ Tail(s) \in Seq(S) /\ Len(Tail(s)) = Len(s) - 1 /\ Len(s) \in Nat
      /\ \A k \in 1..(Len(s) - 1) : Tail(s)[k] = s[k + 1]
  OBVIOUS
<1>2. <<f, g>> \in Seq(S) /\ Len(<<f, g>>) = 2 /\ <<f, g>>[1] = f /\ <<f, g>>[2] = g
  OBVIOUS
<1> DEFINE r == <<f, g>> \o Tail(s)
<1>3. r \in Seq(S) /\ Len(r) = Len(s) + 1
  BY <1>1, <1>2
<1>4. r[1] = f /\ r[2] = g
  BY <1>1, <1>2
<1>5. ASSUME NEW k \in 3..(Len(s) + 1) PROVE r[k] = s[k - 1]
  <2>1. r[k] = Tail(s)[k - 2]
    BY <1>1, <1>2
  <2> QED
    BY <2>1, <1>1
<1> QED
  BY <1>3, <1>4, <1>5

\* The rest of a sequence.
LEMMA Popped ==
    ASSUME NEW S, NEW s \in Seq(S), s # <<>>
    PROVE  /\ Tail(s) \in Seq(S) /\ Len(s) \in Nat \ {0} /\ Len(Tail(s)) = Len(s) - 1
           /\ Tail(s) = <<>> <=> Len(s) = 1
           /\ \A k \in 1..(Len(s) - 1) : Tail(s)[k] = s[k + 1]
<1>1. /\ Tail(s) \in Seq(S) /\ Len(s) \in Nat \ {0} /\ Len(Tail(s)) = Len(s) - 1
      /\ \A k \in 1..(Len(s) - 1) : Tail(s)[k] = s[k + 1]
  OBVIOUS
<1>2. \A t \in Seq(S) : t = <<>> <=> Len(t) = 0
  OBVIOUS
<1> QED
  BY <1>1, <1>2

\* The least of a set of numbers.
LEMMA LeastOf ==
    ASSUME NEW S, S \subseteq Nat, S # {}
    PROVE  \E i \in S : \A j \in S : i <= j
<1> DEFINE R == OpToRel(<, Nat)
<1>1. IsWellFoundedOn(R, Nat)
  BY NatLessThanWellFounded
<1>2. \A i, j \in Nat : i < j => <<i, j>> \in R
  BY DEF OpToRel
<1> HIDE DEF R
<1>3. PICK i \in S : \A j \in S : ~(<<j, i>> \in R)
  BY <1>1, WFMin
<1>4. ASSUME NEW j \in S PROVE i <= j
  <2>1. i \in Nat /\ j \in Nat
    OBVIOUS
  <2>2. ~(j < i)
    BY <1>2, <1>3, <2>1
  <2> QED
    BY <2>1, <2>2
<1> QED
  BY <1>4

-----------------------------------------------------------------------------
(* Loads of libraries.                                                      *)

\* The element of a stack on top.
LEMMA Top ==
    ASSUME TypeOK, stack # <<>>
    PROVE  top = stack[1] /\ top \in Frames /\ Len(stack) \in Nat \ {0}
BY DEF TypeOK, top

LEMMA CallbackIsNat == Callback \subseteq Nat \ {0}
BY CallbacksAssumption DEF Callback

LEMMA PositionIsNat == \A f \in Frames : f.at \in Nat
<1> SUFFICES ASSUME NEW f \in Frames PROVE f.at \in Nat
  OBVIOUS
<1>1. f.at \in Callback \cup {0}
  BY DEF Frames
<1>2. \A n \in Callback \cup {0} : n \in Nat
  BY CallbackIsNat
<1> QED
  BY <1>1, <1>2

\* A load that begins a pass has come to none.
LEMMA NoneBefore == \A b \in Callback : ~(b <= 0)
BY CallbackIsNat

LEMMA DllOf == \A c \in Callback : Registered[c].dll \in Dlls \ {NoDll}
<1> TAKE c \in Callback
<1> DEFINE S == [tag : Tags, dll : Dlls, side : {"unsided", "client", "dedi"},
                 reliesOn : SUBSET Tags]
<1>1. Registered \in Seq(S) /\ c \in DOMAIN Registered
  BY CallbacksAssumption DEF Callback
<1>2. Registered[c] \in S
  <2> HIDE DEF S
  <2> QED
    BY <1>1
<1> QED
  BY <1>2, CallbacksAssumption

\* A callback under way is in the only load there is, that of a DLL.
LEMMA InCallback ==
    ASSUME IInv, stack # <<>>, top.in # 0
    PROVE  /\ Len(stack) = 1 /\ top.dll # NoDll /\ top.in \in Callback
           /\ Passed(top)
<1>1. top = stack[1] /\ top \in Frames /\ Len(stack) \in Nat \ {0}
  BY Top DEF IInv
<1>2. 1 \in 1..Len(stack) /\ Len(stack) \in {0, 1, 2} /\ stack[1].dll # NoDll
  BY <1>1 DEF IInv, Loads
<1>3. Len(stack) = 1
  <2>1. Len(stack) # 2
    BY <1>2 DEF IInv, Loads
  <2> QED
    BY <2>1, <1>1, <1>2
<1>4. Passed(top)
  BY <1>1, <1>2 DEF IInv, AllPassed
<1>5. top.in \in Callback
  BY <1>1 DEF Frames
<1> QED
  BY <1>1, <1>2, <1>3, <1>4, <1>5

-----------------------------------------------------------------------------
(* Steps.                                                                   *)

LEMMA RecordsKept ==
    ASSUME IInv, UNCHANGED <<called, calledTags>>
    PROVE  Recorded' /\ InOrder' /\ CalledTags' = CalledTags
<1>1. CalledTags' = CalledTags
  BY DEF CalledTags
<1>2. Recorded'
  BY <1>1 DEF IInv, Recorded
<1>3. InOrder'
  BY DEF IInv, InOrder
<1> QED
  BY <1>1, <1>2, <1>3

\* What the steps that call nothing keep.
LEMMA Kept ==
    ASSUME IInv, UNCHANGED <<dedicated, called, calledTags>>, stack' \in Seq(Frames),
           returned' = returned
    PROVE  /\ TypeOK' /\ Recorded' /\ InOrder' /\ ReturnedDone'
           /\ \A f \in Frames : Passed(f) => Passed(f)'
<1>1. TypeOK'
  BY DEF IInv, TypeOK
<1>2. Recorded' /\ InOrder'
  BY RecordsKept
<1>3. ReturnedDone'
  BY DEF IInv, ReturnedDone, Present
<1>4. \A f \in Frames : Passed(f) => Passed(f)'
  BY DEF Passed, Present, Satisfied, CalledTags
<1> QED
  BY <1>1, <1>2, <1>3, <1>4

\* A load begins.
LEMMA StepLoad ==
    ASSUME IInv, NEW dll \in Dlls, Load(dll)
    PROVE  IInv'
<1>1. PICK f \in Frames : f = Frame(dll) /\ f.dll = dll /\ f.in = 0 /\ f.at = 0
  <2>1. Frame(dll) \in Frames
    BY DEF Frame, Frames
  <2>2. Frame(dll).dll = dll /\ Frame(dll).in = 0 /\ Frame(dll).at = 0
    BY DEF Frame
  <2> QED
    BY <2>1, <2>2
<1>2. dll # NoDll
  BY CallbacksAssumption
<1>3. /\ stack' = <<f>> /\ Before[dll] \subseteq returned
      /\ UNCHANGED <<dedicated, called, calledTags, returned>>
  BY <1>1 DEF Load
<1>4. stack' \in Seq(Frames) /\ Len(stack') = 1 /\ stack'[1] = f
  BY <1>3
<1>5. Loads'
  BY <1>1, <1>2, <1>4 DEF Loads
<1>6. Passed(f)
  BY <1>1, <1>3, NoneBefore DEF Passed
<1>7. Passed(f)'
  BY <1>3, <1>4, <1>6, Kept
<1>8. AllPassed'
  BY <1>4, <1>7 DEF AllPassed
<1> QED
  BY <1>3, <1>4, <1>5, <1>8, Kept DEF IInv

\* The pass calls the next callback.
LEMMA StepCallbackBegins ==
    ASSUME IInv, CallbackBegins
    PROVE  IInv'
<1>1. PICK c \in Callable(top) :
        /\ \A b \in Callable(top) : c <= b
        /\ stack' = Replace([top EXCEPT !.at = c, !.in = c, !.nested = FALSE])
  BY DEF CallbackBegins
<1>2. /\ stack # <<>> /\ top.in = 0
      /\ UNCHANGED <<dedicated, called, calledTags, returned>>
  BY DEF CallbackBegins
<1>3. top = stack[1] /\ top \in Frames /\ Len(stack) \in Nat \ {0}
  BY <1>2, Top DEF IInv
<1>4. /\ c \in Callback /\ Registered[c].dll = top.dll /\ Present(c) /\ c \notin called
      /\ Satisfied(c) /\ c > top.at
  BY <1>1 DEF Callable, Waiting
<1>5. PICK f \in Frames :
        /\ f = [top EXCEPT !.at = c, !.in = c, !.nested = FALSE]
        /\ f.dll = top.dll /\ f.at = c /\ f.in = c
  <2> DEFINE g == [top EXCEPT !.at = c, !.in = c, !.nested = FALSE]
  <2>1. g \in Frames /\ g.dll = top.dll /\ g.at = c /\ g.in = c
    BY <1>3, <1>4 DEF Frames
  <2> HIDE DEF g
  <2> QED
    BY <2>1 DEF g
<1>6. /\ stack' \in Seq(Frames) /\ Len(stack') = Len(stack) /\ stack'[1] = f
      /\ \A k \in 2..Len(stack) : stack'[k] = stack[k]
  BY <1>1, <1>2, <1>5, ReplaceHead DEF Replace, IInv, TypeOK
<1>7. top.dll # NoDll
  BY <1>4, DllOf
<1>8. Len(stack) = 1
  BY <1>3, <1>7 DEF IInv, Loads
<1>9. Loads'
  <2>1. Len(stack') = 1 /\ \A k \in 1..Len(stack') : k = 1
    BY <1>6, <1>8
  <2>2. f.dll # NoDll
    BY <1>5, <1>7
  <2>3. \A k \in 1..Len(stack') : stack'[k].dll # NoDll
    BY <2>1, <2>2, <1>6
  <2>4. Len(stack') \in {0, 1, 2} /\ Len(stack') # 2
    BY <2>1
  <2> QED
    BY <2>3, <2>4 DEF Loads
<1>10. Passed(top)
  BY <1>3 DEF IInv, AllPassed
<1>11. Passed(f)
  <2>1. ASSUME NEW b \in Callback, Registered[b].dll = f.dll, Present(b),
               Registered[b].reliesOn = {}, b <= f.at
        PROVE  b \in called \/ b = f.in
    <3>1. CASE b <= top.at
      BY <2>1, <3>1, <1>2, <1>4, <1>5, <1>10, CallbackIsNat DEF Passed
    <3>2. CASE ~(b <= top.at) /\ b \notin called
      <4>1. b > top.at
        <5>1. b \in Nat /\ top.at \in Nat
          BY <1>3, CallbackIsNat, PositionIsNat
        <5> QED
          BY <3>2, <5>1
      <4>2. b \in Callable(top)
        BY <2>1, <3>2, <4>1, <1>5 DEF Callable, Waiting, Satisfied
      <4> QED
        BY <2>1, <4>2, <1>1, <1>4, <1>5, CallbackIsNat
    <3> QED
      BY <3>1, <3>2
  <2>2. f.dll # NoDll => Before[f.dll] \subseteq returned
    BY <1>5, <1>10 DEF Passed
  <2>3. f.in # 0 =>
         /\ f.in = f.at /\ f.in \notin called
         /\ Present(f.in) /\ Registered[f.in].dll = f.dll
         /\ Satisfied(f.in)
    BY <1>4, <1>5
  <2> QED
    BY <2>1, <2>2, <2>3 DEF Passed
<1>12. AllPassed'
  <2>1. Passed(f)'
    BY <1>2, <1>6, <1>11, Kept
  <2> QED
    BY <2>1, <1>6, <1>8 DEF AllPassed
<1> QED
  BY <1>2, <1>6, <1>9, <1>12, Kept DEF IInv

\* A callback loads a library.
LEMMA StepLoadNested ==
    ASSUME IInv, LoadNested
    PROVE  IInv'
<1>1. /\ stack # <<>> /\ top.in # 0
      /\ UNCHANGED <<dedicated, called, calledTags, returned>>
      /\ stack' = <<Frame(NoDll), [top EXCEPT !.nested = TRUE]>> \o Tail(stack)
  BY DEF LoadNested
<1>2. top = stack[1] /\ top \in Frames
  BY <1>1, Top DEF IInv
<1>3. Len(stack) = 1 /\ top.dll # NoDll /\ Passed(top)
  BY <1>1, InCallback
<1>4. PICK f \in Frames : f = Frame(NoDll) /\ f.dll = NoDll /\ f.in = 0 /\ f.at = 0
  <2>1. Frame(NoDll) \in Frames
    BY DEF Frame, Frames
  <2>2. Frame(NoDll).dll = NoDll /\ Frame(NoDll).in = 0 /\ Frame(NoDll).at = 0
    BY DEF Frame
  <2> QED
    BY <2>1, <2>2
<1>5. PICK g \in Frames :
        /\ g = [top EXCEPT !.nested = TRUE]
        /\ g.dll = top.dll /\ g.in = top.in /\ g.at = top.at
  <2> DEFINE h == [top EXCEPT !.nested = TRUE]
  <2>1. h \in Frames /\ h.dll = top.dll /\ h.in = top.in /\ h.at = top.at
    BY <1>2 DEF Frames
  <2> HIDE DEF h
  <2> QED
    BY <2>1 DEF h
<1>6. /\ stack' \in Seq(Frames) /\ Len(stack') = 2 /\ stack'[1] = f /\ stack'[2] = g
  <2>1. stack' = <<f, g>> \o Tail(stack) /\ stack \in Seq(Frames) /\ stack # <<>>
    BY <1>1, <1>4, <1>5 DEF IInv, TypeOK
  <2> QED
    BY <2>1, <1>3, PushReplaced
<1>7. Loads'
  <2>1. \A k \in 1..Len(stack') : k = 1 \/ k = 2
    BY <1>6
  <2> QED
    BY <2>1, <1>3, <1>4, <1>5, <1>6 DEF Loads
<1>8. Passed(f)
  BY <1>4, NoneBefore DEF Passed
<1>9. Passed(g)
  BY <1>3, <1>5 DEF Passed
<1>10. AllPassed'
  <2>1. Passed(f)' /\ Passed(g)'
    BY <1>1, <1>6, <1>8, <1>9, Kept
  <2> QED
    BY <2>1, <1>6 DEF AllPassed
<1> QED
  BY <1>1, <1>6, <1>7, <1>10, Kept DEF IInv

\* A pass ends, and the load with it or not.
LEMMA StepPassEnds ==
    ASSUME IInv, PassEnds
    PROVE  IInv'
<1>1. /\ stack # <<>> /\ top.in = 0
      /\ UNCHANGED <<dedicated, called, calledTags>>
  BY DEF PassEnds
<1>2. top = stack[1] /\ top \in Frames /\ Len(stack) \in Nat \ {0}
  BY <1>1, Top DEF IInv
<1>3. Passed(top)
  BY <1>2 DEF IInv, AllPassed
<1>4. CASE /\ Waiting(top.dll) = {}
           /\ stack' = Tail(stack)
           /\ returned' = returned \cup ({top.dll} \cap Dlls)
  <2>1. /\ stack' \in Seq(Frames) /\ Len(stack') = Len(stack) - 1
        /\ \A k \in 1..Len(stack') : stack'[k] = stack[k + 1] /\ k + 1 \in 1..Len(stack)
    BY <1>1, <1>2, <1>4 DEF IInv, TypeOK
  <2>2. TypeOK'
    BY <1>1, <1>4, <2>1 DEF IInv, TypeOK
  <2>3. Recorded' /\ InOrder'
    BY <1>1, RecordsKept
  <2>4. ReturnedDone'
    BY <1>1, <1>4 DEF IInv, ReturnedDone, Present, Waiting
  <2>5. Loads'
    BY <1>2, <2>1 DEF IInv, Loads
  <2>6. ASSUME NEW f \in Frames, Passed(f) PROVE Passed(f)'
    BY <2>6, <1>1, <1>4 DEF Passed, Present, Satisfied, CalledTags
  <2>7. AllPassed'
    <3>1. \A k \in 1..Len(stack') : stack'[k] \in Frames /\ Passed(stack[k + 1])
      BY <2>1 DEF IInv, AllPassed
    <3>2. ASSUME NEW k \in 1..Len(stack') PROVE Passed(stack[k])'
      <4>1. PICK f \in Frames : f = stack[k + 1] /\ stack'[k] = f
        BY <2>1, <3>1
      <4> QED
        BY <3>1, <4>1, <2>6
    <3> QED
      BY <3>2 DEF AllPassed
  <2> QED
    BY <2>2, <2>3, <2>4, <2>5, <2>7 DEF IInv
<1>5. CASE stack' = Replace([top EXCEPT !.at = 0]) /\ returned' = returned
  <2>1. PICK f \in Frames :
          f = [top EXCEPT !.at = 0] /\ f.dll = top.dll /\ f.in = 0 /\ f.at = 0
    <3> DEFINE g == [top EXCEPT !.at = 0]
    <3>1. g \in Frames /\ g.dll = top.dll /\ g.in = 0 /\ g.at = 0
      BY <1>1, <1>2 DEF Frames
    <3> HIDE DEF g
    <3> QED
      BY <3>1 DEF g
  <2>2. /\ stack' \in Seq(Frames) /\ Len(stack') = Len(stack) /\ stack'[1] = f
        /\ \A k \in 2..Len(stack) : stack'[k] = stack[k]
    BY <1>1, <1>5, <2>1, ReplaceHead DEF Replace, IInv, TypeOK
  <2>3. Loads'
    <3>1. \A k \in 1..Len(stack) : k = 1 \/ k \in 2..Len(stack)
      BY <1>2
    <3>2. \A k \in 1..Len(stack') : stack'[k].dll = stack[k].dll
      BY <3>1, <1>2, <2>1, <2>2
    <3>3. \A k \in 1..Len(stack') : stack'[k].in = stack[k].in
      BY <3>1, <1>1, <1>2, <2>1, <2>2
    <3>4. Len(stack') = 2 => stack'[1].dll = stack[1].dll
      BY <3>2
    <3> QED
      BY <3>2, <3>3, <3>4, <2>2 DEF IInv, Loads
  <2>4. Passed(f)
    BY <2>1, <1>3, NoneBefore DEF Passed
  <2>5. AllPassed'
    <3>1. Passed(f)'
      BY <1>1, <1>5, <2>2, <2>4, Kept
    <3>2. ASSUME NEW k \in 2..Len(stack) PROVE Passed(stack[k])'
      <4>1. PICK g \in Frames : g = stack[k] /\ stack'[k] = g /\ Passed(g)
        BY <1>2, <2>2 DEF IInv, TypeOK, AllPassed
      <4> QED
        BY <4>1, <1>1, <1>5, <2>2, Kept
    <3> QED
      BY <3>1, <3>2, <2>2, <1>2 DEF AllPassed
  <2> QED
    BY <1>1, <1>5, <2>2, <2>3, <2>5, Kept DEF IInv
<1> QED
  BY <1>4, <1>5 DEF PassEnds, DoneCalling

\* What a callback uses has been called when it is: it relies on it, or it belongs to
\* a DLL that was loaded before, or the pass has come by it.
LEMMA UsesThere ==
    ASSUME IInv, stack # <<>>, top.in # 0
    PROVE  Uses[Registered[top.in].tag] \subseteq CalledTags
<1> DEFINE c == top.in
<1>1. c \in Callback /\ Passed(top) /\ top.dll # NoDll
  BY InCallback
<1>2. /\ c = top.at /\ Present(c) /\ Registered[c].dll = top.dll /\ Satisfied(c)
      /\ Before[top.dll] \subseteq returned
  BY <1>1 DEF Passed
<1> HIDE DEF c
<1>3. ASSUME NEW t \in Uses[Registered[c].tag] \ Registered[c].reliesOn
      PROVE  t \in CalledTags
  <2>1. PICK b \in Callback :
          /\ Registered[b].tag = t
          /\ Registered[b].side \in {"unsided", Registered[c].side}
          /\ \/ Registered[b].dll \in Before[Registered[c].dll]
             \/ Registered[b].dll = Registered[c].dll /\ b < c /\ Registered[b].reliesOn = {}
    BY <1>1, UnstatedAssumption
  <2>2. Present(b)
    BY <2>1, <1>2 DEF Present
  <2>3. b \in called
    <3>1. CASE Registered[b].dll \in Before[Registered[c].dll]
      BY <3>1, <2>2, <1>2 DEF IInv, ReturnedDone
    <3>2. CASE Registered[b].dll = top.dll /\ b < c /\ Registered[b].reliesOn = {}
      <4>1. b <= top.at /\ b # c
        BY <3>2, <1>1, <1>2, CallbackIsNat
      <4> QED
        BY <3>2, <4>1, <2>2, <1>1 DEF Passed, c
    <3> QED
      BY <3>1, <3>2, <2>1, <1>2
  <2> QED
    BY <2>1, <2>3 DEF IInv, Recorded
<1> QED
  BY <1>2, <1>3 DEF Satisfied, c

\* Of the callbacks a load has still to call, one on the lowest level has all it relies
\* on behind it: the DLLs before have called theirs, and its own has none lower to call.
LEMMA OneCallable ==
    ASSUME IInv, stack # <<>>, top.in = 0, top.at = 0, Waiting(top.dll) # {}
    PROVE  Callable(top) # {}
<1>1. Passed(top)
  BY Top DEF IInv, AllPassed
<1>2. PICK c \in Waiting(top.dll) : \A b \in Waiting(top.dll) : Level[c] <= Level[b]
  <2> DEFINE W == Waiting(top.dll)
             levels == {Level[b] : b \in W}
  <2>1. \A b \in W : Level[b] \in Nat
    BY ReliesAssumption DEF Waiting
  <2>2. levels \subseteq Nat /\ levels # {}
    BY <2>1
  <2>3. PICK n \in levels : \A m \in levels : n <= m
    <3> HIDE DEF levels
    <3> QED
      BY <2>2, LeastOf
  <2>4. PICK c \in W : Level[c] = n
    OBVIOUS
  <2>5. \A b \in W : Level[c] <= Level[b]
    BY <2>3, <2>4
  <2> QED
    BY <2>5
<1>3. /\ c \in Callback /\ Registered[c].dll = top.dll /\ Present(c)
      /\ top.dll # NoDll /\ Before[top.dll] \subseteq returned
  BY <1>1, DllOf DEF Waiting, Passed
<1>4. ASSUME NEW t \in Registered[c].reliesOn PROVE t \in CalledTags
  <2>1. PICK b \in Callback :
          /\ Registered[b].tag = t
          /\ Registered[b].side \in {"unsided", Registered[c].side}
          /\ \/ Registered[b].dll \in Before[Registered[c].dll]
             \/ Registered[b].dll = Registered[c].dll /\ Level[b] < Level[c]
    BY <1>3, ReliesAssumption
  <2>2. Present(b)
    BY <2>1, <1>3 DEF Present
  <2>3. CASE Registered[b].dll \in Before[Registered[c].dll]
    BY <2>1, <2>2, <2>3, <1>3 DEF IInv, ReturnedDone, Recorded
  <2>4. CASE Registered[b].dll = Registered[c].dll /\ Level[b] < Level[c]
    <3>1. b \notin Waiting(top.dll)
      <4>1. Level[b] \in Nat /\ Level[c] \in Nat
        BY <1>3, ReliesAssumption
      <4>2. ~(Level[c] <= Level[b])
        BY <4>1, <2>4
      <4> QED
        BY <4>2, <1>2
    <3>2. b \in called
      BY <3>1, <2>2, <2>4, <1>3 DEF Waiting
    <3> QED
      BY <3>2, <2>1 DEF IInv, Recorded
  <2> QED
    BY <2>1, <2>3, <2>4
<1>5. c > top.at
  BY <1>3, CallbackIsNat
<1>6. c \in Callable(top)
  BY <1>2, <1>4, <1>5 DEF Callable, Satisfied
<1> QED
  BY <1>6

\* A callback returns.
LEMMA StepCallbackReturns ==
    ASSUME IInv, CallbackReturns
    PROVE  IInv'
<1> DEFINE n == Len(calledTags)
<1>1. PICK c \in Callback : c = top.in
  BY InCallback DEF CallbackReturns
<1>2. PICK t : t = Registered[c].tag
  OBVIOUS
<1>3. /\ stack # <<>> /\ top.in # 0
      /\ called' = called \cup {c} /\ calledTags' = Append(calledTags, t)
      /\ stack' = Replace([top EXCEPT !.in = 0])
      /\ UNCHANGED <<dedicated, returned>>
  BY <1>1, <1>2 DEF CallbackReturns
<1>4. /\ Len(stack) = 1 /\ top.dll # NoDll /\ Passed(top) /\ top \in Frames
      /\ c = top.at /\ c \notin called
  <2>1. Len(stack) = 1 /\ top.dll # NoDll /\ Passed(top) /\ top \in Frames
    BY <1>3, InCallback, Top DEF IInv
  <2> QED
    BY <2>1, <1>1, <1>3 DEF Passed
<1>5. t \in Tags /\ calledTags \in Seq(Tags) /\ called \subseteq Callback
  BY <1>2 DEF Tags, IInv, TypeOK
<1>6. PICK f \in Frames :
        f = [top EXCEPT !.in = 0] /\ f.dll = top.dll /\ f.in = 0 /\ f.at = c
  <2> DEFINE g == [top EXCEPT !.in = 0]
  <2>1. g \in Frames /\ g.dll = top.dll /\ g.in = 0 /\ g.at = c
    BY <1>4 DEF Frames
  <2> HIDE DEF g
  <2> QED
    BY <2>1 DEF g
<1>7. stack' \in Seq(Frames) /\ Len(stack') = 1 /\ stack'[1] = f
  <2>1. stack \in Seq(Frames) /\ stack' = <<f>> \o Tail(stack)
    BY <1>3, <1>6 DEF Replace, IInv, TypeOK
  <2> QED
    BY <2>1, <1>3, <1>4, ReplaceHead
<1>8. /\ n \in Nat /\ Len(calledTags') = n + 1 /\ calledTags'[n + 1] = t
      /\ \A i \in 1..n : calledTags'[i] = calledTags[i]
      /\ DOMAIN calledTags = 1..n /\ DOMAIN calledTags' = 1..(n + 1)
      /\ calledTags' \in Seq(Tags)
  BY <1>3, <1>5
<1>9. TypeOK'
  BY <1>1, <1>3, <1>5, <1>7, <1>8 DEF IInv, TypeOK
<1> HIDE DEF n
<1>10. CalledTags' = CalledTags \cup {t}
  <2>1. CalledTags = {calledTags[i] : i \in 1..n}
    BY <1>8 DEF CalledTags
  <2>2. CalledTags' = {calledTags'[i] : i \in 1..(n + 1)}
    BY <1>8 DEF CalledTags
  <2>3. \A i \in 1..(n + 1) : i \in 1..n \/ i = n + 1
    BY <1>8
  <2>4. CalledTags' \subseteq CalledTags \cup {t}
    BY <2>1, <2>2, <2>3, <1>8
  <2>5. ASSUME NEW x \in CalledTags PROVE x \in CalledTags'
    <3>1. PICK i \in 1..n : x = calledTags[i]
      BY <2>1
    <3>2. i \in 1..(n + 1) /\ x = calledTags'[i]
      BY <3>1, <1>8
    <3> QED
      BY <3>2, <2>2
  <2>6. t \in CalledTags'
    <3>1. n + 1 \in 1..(n + 1)
      BY <1>8
    <3> QED
      BY <3>1, <2>2, <1>8
  <2> QED
    BY <2>4, <2>5, <2>6
<1>11. t \notin CalledTags
  <2>1. \A b \in called : Registered[b].tag # t
    BY <1>2, <1>4, <1>5, CallbacksAssumption
  <2> QED
    BY <2>1 DEF IInv, Recorded
<1>12. Recorded'
  <2>1. CalledTags' = {Registered[b].tag : b \in called'}
    BY <1>2, <1>3, <1>10 DEF IInv, Recorded
  <2>2. IsFiniteSet(CalledTags') /\ Cardinality(CalledTags') = Cardinality(CalledTags) + 1
    BY <1>10, <1>11, FS_AddElement DEF IInv, Recorded
  <2>3. Cardinality(CalledTags) = n
    BY DEF IInv, Recorded, n
  <2> QED
    BY <2>1, <2>2, <2>3, <1>8 DEF Recorded
<1>13. InOrder'
  <2> SUFFICES ASSUME NEW i \in 1..(n + 1), NEW u \in Uses[calledTags'[i]]
               PROVE  \E j \in 1..(i - 1) : u = calledTags'[j]
    BY <1>8 DEF InOrder
  <2>1. CASE i \in 1..n
    <3>1. PICK j \in 1..(i - 1) : u = calledTags[j]
      BY <2>1, <1>8 DEF IInv, InOrder
    <3>2. j \in 1..n
      BY <2>1, <3>1, <1>8
    <3> QED
      BY <3>1, <3>2, <1>8
  <2>2. CASE i = n + 1
    <3>1. u \in CalledTags
      BY <2>2, <1>1, <1>2, <1>3, <1>8, UsesThere
    <3>2. PICK j \in 1..n : u = calledTags[j]
      BY <3>1, <1>8 DEF CalledTags
    <3>3. j \in 1..(i - 1)
      BY <2>2, <3>2, <1>8
    <3> QED
      BY <3>2, <3>3, <1>8
  <2> QED
    BY <2>1, <2>2, <1>8
<1>14. ReturnedDone'
  BY <1>3 DEF IInv, ReturnedDone, Present
<1>15. Loads'
  <2>1. \A k \in 1..Len(stack') : stack'[k] = f
    BY <1>7
  <2>2. Len(stack') \in {0, 1, 2} /\ Len(stack') # 2
    BY <1>7
  <2> QED
    BY <2>1, <2>2, <1>6 DEF Loads
<1>16. AllPassed'
  <2>1. Passed(f)'
    <3>1. f.dll # NoDll => Before[f.dll] \subseteq returned'
      BY <1>3, <1>4, <1>6 DEF Passed
    <3>2. ASSUME NEW b \in Callback, Registered[b].dll = f.dll, Present(b)',
                 Registered[b].reliesOn = {}, b <= f.at
          PROVE  b \in called'
      <4>1. Present(b)
        BY <3>2, <1>3 DEF Present
      <4>2. b <= top.at /\ Registered[b].dll = top.dll
        BY <3>2, <1>4, <1>6
      <4>3. b \in called \/ b = c
        BY <4>1, <4>2, <3>2, <1>1, <1>4 DEF Passed
      <4> QED
        BY <4>3, <1>3
    <3> QED
      BY <3>1, <3>2, <1>6 DEF Passed
  <2>2. \A k \in 1..Len(stack') : stack'[k] = f
    BY <1>7
  <2> QED
    BY <2>1, <2>2 DEF AllPassed
<1> QED
  BY <1>9, <1>12, <1>13, <1>14, <1>15, <1>16 DEF IInv

-----------------------------------------------------------------------------
(* The theorems.                                                            *)

THEOREM Invariance == Spec => []IInv
<1>1. Init => IInv
  <2> SUFFICES ASSUME Init PROVE IInv
    OBVIOUS
  <2>1. /\ called = {} /\ returned = {} /\ dedicated \in BOOLEAN
        /\ calledTags = <<>> /\ stack = <<>>
        /\ Len(calledTags) = 0 /\ Len(stack) = 0
    BY DEF Init
  <2>2. TypeOK
    BY <2>1 DEF TypeOK
  <2>3. Recorded
    <3>1. CalledTags = {}
      BY <2>1 DEF CalledTags
    <3>2. Cardinality(CalledTags) = 0 /\ IsFiniteSet(CalledTags)
      BY <3>1, FS_EmptySet
    <3> QED
      BY <3>1, <3>2, <2>1 DEF Recorded
  <2>4. InOrder /\ ReturnedDone
    BY <2>1 DEF InOrder, ReturnedDone
  <2>5. Loads /\ AllPassed
    BY <2>1 DEF Loads, AllPassed
  <2> QED
    BY <2>2, <2>3, <2>4, <2>5 DEF IInv
<1>2. ASSUME IInv, [Next]_vars PROVE IInv'
  <2>1. CASE UNCHANGED vars
    <3>1. UNCHANGED <<dedicated, called, calledTags, stack, returned>>
      BY <2>1 DEF vars
    <3>2. stack' \in Seq(Frames)
      BY <1>2, <3>1 DEF IInv, TypeOK
    <3>3. TypeOK' /\ Recorded' /\ InOrder' /\ ReturnedDone'
      BY <1>2, <3>1, <3>2, Kept
    <3>4. Loads'
      BY <1>2, <3>1 DEF IInv, Loads
    <3>5. AllPassed'
      BY <1>2, <3>1 DEF IInv, AllPassed, Passed, Present, Satisfied, CalledTags
    <3> QED
      BY <3>3, <3>4, <3>5 DEF IInv
  <2>2. ASSUME NEW dll \in Dlls, Load(dll) PROVE IInv'
    BY <1>2, <2>2, StepLoad
  <2>3. CASE LoadNested
    BY <1>2, <2>3, StepLoadNested
  <2>4. CASE CallbackBegins
    BY <1>2, <2>4, StepCallbackBegins
  <2>5. CASE CallbackReturns
    BY <1>2, <2>5, StepCallbackReturns
  <2>6. CASE PassEnds
    BY <1>2, <2>6, StepPassEnds
  <2> QED
    BY <1>2, <2>1, <2>2, <2>3, <2>4, <2>5, <2>6 DEF Next, Hook
<1> QED
  BY <1>1, <1>2, PTL DEF Spec

\* Callbacks, tags and loads keep their types.
THEOREM TypeCorrect == Spec => []TypeOK
<1>1. IInv => TypeOK
  BY DEF IInv
<1> QED
  BY <1>1, Invariance, PTL

\* Each callback is called once at most, after the callbacks it uses, and before the
\* load of its DLL returns.
THEOREM CallbacksCorrect == Spec => []CallbacksDone
<1>1. IInv => CallbacksDone
  <2> SUFFICES ASSUME IInv PROVE CallbacksDone
    OBVIOUS
  <2>1. ASSUME NEW c \in Callback, Registered[c].dll \in returned, Present(c)
        PROVE  Registered[c].tag \in CalledTags
    BY <2>1 DEF IInv, ReturnedDone, Recorded
  <2> QED
    BY <2>1 DEF CallbacksDone, IInv, Recorded, InOrder
<1> QED
  BY <1>1, Invariance, PTL

\* No pass over the list is to no purpose: whatever is registered in which order, as
\* long as what is relied on does not come back to where it began, a pass that has not
\* everything behind it calls something, and the loop over the passes comes to its end.
THEOREM PassesCall == Spec => []EveryPassCalls
<1>1. IInv => EveryPassCalls
  BY OneCallable DEF EveryPassCalls
<1> QED
  BY <1>1, Invariance, PTL

-----------------------------------------------------------------------------
(* Loads and unloads of paks.                                               *)

\* The paks that are always loaded, and those that follow them.
Follows(S) ==
    \A i \in Entry :
        Entries[i].auto \/ Entries[i].after \in S => Entries[i].path \in S

Wanted == {p \in EntryPaths : \A S \in SUBSET EntryPaths : Follows(S) => p \in S}

\* Those of them that are loaded once and never unloaded.
Lasting == Wanted \ MayFail

IsTracked(name) == \E h \in Handles : tracked[h].name = name

Calls == 1..Len(hooks)
Outer == Len(hooks)
Loading == hooks # <<>> /\ hooks[1].hook = "load"
Unloading == hooks # <<>> /\ hooks[1].hook = "unload"

\* Tracked paks are loaded, and so are those an unload has yet to unload.
Accounted ==
    \A h \in Handles :
        h \in loaded <=>
            \/ tracked[h] # Untracked
            \/ \E k \in Calls : /\ hooks[k].hook = "unload" /\ hooks[k].step # "enter"
                                /\ hooks[k].handle = h

\* A tracked name is the game's, or a mod's, which has a source unless its hook is
\* under way.  A lasting one is never a map's.
TrackedAs(h) ==
    \/ tracked[h].name \in Names /\ tracked[h].source = "UNTRACKED"
    \/ /\ tracked[h].name \in EntryPaths
       /\ \/ tracked[h].source = "CONSTANT"
          \/ tracked[h].source = "MAP" /\ tracked[h].name \notin Lasting
          \/ \E k \in 1..(Outer - 1) : hooks[k].step = "post" /\ hooks[k].handle = h

TrackedWell == \A h \in Handles : tracked[h] # Untracked => TrackedAs(h)

FailedWell == tracked[Failed] # Untracked => tracked[Failed].name \in Names \cup MayFail

Unique ==
    \A g, h \in Handles :
        tracked[g] # Untracked /\ tracked[g].name = tracked[h].name
            => g = h \/ Excused(tracked[g].name)

\* At most two unloads are under way, the inner one of a map's pak.
UnloadCalls ==
    Unloading =>
        /\ Outer \in {1, 2}
        /\ \A k \in Calls :
             /\ hooks[k].hook = "unload"
             /\ IF hooks[k].step = "enter"
                THEN /\ tracked[hooks[k].handle] # Untracked
                     /\ tracked[hooks[k].handle].name \notin Lasting
                ELSE tracked[hooks[k].handle] = Untracked
        /\ Outer = 1 => (shouldUnload <=> hooks[1].step # "maps")
        /\ Outer = 2 => /\ hooks[2].step = "maps" /\ hooks[1].step # "maps"
                        /\ ~shouldUnload /\ hooks[1].handle # hooks[2].handle

Opening(k) == hooks[k].step \in {"preload", "map"}

\* The outermost call is the game's, the others are of mods' paks.
CallOf(k) ==
    /\ hooks[k].hook = "load"
    /\ IF k = Outer THEN hooks[k].name \in Names /\ hooks[k].source = "UNTRACKED"
       ELSE /\ hooks[k].name \in EntryPaths /\ hooks[k].path = hooks[k].name
            /\ hooks[k].source \in {"CONSTANT", "MAP"}
    /\ k # 1 => hooks[k].step \in {"preload", "map", "post"}
    /\ k # Outer /\ hooks[k].step = "map" => k = 1 /\ hooks[k].todo = {}

\* What a call has come to.
CallAt(k) ==
    /\ hooks[k].step \in {"enter", "preload"} => hooks[k].path = hooks[k].name
    /\ hooks[k].step = "preload" => hooks[k].todo \subseteq Preloads
    /\ hooks[k].step = "post" => \A i \in hooks[k].todo : Entries[i].after = hooks[k].path
    /\ hooks[k].step # "post" => hooks[k].handle = Failed
    /\ hooks[k].step = "post" /\ hooks[k].handle = Failed => hooks[k].path \in MayFail
    /\ hooks[k].step = "post" /\ hooks[k].handle # Failed =>
         tracked[hooks[k].handle].name = hooks[k].name

CallsWell == \A k \in Calls : CallOf(k) /\ CallAt(k)

OneOpening == \A j, k \in Calls : Opening(j) /\ Opening(k) => j = k

PostsDiffer ==
    \A j, k \in Calls :
        hooks[j].step = "post" /\ hooks[k].step = "post" /\ hooks[j].handle = hooks[k].handle
            => j = k \/ hooks[j].handle = Failed

\* Calls inside a preload are of wanted paks.
InsidePreload ==
    \A j, k \in Calls :
        j < k /\ hooks[k].step = "preload"
            => hooks[j].name \in Wanted /\ hooks[j].source = "CONSTANT"

LastingLoads ==
    \A k \in Calls :
        /\ hooks[k].step # "enter" /\ hooks[k].source = "MAP" => hooks[k].name \notin Lasting
        /\ k # Outer /\ hooks[k].step = "preload" => hooks[k].name \notin Lasting

NotThere ==
    \A k \in Calls :
        hooks[k].step \in {"preload", "map", "engine"}
            => Excused(hooks[k].name) \/ ~IsTracked(hooks[k].name)

\* Calls before and after the engine's load.
LoadCalls ==
    Loading => /\ CallsWell /\ OneOpening /\ PostsDiffer
               /\ InsidePreload /\ LastingLoads /\ NotThere

Flags ==
    /\ shouldLoad <=> ~(Loading /\ \E k \in Calls : Opening(k))
    /\ ~Unloading => shouldUnload

\* The lasting paks are loaded.
Established == \A p \in Lasting : IsTracked(p)

Fresh ==
    /\ \A h \in Handles \cup {Failed} : tracked[h] = Untracked
    /\ Loading => Outer = 1 /\ hooks[1].step = "enter"

\* A mod's pak the engine has yet to load.
Arriving(name) == Outer # 1 /\ hooks[1].step \in {"enter", "engine"} /\ hooks[1].name = name

\* The first load of all: S are the mods' paks it has come to.
Gathering(S) ==
    /\ \A i \in Entry : Entries[i].auto => Entries[i].path \in S \/ i \in hooks[Outer].todo
    /\ \A i \in Entry : Entries[i].after \in S =>
         \/ Entries[i].path \in S
         \/ \E k \in Calls : hooks[k].step = "post" /\ i \in hooks[k].todo
         \/ Arriving(Entries[i].after) /\ ~IsTracked(Entries[i].after)
    /\ \A p \in S : p \in MayFail \/ IsTracked(p) \/ Arriving(p)
    /\ \A h \in Handles : tracked[h] # Untracked => tracked[h].name \in S
    /\ \A k \in Calls : k # Outer => hooks[k].name \in S

Phase ==
    \/ Established
    \/ Fresh
    \/ Loading /\ hooks[Outer].step = "preload" /\ \E S \in SUBSET EntryPaths : Gathering(S)

\* The inductive invariant.
PaksInv ==
    /\ PaksTypeOK /\ Accounted /\ TrackedWell /\ FailedWell /\ Unique
    /\ UnloadCalls /\ LoadCalls /\ Flags /\ Phase

-----------------------------------------------------------------------------
(* Paks, handles and frames.                                                *)

\* What the entries are.
LEMMA EntryFacts ==
    /\ \A i \in Entry : /\ i \in Nat
                        /\ Entries[i].path \in EntryPaths
                        /\ Entries[i].auto \in BOOLEAN
    /\ EntryPaths \subseteq Files /\ Names \subseteq Files
    /\ EntryPaths \cap Names = {}
    /\ \A n \in Names : AliasOf[n] \in Names
    /\ "none" \notin Files
    /\ Failed \notin Handles
<1> DEFINE E == [path : Files \ Names, name : Names, auto : BOOLEAN,
                 after : Files \cup {"never"}]
<1>1. ASSUME NEW i \in Entry PROVE i \in Nat /\ Entries[i] \in E
  <2> HIDE DEF E
  <2>1. Entries \in Seq(E)
    BY PaksAssumption DEF E
  <2> QED
    BY <2>1 DEF Entry
<1>2. \A i \in Entry : Entries[i].path \in Files \ Names /\ Entries[i].auto \in BOOLEAN
  BY <1>1
<1>3. EntryPaths \subseteq Files /\ Names \subseteq Files
  BY DEF Files
<1>4. EntryPaths \cap Names = {}
  BY <1>2 DEF EntryPaths
<1>5. \A i \in Entry : Entries[i].path \in EntryPaths
  BY DEF EntryPaths
<1>6. Failed \notin Handles
  BY PaksAssumption DEF Failed, Handles
<1> QED
  BY <1>1, <1>2, <1>3, <1>4, <1>5, <1>6, PaksAssumption

LEMMA EntryNames ==
    \A i \in Entry : Entries[i].name \in Names
<1> DEFINE E == [path : Files \ Names, name : Names, auto : BOOLEAN,
                 after : Files \cup {"never"}]
<1>1. ASSUME NEW i \in Entry PROVE Entries[i] \in E
  <2> HIDE DEF E
  <2>1. Entries \in Seq(E)
    BY PaksAssumption DEF E
  <2> QED
    BY <2>1 DEF Entry
<1> QED
  BY <1>1

\* Some entries have a first.
LEMMA FirstIn ==
    ASSUME NEW S \in SUBSET Entry, S # {}
    PROVE  First(S) \in S
<1>1. S \subseteq Nat
  BY EntryFacts
<1>2. \E i \in S : \A j \in S : i <= j
  BY <1>1, LeastOf
<1> QED
  BY <1>2 DEF First

\* What follows a wanted pak is wanted.
LEMMA WantedFollows ==
    \A i \in Entry :
        Entries[i].auto \/ Entries[i].after \in Wanted => Entries[i].path \in Wanted
<1> SUFFICES ASSUME NEW i \in Entry, Entries[i].auto \/ Entries[i].after \in Wanted
             PROVE  Entries[i].path \in Wanted
  OBVIOUS
<1>1. ASSUME NEW S \in SUBSET EntryPaths, Follows(S) PROVE Entries[i].path \in S
  <2>1. Entries[i].after \in Wanted => Entries[i].after \in S
    BY <1>1 DEF Wanted
  <2> QED
    BY <1>1, <2>1 DEF Follows
<1> QED
  BY <1>1, EntryFacts DEF Wanted

LEMMA LastingFacts ==
    /\ Lasting \subseteq EntryPaths /\ Lasting \subseteq Wanted
    /\ Wanted \subseteq Lasting \cup (MayFail \ Names)
    /\ Lasting \cap (MayFail \cup Names) = {}
BY EntryFacts DEF Lasting, Wanted

\* A handle is tracked for a pak of the game or of a mod, or not at all.
LEMMA TrackedType ==
    ASSUME PaksTypeOK
    PROVE  /\ \A h \in Handles \cup {Failed} :
                \/ tracked[h] = Untracked /\ tracked[h].name = "none"
                   /\ tracked[h].name \notin Files /\ tracked[h].source = "none"
                \/ /\ tracked[h] # Untracked
                   /\ tracked[h].name \in Files /\ tracked[h].source \in Sources
                   /\ tracked[h] \in [name : Files, source : Sources]
           /\ DOMAIN tracked = Handles \cup {Failed}
<1>1. /\ \A h \in Handles \cup {Failed} :
            tracked[h] \in [name : Files, source : Sources] \cup {Untracked}
      /\ DOMAIN tracked = Handles \cup {Failed}
  BY DEF PaksTypeOK
<1>2. Untracked.name = "none" /\ "none" \notin Files /\ Untracked.source = "none"
  BY EntryFacts DEF Untracked
<1>3. \A r \in [name : Files, source : Sources] : r # Untracked
  BY <1>2
<1> QED
  BY <1>1, <1>2, <1>3

\* The handle of a name.
LEMMA HandleFound ==
    ASSUME PaksTypeOK, NEW name \in Files
    PROVE  HandleOf(name) = Failed <=> tracked[Failed].name = name \/ ~IsTracked(name)
<1> DEFINE of == {h \in DOMAIN tracked : tracked[h].name = name}
<1>1. of \subseteq Handles \cup {Failed} /\ Failed \in DOMAIN tracked
  BY DEF PaksTypeOK
<1>2. MaxHandle \in Nat
  BY PaksAssumption
<1>3. CASE of = {}
  BY <1>1, <1>3, TrackedType DEF HandleOf, IsTracked
<1>4. CASE of # {}
  <2> DEFINE S == {h + 1 : h \in of}
  <2>1. S \subseteq Nat /\ S # {}
    BY <1>1, <1>4 DEF Handles, Failed
  <2>2. PICK i \in S : \A j \in S : i <= j
    <3> HIDE DEF S
    <3> QED
      BY <2>1, LeastOf
  <2>3. \E h \in of : \A g \in of : h <= g
    <3>1. PICK h \in of : i = h + 1
      OBVIOUS
    <3>2. ASSUME NEW g \in of PROVE h <= g
      <4>1. h + 1 <= g + 1
        BY <2>2, <3>1
      <4>2. h \in Int /\ g \in Int
        BY <1>1 DEF Handles, Failed
      <4> QED
        BY <4>1, <4>2
    <3> QED
      BY <3>2
  <2> DEFINE least == CHOOSE h \in of : \A g \in of : h <= g
  <2>4. least \in of /\ \A g \in of : least <= g
    BY <2>3
  <2>5. HandleOf(name) = least
    BY <1>4 DEF HandleOf
  <2>6. Failed \in of => least = Failed
    BY <2>4, <1>1 DEF Handles, Failed
  <2>7. Failed \in of <=> tracked[Failed].name = name
    BY <1>1
  <2>8. Failed \notin of => IsTracked(name)
    BY <1>1, <1>4 DEF IsTracked
  <2> HIDE DEF of, least
  <2> QED
    BY <2>4, <2>5, <2>6, <2>7, <2>8
<1> QED
  BY <1>3, <1>4

-----------------------------------------------------------------------------
(* The hooks under way.                                                      *)

HookFrames == LoadFrames \cup UnloadFrames

\* The innermost hook goes on, calls another, or returns.
GoesOn(f) == hooks' = <<f>> \o Tail(hooks)
CallsOn(f, g) == hooks' = <<f, g>> \o Tail(hooks)
GoesBack == hooks' = Tail(hooks)

\* A frame in its place.
LEMMA FrameTypes ==
    ASSUME PaksTypeOK
    PROVE  /\ hooks \in Seq(HookFrames)
           /\ Outer \in Nat
           /\ \A k \in Calls : hooks[k] \in HookFrames
           /\ \A k \in Calls : hooks[k].hook = "load" => hooks[k] \in LoadFrames
           /\ \A k \in Calls : hooks[k].hook = "unload" => hooks[k] \in UnloadFrames
           /\ hooks # <<>> => Outer \in Nat \ {0} /\ 1 \in Calls /\ Outer \in Calls
                              /\ inner = hooks[1]
           /\ hooks = <<>> => Outer = 0
<1>1. hooks \in Seq(HookFrames)
  BY DEF PaksTypeOK, HookFrames
<1>2. Outer \in Nat /\ (hooks # <<>> => Outer # 0 /\ inner = hooks[1])
      /\ \A k \in Calls : hooks[k] \in HookFrames
  <2> HIDE DEF HookFrames
  <2> QED
    BY <1>1 DEF Outer, Calls, inner
<1>3. \A f \in HookFrames : /\ f.hook = "load" => f \in LoadFrames
                            /\ f.hook = "unload" => f \in UnloadFrames
  BY DEF HookFrames, LoadFrames, UnloadFrames
<1>4. hooks = <<>> => Outer = 0
  BY DEF Outer
<1> QED
  BY <1>1, <1>2, <1>3, <1>4 DEF Calls, Outer

LEMMA HooksDomain ==
    ASSUME PaksTypeOK
    PROVE  DOMAIN hooks = Calls /\ \A i, j \in Calls : i # j => i < j \/ j < i
<1>1. hooks \in Seq(HookFrames)
  BY FrameTypes
<1>2. DOMAIN hooks = 1..Len(hooks) /\ Len(hooks) \in Nat
  BY <1>1
<1> QED
  BY <1>2 DEF Calls

\* The innermost hook goes on.
LEMMA HookGoesOn ==
    ASSUME PaksTypeOK, hooks # <<>>, NEW f \in HookFrames, GoesOn(f)
    PROVE  /\ hooks' \in Seq(HookFrames) /\ hooks' # <<>> /\ Outer' = Outer
           /\ Outer \in Nat \ {0} /\ Calls' = Calls /\ hooks'[1] = f
           /\ \A k \in Calls : k # 1 => hooks'[k] = hooks[k]
           /\ f.hook = "load" => Loading' /\ ~Unloading'
           /\ f.hook = "unload" => Unloading' /\ ~Loading'
<1>1. hooks \in Seq(HookFrames) /\ Outer \in Nat \ {0}
  BY FrameTypes
<1>2. /\ hooks' \in Seq(HookFrames) /\ Len(hooks') = Len(hooks) /\ hooks'[1] = f
      /\ \A k \in 2..Len(hooks) : hooks'[k] = hooks[k]
  BY <1>1, ReplaceHead DEF GoesOn
<1>3. hooks' # <<>>
  BY <1>1, <1>2 DEF Outer
<1> QED
  BY <1>1, <1>2, <1>3 DEF Outer, Calls, Loading, Unloading

\* The innermost hook makes a call.
LEMMA HookCalls ==
    ASSUME PaksTypeOK, hooks # <<>>, NEW f \in HookFrames, NEW g \in HookFrames,
           CallsOn(f, g)
    PROVE  /\ hooks' \in Seq(HookFrames) /\ hooks' # <<>> /\ Outer' = Outer + 1
           /\ Outer \in Nat \ {0} /\ Calls' = 1..(Outer + 1)
           /\ hooks'[1] = f /\ hooks'[2] = g
           /\ \A k \in Calls : k # 1 => hooks'[k + 1] = hooks[k]
           /\ f.hook = "load" => Loading' /\ ~Unloading'
           /\ f.hook = "unload" => Unloading' /\ ~Loading'
<1>1. hooks \in Seq(HookFrames) /\ Outer \in Nat \ {0}
  BY FrameTypes
<1>2. /\ hooks' \in Seq(HookFrames) /\ Len(hooks') = Len(hooks) + 1
      /\ hooks'[1] = f /\ hooks'[2] = g
      /\ \A k \in 3..(Len(hooks) + 1) : hooks'[k] = hooks[k - 1]
  BY <1>1, PushReplaced DEF CallsOn
<1>3. hooks' # <<>>
  BY <1>1, <1>2 DEF Outer
<1>4. ASSUME NEW k \in Calls, k # 1 PROVE hooks'[k + 1] = hooks[k]
  <2>1. k + 1 \in 3..(Len(hooks) + 1) /\ (k + 1) - 1 = k
    BY <1>1, <1>4 DEF Calls, Outer
  <2> QED
    BY <1>2, <2>1
<1> QED
  BY <1>1, <1>2, <1>3, <1>4 DEF Outer, Calls, Loading, Unloading

\* The innermost hook returns.
LEMMA HookReturns ==
    ASSUME PaksTypeOK, hooks # <<>>, GoesBack
    PROVE  /\ hooks' \in Seq(HookFrames) /\ Outer' = Outer - 1
           /\ Outer \in Nat \ {0} /\ Calls' = 1..(Outer - 1)
           /\ \A k \in Calls' : k + 1 \in Calls /\ hooks'[k] = hooks[k + 1]
           /\ hooks' = <<>> <=> Outer = 1
<1>1. hooks \in Seq(HookFrames) /\ Outer \in Nat \ {0}
  BY FrameTypes
<1>2. /\ hooks' \in Seq(HookFrames) /\ Len(hooks') = Len(hooks) - 1
      /\ \A k \in 1..(Len(hooks) - 1) : hooks'[k] = hooks[k + 1]
      /\ hooks' = <<>> <=> Len(hooks) = 1
  BY <1>1, Popped DEF GoesBack
<1> QED
  BY <1>1, <1>2 DEF Outer, Calls

\* A call of the hook that loads.
LEMMA InLoad ==
    ASSUME PaksInv, NEW step, Running("load", step)
    PROVE  /\ hooks # <<>> /\ inner = hooks[1] /\ inner \in LoadFrames /\ inner.step = step
           /\ Outer \in Nat \ {0} /\ 1 \in Calls /\ Outer \in Calls /\ Loading /\ ~Unloading
           /\ CallsWell /\ OneOpening /\ PostsDiffer /\ InsidePreload /\ LastingLoads
           /\ NotThere /\ shouldUnload
           /\ \A k \in Calls : hooks[k] \in LoadFrames
<1>1. hooks # <<>> /\ inner.hook = "load" /\ inner.step = step
  BY DEF Running
<1>2. /\ inner = hooks[1] /\ 1 \in Calls /\ Outer \in Nat \ {0} /\ Outer \in Calls
      /\ \A k \in Calls : hooks[k].hook = "load" => hooks[k] \in LoadFrames
  BY <1>1, FrameTypes DEF PaksInv
<1>3. Loading /\ ~Unloading
  BY <1>1, <1>2 DEF Loading, Unloading
<1>4. CallsWell /\ OneOpening /\ PostsDiffer /\ InsidePreload /\ LastingLoads /\ NotThere
      /\ shouldUnload
  BY <1>3 DEF PaksInv, LoadCalls, Flags
<1>5. \A k \in Calls : hooks[k].hook = "load"
  BY <1>4 DEF CallsWell, CallOf
<1> QED
  BY <1>1, <1>2, <1>3, <1>4, <1>5

\* A name is tracked and excused as before when names have not changed.
LEMMA NamesKept ==
    ASSUME \A h \in Handles \cup {Failed} : tracked'[h].name = tracked[h].name
    PROVE  \A name : (IsTracked(name)' <=> IsTracked(name)) /\ (Excused(name)' <=> Excused(name))
BY DEF IsTracked, Excused

\* A load that is done, or that was refused, leaves the others as they were.
LEMMA LoadReturns ==
    ASSUME PaksInv, NEW step, Running("load", step), GoesBack, PaksTypeOK',
           UNCHANGED <<loaded, shouldUnload>>,
           \A h \in Handles \cup {Failed} :
               /\ tracked'[h].name = tracked[h].name
               /\ tracked'[h] = Untracked <=> tracked[h] = Untracked,
           TrackedWell', Phase',
           shouldLoad' <=> ~\E k \in Calls : k # 1 /\ Opening(k)
    PROVE  PaksInv'
<1>1. /\ Outer' = Outer - 1 /\ Outer \in Nat \ {0} /\ Calls' = 1..(Outer - 1)
      /\ \A k \in Calls' : k + 1 \in Calls /\ hooks'[k] = hooks[k + 1]
      /\ hooks' = <<>> <=> Outer = 1
  BY HookReturns DEF PaksInv, Running
<1>2. /\ CallsWell /\ OneOpening /\ PostsDiffer /\ InsidePreload /\ LastingLoads /\ NotThere
      /\ shouldUnload /\ Loading /\ \A k \in Calls : hooks[k] \in LoadFrames
  BY InLoad
<1>3. \A k \in Calls : hooks[k].hook = "load"
  BY <1>2 DEF CallsWell, CallOf
<1>4. \A name : (IsTracked(name)' <=> IsTracked(name)) /\ (Excused(name)' <=> Excused(name))
  BY NamesKept
<1>5. Accounted'
  BY <1>1, <1>3 DEF PaksInv, Accounted
<1>6. FailedWell'
  BY DEF PaksInv, FailedWell
<1>7. Unique'
  BY <1>4 DEF PaksInv, Unique
<1>8. ~Unloading'
  BY <1>1, <1>3 DEF Unloading, Calls
<1>9. CallsWell'
  <2> SUFFICES ASSUME NEW k \in Calls' PROVE CallOf(k)' /\ CallAt(k)'
    BY DEF CallsWell
  <2>1. /\ k + 1 \in Calls /\ hooks'[k] = hooks[k + 1] /\ k + 1 # 1
        /\ k = Outer' <=> k + 1 = Outer
    BY <1>1
  <2>2. CallOf(k + 1) /\ CallAt(k + 1) /\ hooks[k + 1] \in LoadFrames
    BY <1>2, <2>1 DEF CallsWell
  <2>3. CallOf(k)'
    BY <2>1, <2>2 DEF CallOf
  <2>4. tracked'[hooks[k + 1].handle].name = tracked[hooks[k + 1].handle].name
    BY <2>2 DEF LoadFrames
  <2>5. CallAt(k)'
    BY <2>1, <2>2, <2>4 DEF CallAt
  <2> QED
    BY <2>3, <2>5
<1>10. OneOpening'
  <2> SUFFICES ASSUME NEW j \in Calls', NEW k \in Calls', Opening(j)', Opening(k)'
               PROVE  j = k
    BY DEF OneOpening
  <2>1. j + 1 \in Calls /\ k + 1 \in Calls /\ Opening(j + 1) /\ Opening(k + 1)
    BY <1>1 DEF Opening
  <2>2. j + 1 = k + 1
    BY <1>2, <2>1 DEF OneOpening
  <2> QED
    BY <1>1, <2>2
<1>11. PostsDiffer'
  <2> SUFFICES ASSUME NEW j \in Calls', NEW k \in Calls', hooks'[j].step = "post",
                      hooks'[k].step = "post", hooks'[j].handle = hooks'[k].handle
               PROVE  j = k \/ hooks'[j].handle = Failed
    BY DEF PostsDiffer
  <2>1. /\ j + 1 \in Calls /\ k + 1 \in Calls
        /\ hooks'[j] = hooks[j + 1] /\ hooks'[k] = hooks[k + 1]
    BY <1>1
  <2>2. j + 1 = k + 1 \/ hooks'[j].handle = Failed
    BY <1>2, <2>1 DEF PostsDiffer
  <2> QED
    BY <1>1, <2>2
<1>12. InsidePreload'
  <2> SUFFICES ASSUME NEW j \in Calls', NEW k \in Calls', j < k, hooks'[k].step = "preload"
               PROVE  hooks'[j].name \in Wanted /\ hooks'[j].source = "CONSTANT"
    BY DEF InsidePreload
  <2>1. /\ j + 1 \in Calls /\ k + 1 \in Calls /\ j + 1 < k + 1
        /\ hooks'[j] = hooks[j + 1] /\ hooks'[k] = hooks[k + 1]
    BY <1>1
  <2> QED
    BY <1>2, <2>1 DEF InsidePreload
<1>13. LastingLoads'
  BY <1>1, <1>2 DEF LastingLoads
<1>14. NotThere'
  BY <1>1, <1>2, <1>4 DEF NotThere
<1>15. Flags'
  <2>1. (\E k \in Calls : k # 1 /\ Opening(k)) <=> \E k \in Calls' : Opening(k)'
    <3>1. ASSUME NEW k \in Calls, k # 1, Opening(k) PROVE \E c \in Calls' : Opening(c)'
      <4>1. k - 1 \in Calls' /\ (k - 1) + 1 = k
        BY <1>1, <3>1 DEF Calls, Outer
      <4>2. hooks'[k - 1] = hooks[k]
        BY <1>1, <4>1
      <4> QED
        BY <3>1, <4>1, <4>2 DEF Opening
    <3>2. ASSUME NEW k \in Calls', Opening(k)' PROVE k + 1 \in Calls /\ k + 1 # 1 /\ Opening(k + 1)
      BY <1>1, <3>2 DEF Opening
    <3> QED
      BY <3>1, <3>2
  <2>2. (\E k \in Calls' : Opening(k)') => Loading'
    <3>1. ASSUME NEW k \in Calls' PROVE hooks' # <<>> /\ 1 \in Calls'
      BY <1>1
    <3> QED
      BY <1>1, <1>3, <3>1 DEF Loading
  <2> QED
    BY <2>1, <2>2, <1>2, <1>8 DEF Flags
<1> QED
  BY <1>5, <1>6, <1>7, <1>8, <1>9, <1>10, <1>11, <1>12, <1>13, <1>14, <1>15
     DEF PaksInv, UnloadCalls, LoadCalls

\* A load that goes on up to the engine's leaves what is tracked, and the other calls.
LEMMA LoadGoesOn ==
    ASSUME PaksInv, NEW step \in {"enter", "preload", "map"}, Running("load", step),
           NEW f \in LoadFrames, GoesOn(f), PaksTypeOK', Phase',
           UNCHANGED <<tracked, loaded, shouldUnload>>,
           f.source = inner.source, f.handle = Failed, f.step \in {"preload", "map", "engine"},
           Outer = 1 => f.name \in Names,
           Outer # 1 => /\ f.name = inner.name /\ f.path = inner.name
                        /\ f.step = "map" => f.todo = {}
                        /\ f.step = "preload" => f.name \notin Lasting,
           f.step = "preload" => f.path = f.name /\ f.todo \subseteq Preloads,
           f.step \in {"preload", "map"} => \A k \in Calls : k # 1 => ~Opening(k),
           f.source = "MAP" => f.name \notin Lasting,
           Excused(f.name) \/ ~IsTracked(f.name),
           shouldLoad' <=> /\ f.step = "engine"
                           /\ \A k \in Calls : k # 1 => ~Opening(k)
    PROVE  PaksInv'
<1>1. /\ hooks # <<>> /\ inner = hooks[1] /\ inner.step = step /\ 1 \in Calls
      /\ CallsWell /\ OneOpening /\ PostsDiffer /\ InsidePreload /\ LastingLoads /\ NotThere
      /\ shouldUnload /\ Loading /\ \A k \in Calls : hooks[k] \in LoadFrames
  BY InLoad
<1>2. f \in HookFrames /\ f.hook = "load"
  BY DEF HookFrames, LoadFrames
<1>3. /\ Outer' = Outer /\ Outer \in Nat \ {0} /\ Calls' = Calls /\ hooks'[1] = f
      /\ \A k \in Calls : k # 1 => hooks'[k] = hooks[k]
      /\ Loading' /\ ~Unloading'
  BY <1>1, <1>2, HookGoesOn DEF PaksInv
<1>4. \A k \in Calls : hooks[k].hook = "load" /\ hooks'[k].hook = "load"
  BY <1>1, <1>2, <1>3 DEF CallsWell, CallOf
<1>5. \A name : (IsTracked(name)' <=> IsTracked(name)) /\ (Excused(name)' <=> Excused(name))
  BY NamesKept
<1>6. Accounted'
  BY <1>3, <1>4 DEF PaksInv, Accounted
<1>7. TrackedWell'
  <2> SUFFICES ASSUME NEW h \in Handles, tracked[h] # Untracked PROVE TrackedAs(h)'
    BY DEF TrackedWell
  <2>1. TrackedAs(h)
    BY DEF PaksInv, TrackedWell
  <2>2. ASSUME NEW k \in 1..(Outer - 1), hooks[k].step = "post"
        PROVE  hooks'[k] = hooks[k]
    <3>1. k \in Calls /\ k # 1
      BY <1>1, <1>3, <2>2 DEF Calls, Outer
    <3> QED
      BY <3>1, <1>3
  <2> QED
    BY <2>1, <2>2, <1>3 DEF TrackedAs
<1>8. FailedWell' /\ Unique'
  BY <1>5 DEF PaksInv, FailedWell, Unique
<1>9. CallsWell'
  <2> SUFFICES ASSUME NEW k \in Calls PROVE CallOf(k)' /\ CallAt(k)'
    BY <1>3 DEF CallsWell
  <2>1. CallOf(k) /\ CallAt(k)
    BY <1>1 DEF CallsWell
  <2>2. CASE k # 1
    <3>1. hooks'[k] = hooks[k]
      BY <2>2, <1>3
    <3> QED
      BY <3>1, <2>1, <2>2, <1>3 DEF CallOf, CallAt
  <2>3. CASE k = 1
    <3>1. CallOf(k)'
      BY <2>1, <2>3, <1>1, <1>2, <1>3 DEF CallOf
    <3>2. CallAt(k)'
      BY <2>1, <2>3, <1>1, <1>2, <1>3 DEF CallAt
    <3> QED
      BY <3>1, <3>2
  <2> QED
    BY <2>2, <2>3
<1>10. OneOpening'
  BY <1>1, <1>3 DEF OneOpening, Opening
<1>11. PostsDiffer'
  BY <1>1, <1>3 DEF PostsDiffer
<1>12. InsidePreload'
  <2> SUFFICES ASSUME NEW j \in Calls, NEW k \in Calls, j < k, hooks'[k].step = "preload"
               PROVE  hooks'[j].name \in Wanted /\ hooks'[j].source = "CONSTANT"
    BY <1>3 DEF InsidePreload
  <2>1. k # 1 /\ Outer # 1
    BY <1>3 DEF Calls, Outer
  <2>2. hooks[k].step = "preload"
    BY <2>1, <1>3
  <2>3. hooks[j].name \in Wanted /\ hooks[j].source = "CONSTANT"
    BY <2>2, <1>1 DEF InsidePreload
  <2> QED
    BY <2>1, <2>3, <1>1, <1>3
<1>13. LastingLoads'
  BY <1>1, <1>3 DEF LastingLoads
<1>14. NotThere'
  BY <1>1, <1>3, <1>5 DEF NotThere
<1>15. Flags'
  BY <1>1, <1>3 DEF Flags, Opening
<1> QED
  BY <1>3, <1>6, <1>7, <1>8, <1>9, <1>10, <1>11, <1>12, <1>13, <1>14, <1>15
     DEF PaksInv, UnloadCalls, LoadCalls

-----------------------------------------------------------------------------
(* What must be there.                                                       *)

\* Established names stay when names are tracked as before.
LEMMA PhaseKept ==
    ASSUME Established, \A h \in Handles \cup {Failed} : tracked'[h].name = tracked[h].name
    PROVE  Phase'
BY NamesKept DEF Established, Phase

\* A lasting pak that is loaded is not loaded again.
LEMMA LastingFound ==
    ASSUME PaksInv, Established, NEW name \in Lasting
    PROVE  HandleOf(name) # Failed
<1>1. name \in EntryPaths /\ name \in Files /\ name \notin MayFail \cup Names
  BY LastingFacts, EntryFacts
<1>2. IsTracked(name)
  BY DEF Established
<1>3. tracked[Failed].name # name
  BY <1>1, TrackedType DEF PaksInv, FailedWell
<1> QED
  BY <1>1, <1>2, <1>3, HandleFound DEF PaksInv

\* A pak stays tracked when a call returns that it does not depend on.
LEMMA TrackedBack ==
    ASSUME PaksInv, NEW step, Running("load", step), GoesBack,
           NEW h \in Handles, UNCHANGED tracked[h], TrackedAs(h),
           step # "post" \/ inner.handle # h
    PROVE  TrackedAs(h)'
<1>1. /\ Outer' = Outer - 1 /\ Outer \in Nat \ {0} /\ Calls' = 1..(Outer - 1)
      /\ \A k \in Calls' : k + 1 \in Calls /\ hooks'[k] = hooks[k + 1]
  BY HookReturns DEF PaksInv, Running
<1>2. inner = hooks[1] /\ inner.step = step
  BY InLoad
<1>3. ASSUME NEW k \in 1..(Outer - 1), hooks[k].step = "post", hooks[k].handle = h
      PROVE  \E c \in 1..(Outer' - 1) : hooks'[c].step = "post" /\ hooks'[c].handle = h
  <2>1. k # 1
    BY <1>2, <1>3
  <2>2. k - 1 \in 1..(Outer' - 1) /\ k - 1 \in Calls' /\ (k - 1) + 1 = k
    BY <2>1, <1>1
  <2>3. hooks'[k - 1] = hooks[k]
    BY <2>2, <1>1
  <2> QED
    BY <2>2, <2>3, <1>3
<1> QED
  BY <1>3 DEF TrackedAs

\* The first load of all goes on when a call in it is over.
LEMMA GatheringBack ==
    ASSUME PaksInv, NEW step, Running("load", step), GoesBack,
           Outer # 1, hooks[Outer].step = "preload", NEW S \in SUBSET EntryPaths, Gathering(S),
           \A n : Arriving(n) => IsTracked(n),
           \A h \in Handles \cup {Failed} :
               /\ tracked'[h].name = tracked[h].name
               /\ tracked'[h] = Untracked <=> tracked[h] = Untracked,
           step = "post" => inner.todo = {}
    PROVE  Phase'
<1>1. /\ inner = hooks[1] /\ inner.step = step /\ Outer \in Nat \ {0}
      /\ \A k \in Calls : hooks[k].hook = "load"
  BY InLoad DEF CallsWell, CallOf
<1>2. /\ Outer' = Outer - 1 /\ Calls' = 1..(Outer - 1)
      /\ \A k \in Calls' : k + 1 \in Calls /\ hooks'[k] = hooks[k + 1]
      /\ hooks' # <<>>
  BY HookReturns DEF PaksInv, Running
<1>3. \A n : IsTracked(n)' <=> IsTracked(n)
  BY NamesKept
<1>4. hooks'[Outer'] = hooks[Outer] /\ Outer' \in Calls'
  BY <1>1, <1>2
<1>5. ASSUME NEW k \in Calls, hooks[k].step = "post", hooks[k].todo # {}
      PROVE  \E c \in Calls' : hooks'[c] = hooks[k]
  <2>1. k # 1
    BY <1>1, <1>5
  <2>2. k - 1 \in Calls' /\ (k - 1) + 1 = k
    BY <1>1, <1>2, <2>1 DEF Calls, Outer
  <2> QED
    BY <2>2, <1>2
<1>6. \A i \in Entry : Entries[i].auto => Entries[i].path \in S \/ i \in hooks'[Outer'].todo
  BY <1>4 DEF Gathering
<1>7. \A i \in Entry : Entries[i].after \in S =>
        \/ Entries[i].path \in S
        \/ \E k \in Calls' : hooks'[k].step = "post" /\ i \in hooks'[k].todo
  BY <1>5 DEF Gathering
<1>8. \A p \in S : p \in MayFail \/ IsTracked(p)'
  BY <1>3 DEF Gathering
<1>9. \A h \in Handles : tracked'[h] # Untracked => tracked'[h].name \in S
  BY DEF Gathering
<1>10. \A k \in Calls' : k # Outer' => hooks'[k].name \in S
  BY <1>1, <1>2 DEF Gathering
<1>11. Gathering(S)'
  BY <1>6, <1>7, <1>8, <1>9, <1>10 DEF Gathering
<1>12. Loading'
  <2>1. 1 \in Calls'
    BY <1>1, <1>2
  <2> QED
    BY <2>1, <1>1, <1>2 DEF Loading
<1> QED
  BY <1>4, <1>11, <1>12 DEF Phase

-----------------------------------------------------------------------------
(* Steps of a load.                                                          *)

LEMMA StepRequest ==
    ASSUME PaksInv, NEW name \in Names, Request(name)
    PROVE  PaksInv'
<1> DEFINE f == LoadCall(name, "UNTRACKED")
<1>1. /\ hooks = <<>> /\ hooks' = <<f>>
      /\ UNCHANGED <<isDedicated, tracked, loaded, shouldLoad, shouldUnload, crashed>>
  BY DEF Request
<1>2. f \in LoadFrames /\ f.hook = "load" /\ f.step = "enter" /\ f.name = name /\ f.path = name
      /\ f.source = "UNTRACKED" /\ f.handle = Failed
  BY EntryFacts DEF LoadCall, LoadFrames, Sources
<1>3. f \in HookFrames
  BY <1>2 DEF HookFrames
<1> HIDE DEF f
<1>4. /\ hooks' \in Seq(HookFrames) /\ hooks' # <<>> /\ Len(hooks') = 1 /\ hooks'[1] = f
      /\ Len(hooks) = 0
  BY <1>1, <1>3
<1>5. /\ Outer' = 1 /\ Calls' = {1} /\ Outer = 0 /\ Calls = {} /\ ~Loading /\ ~Unloading
      /\ Loading' /\ ~Unloading'
  BY <1>1, <1>2, <1>4 DEF Outer, Calls, Loading, Unloading
<1>6. PaksTypeOK'
  BY <1>1, <1>4 DEF PaksInv, PaksTypeOK, HookFrames
<1>7. \A n : (IsTracked(n)' <=> IsTracked(n)) /\ (Excused(n)' <=> Excused(n))
  BY <1>1, NamesKept
<1>8. Accounted'
  BY <1>1, <1>2, <1>4, <1>5 DEF PaksInv, Accounted
<1>9. TrackedWell'
  BY <1>1, <1>5 DEF PaksInv, TrackedWell, TrackedAs
<1>10. FailedWell' /\ Unique'
  BY <1>1, <1>7 DEF PaksInv, FailedWell, Unique
<1>11. LoadCalls'
  BY <1>2, <1>4, <1>5 DEF LoadCalls, CallsWell, CallOf, CallAt, OneOpening, Opening, PostsDiffer,
                          InsidePreload, LastingLoads, NotThere
<1>12. Flags'
  BY <1>1, <1>2, <1>4, <1>5 DEF PaksInv, Flags, Opening
<1>13. Phase'
  <2>1. CASE Established
    BY <2>1, <1>1, PhaseKept
  <2>2. CASE Fresh
    BY <2>2, <1>1, <1>2, <1>4, <1>5 DEF Fresh, Phase
  <2> QED
    BY <2>1, <2>2, <1>5 DEF PaksInv, Phase
<1> QED
  BY <1>5, <1>6, <1>8, <1>9, <1>10, <1>11, <1>12, <1>13 DEF PaksInv, UnloadCalls

LEMMA StepEnter ==
    ASSUME PaksInv, Enter
    PROVE  PaksInv'
<1> DEFINE name == IF inner.name \in Names THEN AliasOf[inner.name] ELSE inner.name
<1>1. Running("load", "enter")
  BY DEF Enter
<1>2. /\ hooks # <<>> /\ inner = hooks[1] /\ inner \in LoadFrames /\ inner.step = "enter"
      /\ Outer \in Nat \ {0} /\ 1 \in Calls /\ Outer \in Calls /\ Loading /\ ~Unloading
      /\ CallsWell /\ OneOpening /\ PostsDiffer /\ InsidePreload /\ LastingLoads
      /\ NotThere /\ shouldUnload
  BY <1>1, InLoad
<1>3. CallOf(1) /\ CallAt(1)
  BY <1>2 DEF CallsWell
<1>4. /\ Outer = 1 => name \in Names /\ inner.source = "UNTRACKED"
      /\ Outer # 1 => /\ name = inner.name /\ name \in EntryPaths /\ inner.path = name
                      /\ inner.source \in {"CONSTANT", "MAP"}
      /\ name \in Files /\ inner.handle = Failed
  BY <1>2, <1>3, EntryFacts DEF CallOf, CallAt
<1>5. UNCHANGED <<isDedicated, tracked, loaded, shouldUnload, crashed>>
  BY DEF Enter, Returns
<1>6. shouldLoad <=> \A k \in Calls : k # 1 => ~Opening(k)
  BY <1>2 DEF PaksInv, Flags, Opening
\* The first load is under way when not all that is wanted is there.
<1>7. \/ Established
      \/ Fresh /\ Outer = 1
      \/ /\ Outer # 1 /\ hooks[Outer].step = "preload" /\ Opening(Outer)
         /\ \E S \in SUBSET EntryPaths : Gathering(S)
  BY <1>2 DEF PaksInv, Phase, Fresh, Opening
<1> HIDE DEF name
<1>8. CASE HandleOf(name) # Failed
  <2>1. GoesBack /\ UNCHANGED shouldLoad
    BY <1>8 DEF Enter, Returns, name, GoesBack
  <2>2. /\ Outer' = Outer - 1 /\ Calls' = 1..(Outer - 1) /\ hooks' \in Seq(HookFrames)
        /\ \A k \in Calls' : k + 1 \in Calls /\ hooks'[k] = hooks[k + 1]
    BY <1>2, <2>1, HookReturns DEF PaksInv
  <2>3. PaksTypeOK'
    BY <1>5, <2>1, <2>2 DEF PaksInv, PaksTypeOK, HookFrames
  <2>4. TrackedWell'
    BY <1>1, <1>5, <2>1, TrackedBack DEF PaksInv, TrackedWell
  <2>5. Phase'
    <3>1. CASE Established
      BY <3>1, <1>5, PhaseKept
    <3>2. CASE Fresh
      BY <3>2, <1>4, <1>8, HandleFound, TrackedType DEF PaksInv, Fresh, IsTracked
    <3>3. ASSUME Outer # 1, hooks[Outer].step = "preload", NEW S \in SUBSET EntryPaths,
                 Gathering(S)
          PROVE  Phase'
      <4>1. IsTracked(name)
        BY <1>4, <1>8, HandleFound DEF PaksInv
      <4>2. \A n : Arriving(n) => IsTracked(n)
        BY <4>1, <1>2, <1>4, <3>3 DEF Arriving
      <4> QED
        BY <4>2, <1>1, <1>5, <2>1, <3>3, GatheringBack
    <3> QED
      BY <1>7, <3>1, <3>2, <3>3
  <2> QED
    BY <1>1, <1>5, <1>6, <2>1, <2>3, <2>4, <2>5, LoadReturns
<1>9. CASE HandleOf(name) = Failed
  <2> DEFINE f == [inner EXCEPT !.name = name, !.path = name,
                             !.step = IF shouldLoad THEN "preload" ELSE "engine",
                             !.todo = IF shouldLoad THEN Preloads ELSE {}]
  <2>1. GoesOn(f) /\ shouldLoad' = FALSE
    BY <1>9 DEF Enter, name, GoesOn
  <2>2. /\ f \in LoadFrames /\ f.hook = "load" /\ f.name = name /\ f.path = name
        /\ f.step = (IF shouldLoad THEN "preload" ELSE "engine")
        /\ f.todo = (IF shouldLoad THEN Preloads ELSE {})
        /\ f.source = inner.source /\ f.handle = Failed
    BY <1>2, <1>4 DEF LoadFrames, Preloads
  <2> HIDE DEF f
  <2>3. /\ hooks' \in Seq(HookFrames) /\ Outer' = Outer /\ Calls' = Calls /\ hooks'[1] = f
        /\ \A k \in Calls : k # 1 => hooks'[k] = hooks[k]
        /\ Loading' /\ ~Unloading'
    <3>1. f \in HookFrames
      BY <2>2 DEF HookFrames
    <3> QED
      BY <1>2, <2>1, <2>2, <3>1, HookGoesOn DEF PaksInv
  <2>4. PaksTypeOK'
    BY <1>5, <2>1, <2>3 DEF PaksInv, PaksTypeOK, HookFrames
  <2>5. Excused(name) \/ ~IsTracked(name)
    BY <1>4, <1>9, HandleFound DEF PaksInv, Excused
  \* A nested hook that loads others comes after the first load of all.
  <2>6. Outer # 1 /\ shouldLoad => Established
    BY <1>2, <1>6, <1>7
  <2>7. Established => name \notin Lasting
    BY <1>9, LastingFound
  <2>8. inner.source = "MAP" => Established
    <3>1. ASSUME Outer # 1, hooks[Outer].step = "preload" PROVE inner.source = "CONSTANT"
      <4>1. 1 < Outer
        BY <1>2, <3>1
      <4> QED
        BY <4>1, <3>1, <1>2 DEF InsidePreload
    <3> QED
      BY <3>1, <1>4, <1>7
  <2>9. Phase'
    <3>1. CASE Established
      BY <3>1, <1>5, PhaseKept
    <3>2. CASE Fresh /\ Outer = 1
      <4>1. hooks'[Outer'] = f /\ f.step = "preload" /\ f.todo = Preloads
        <5>1. \A k \in Calls : k = 1
          BY <3>2 DEF Calls, Outer
        <5>2. shouldLoad
          BY <5>1, <1>6
        <5> QED
          BY <5>2, <2>2, <2>3, <3>2
      <4>2. Gathering({})'
        <5>1. \A i \in Entry : Entries[i].auto => i \in hooks'[Outer'].todo
          BY <4>1 DEF Preloads
        <5>2. \A h \in Handles : tracked'[h] = Untracked
          BY <3>2, <1>5 DEF Fresh
        <5>3. \A k \in Calls' : k = Outer'
          BY <3>2, <2>3 DEF Calls, Outer
        <5> QED
          BY <5>1, <5>2, <5>3 DEF Gathering
      <4> QED
        BY <4>1, <4>2, <2>3 DEF Phase
    <3>3. ASSUME Outer # 1, hooks[Outer].step = "preload", Opening(Outer),
                 NEW S \in SUBSET EntryPaths, Gathering(S)
          PROVE  Phase'
      <4>1. f.step = "engine"
        BY <3>3, <1>2, <1>6, <2>2
      <4>2. \A n : IsTracked(n)' <=> IsTracked(n)
        BY <1>5, NamesKept
      <4>3. \A n : Arriving(n)' <=> Arriving(n)
        BY <4>1, <3>3, <2>2, <2>3, <1>2, <1>4 DEF Arriving
      <4>4. hooks'[Outer'] = hooks[Outer]
        BY <2>3, <3>3, <1>2
      <4>5. Gathering(S)'
        <5>1. \A i \in Entry : Entries[i].auto => Entries[i].path \in S \/ i \in hooks'[Outer'].todo
          BY <3>3, <4>4 DEF Gathering
        <5>2. \A i \in Entry : Entries[i].after \in S =>
                \/ Entries[i].path \in S
                \/ \E k \in Calls' : hooks'[k].step = "post" /\ i \in hooks'[k].todo
                \/ Arriving(Entries[i].after)' /\ ~IsTracked(Entries[i].after)'
          <6>1. \A k \in Calls : hooks[k].step = "post" => hooks'[k] = hooks[k]
            BY <1>2, <2>3
          <6> QED
            BY <3>3, <4>2, <4>3, <6>1, <2>3 DEF Gathering
        <5>3. \A p \in S : p \in MayFail \/ IsTracked(p)' \/ Arriving(p)'
          BY <3>3, <4>2, <4>3 DEF Gathering
        <5>4. \A h \in Handles : tracked'[h] # Untracked => tracked'[h].name \in S
          BY <3>3, <1>5 DEF Gathering
        <5>5. \A k \in Calls' : k # Outer' => hooks'[k].name \in S
          BY <3>3, <1>2, <1>4, <2>2, <2>3 DEF Gathering
        <5> QED
          BY <5>1, <5>2, <5>3, <5>4, <5>5 DEF Gathering
      <4> QED
        BY <4>4, <4>5, <2>3, <3>3 DEF Phase
    <3> QED
      BY <1>7, <3>1, <3>2, <3>3
  <2>10. f.step \in {"preload", "engine"} /\ (f.step = "preload" <=> shouldLoad)
         /\ (f.step = "preload" => f.todo = Preloads)
    BY <2>2
  <2>11. f.source = "MAP" => f.name \notin Lasting
    BY <2>2, <2>7, <2>8
  <2>12. Outer # 1 /\ f.step = "preload" => f.name \notin Lasting
    BY <2>2, <2>6, <2>7, <2>10
  <2>13. shouldLoad' <=> f.step = "engine" /\ \A k \in Calls : k # 1 => ~Opening(k)
    BY <1>6, <2>1, <2>10
  <2> QED
    BY <1>1, <1>4, <1>5, <1>6, <2>1, <2>2, <2>4, <2>5, <2>9, <2>10, <2>11, <2>12, <2>13, LoadGoesOn
<1> QED
  BY <1>8, <1>9

LEMMA StepLoadNext ==
    ASSUME PaksInv, LoadNext
    PROVE  PaksInv'
<1>1. PICK source \in {"CONSTANT", "MAP"} :
        /\ \/ source = "CONSTANT" /\ (Running("load", "preload") \/ Running("load", "post"))
           \/ source = "MAP" /\ Running("load", "map")
        /\ inner.todo # {}
        /\ CallsOn(LoadCall(Entries[First(inner.todo)].path, source),
                   [inner EXCEPT !.todo = @ \ {First(inner.todo)}])
  BY DEF LoadNext, CallsOn
<1>2. /\ hooks # <<>> /\ inner = hooks[1] /\ inner \in LoadFrames
      /\ inner.step \in {"preload", "map", "post"}
      /\ source = "MAP" <=> inner.step = "map"
      /\ Outer \in Nat \ {0} /\ 1 \in Calls /\ Outer \in Calls /\ Loading /\ ~Unloading
      /\ CallsWell /\ OneOpening /\ PostsDiffer /\ InsidePreload /\ LastingLoads
      /\ NotThere /\ shouldUnload /\ \A k \in Calls : hooks[k] \in LoadFrames
  BY <1>1, InLoad
<1>3. UNCHANGED <<isDedicated, tracked, loaded, shouldLoad, shouldUnload, crashed>>
  BY DEF LoadNext
<1>in. First(inner.todo) \in inner.todo /\ First(inner.todo) \in Entry
  <2>1. inner.todo \in SUBSET Entry
    BY <1>2 DEF LoadFrames
  <2> QED
    BY <1>1, <2>1, FirstIn
<1>first. PICK i \in Entry : i = First(inner.todo)
  BY <1>in
<1>path. PICK p \in EntryPaths : p = Entries[i].path
  BY EntryFacts
<1>4. i \in inner.todo /\ p \in Files
  BY <1>in, <1>first, EntryFacts
<1> DEFINE f == LoadCall(p, source)
           g == [inner EXCEPT !.todo = @ \ {i}]
<1>5. CallsOn(f, g)
  BY <1>1, <1>first, <1>path
<1>6. /\ f \in LoadFrames /\ f.hook = "load" /\ f.name = p /\ f.path = p /\ f.source = source
      /\ f.step = "enter" /\ f.handle = Failed
  BY <1>4 DEF LoadCall, LoadFrames, Sources
<1>7. /\ g \in LoadFrames /\ g.hook = "load" /\ g.name = inner.name /\ g.path = inner.path
      /\ g.source = inner.source /\ g.step = inner.step /\ g.todo = inner.todo \ {i}
      /\ g.handle = inner.handle
  BY <1>2 DEF LoadFrames
<1> HIDE DEF f, g
<1>8. /\ hooks' \in Seq(HookFrames) /\ hooks' # <<>> /\ Outer' = Outer + 1
      /\ Calls' = 1..(Outer + 1) /\ hooks'[1] = f /\ hooks'[2] = g
      /\ \A k \in Calls : k # 1 => hooks'[k + 1] = hooks[k]
      /\ Loading' /\ ~Unloading'
  <2>1. f \in HookFrames /\ g \in HookFrames
    BY <1>6, <1>7 DEF HookFrames
  <2> QED
    BY <2>1, <1>2, <1>5, <1>6, HookCalls DEF PaksInv
\* The calls that were under way are one further from the innermost.
<1>9. ASSUME NEW k \in Calls
      PROVE  /\ k + 1 \in Calls' /\ k + 1 # 1
             /\ hooks'[k + 1].hook = hooks[k].hook /\ hooks'[k + 1].name = hooks[k].name
             /\ hooks'[k + 1].path = hooks[k].path /\ hooks'[k + 1].source = hooks[k].source
             /\ hooks'[k + 1].step = hooks[k].step /\ hooks'[k + 1].handle = hooks[k].handle
             /\ hooks'[k + 1].todo = (IF k = 1 THEN hooks[k].todo \ {i} ELSE hooks[k].todo)
  <2>1. k + 1 \in Calls' /\ k + 1 # 1
    BY <1>2, <1>8 DEF Calls, Outer
  <2>2. CASE k = 1
    BY <2>1, <2>2, <1>2, <1>7, <1>8 DEF CallsWell, CallOf
  <2>3. CASE k # 1
    BY <2>1, <2>3, <1>8
  <2> QED
    BY <2>2, <2>3
<1>10. ASSUME NEW c \in Calls', c # 1
       PROVE  c - 1 \in Calls /\ (c - 1) + 1 = c /\ (c = Outer' <=> c - 1 = Outer)
  BY <1>2, <1>8, <1>10 DEF Calls, Outer
<1>11. PaksTypeOK'
  BY <1>3, <1>8 DEF PaksInv, PaksTypeOK, HookFrames
<1>12. \A n : (IsTracked(n)' <=> IsTracked(n)) /\ (Excused(n)' <=> Excused(n))
  BY <1>3, NamesKept
<1>13. \A k \in Calls : hooks[k].hook = "load"
  BY <1>2 DEF CallsWell, CallOf
<1>14. \A c \in Calls' : hooks'[c].hook = "load"
  <2> SUFFICES ASSUME NEW c \in Calls', c # 1 PROVE hooks'[c].hook = "load"
    BY <1>6, <1>8
  <2>1. c - 1 \in Calls /\ (c - 1) + 1 = c
    BY <1>10
  <2>2. hooks'[(c - 1) + 1].hook = hooks[c - 1].hook
    BY <2>1, <1>9
  <2> QED
    BY <2>1, <2>2, <1>13
<1>15. Accounted'
  BY <1>3, <1>13, <1>14 DEF PaksInv, Accounted
<1>16. TrackedWell'
  <2> SUFFICES ASSUME NEW h \in Handles, tracked[h] # Untracked PROVE TrackedAs(h)'
    BY <1>3 DEF TrackedWell
  <2>1. TrackedAs(h)
    BY DEF PaksInv, TrackedWell
  <2>2. ASSUME NEW k \in 1..(Outer - 1), hooks[k].step = "post", hooks[k].handle = h
        PROVE  k + 1 \in 1..(Outer' - 1) /\ hooks'[k + 1].step = "post" /\ hooks'[k + 1].handle = h
    <3>1. k \in Calls /\ k + 1 \in 1..(Outer' - 1)
      BY <1>2, <1>8 DEF Calls, Outer
    <3> QED
      BY <3>1, <2>2, <1>9
  <2>3. UNCHANGED tracked[h]
    BY <1>3
  <2> QED
    BY <2>1, <2>2, <2>3 DEF TrackedAs
<1>17. FailedWell' /\ Unique'
  BY <1>3, <1>12 DEF PaksInv, FailedWell, Unique
<1>18. CallsWell'
  <2>1. CallOf(1)' /\ CallAt(1)'
    <3>1. 1 # Outer'
      BY <1>2, <1>8
    <3> QED
      BY <3>1, <1>4, <1>6, <1>8 DEF CallOf, CallAt
  <2>2. ASSUME NEW k \in Calls PROVE CallOf(k + 1)' /\ CallAt(k + 1)'
    <3>1. CallOf(k) /\ CallAt(k)
      BY <1>2 DEF CallsWell
    <3>2. k + 1 = Outer' <=> k = Outer
      BY <1>2, <1>8 DEF Calls, Outer
    <3>3. hooks[k].step \in {"preload", "map", "post"}
      BY <3>1, <1>2 DEF CallOf
    <3>4. ~(k # Outer /\ hooks[k].step = "map")
      BY <3>1, <1>1, <1>2 DEF CallOf
    <3>5. CallOf(k + 1)'
      BY <3>1, <3>2, <3>3, <3>4, <1>9 DEF CallOf
    <3>6. CallAt(k + 1)'
      BY <3>1, <1>3, <1>9 DEF CallAt
    <3> QED
      BY <3>5, <3>6
  <2>3. ASSUME NEW c \in Calls', c # 1 PROVE CallOf(c)' /\ CallAt(c)'
    <3>1. c - 1 \in Calls /\ (c - 1) + 1 = c
      BY <1>10, <2>3
    <3>2. CallOf((c - 1) + 1)' /\ CallAt((c - 1) + 1)'
      BY <3>1, <2>2
    <3> QED
      BY <3>1, <3>2
  <2> QED
    BY <2>1, <2>3 DEF CallsWell
\* What holds of each two calls that were under way holds of them still.
<1>19. ASSUME NEW c \in Calls', c # 1
       PROVE  \E k \in Calls :
                /\ c = k + 1 /\ (c = Outer' <=> k = Outer)
                /\ hooks'[c].name = hooks[k].name /\ hooks'[c].source = hooks[k].source
                /\ hooks'[c].step = hooks[k].step /\ hooks'[c].handle = hooks[k].handle
  <2>1. c - 1 \in Calls /\ (c - 1) + 1 = c /\ (c = Outer' <=> c - 1 = Outer)
    BY <1>10, <1>19
  <2>2. /\ hooks'[(c - 1) + 1].name = hooks[c - 1].name
        /\ hooks'[(c - 1) + 1].source = hooks[c - 1].source
        /\ hooks'[(c - 1) + 1].step = hooks[c - 1].step
        /\ hooks'[(c - 1) + 1].handle = hooks[c - 1].handle
    BY <2>1, <1>9
  <2> QED
    BY <2>1, <2>2
<1>20. OneOpening' /\ PostsDiffer'
  <2>1. ASSUME NEW b \in Calls', NEW c \in Calls', b # 1, c # 1,
               \/ Opening(b)' /\ Opening(c)'
               \/ /\ hooks'[b].step = "post" /\ hooks'[c].step = "post"
                  /\ hooks'[b].handle = hooks'[c].handle /\ hooks'[b].handle # Failed
        PROVE  b = c
    <3>1. PICK j \in Calls : /\ b = j + 1 /\ hooks'[b].step = hooks[j].step
                             /\ hooks'[b].handle = hooks[j].handle
      BY <2>1, <1>19
    <3>2. PICK k \in Calls : /\ c = k + 1 /\ hooks'[c].step = hooks[k].step
                             /\ hooks'[c].handle = hooks[k].handle
      BY <2>1, <1>19
    <3>3. j = k
      BY <2>1, <3>1, <3>2, <1>2 DEF OneOpening, PostsDiffer, Opening
    <3> QED
      BY <3>1, <3>2, <3>3
  <2>2. hooks'[1].step = "enter"
    BY <1>6, <1>8
  <2> QED
    BY <2>1, <2>2 DEF OneOpening, Opening, PostsDiffer
<1>21. InsidePreload'
  <2> SUFFICES ASSUME NEW b \in Calls', NEW c \in Calls', b < c, hooks'[c].step = "preload"
               PROVE  hooks'[b].name \in Wanted /\ hooks'[b].source = "CONSTANT"
    BY DEF InsidePreload
  <2>1. c # 1
    BY <1>8
  <2>2. PICK k \in Calls : c = k + 1
    BY <2>1, <1>19
  <2>3. hooks[k].step = "preload"
    BY <2>2, <1>9
  <2>4. CASE b # 1
    <3>1. PICK j \in Calls : b = j + 1
      BY <2>4, <1>19
    <3>2. j < k
      BY <2>2, <3>1 DEF Calls
    <3> QED
      BY <3>1, <3>2, <2>3, <1>2, <1>9 DEF InsidePreload
  <2>5. CASE b = 1 /\ k = 1
    <3>1. i \in Preloads
      BY <2>3, <2>5, <1>2, <1>4 DEF CallsWell, CallAt
    <3>2. p \in Wanted
      BY <3>1, <1>path, WantedFollows DEF Preloads
    <3>3. source = "CONSTANT"
      BY <2>3, <2>5, <1>2
    <3> QED
      BY <2>5, <3>2, <3>3, <1>6, <1>8
  <2>6. CASE b = 1 /\ k # 1
    <3>1. inner.step = "post" /\ source = "CONSTANT"
      BY <2>3, <2>6, <1>2 DEF OneOpening, Opening
    <3>2. inner.name \in Wanted /\ Outer # 1
      BY <2>3, <2>6, <1>2 DEF InsidePreload, Calls, Outer
    <3>3. Entries[i].after = inner.path /\ inner.path = inner.name
      BY <3>1, <3>2, <1>2, <1>4 DEF CallsWell, CallOf, CallAt
    <3>4. p \in Wanted
      BY <3>2, <3>3, <1>path, WantedFollows
    <3> QED
      BY <2>6, <3>1, <3>4, <1>6, <1>8
  <2> QED
    BY <2>4, <2>5, <2>6
<1>22. LastingLoads'
  <2> SUFFICES ASSUME NEW c \in Calls', c # 1
               PROVE  /\ hooks'[c].step # "enter" /\ hooks'[c].source = "MAP"
                           => hooks'[c].name \notin Lasting
                      /\ c # Outer' /\ hooks'[c].step = "preload"
                           => hooks'[c].name \notin Lasting
    BY <1>6, <1>8 DEF LastingLoads
  <2>1. PICK k \in Calls :
          /\ c = Outer' <=> k = Outer
          /\ hooks'[c].name = hooks[k].name /\ hooks'[c].source = hooks[k].source
          /\ hooks'[c].step = hooks[k].step
    BY <1>19
  <2> QED
    BY <2>1, <1>2 DEF LastingLoads
<1>23. NotThere'
  BY <1>2, <1>6, <1>8, <1>12, <1>19 DEF NotThere
<1>24. Flags'
  <2>1. ASSUME NEW c \in Calls', Opening(c)' PROVE \E k \in Calls : Opening(k)
    BY <2>1, <1>6, <1>8, <1>19 DEF Opening
  <2>2. ASSUME NEW k \in Calls, Opening(k) PROVE k + 1 \in Calls' /\ Opening(k + 1)'
    BY <2>2, <1>9 DEF Opening
  <2> QED
    BY <2>1, <2>2, <1>2, <1>3, <1>8 DEF PaksInv, Flags
<1>25. Phase'
  <2>1. CASE Established
    BY <2>1, <1>3, PhaseKept
  <2>2. CASE Fresh
    BY <2>2, <1>2 DEF Fresh
  <2>3. ASSUME hooks[Outer].step = "preload", NEW S \in SUBSET EntryPaths, Gathering(S)
        PROVE  Phase'
    <3> DEFINE T == S \cup {p}
    <3>0. p \in T /\ S \subseteq T /\ (\A n \in T : n \in S \/ n = p) /\ T \subseteq EntryPaths
      BY <1>4
    <3> HIDE DEF T
    <3>1. \A n : ~Arriving(n)
      <4>1. hooks[1].step \notin {"enter", "engine"}
        BY <1>2
      <4> QED
        BY <4>1 DEF Arriving
    <3>2. Arriving(p)'
      <4>1. Outer' # 1
        BY <1>2, <1>8
      <4> QED
        BY <4>1, <1>6, <1>8 DEF Arriving
    <3>3. /\ Outer' = Outer + 1 /\ hooks'[Outer'].step = "preload"
          /\ hooks'[Outer'].todo = (IF Outer = 1 THEN hooks[Outer].todo \ {i} ELSE hooks[Outer].todo)
      BY <2>3, <1>2, <1>8, <1>9
    <3>4. p = Entries[i].path
      BY <1>path
    <3>5. \A q \in Entry : Entries[q].auto => Entries[q].path \in T \/ q \in hooks'[Outer'].todo
      BY <2>3, <3>0, <3>3, <3>4 DEF Gathering
    <3>6. ASSUME NEW q \in Entry, Entries[q].after \in T
          PROVE  \/ Entries[q].path \in T
                 \/ \E c \in Calls' : hooks'[c].step = "post" /\ q \in hooks'[c].todo
                 \/ Arriving(Entries[q].after)' /\ ~IsTracked(Entries[q].after)'
      <4>1. CASE Entries[q].after \in S
        <5>1. \/ Entries[q].path \in S
              \/ \E k \in Calls : hooks[k].step = "post" /\ q \in hooks[k].todo
          BY <2>3, <3>1, <4>1 DEF Gathering
        <5>2. ASSUME NEW k \in Calls, hooks[k].step = "post", q \in hooks[k].todo, q # i
              PROVE  k + 1 \in Calls' /\ hooks'[k + 1].step = "post" /\ q \in hooks'[k + 1].todo
          BY <5>2, <1>9
        <5> QED
          BY <5>1, <5>2, <3>0, <3>4
      <4>2. CASE Entries[q].after = p /\ p \notin S
        <5>1. ~IsTracked(p)
          <6>1. \A h \in Handles : tracked[h] # Untracked => tracked[h].name \in S
            BY <2>3 DEF Gathering
          <6> QED
            BY <4>2, <6>1, <1>4, TrackedType DEF PaksInv, IsTracked
        <5>2. ~IsTracked(p)' /\ Arriving(p)'
          BY <5>1, <3>2, <1>12
        <5> QED
          BY <4>2, <5>2
      <4> QED
        BY <3>0, <3>6, <4>1, <4>2
    <3>7. \A n \in T : n \in MayFail \/ IsTracked(n)' \/ Arriving(n)'
      BY <2>3, <3>0, <3>1, <3>2, <1>12 DEF Gathering
    <3>8. \A h \in Handles : tracked'[h] # Untracked => tracked'[h].name \in T
      BY <2>3, <3>0, <1>3 DEF Gathering
    <3>9. ASSUME NEW c \in Calls', c # Outer' PROVE hooks'[c].name \in T
      <4>1. CASE c = 1
        BY <4>1, <3>0, <1>6, <1>8
      <4>2. CASE c # 1
        <5>1. PICK k \in Calls : c = k + 1 /\ k # Outer
          BY <3>9, <4>2, <1>19
        <5> QED
          BY <5>1, <3>0, <1>9, <2>3 DEF Gathering
      <4> QED
        BY <4>1, <4>2
    <3>10. Gathering(T)'
      BY <3>5, <3>6, <3>7, <3>8, <3>9 DEF Gathering
    <3> QED
      BY <3>0, <3>3, <3>10, <1>8 DEF Phase
  <2> QED
    BY <2>1, <2>2, <2>3 DEF PaksInv, Phase
<1> QED
  BY <1>8, <1>11, <1>15, <1>16, <1>17, <1>18, <1>20, <1>21, <1>22, <1>23, <1>24, <1>25
     DEF PaksInv, UnloadCalls, LoadCalls

LEMMA StepMapPaks ==
    ASSUME PaksInv, MapPaks
    PROVE  PaksInv'
<1> DEFINE same == {i \in Entry : ~Entries[i].auto /\ Entries[i].name = inner.path}
           f == IF inner.path \notin Original /\ same # {}
                THEN [inner EXCEPT !.path = Entries[First(same)].path, !.step = "map"]
                ELSE [inner EXCEPT !.todo = same, !.step = "map"]
<1>1. /\ Running("load", "preload") /\ inner.todo = {} /\ GoesOn(f)
      /\ UNCHANGED <<isDedicated, tracked, loaded, shouldLoad, shouldUnload, crashed>>
  BY DEF MapPaks, GoesOn
<1>2. /\ hooks # <<>> /\ inner = hooks[1] /\ inner \in LoadFrames /\ inner.step = "preload"
      /\ Outer \in Nat \ {0} /\ 1 \in Calls /\ Outer \in Calls /\ Loading /\ ~Unloading
      /\ CallsWell /\ OneOpening /\ LastingLoads /\ NotThere
  BY <1>1, InLoad
<1>3. CallOf(1) /\ CallAt(1)
  BY <1>2 DEF CallsWell
<1>4. same # {} => First(same) \in Entry /\ Entries[First(same)].path \in Files
  BY FirstIn, EntryFacts
<1>5. Outer # 1 => same = {}
  <2>1. Outer # 1 => inner.path \in EntryPaths
    BY <1>2, <1>3 DEF CallOf
  <2> QED
    BY <2>1, EntryNames, EntryFacts
<1>6. /\ f \in LoadFrames /\ f.hook = "load" /\ f.name = inner.name /\ f.source = inner.source
      /\ f.step = "map" /\ f.handle = Failed
      /\ Outer # 1 => f.path = inner.path /\ f.todo = {}
  <2>1. inner.handle = Failed /\ same \in SUBSET Entry
    BY <1>2, <1>3 DEF CallAt
  <2> HIDE DEF same
  <2> QED
    BY <2>1, <1>1, <1>2, <1>4, <1>5 DEF LoadFrames
<1> HIDE DEF same, f
<1>7. /\ hooks' \in Seq(HookFrames)
  <2>1. f \in HookFrames
    BY <1>6 DEF HookFrames
  <2> QED
    BY <1>1, <1>2, <2>1, HookGoesOn DEF PaksInv
<1>8. PaksTypeOK'
  BY <1>1, <1>7 DEF PaksInv, PaksTypeOK, HookFrames
<1>9. Opening(1) /\ \A k \in Calls : k # 1 => ~Opening(k)
  BY <1>2 DEF OneOpening, Opening
<1>10. ~shouldLoad
  BY <1>2, <1>9 DEF PaksInv, Flags
\* What the first load of all has come to contains what is wanted.
<1>11. Established
  <2>1. CASE Fresh
    BY <2>1, <1>2 DEF Fresh
  <2>2. ASSUME hooks[Outer].step = "preload", NEW S \in SUBSET EntryPaths, Gathering(S)
        PROVE  Established
    <3>1. Outer = 1
      BY <2>2, <1>2, <1>9 DEF Opening
    <3>2. \A n : ~Arriving(n)
      BY <3>1 DEF Arriving
    <3>3. Follows(S)
      <4>1. \A i \in Entry : Entries[i].auto => Entries[i].path \in S
        BY <2>2, <3>1, <1>1, <1>2 DEF Gathering
      <4>2. ~\E k \in Calls : hooks[k].step = "post"
        BY <3>1, <1>2 DEF Calls, Outer
      <4>3. \A i \in Entry : Entries[i].after \in S => Entries[i].path \in S
        BY <2>2, <3>2, <4>2 DEF Gathering
      <4> QED
        BY <4>1, <4>3 DEF Follows
    <3>4. Wanted \subseteq S
      BY <3>3 DEF Wanted
    <3>5. \A p \in S : p \in MayFail \/ IsTracked(p)
      BY <2>2, <3>2 DEF Gathering
    <3> QED
      BY <3>4, <3>5 DEF Established, Lasting
  <2> QED
    BY <2>1, <2>2 DEF PaksInv, Phase
<1>12. Phase'
  BY <1>1, <1>11, PhaseKept
<1>13. Excused(f.name) \/ ~IsTracked(f.name)
  BY <1>2, <1>6 DEF NotThere
<1>14. f.source = "MAP" => f.name \notin Lasting
  BY <1>2, <1>6 DEF LastingLoads
<1>15. Outer = 1 => f.name \in Names
  BY <1>3, <1>2, <1>6 DEF CallOf
<1>16. Outer # 1 => f.path = inner.name
  BY <1>3, <1>2, <1>6 DEF CallOf
<1>17. shouldLoad' <=> f.step = "engine" /\ \A k \in Calls : k # 1 => ~Opening(k)
  BY <1>1, <1>6, <1>10
<1> QED
  BY <1>1, <1>6, <1>8, <1>9, <1>12, <1>13, <1>14, <1>15, <1>16, <1>17, LoadGoesOn

LEMMA StepMapPaksEnd ==
    ASSUME PaksInv, MapPaksEnd
    PROVE  PaksInv'
<1>1. /\ Running("load", "map") /\ inner.todo = {} /\ shouldLoad' = TRUE
      /\ UNCHANGED <<isDedicated, tracked, loaded, shouldUnload, crashed>>
  BY DEF MapPaksEnd, Returns
<1>2. /\ hooks # <<>> /\ inner = hooks[1] /\ inner \in LoadFrames /\ inner.step = "map"
      /\ Outer \in Nat \ {0} /\ 1 \in Calls /\ Outer \in Calls /\ Loading /\ ~Unloading
      /\ CallsWell /\ OneOpening /\ LastingLoads /\ NotThere
  BY <1>1, InLoad
<1>3. CallOf(1) /\ CallAt(1)
  BY <1>2 DEF CallsWell
<1>4. \A k \in Calls : k # 1 => ~Opening(k)
  BY <1>2 DEF OneOpening, Opening
<1>5. Established
  <2>1. ~Fresh
    BY <1>2 DEF Fresh
  <2>2. hooks[Outer].step # "preload"
    BY <1>2, <1>4 DEF Opening
  <2> QED
    BY <2>1, <2>2 DEF PaksInv, Phase
<1>6. Phase'
  BY <1>1, <1>5, PhaseKept
<1>7. CASE isDedicated /\ inner.name \notin OnDedicated
  <2>1. GoesBack
    BY <1>7 DEF MapPaksEnd, Returns, GoesBack
  <2>2. hooks' \in Seq(HookFrames)
    BY <1>2, <2>1, HookReturns DEF PaksInv
  <2>3. PaksTypeOK'
    BY <1>1, <2>2 DEF PaksInv, PaksTypeOK, HookFrames
  <2>4. TrackedWell'
    BY <1>1, <2>1, TrackedBack DEF PaksInv, TrackedWell
  <2> QED
    BY <1>1, <1>4, <1>6, <2>1, <2>3, <2>4, LoadReturns
<1>8. CASE ~(isDedicated /\ inner.name \notin OnDedicated)
  <2> DEFINE f == [inner EXCEPT !.step = "engine"]
  <2>1. GoesOn(f)
    BY <1>8 DEF MapPaksEnd, GoesOn
  <2>2. /\ f \in LoadFrames /\ f.hook = "load" /\ f.name = inner.name /\ f.source = inner.source
        /\ f.step = "engine" /\ f.handle = Failed /\ f.path = inner.path
    BY <1>2, <1>3 DEF LoadFrames, CallAt
  <2> HIDE DEF f
  <2>3. hooks' \in Seq(HookFrames)
    <3>1. f \in HookFrames
      BY <2>2 DEF HookFrames
    <3> QED
      BY <1>2, <2>1, <3>1, HookGoesOn DEF PaksInv
  <2>4. PaksTypeOK'
    BY <1>1, <2>3 DEF PaksInv, PaksTypeOK, HookFrames
  <2>5. Excused(f.name) \/ ~IsTracked(f.name)
    BY <1>2, <2>2 DEF NotThere
  <2>6. f.source = "MAP" => f.name \notin Lasting
    BY <1>2, <2>2 DEF LastingLoads
  <2>7. Outer = 1 => f.name \in Names
    BY <1>2, <1>3, <2>2 DEF CallOf
  <2>8. Outer # 1 => f.path = inner.name
    BY <1>2, <1>3, <2>2 DEF CallOf
  <2> QED
    BY <1>1, <1>4, <1>6, <2>1, <2>2, <2>4, <2>5, <2>6, <2>7, <2>8, LoadGoesOn
<1> QED
  BY <1>7, <1>8

LEMMA StepLoadEnds ==
    ASSUME PaksInv, LoadEnds
    PROVE  PaksInv'
<1>1. /\ Running("load", "post") /\ inner.todo = {} /\ GoesBack
      /\ UNCHANGED <<isDedicated, loaded, shouldLoad, shouldUnload, crashed>>
      /\ tracked' = IF inner.handle # Failed
                    THEN [tracked EXCEPT ![inner.handle].source = inner.source] ELSE tracked
  BY DEF LoadEnds, Returns, GoesBack
<1>2. /\ hooks # <<>> /\ inner = hooks[1] /\ inner \in LoadFrames /\ inner.step = "post"
      /\ Outer \in Nat \ {0} /\ 1 \in Calls /\ Outer \in Calls /\ Loading /\ ~Unloading
      /\ CallsWell /\ LastingLoads
  BY <1>1, InLoad
<1>3. CallOf(1) /\ CallAt(1)
  BY <1>2 DEF CallsWell
<1>4. /\ inner.name \in Files /\ inner.handle \in Handles \cup {Failed} /\ inner.source \in Sources
      /\ inner.handle # Failed => tracked[inner.handle].name = inner.name
                                  /\ tracked[inner.handle] \in [name : Files, source : Sources]
  <2>1. inner.name \in Files /\ inner.handle \in Handles \cup {Failed} /\ inner.source \in Sources
    BY <1>2 DEF LoadFrames
  <2>2. inner.handle # Failed => tracked[inner.handle].name = inner.name
    BY <1>2, <1>3 DEF CallAt
  <2> QED
    BY <2>1, <2>2, TrackedType DEF PaksInv
<1> DEFINE g == [name |-> inner.name, source |-> inner.source]
<1>5. inner.handle # Failed => tracked' = [tracked EXCEPT ![inner.handle] = g]
  <2>1. inner.handle # Failed => [tracked[inner.handle] EXCEPT !.source = inner.source] = g
    BY <1>4
  <2> QED
    BY <1>1, <2>1
<1>6. g \in [name : Files, source : Sources] /\ g # Untracked /\ g.name = inner.name
      /\ g.source = inner.source
  BY <1>4, EntryFacts DEF Untracked
<1> HIDE DEF g
<1>7. /\ tracked' \in [Handles \cup {Failed} -> [name : Files, source : Sources] \cup {Untracked}]
      /\ \A h \in Handles \cup {Failed} :
           /\ h # inner.handle \/ h = Failed => tracked'[h] = tracked[h]
           /\ h = inner.handle /\ h # Failed => tracked'[h] = g
  <2>1. tracked \in [Handles \cup {Failed} -> [name : Files, source : Sources] \cup {Untracked}]
    BY DEF PaksInv, PaksTypeOK
  <2> QED
    BY <2>1, <1>1, <1>4, <1>5, <1>6
<1>8. hooks' \in Seq(HookFrames)
  BY <1>1, <1>2, HookReturns DEF PaksInv
<1>9. PaksTypeOK'
  BY <1>1, <1>7, <1>8 DEF PaksInv, PaksTypeOK, HookFrames
<1>10. \A h \in Handles \cup {Failed} :
         /\ tracked'[h].name = tracked[h].name
         /\ tracked'[h] = Untracked <=> tracked[h] = Untracked
  BY <1>4, <1>6, <1>7, TrackedType DEF PaksInv
<1>11. TrackedWell'
  <2> SUFFICES ASSUME NEW h \in Handles, tracked[h] # Untracked PROVE TrackedAs(h)'
    BY <1>10 DEF TrackedWell
  <2>1. TrackedAs(h) /\ h # Failed
    BY EntryFacts DEF PaksInv, TrackedWell
  <2>2. CASE h # inner.handle
    BY <2>1, <2>2, <1>1, <1>2, <1>7, TrackedBack
  <2>3. CASE h = inner.handle
    <3>1. tracked'[h].name = inner.name /\ tracked'[h].source = inner.source
      BY <2>1, <2>3, <1>6, <1>7
    <3>2. \/ inner.name \in Names /\ inner.source = "UNTRACKED"
          \/ inner.name \in EntryPaths /\ inner.source \in {"CONSTANT", "MAP"}
      BY <1>2, <1>3 DEF CallOf
    <3>3. inner.source = "MAP" => inner.name \notin Lasting
      BY <1>2 DEF LastingLoads
    <3> QED
      BY <3>1, <3>2, <3>3 DEF TrackedAs
  <2> QED
    BY <2>2, <2>3
<1>12. Phase'
  <2>1. CASE Established
    BY <2>1, <1>10, PhaseKept
  <2>2. ~Fresh
    BY <1>2 DEF Fresh
  <2>3. ASSUME hooks[Outer].step = "preload", NEW S \in SUBSET EntryPaths, Gathering(S)
        PROVE  Phase'
    <3>1. Outer # 1
      BY <2>3, <1>2
    <3>2. \A n : ~Arriving(n)
      <4>1. hooks[1].step \notin {"enter", "engine"}
        BY <1>2
      <4> QED
        BY <4>1 DEF Arriving
    <3> QED
      BY <2>3, <3>1, <3>2, <1>1, <1>10, GatheringBack
  <2> QED
    BY <2>1, <2>2, <2>3 DEF PaksInv, Phase
<1>13. shouldLoad' <=> ~\E k \in Calls : k # 1 /\ Opening(k)
  <2>1. ~Opening(1)
    BY <1>2 DEF Opening
  <2> QED
    BY <2>1, <1>1, <1>2 DEF PaksInv, Flags
<1> QED
  BY <1>1, <1>9, <1>10, <1>11, <1>12, <1>13, LoadReturns

LEMMA StepEngineLoads ==
    ASSUME PaksInv, EngineLoads
    PROVE  PaksInv'
<1>1. PICK handle \in (Handles \ loaded) \cup (IF inner.path \in MayFail THEN {Failed} ELSE {}) :
        /\ loaded' = loaded \cup ({handle} \ {Failed})
        /\ tracked' = Tracking(handle, inner.name)
        /\ GoesOn([inner EXCEPT !.step = "post", !.handle = handle,
                     !.todo = {i \in Entry : Entries[i].after = inner.path}])
  BY DEF EngineLoads, GoesOn
<1>2. /\ Running("load", "engine")
      /\ UNCHANGED <<isDedicated, shouldLoad, shouldUnload, crashed>>
  BY DEF EngineLoads
<1>3. /\ hooks # <<>> /\ inner = hooks[1] /\ inner \in LoadFrames /\ inner.step = "engine"
      /\ Outer \in Nat \ {0} /\ 1 \in Calls /\ Outer \in Calls /\ Loading /\ ~Unloading
      /\ CallsWell /\ OneOpening /\ PostsDiffer /\ InsidePreload /\ LastingLoads
      /\ NotThere /\ shouldUnload /\ \A k \in Calls : hooks[k] \in LoadFrames
  BY <1>2, InLoad
<1>4. CallOf(1) /\ CallAt(1)
  BY <1>3 DEF CallsWell
<1>name. PICK n \in Files : n = inner.name
  BY <1>3 DEF LoadFrames
<1> DEFINE f == [inner EXCEPT !.step = "post", !.handle = handle,
                   !.todo = {i \in Entry : Entries[i].after = inner.path}]
<1>5. /\ handle \in Handles \cup {Failed} /\ (handle # Failed => handle \in Handles \ loaded)
      /\ handle = Failed => inner.path \in MayFail
  BY <1>1, EntryFacts
<1>6. /\ f \in LoadFrames /\ f.hook = "load" /\ f.name = n /\ f.path = inner.path
      /\ f.source = inner.source /\ f.step = "post" /\ f.handle = handle
      /\ f.todo = {i \in Entry : Entries[i].after = inner.path}
  BY <1>3, <1>5, <1>name DEF LoadFrames
<1>7. GoesOn(f)
  BY <1>1
<1> HIDE DEF f
<1>8. /\ hooks' \in Seq(HookFrames) /\ Outer' = Outer /\ Calls' = Calls /\ hooks'[1] = f
      /\ \A k \in Calls : k # 1 => hooks'[k] = hooks[k]
      /\ Loading' /\ ~Unloading'
  <2>1. f \in HookFrames
    BY <1>6 DEF HookFrames
  <2> QED
    BY <1>3, <1>6, <1>7, <2>1, HookGoesOn DEF PaksInv
<1>9. \A k \in Calls : hooks[k].hook = "load" /\ hooks'[k].hook = "load"
  <2>1. \A k \in Calls : hooks[k].hook = "load"
    BY <1>3 DEF CallsWell, CallOf
  <2> QED
    BY <2>1, <1>6, <1>8
\* A handle that is not in use is not tracked, and what was tracked is tracked still.
<1>10. handle # Failed => tracked[handle] = Untracked
  BY <1>5, <1>9 DEF PaksInv, Accounted
<1> DEFINE g == [name |-> n, source |-> "UNTRACKED"]
<1>11. /\ g \in [name : Files, source : Sources] /\ g # Untracked /\ g.name = n
       /\ g.source = "UNTRACKED"
  BY EntryFacts DEF Untracked, Sources
<1>12. tracked' = IF tracked[handle] # Untracked THEN tracked ELSE [tracked EXCEPT ![handle] = g]
  BY <1>1, <1>name DEF Tracking
<1> HIDE DEF g
<1>13. /\ tracked' \in [Handles \cup {Failed} -> [name : Files, source : Sources] \cup {Untracked}]
       /\ \A h \in Handles \cup {Failed} :
            /\ tracked[h] # Untracked \/ h # handle => tracked'[h] = tracked[h]
            /\ tracked[h] = Untracked /\ h = handle => tracked'[h] = g
  <2>1. tracked \in [Handles \cup {Failed} -> [name : Files, source : Sources] \cup {Untracked}]
    BY DEF PaksInv, PaksTypeOK
  <2> QED
    BY <2>1, <1>5, <1>11, <1>12
<1>14. PaksTypeOK'
  BY <1>1, <1>2, <1>5, <1>8, <1>13 DEF PaksInv, PaksTypeOK, HookFrames
<1>15. /\ \A h \in Handles : h # Failed
       /\ \A h \in Handles \cup {Failed} : tracked[h].name \in Files => tracked[h] # Untracked
       /\ \A h \in Handles \cup {Failed} : tracked[h] # Untracked => tracked[h].name \in Files
  BY EntryFacts, TrackedType DEF PaksInv
<1>16. ASSUME NEW m \in Files
       PROVE  /\ IsTracked(m) => IsTracked(m)'
              /\ IsTracked(m)' => IsTracked(m) \/ m = n
              /\ handle # Failed => IsTracked(n)'
              /\ Excused(m) => Excused(m)'
  <2>1. \A h \in Handles \cup {Failed} : tracked[h].name = m => tracked'[h].name = m
    BY <1>13, <1>15
  <2>2. \A h \in Handles \cup {Failed} : tracked'[h].name = m => tracked[h].name = m \/ m = n
    BY <1>11, <1>13
  <2>3. handle # Failed => handle \in Handles /\ tracked'[handle].name = n
    BY <1>5, <1>10, <1>11, <1>13
  <2> QED
    BY <2>1, <2>2, <2>3 DEF IsTracked, Excused
<1>17. Excused(n) \/ ~IsTracked(n)
  BY <1>3, <1>name DEF NotThere
<1>18. Outer = 1 => n \in Names
  BY <1>3, <1>4, <1>name DEF CallOf
<1>19. Outer # 1 => n \in EntryPaths /\ inner.path = n
  BY <1>3, <1>4, <1>name DEF CallOf
<1>20. Accounted'
  <2> SUFFICES ASSUME NEW h \in Handles PROVE h \in loaded' <=> tracked'[h] # Untracked
    BY <1>8, <1>9 DEF Accounted
  <2>1. h \in loaded <=> tracked[h] # Untracked
    BY <1>9 DEF PaksInv, Accounted
  <2>2. h \in loaded' <=> h \in loaded \/ h = handle
    BY <1>1, <1>15
  <2>3. tracked'[h] # Untracked <=> tracked[h] # Untracked \/ h = handle
    BY <1>11, <1>13
  <2> QED
    BY <2>1, <2>2, <2>3
<1>21. TrackedWell'
  <2> SUFFICES ASSUME NEW h \in Handles, tracked'[h] # Untracked PROVE TrackedAs(h)'
    BY DEF TrackedWell
  <2>1. CASE h = handle
    <3>1. tracked'[h].name = n /\ tracked'[h].source = "UNTRACKED"
      BY <2>1, <1>10, <1>11, <1>13, <1>15
    <3>2. CASE Outer = 1
      BY <3>1, <3>2, <1>18 DEF TrackedAs
    <3>3. CASE Outer # 1
      <4>1. 1 \in 1..(Outer' - 1) /\ hooks'[1].step = "post" /\ hooks'[1].handle = h
        BY <2>1, <3>3, <1>3, <1>6, <1>8
      <4> QED
        BY <3>1, <3>3, <4>1, <1>19 DEF TrackedAs
    <3> QED
      BY <3>2, <3>3
  <2>2. CASE h # handle
    <3>1. tracked'[h] = tracked[h] /\ TrackedAs(h)
      BY <2>2, <1>13 DEF PaksInv, TrackedWell
    <3>2. ASSUME NEW k \in 1..(Outer - 1), hooks[k].step = "post" PROVE hooks'[k] = hooks[k]
      <4>1. k \in Calls /\ k # 1
        BY <1>3, <3>2 DEF Calls, Outer
      <4> QED
        BY <4>1, <1>8
    <3> QED
      BY <3>1, <3>2, <1>8 DEF TrackedAs
  <2> QED
    BY <2>1, <2>2
<1>22. FailedWell'
  <2>1. CASE tracked'[Failed] = tracked[Failed]
    BY <2>1 DEF PaksInv, FailedWell
  <2>2. CASE tracked'[Failed] # tracked[Failed]
    <3>1. handle = Failed /\ tracked'[Failed].name = n
      BY <2>2, <1>11, <1>13
    <3> QED
      BY <3>1, <1>5, <1>18, <1>19 DEF FailedWell
  <2> QED
    BY <2>1, <2>2
<1>23. Unique'
  <2> SUFFICES ASSUME NEW h \in Handles, NEW i \in Handles, tracked'[h] # Untracked,
                      tracked'[h].name = tracked'[i].name, h # i
               PROVE  Excused(tracked[h].name)'
    BY DEF Unique
  <2>1. PICK m \in Files : m = tracked'[h].name
    BY TrackedType, <1>11, <1>13, <1>15
  <2>2. CASE h # handle /\ i # handle
    <3>1. Excused(m)
      BY <2>1, <2>2, <1>13 DEF PaksInv, Unique
    <3> QED
      BY <2>1, <3>1, <1>16 DEF Excused
  <2>3. CASE h = handle \/ i = handle
    <3>1. m = n
      BY <2>1, <2>3, <1>10, <1>11, <1>13, <1>15
    <3>2. IsTracked(n)
      <4>1. \E j \in {h, i} : j # handle /\ tracked'[j].name = n
        BY <2>1, <2>3, <3>1
      <4> QED
        BY <4>1, <1>13 DEF IsTracked
    <3>3. Excused(n)'
      BY <3>2, <1>16, <1>17
    <3> QED
      BY <2>1, <3>1, <3>3 DEF Excused
  <2> QED
    BY <2>2, <2>3
<1>24. \A k \in Calls : hooks[k].name \in Files /\ hooks[k].handle \in Handles \cup {Failed}
  BY <1>3 DEF LoadFrames
<1>25. CallsWell'
  <2> SUFFICES ASSUME NEW k \in Calls PROVE CallOf(k)' /\ CallAt(k)'
    BY <1>8 DEF CallsWell
  <2>1. CallOf(k) /\ CallAt(k)
    BY <1>3 DEF CallsWell
  <2>2. CASE k # 1
    <3>1. hooks'[k] = hooks[k]
      BY <2>2, <1>8
    <3>2. hooks[k].step = "post" /\ hooks[k].handle # Failed
             => tracked'[hooks[k].handle].name = hooks[k].name
      BY <2>1, <1>13, <1>15, <1>24 DEF CallAt
    <3>3. CallOf(k)'
      BY <2>1, <2>2, <3>1, <1>8 DEF CallOf
    <3>4. CallAt(k)'
      BY <2>1, <3>1, <3>2 DEF CallAt
    <3> QED
      BY <3>3, <3>4
  <2>3. CASE k = 1
    <3>1. CallOf(1)'
      BY <1>3, <1>4, <1>6, <1>8, <1>name DEF CallOf
    <3>2. handle # Failed => tracked'[handle].name = n
      BY <1>5, <1>10, <1>11, <1>13
    <3>3. CallAt(1)'
      BY <3>2, <1>5, <1>6, <1>8 DEF CallAt
    <3> QED
      BY <2>3, <3>1, <3>3
  <2> QED
    BY <2>2, <2>3
<1>26. OneOpening'
  BY <1>3, <1>6, <1>8 DEF OneOpening, Opening
<1>27. PostsDiffer'
  <2>1. ASSUME NEW k \in Calls, k # 1, hooks[k].step = "post", hooks[k].handle # Failed
        PROVE  hooks[k].handle # handle
    <3>1. tracked[hooks[k].handle] # Untracked
      BY <2>1, <1>3, <1>15, <1>24 DEF CallsWell, CallAt
    <3> QED
      BY <2>1, <3>1, <1>10
  <2> QED
    BY <2>1, <1>3, <1>6, <1>8 DEF PostsDiffer
<1>28. InsidePreload' /\ LastingLoads'
  BY <1>3, <1>6, <1>8, <1>name DEF InsidePreload, LastingLoads
<1>29. NotThere'
  <2> SUFFICES ASSUME NEW k \in Calls, k # 1, hooks[k].step \in {"preload", "map", "engine"}
               PROVE  Excused(hooks[k].name)' \/ ~IsTracked(hooks[k].name)'
    BY <1>6, <1>8 DEF NotThere
  <2>1. PICK m \in Files : m = hooks[k].name
    BY <1>24
  <2>2. Excused(m) \/ ~IsTracked(m)
    BY <2>1, <1>3 DEF NotThere
  <2>3. CASE m # n
    <3>1. Excused(m)' \/ ~IsTracked(m)'
      BY <2>2, <2>3, <1>16
    <3>2. hooks'[k] = hooks[k]
      BY <1>8
    <3> QED
      BY <2>1, <3>1, <3>2 DEF Excused, IsTracked
  <2>4. CASE m = n
    <3>1. Outer # 1 /\ 1 < k
      BY <1>3 DEF Calls, Outer
    <3>2. CallOf(k)
      BY <1>3 DEF CallsWell
    <3>3. k # Outer /\ hooks[k].step = "preload"
      BY <2>1, <2>4, <3>1, <3>2, <1>19, EntryFacts DEF CallOf
    <3>4. m \notin Lasting
      BY <2>1, <3>3, <1>3 DEF LastingLoads
    <3>5. n \in Wanted
      BY <3>1, <3>3, <1>3, <1>name DEF InsidePreload
    <3>6. m \in MayFail \ Names
      BY <2>4, <3>4, <3>5, LastingFacts
    <3>7. hooks'[k] = hooks[k]
      BY <1>8
    <3> QED
      BY <2>1, <3>6, <3>7 DEF Excused
  <2> QED
    BY <2>3, <2>4
<1>30. Flags'
  <2>1. ~Opening(1) /\ ~Opening(1)' /\ \A k \in Calls : Opening(k)' <=> Opening(k)
    BY <1>3, <1>6, <1>8 DEF Opening
  <2> QED
    BY <2>1, <1>2, <1>3, <1>8 DEF PaksInv, Flags
<1>31. Phase'
  <2>1. CASE Established
    <3>1. Lasting \subseteq Files
      BY LastingFacts, EntryFacts
    <3> QED
      BY <2>1, <3>1, <1>16 DEF Established, Phase
  <2>2. ~Fresh
    BY <1>3 DEF Fresh
  <2>3. ASSUME hooks[Outer].step = "preload", NEW S \in SUBSET EntryPaths, Gathering(S)
        PROVE  Phase'
    <3>1. Outer # 1
      BY <2>3, <1>3
    <3>2. n \in S /\ inner.path = n
      BY <2>3, <3>1, <1>3, <1>19, <1>name DEF Gathering
    <3>3. \A m : Arriving(m) => m = n
      BY <1>3, <1>name DEF Arriving
    <3>4. hooks'[Outer'] = hooks[Outer]
      BY <3>1, <1>3, <1>8
    <3>5. \A i \in Entry : Entries[i].auto => Entries[i].path \in S \/ i \in hooks'[Outer'].todo
      BY <2>3, <3>4 DEF Gathering
    <3>6. ASSUME NEW i \in Entry, Entries[i].after \in S
          PROVE  \/ Entries[i].path \in S
                 \/ \E k \in Calls' : hooks'[k].step = "post" /\ i \in hooks'[k].todo
      <4>1. CASE Entries[i].after = n
        <5>1. hooks'[1].step = "post" /\ i \in hooks'[1].todo /\ 1 \in Calls'
          BY <4>1, <3>2, <1>3, <1>6, <1>8
        <5> QED
          BY <5>1
      <4>2. CASE Entries[i].after # n
        <5>1. \/ Entries[i].path \in S
              \/ \E k \in Calls : hooks[k].step = "post" /\ i \in hooks[k].todo
          BY <2>3, <3>3, <3>6, <4>2 DEF Gathering
        <5>2. \A k \in Calls : hooks[k].step = "post" => hooks'[k] = hooks[k]
          BY <1>3, <1>8
        <5> QED
          BY <5>1, <5>2, <1>8
      <4> QED
        BY <4>1, <4>2
    <3>7. ASSUME NEW p \in S PROVE p \in MayFail \/ IsTracked(p)'
      <4>1. p \in Files
        BY EntryFacts
      <4>2. CASE p = n
        BY <4>2, <3>2, <1>5, <1>16
      <4>3. CASE p # n
        BY <4>1, <4>3, <2>3, <3>3, <1>16 DEF Gathering
      <4> QED
        BY <4>2, <4>3
    <3>8. \A h \in Handles : tracked'[h] # Untracked => tracked'[h].name \in S
      BY <2>3, <3>2, <1>11, <1>13 DEF Gathering
    <3>9. \A k \in Calls' : k # Outer' => hooks'[k].name \in S
      BY <2>3, <3>2, <1>6, <1>8 DEF Gathering
    <3>10. Gathering(S)'
      BY <3>5, <3>6, <3>7, <3>8, <3>9 DEF Gathering
    <3> QED
      BY <2>3, <3>4, <3>10, <1>8 DEF Phase
  <2> QED
    BY <2>1, <2>2, <2>3 DEF PaksInv, Phase
<1> QED
  BY <1>8, <1>14, <1>20, <1>21, <1>22, <1>23, <1>25, <1>26, <1>27, <1>28, <1>29, <1>30, <1>31
     DEF PaksInv, UnloadCalls, LoadCalls

-----------------------------------------------------------------------------
(* Steps of an unload.                                                       *)

\* A call of the hook that unloads.
LEMMA InUnload ==
    ASSUME PaksInv, NEW step, Running("unload", step)
    PROVE  /\ hooks # <<>> /\ inner = hooks[1] /\ inner \in UnloadFrames /\ inner.step = step
           /\ Outer \in {1, 2} /\ Calls = 1..Outer /\ 1 \in Calls /\ Unloading /\ ~Loading
           /\ \A k \in Calls : hooks[k] \in UnloadFrames /\ hooks[k].hook = "unload"
                               /\ hooks[k].step # "post" /\ hooks[k].handle \in Handles
           /\ IF step = "enter"
              THEN tracked[inner.handle] # Untracked /\ tracked[inner.handle].name \notin Lasting
              ELSE tracked[inner.handle] = Untracked
           /\ Outer = 1 => (shouldUnload <=> step # "maps")
           /\ Outer = 2 => /\ 2 \in Calls /\ hooks[2].step = "maps" /\ step # "maps"
                           /\ tracked[hooks[2].handle] = Untracked
                           /\ ~shouldUnload /\ inner.handle # hooks[2].handle
           /\ shouldLoad
<1>1. hooks # <<>> /\ inner.hook = "unload" /\ inner.step = step
  BY DEF Running
<1>2. /\ inner = hooks[1] /\ 1 \in Calls
      /\ \A k \in Calls : hooks[k].hook = "unload" => hooks[k] \in UnloadFrames
  BY <1>1, FrameTypes DEF PaksInv
<1>3. Unloading /\ ~Loading
  BY <1>1, <1>2 DEF Loading, Unloading
<1>4. /\ Outer \in {1, 2}
      /\ \A k \in Calls :
           /\ hooks[k].hook = "unload"
           /\ IF hooks[k].step = "enter"
              THEN /\ tracked[hooks[k].handle] # Untracked
                   /\ tracked[hooks[k].handle].name \notin Lasting
              ELSE tracked[hooks[k].handle] = Untracked
      /\ Outer = 1 => (shouldUnload <=> hooks[1].step # "maps")
      /\ Outer = 2 => /\ hooks[2].step = "maps" /\ hooks[1].step # "maps"
                      /\ ~shouldUnload /\ hooks[1].handle # hooks[2].handle
  BY <1>3 DEF PaksInv, UnloadCalls
<1>5. Calls = 1..Outer /\ (Outer = 2 => 2 \in Calls)
  BY <1>4 DEF Calls, Outer
<1>6. \A k \in Calls : hooks[k] \in UnloadFrames /\ hooks[k].step # "post"
                       /\ hooks[k].handle \in Handles
  BY <1>2, <1>4 DEF UnloadFrames
<1>7. shouldLoad
  BY <1>3 DEF PaksInv, Flags
<1>8. Outer = 2 => tracked[hooks[2].handle] = Untracked
  BY <1>4, <1>5
<1> QED
  BY <1>1, <1>2, <1>3, <1>4, <1>5, <1>6, <1>7, <1>8

\* What is tracked without a load under way.
LEMMA TrackedPlain ==
    ASSUME PaksInv, Unloading \/ hooks = <<>>, NEW h \in Handles, tracked[h] # Untracked
    PROVE  \/ tracked[h].name \in Names /\ tracked[h].source = "UNTRACKED"
           \/ /\ tracked[h].name \in EntryPaths
              /\ \/ tracked[h].source = "CONSTANT"
                 \/ tracked[h].source = "MAP" /\ tracked[h].name \notin Lasting
<1>1. TrackedAs(h)
  BY DEF PaksInv, TrackedWell
<1>2. CASE hooks = <<>>
  <2>1. Outer = 0
    BY <1>2, FrameTypes DEF PaksInv
  <2> QED
    BY <2>1, <1>1 DEF TrackedAs
<1>3. CASE Unloading
  <2>1. \A k \in Calls : hooks[k].step # "post"
    <3>1. \A k \in Calls : hooks[k].hook = "unload"
      BY <1>3 DEF PaksInv, UnloadCalls
    <3>2. \A k \in Calls : hooks[k] \in UnloadFrames
      BY <3>1, FrameTypes DEF PaksInv
    <3> QED
      BY <3>2 DEF UnloadFrames
  <2>2. Outer \in Nat /\ \A k \in 1..(Outer - 1) : k \in Calls
    BY FrameTypes DEF PaksInv, Calls, Outer
  <2> QED
    BY <2>1, <2>2, <1>1 DEF TrackedAs
<1> QED
  BY <1>2, <1>3

LEMMA StepRequestUnload ==
    ASSUME PaksInv, NEW handle \in Handles, RequestUnload(handle)
    PROVE  PaksInv'
<1> DEFINE f == UnloadCall(handle)
<1>1. /\ hooks = <<>> /\ hooks' = <<f>> /\ tracked[handle].source = "UNTRACKED"
      /\ UNCHANGED <<isDedicated, tracked, loaded, shouldLoad, shouldUnload, crashed>>
  BY DEF RequestUnload
<1>2. f \in UnloadFrames /\ f.hook = "unload" /\ f.step = "enter" /\ f.handle = handle
  BY DEF UnloadCall, UnloadFrames
<1>3. f \in HookFrames
  BY <1>2 DEF HookFrames
<1> HIDE DEF f
<1>4. /\ hooks' \in Seq(HookFrames) /\ hooks' # <<>> /\ Len(hooks') = 1 /\ hooks'[1] = f
      /\ Len(hooks) = 0
  BY <1>1, <1>3
<1>5. /\ Outer' = 1 /\ Calls' = {1} /\ Outer = 0 /\ Calls = {} /\ ~Loading /\ ~Unloading
      /\ ~Loading' /\ Unloading'
  BY <1>1, <1>2, <1>4 DEF Outer, Calls, Loading, Unloading
<1>6. PaksTypeOK'
  BY <1>1, <1>4 DEF PaksInv, PaksTypeOK, HookFrames
<1>7. tracked[handle] # Untracked
  BY <1>1 DEF Untracked
<1>8. tracked[handle].name \in Names
  BY <1>1, <1>7, TrackedPlain
<1>9. tracked[handle].name \notin Lasting
  BY <1>8, LastingFacts
<1>10. Accounted'
  BY <1>1, <1>2, <1>4, <1>5 DEF PaksInv, Accounted
<1>11. TrackedWell'
  BY <1>1, <1>5 DEF PaksInv, TrackedWell, TrackedAs
<1>12. FailedWell' /\ Unique'
  BY <1>1 DEF PaksInv, FailedWell, Unique, Excused
<1>13. shouldUnload
  BY <1>5 DEF PaksInv, Flags
<1>14. UnloadCalls'
  BY <1>1, <1>2, <1>4, <1>5, <1>7, <1>9, <1>13 DEF UnloadCalls
<1>15. Flags'
  BY <1>1, <1>5 DEF PaksInv, Flags
<1>16. Established
  BY <1>5, <1>7 DEF PaksInv, Phase, Fresh
<1>17. Phase'
  BY <1>1, <1>16, PhaseKept
<1> QED
  BY <1>5, <1>6, <1>10, <1>11, <1>12, <1>14, <1>15, <1>17 DEF PaksInv, LoadCalls

LEMMA StepEnterUnload ==
    ASSUME PaksInv, EnterUnload
    PROVE  PaksInv'
<1> DEFINE f == [inner EXCEPT !.step = IF shouldUnload THEN "maps" ELSE "engine"]
<1>1. /\ Running("unload", "enter") /\ GoesOn(f) /\ shouldUnload' = FALSE
      /\ tracked' = [tracked EXCEPT ![inner.handle] = Untracked]
      /\ UNCHANGED <<isDedicated, loaded, shouldLoad, crashed>>
  BY DEF EnterUnload, GoesOn
<1>2. /\ hooks # <<>> /\ inner = hooks[1] /\ inner \in UnloadFrames /\ inner.step = "enter"
      /\ Outer \in {1, 2} /\ Calls = 1..Outer /\ 1 \in Calls /\ Unloading /\ ~Loading
      /\ \A k \in Calls : hooks[k].hook = "unload" /\ hooks[k].handle \in Handles
      /\ tracked[inner.handle] # Untracked /\ tracked[inner.handle].name \notin Lasting
      /\ Outer = 1 => shouldUnload
      /\ Outer = 2 => /\ 2 \in Calls /\ hooks[2].step = "maps"
                      /\ tracked[hooks[2].handle] = Untracked
                      /\ ~shouldUnload /\ inner.handle # hooks[2].handle
      /\ shouldLoad
  BY <1>1, InUnload
<1>3. /\ f \in UnloadFrames /\ f.hook = "unload" /\ f.handle = inner.handle
      /\ f.step = (IF shouldUnload THEN "maps" ELSE "engine")
  BY <1>2 DEF UnloadFrames
<1> HIDE DEF f
<1>4. /\ hooks' \in Seq(HookFrames) /\ Outer' = Outer /\ Calls' = Calls /\ hooks'[1] = f
      /\ \A k \in Calls : k # 1 => hooks'[k] = hooks[k]
      /\ ~Loading' /\ Unloading'
  <2>1. f \in HookFrames
    BY <1>3 DEF HookFrames
  <2> QED
    BY <1>1, <1>2, <1>3, <2>1, HookGoesOn DEF PaksInv
<1>5. inner.handle \in Handles /\ Failed \notin Handles
  BY <1>2, EntryFacts
<1>6. /\ tracked' \in [Handles \cup {Failed} -> [name : Files, source : Sources] \cup {Untracked}]
      /\ tracked'[inner.handle] = Untracked
      /\ \A h \in Handles \cup {Failed} : h # inner.handle => tracked'[h] = tracked[h]
      /\ tracked'[Failed] = tracked[Failed]
  <2>1. tracked \in [Handles \cup {Failed} -> [name : Files, source : Sources] \cup {Untracked}]
    BY DEF PaksInv, PaksTypeOK
  <2> QED
    BY <2>1, <1>1, <1>5
<1>7. PaksTypeOK'
  BY <1>1, <1>4, <1>6 DEF PaksInv, PaksTypeOK, HookFrames
<1>8. Accounted'
  <2> SUFFICES ASSUME NEW h \in Handles
               PROVE  h \in loaded <=>
                        \/ tracked'[h] # Untracked
                        \/ \E k \in Calls : /\ hooks'[k].hook = "unload" /\ hooks'[k].step # "enter"
                                            /\ hooks'[k].handle = h
    BY <1>1, <1>4 DEF Accounted
  <2>1. h \in loaded <=>
           \/ tracked[h] # Untracked
           \/ \E k \in Calls : /\ hooks[k].hook = "unload" /\ hooks[k].step # "enter"
                               /\ hooks[k].handle = h
    BY DEF PaksInv, Accounted
  <2>2. CASE h = inner.handle
    <3>1. h \in loaded
      BY <2>1, <2>2, <1>2
    <3>2. hooks'[1].hook = "unload" /\ hooks'[1].step # "enter" /\ hooks'[1].handle = h
      BY <2>2, <1>3, <1>4
    <3> QED
      BY <3>1, <3>2, <1>2
  <2>3. CASE h # inner.handle
    <3>1. tracked'[h] = tracked[h]
      BY <2>3, <1>6
    <3>2. \A k \in Calls : (/\ hooks'[k].hook = "unload" /\ hooks'[k].step # "enter"
                            /\ hooks'[k].handle = h)
                       <=> (/\ hooks[k].hook = "unload" /\ hooks[k].step # "enter"
                            /\ hooks[k].handle = h)
      BY <2>3, <1>2, <1>3, <1>4
    <3> QED
      BY <2>1, <3>1, <3>2
  <2> QED
    BY <2>2, <2>3
<1>9. TrackedWell'
  BY <1>2, <1>6, TrackedPlain DEF TrackedWell, TrackedAs
<1>10. FailedWell'
  BY <1>6 DEF PaksInv, FailedWell
<1>11. Unique'
  <2> SUFFICES ASSUME NEW g \in Handles, NEW h \in Handles, tracked'[g] # Untracked,
                      tracked'[g].name = tracked'[h].name, g # h
               PROVE  Excused(tracked[g].name)'
    BY DEF Unique
  <2>1. g # inner.handle /\ tracked'[g] = tracked[g]
    BY <1>6
  <2>2. h # inner.handle
    <3>1. tracked[g].name \in Files /\ Untracked.name \notin Files
      BY <2>1, EntryFacts, TrackedType DEF PaksInv, Untracked
    <3> QED
      BY <2>1, <3>1, <1>6
  <2>3. Excused(tracked[g].name)
    BY <2>1, <2>2, <1>6 DEF PaksInv, Unique
  <2> QED
    BY <2>1, <2>3, <1>6 DEF Excused
<1>12. UnloadCalls'
  <2>1. CASE Outer = 1
    BY <2>1, <1>1, <1>2, <1>3, <1>4, <1>6 DEF UnloadCalls
  <2>2. CASE Outer = 2
    <3>1. Calls' = {1, 2} /\ hooks'[2] = hooks[2]
      BY <2>2, <1>2, <1>4
    <3>2. tracked'[hooks[2].handle] = Untracked
      BY <2>2, <1>2, <1>6
    <3> QED
      BY <2>2, <3>1, <3>2, <1>1, <1>2, <1>3, <1>4, <1>6 DEF UnloadCalls
  <2> QED
    BY <2>1, <2>2, <1>2
<1>13. Flags'
  BY <1>1, <1>2, <1>4 DEF Flags
<1>14. Established
  BY <1>2, <1>5 DEF PaksInv, Phase, Fresh
<1>15. Phase'
  <2>1. ASSUME NEW p \in Lasting PROVE IsTracked(p)'
    <3>1. PICK h \in Handles : tracked[h].name = p
      BY <1>14 DEF Established, IsTracked
    <3>2. h # inner.handle
      BY <3>1, <1>2
    <3> QED
      BY <3>1, <3>2, <1>6 DEF IsTracked
  <2> QED
    BY <2>1 DEF Established, Phase
<1> QED
  BY <1>4, <1>7, <1>8, <1>9, <1>10, <1>11, <1>12, <1>13, <1>15 DEF PaksInv, LoadCalls

LEMMA StepUnloadNext ==
    ASSUME PaksInv, UnloadNext
    PROVE  PaksInv'
<1>1. /\ Running("unload", "maps")
      /\ UNCHANGED <<isDedicated, tracked, loaded, shouldLoad>>
  BY DEF UnloadNext
<1>2. /\ hooks # <<>> /\ inner = hooks[1] /\ inner \in UnloadFrames /\ inner.step = "maps"
      /\ Outer = 1 /\ Calls = {1} /\ Unloading /\ ~Loading
      /\ inner.hook = "unload" /\ inner.handle \in Handles
      /\ tracked[inner.handle] = Untracked
      /\ ~shouldUnload /\ shouldLoad
  <2>1. /\ hooks # <<>> /\ inner = hooks[1] /\ inner \in UnloadFrames /\ inner.step = "maps"
        /\ Outer = 1 /\ Calls = 1..Outer /\ Unloading /\ ~Loading
        /\ tracked[inner.handle] = Untracked
        /\ ~shouldUnload /\ shouldLoad
    BY <1>1, InUnload
  <2> QED
    BY <2>1 DEF UnloadFrames
<1>3. Established \/ Fresh
  BY <1>2 DEF PaksInv, Phase
<1>4. FailedWell' /\ Unique'
  BY <1>1 DEF PaksInv, FailedWell, Unique, Excused
<1>5. TrackedWell'
  BY <1>1, <1>2, TrackedPlain DEF TrackedWell, TrackedAs
<1>6. ASSUME ~Loading' PROVE Phase'
  <2>1. CASE Established
    BY <2>1, <1>1, PhaseKept
  <2>2. CASE Fresh
    BY <2>2, <1>1, <1>6 DEF Fresh, Phase
  <2> QED
    BY <1>3, <2>1, <2>2
<1>7. ASSUME NEW h \in MapPaksAfter(inner.at),
             CallsOn(UnloadCall(h), [inner EXCEPT !.at = h]), UNCHANGED <<shouldUnload, crashed>>
      PROVE  PaksInv'
  <2> DEFINE f == UnloadCall(h)
             g == [inner EXCEPT !.at = h]
  <2>1. h \in Handles /\ tracked[h].source = "MAP"
    BY DEF MapPaksAfter
  <2>2. tracked[h] # Untracked
    BY <2>1 DEF Untracked
  <2>3. tracked[h].name \notin Lasting /\ h # inner.handle
    <3>1. tracked[h].name \in Names \/ tracked[h].name \notin Lasting
      BY <2>1, <2>2, <1>2, TrackedPlain
    <3> QED
      BY <3>1, <2>2, <1>2, LastingFacts
  <2>4. CallsOn(f, g)
    BY <1>7
  <2>5. f \in UnloadFrames /\ f.hook = "unload" /\ f.step = "enter" /\ f.handle = h
    BY <2>1 DEF UnloadCall, UnloadFrames
  <2>6. g \in UnloadFrames /\ g.hook = "unload" /\ g.step = "maps" /\ g.handle = inner.handle
    BY <2>1, <1>2 DEF UnloadFrames
  <2> HIDE DEF f, g
  <2>7. f \in HookFrames /\ g \in HookFrames
    BY <2>5, <2>6 DEF HookFrames
  <2>8. /\ hooks' \in Seq(HookFrames) /\ Outer' = Outer + 1 /\ Calls' = 1..(Outer + 1)
        /\ hooks'[1] = f /\ hooks'[2] = g /\ ~Loading' /\ Unloading'
    BY <2>4, <2>5, <2>7, <1>2, HookCalls DEF PaksInv
  <2>9. Outer' = 2 /\ Calls' = {1, 2}
    BY <2>8, <1>2
  <2>10. PaksTypeOK'
    BY <1>1, <1>7, <2>8 DEF PaksInv, PaksTypeOK, HookFrames
  <2>11. Accounted'
    BY <1>1, <1>2, <2>5, <2>6, <2>8, <2>9 DEF PaksInv, Accounted
  <2>12. UnloadCalls'
    BY <1>1, <1>2, <1>7, <2>2, <2>3, <2>5, <2>6, <2>8, <2>9 DEF UnloadCalls
  <2>13. Flags'
    BY <1>1, <1>2, <2>8 DEF Flags
  <2> QED
    BY <1>4, <1>5, <1>6, <2>8, <2>10, <2>11, <2>12, <2>13 DEF PaksInv, LoadCalls
<1>8. ASSUME GoesOn([inner EXCEPT !.step = "engine"]), shouldUnload' = TRUE, UNCHANGED crashed
      PROVE  PaksInv'
  <2> DEFINE f == [inner EXCEPT !.step = "engine"]
  <2>1. GoesOn(f)
    BY <1>8
  <2>2. f \in UnloadFrames /\ f.hook = "unload" /\ f.step = "engine" /\ f.handle = inner.handle
    BY <1>2 DEF UnloadFrames
  <2> HIDE DEF f
  <2>3. /\ hooks' \in Seq(HookFrames) /\ Outer' = Outer /\ Calls' = Calls /\ hooks'[1] = f
        /\ ~Loading' /\ Unloading'
    <3>1. f \in HookFrames
      BY <2>2 DEF HookFrames
    <3> QED
      BY <1>2, <2>1, <2>2, <3>1, HookGoesOn DEF PaksInv
  <2>4. PaksTypeOK'
    BY <1>1, <1>8, <2>3 DEF PaksInv, PaksTypeOK, HookFrames
  <2>5. Accounted'
    BY <1>1, <1>2, <2>2, <2>3 DEF PaksInv, Accounted
  <2>6. UnloadCalls'
    BY <1>1, <1>2, <1>8, <2>2, <2>3 DEF UnloadCalls
  <2>7. Flags'
    BY <1>1, <1>2, <1>8, <2>3 DEF Flags
  <2> QED
    BY <1>4, <1>5, <1>6, <2>3, <2>4, <2>5, <2>6, <2>7 DEF PaksInv, LoadCalls
<1>9. ASSUME crashed' = TRUE, UNCHANGED <<hooks, shouldUnload>>
      PROVE  PaksInv'
  <2>1. UNCHANGED <<tracked, loaded, shouldLoad, shouldUnload, hooks>>
    BY <1>1, <1>9
  <2>2. Outer' = Outer /\ Calls' = Calls /\ ~Loading' /\ Unloading'
    BY <2>1, <1>2 DEF Outer, Calls, Loading, Unloading
  <2>3. PaksTypeOK'
    BY <1>1, <1>9 DEF PaksInv, PaksTypeOK
  <2>4. Accounted' /\ UnloadCalls' /\ Flags'
    BY <2>1, <2>2, <1>2 DEF PaksInv, Accounted, UnloadCalls, Flags
  <2> QED
    BY <1>4, <1>5, <1>6, <2>2, <2>3, <2>4 DEF PaksInv, LoadCalls
<1> QED
  BY <1>7, <1>8, <1>9 DEF UnloadNext, CallsOn, GoesOn

LEMMA StepEngineUnloads ==
    ASSUME PaksInv, EngineUnloads
    PROVE  PaksInv'
<1>1. /\ Running("unload", "engine") /\ GoesBack /\ loaded' = loaded \ {inner.handle}
      /\ UNCHANGED <<isDedicated, tracked, shouldLoad, shouldUnload, crashed>>
  BY DEF EngineUnloads, GoesBack
<1>2. /\ hooks # <<>> /\ inner = hooks[1] /\ inner.step = "engine"
      /\ Outer \in {1, 2} /\ Calls = 1..Outer /\ 1 \in Calls /\ Unloading /\ ~Loading
      /\ \A k \in Calls : hooks[k].hook = "unload" /\ hooks[k].handle \in Handles
      /\ tracked[inner.handle] = Untracked
      /\ Outer = 1 => shouldUnload
      /\ Outer = 2 => /\ 2 \in Calls /\ hooks[2].step = "maps"
                      /\ tracked[hooks[2].handle] = Untracked
                      /\ ~shouldUnload /\ inner.handle # hooks[2].handle
      /\ shouldLoad
  BY <1>1, InUnload
<1>3. /\ hooks' \in Seq(HookFrames) /\ Outer' = Outer - 1 /\ Calls' = 1..(Outer - 1)
      /\ \A k \in Calls' : k + 1 \in Calls /\ hooks'[k] = hooks[k + 1]
      /\ hooks' = <<>> <=> Outer = 1
  BY <1>1, <1>2, HookReturns DEF PaksInv
<1>4. /\ Outer = 1 => Outer' = 0 /\ Calls' = {} /\ Calls = {1} /\ ~Loading' /\ ~Unloading'
      /\ Outer = 2 => /\ Outer' = 1 /\ Calls' = {1} /\ Calls = {1, 2} /\ hooks'[1] = hooks[2]
                      /\ ~Loading' /\ Unloading'
  <2>1. CASE Outer = 1
    BY <2>1, <1>2, <1>3 DEF Loading, Unloading
  <2>2. CASE Outer = 2
    <3>1. Outer' = 1 /\ Calls' = {1} /\ Calls = {1, 2}
      BY <2>2, <1>2, <1>3
    <3>2. hooks'[1] = hooks[2]
      BY <3>1, <1>3
    <3> QED
      BY <2>2, <3>1, <3>2, <1>2, <1>3 DEF Loading, Unloading
  <2> QED
    BY <2>1, <2>2, <1>2
<1>5. PaksTypeOK'
  BY <1>1, <1>3 DEF PaksInv, PaksTypeOK, HookFrames
<1>6. Accounted'
  <2> SUFFICES ASSUME NEW h \in Handles
               PROVE  h \in loaded' <=>
                        \/ tracked[h] # Untracked
                        \/ \E k \in Calls' : /\ hooks'[k].hook = "unload" /\ hooks'[k].step # "enter"
                                             /\ hooks'[k].handle = h
    BY <1>1 DEF Accounted
  <2>1. h \in loaded <=>
           \/ tracked[h] # Untracked
           \/ \E k \in Calls : /\ hooks[k].hook = "unload" /\ hooks[k].step # "enter"
                               /\ hooks[k].handle = h
    BY DEF PaksInv, Accounted
  <2>2. CASE Outer = 1
    BY <2>1, <2>2, <1>1, <1>2, <1>4
  <2>3. CASE Outer = 2
    BY <2>1, <2>3, <1>1, <1>2, <1>4
  <2> QED
    BY <2>2, <2>3, <1>2
<1>7. TrackedWell'
  BY <1>1, <1>2, TrackedPlain DEF TrackedWell, TrackedAs
<1>8. FailedWell' /\ Unique'
  BY <1>1 DEF PaksInv, FailedWell, Unique, Excused
<1>9. UnloadCalls'
  BY <1>1, <1>2, <1>4 DEF UnloadCalls
<1>10. Flags'
  BY <1>1, <1>2, <1>4 DEF Flags
<1>11. Phase'
  <2>1. CASE Established
    BY <2>1, <1>1, PhaseKept
  <2>2. CASE Fresh
    BY <2>2, <1>1, <1>2, <1>4 DEF Fresh, Phase
  <2> QED
    BY <2>1, <2>2, <1>2 DEF PaksInv, Phase
<1> QED
  BY <1>2, <1>4, <1>5, <1>6, <1>7, <1>8, <1>9, <1>10, <1>11 DEF PaksInv, LoadCalls

-----------------------------------------------------------------------------
(* Theorems.                                                                *)

\* Every step keeps the invariant.
LEMMA PaksKept ==
    ASSUME PaksInv, [PaksNext]_pakVars
    PROVE  PaksInv'
<1>1. ASSUME NEW name \in Names, Request(name) PROVE PaksInv'
  BY <1>1, StepRequest
<1>2. CASE Enter
  BY <1>2, StepEnter
<1>3. CASE LoadNext
  BY <1>3, StepLoadNext
<1>4. CASE MapPaks
  BY <1>4, StepMapPaks
<1>5. CASE MapPaksEnd
  BY <1>5, StepMapPaksEnd
<1>6. CASE EngineLoads
  BY <1>6, StepEngineLoads
<1>7. CASE LoadEnds
  BY <1>7, StepLoadEnds
<1>8. ASSUME NEW handle \in Handles, RequestUnload(handle) PROVE PaksInv'
  BY <1>8, StepRequestUnload
<1>9. CASE EnterUnload
  BY <1>9, StepEnterUnload
<1>10. CASE UnloadNext
  BY <1>10, StepUnloadNext
<1>11. CASE EngineUnloads
  BY <1>11, StepEngineUnloads
<1>12. CASE UNCHANGED pakVars
  <2>1. UNCHANGED <<isDedicated, tracked, loaded, shouldLoad, shouldUnload, hooks, crashed>>
    BY <1>12 DEF pakVars
  <2>2. PaksTypeOK'
    BY <2>1 DEF PaksInv, PaksTypeOK
  <2>3. Accounted' /\ TrackedWell' /\ FailedWell' /\ Unique'
    BY <2>1 DEF PaksInv, Accounted, TrackedWell, TrackedAs, FailedWell, Unique, Excused,
                Calls, Outer
  <2>4. UnloadCalls' /\ Flags'
    BY <2>1 DEF PaksInv, UnloadCalls, Flags, Loading, Unloading, Opening, Calls, Outer
  <2>5. LoadCalls'
    BY <2>1 DEF PaksInv, LoadCalls, CallsWell, CallOf, CallAt, OneOpening, PostsDiffer,
                InsidePreload, LastingLoads, NotThere, Excused, IsTracked, Loading, Opening,
                Calls, Outer
  <2>6. Phase'
    <3>1. CASE Established
      BY <2>1, <3>1, PhaseKept
    <3>2. CASE Fresh
      BY <2>1, <3>2 DEF Fresh, Phase, Loading, Outer
    <3>3. ASSUME Loading, hooks[Outer].step = "preload", NEW S \in SUBSET EntryPaths, Gathering(S)
          PROVE  Phase'
      <4>1. Loading' /\ hooks'[Outer'].step = "preload"
        BY <2>1, <3>3 DEF Loading, Outer
      <4>2. Gathering(S)'
        BY <2>1, <3>3 DEF Gathering, Arriving, IsTracked, Calls, Outer
      <4> QED
        BY <4>1, <4>2 DEF Phase
    <3> QED
      BY <3>1, <3>2, <3>3 DEF PaksInv, Phase
  <2> QED
    BY <2>2, <2>3, <2>4, <2>5, <2>6 DEF PaksInv
<1> QED
  BY <1>1, <1>2, <1>3, <1>4, <1>5, <1>6, <1>7, <1>8, <1>9, <1>10, <1>11, <1>12 DEF PaksNext

\* No pak is tracked at first.
LEMMA PaksStart ==
    ASSUME PaksInit
    PROVE  PaksInv
<1>1. /\ isDedicated \in BOOLEAN /\ tracked = [h \in Handles \cup {Failed} |-> Untracked]
      /\ loaded = {} /\ shouldLoad = TRUE /\ shouldUnload = TRUE /\ hooks = <<>>
      /\ crashed = FALSE
  BY DEF PaksInit
<1>2. hooks \in Seq(LoadFrames \cup UnloadFrames) /\ Len(hooks) = 0
  BY <1>1
<1>3. Outer = 0 /\ Calls = {} /\ ~Loading /\ ~Unloading
  BY <1>1, <1>2 DEF Outer, Calls, Loading, Unloading
<1>4. \A h \in Handles \cup {Failed} : tracked[h] = Untracked
  BY <1>1
<1>5. PaksTypeOK
  BY <1>1, <1>2 DEF PaksTypeOK
<1>6. Accounted /\ TrackedWell /\ FailedWell /\ Unique
  BY <1>1, <1>3, <1>4 DEF Accounted, TrackedWell, FailedWell, Unique
<1>7. UnloadCalls /\ LoadCalls /\ Flags
  BY <1>1, <1>3 DEF UnloadCalls, LoadCalls, Flags
<1>8. Phase
  BY <1>3, <1>4 DEF Phase, Fresh
<1> QED
  BY <1>5, <1>6, <1>7, <1>8 DEF PaksInv

\* The inductive invariant of the hooks of paks.
THEOREM PaksInvariance == PaksSpec => []PaksInv
<1>1. PaksInit => PaksInv
  BY PaksStart
<1>2. PaksInv /\ [PaksNext]_pakVars => PaksInv'
  BY PaksKept
<1> QED
  BY <1>1, <1>2, PTL DEF PaksSpec

\* Tracked paks, handles, flags and frames have their types.
THEOREM PaksTypeCorrect == PaksSpec => []PaksTypeOK
<1>1. PaksInv => PaksTypeOK
  BY DEF PaksInv
<1> QED
  BY <1>1, PaksInvariance, PTL

\* Between two requests of the game, what m_vLoadedPaks has is what the engine has
\* loaded, and no name twice but those of which a load has failed.
THEOREM TrackingExact == PaksSpec => []TrackedOnce
<1>1. PaksInv => TrackedOnce
  <2> SUFFICES ASSUME PaksInv, hooks = <<>>
               PROVE  /\ loaded = {h \in Handles : tracked[h] # Untracked}
                      /\ \A g, h \in loaded :
                           tracked[g].name = tracked[h].name => g = h \/ Excused(tracked[g].name)
    BY DEF TrackedOnce
  <2>1. Calls = {}
    BY FrameTypes DEF PaksInv, Calls, Outer
  <2>2. loaded \subseteq Handles
    BY DEF PaksInv, PaksTypeOK
  <2>3. loaded = {h \in Handles : tracked[h] # Untracked}
    BY <2>1, <2>2 DEF PaksInv, Accounted
  <2> QED
    BY <2>3 DEF PaksInv, Unique
<1> QED
  BY <1>1, PaksInvariance, PTL

\* As soon as the game has any pak, the paks mods want at all times are loaded, and no
\* unloading of maps takes them.
THEOREM AutoloadsKept == PaksSpec => []AutoloadsStay
<1>1. PaksInv => AutoloadsStay
  <2> SUFFICES ASSUME PaksInv, hooks = <<>>, loaded # {},
                      NEW i \in Entry, Entries[i].auto, Entries[i].path \notin MayFail
               PROVE  \E h \in loaded :
                        tracked[h] = [name |-> Entries[i].path, source |-> "CONSTANT"]
    BY DEF AutoloadsStay
  <2>1. Calls = {} /\ ~Loading
    BY FrameTypes DEF PaksInv, Calls, Outer, Loading
  <2>2. loaded = {h \in Handles : tracked[h] # Untracked}
    BY <2>1 DEF PaksInv, PaksTypeOK, Accounted
  <2>3. Entries[i].path \in Lasting
    BY WantedFollows DEF Lasting
  <2>4. Established
    BY <2>1, <2>2 DEF PaksInv, Phase, Fresh
  <2>5. PICK h \in Handles : tracked[h].name = Entries[i].path
    BY <2>3, <2>4 DEF Established, IsTracked
  <2>6. Entries[i].path \in Files /\ Entries[i].path \notin Names
    BY EntryFacts
  <2>7. tracked[h] # Untracked /\ tracked[h] \in [name : Files, source : Sources]
    BY <2>5, <2>6, TrackedType DEF PaksInv
  <2>8. tracked[h].source = "CONSTANT"
    BY <2>3, <2>5, <2>6, <2>7, TrackedPlain
  <2>9. tracked[h] = [name |-> Entries[i].path, source |-> "CONSTANT"]
    BY <2>5, <2>7, <2>8
  <2> QED
    BY <2>2, <2>7, <2>9
<1> QED
  BY <1>1, PaksInvariance, PTL

\* A pak that is being loaded is not loaded again by the paks that belong to it, so
\* that the hook of LoadPakAsync does not call itself for ever.
THEOREM NoRecursion == PaksSpec => []LoadsDoNotRecur
<1>1. PaksInv => LoadsDoNotRecur
  <2> SUFFICES ASSUME PaksInv, NEW i \in Calls, NEW j \in Calls, i < j,
                      hooks[i].hook = "load", hooks[j].hook = "load",
                      hooks[i].step # "enter", hooks[j].step # "enter",
                      hooks[i].name = hooks[j].name,
                      hooks[i].path \notin MayFail \/ hooks[j].path \notin MayFail
               PROVE  FALSE
    BY HooksDomain DEF PaksInv, LoadsDoNotRecur
  <2>1. Loading
    <3>1. hooks # <<>> /\ Outer \in Nat \ {0} /\ 1 \in Calls
      BY FrameTypes DEF PaksInv, Calls, Outer
    <3>2. hooks[1] \in HookFrames
      BY <3>1, FrameTypes DEF PaksInv
    <3>3. Loading \/ Unloading
      BY <3>1, <3>2 DEF Loading, Unloading, HookFrames, LoadFrames, UnloadFrames
    <3> QED
      BY <3>3 DEF PaksInv, UnloadCalls
  <2>2. CallsWell /\ PostsDiffer /\ InsidePreload /\ LastingLoads /\ NotThere
    BY <2>1 DEF PaksInv, LoadCalls
  <2>3. /\ CallOf(i) /\ CallAt(i) /\ CallOf(j) /\ CallAt(j) /\ i # Outer /\ j # 1
        /\ hooks[i] \in LoadFrames /\ hooks[j] \in LoadFrames
    BY <2>2, FrameTypes DEF PaksInv, CallsWell, Calls, Outer
  <2>4. hooks[i].name \in EntryPaths /\ hooks[i].path = hooks[i].name
    BY <2>3 DEF CallOf
  <2>5. j # Outer /\ hooks[j].path = hooks[j].name
    BY <2>3, <2>4, EntryFacts DEF CallOf
  <2>6. hooks[i].path \notin MayFail /\ hooks[j].path \notin MayFail
    BY <2>4, <2>5
  <2>7. ~Excused(hooks[i].name)
    BY <2>4, <2>6, EntryFacts, TrackedType DEF PaksInv, FailedWell, Excused
  <2>8. CASE hooks[j].step = "preload"
    <3>1. hooks[i].name \in Wanted
      BY <2>2, <2>8 DEF InsidePreload
    <3>2. hooks[j].name \notin Lasting
      BY <2>2, <2>5, <2>8 DEF LastingLoads
    <3> QED
      BY <3>1, <3>2, <2>4, <2>6 DEF Lasting
  <2>9. CASE hooks[j].step = "post"
    <3>1. hooks[j].handle # Failed /\ hooks[j].handle \in Handles
      BY <2>3, <2>6, <2>9 DEF CallAt, LoadFrames
    <3>2. tracked[hooks[j].handle].name = hooks[i].name
      BY <2>3, <2>9, <3>1 DEF CallAt
    <3>3. hooks[i].step = "post"
      <4>1. IsTracked(hooks[i].name)
        BY <3>1, <3>2 DEF IsTracked
      <4> QED
        BY <4>1, <2>2, <2>3, <2>7 DEF NotThere, LoadFrames
    <3>4. hooks[i].handle # Failed /\ hooks[i].handle \in Handles
      BY <2>3, <2>6, <3>3 DEF CallAt, LoadFrames
    <3>5. tracked[hooks[i].handle].name = hooks[i].name
      BY <2>3, <3>3, <3>4 DEF CallAt
    <3>6. tracked[hooks[i].handle] # Untracked
      BY <2>4, <3>4, <3>5, EntryFacts, TrackedType DEF PaksInv
    <3>7. hooks[i].handle = hooks[j].handle
      BY <2>7, <3>1, <3>2, <3>4, <3>5, <3>6 DEF PaksInv, Unique, Excused
    <3>8. i # j
      BY DEF Calls
    <3> QED
      BY <2>2, <2>9, <3>3, <3>4, <3>7, <3>8 DEF PostsDiffer
  <2>10. hooks[j].step \in {"preload", "post"}
    BY <2>3, <2>5 DEF CallOf
  <2> QED
    BY <2>8, <2>9, <2>10
<1> QED
  BY <1>1, PaksInvariance, PTL

-----------------------------------------------------------------------------
(* How deep hooks nest.                                                     *)

\* A call that has made another after its engine's load is of a pak others follow.
PostsFollowed ==
    \A k \in Calls : k # 1 /\ hooks[k].step = "post" =>
        \E i \in Entry : Entries[i].after = hooks[k].path

\* When the innermost hook has gone on, or has returned, what is behind it is as it was.
LEMMA PostsFollowedOn ==
    ASSUME PaksInv, PostsFollowed, hooks # <<>>, NEW f, GoesOn(f)
    PROVE  PostsFollowed'
<1> DEFINE S == HookFrames \cup {f}
<1>1. hooks \in Seq(S) /\ f \in S
  <2>1. hooks \in Seq(HookFrames)
    BY FrameTypes DEF PaksInv
  <2> HIDE DEF HookFrames
  <2> QED
    BY <2>1
<1>2. Len(hooks') = Len(hooks) /\ \A k \in 2..Len(hooks) : hooks'[k] = hooks[k]
  <2> HIDE DEF S
  <2> QED
    BY <1>1, ReplaceHead DEF GoesOn
<1>3. Calls' = Calls
  BY <1>2 DEF Calls
<1>4. Len(hooks) \in Nat
  BY FrameTypes DEF PaksInv, Outer
<1>5. \A k \in Calls : k # 1 => hooks'[k] = hooks[k]
  BY <1>2, <1>4 DEF Calls
<1> QED
  BY <1>3, <1>5 DEF PostsFollowed

LEMMA PostsFollowedBack ==
    ASSUME PaksInv, PostsFollowed, hooks # <<>>, GoesBack
    PROVE  PostsFollowed'
<1>1. /\ Calls' = 1..(Outer - 1) /\ Outer \in Nat \ {0}
      /\ \A k \in Calls' : k + 1 \in Calls /\ hooks'[k] = hooks[k + 1]
  BY HookReturns DEF PaksInv
<1>2. \A k \in Calls' : k + 1 # 1
  BY <1>1
<1> QED
  BY <1>1, <1>2 DEF PostsFollowed

\* A hook that makes a call after its load has one that follows to load.
LEMMA PostsFollowedCalls ==
    ASSUME PaksInv, PostsFollowed, hooks # <<>>, NEW f, NEW g, CallsOn(f, g),
           g.step = "post" => \E i \in Entry : Entries[i].after = g.path
    PROVE  PostsFollowed'
<1> DEFINE S == HookFrames \cup {f, g}
<1>1. hooks \in Seq(S) /\ f \in S /\ g \in S
  <2>1. hooks \in Seq(HookFrames)
    BY FrameTypes DEF PaksInv
  <2> HIDE DEF HookFrames
  <2> QED
    BY <2>1
<1>2. /\ Len(hooks') = Len(hooks) + 1 /\ hooks'[2] = g
      /\ \A k \in 3..(Len(hooks) + 1) : hooks'[k] = hooks[k - 1]
  <2> HIDE DEF S
  <2> QED
    BY <1>1, PushReplaced DEF CallsOn
<1>3. Len(hooks) \in Nat /\ Calls' = 1..(Len(hooks) + 1)
  BY <1>2, FrameTypes DEF PaksInv, Outer, Calls
<1>4. ASSUME NEW k \in Calls', k # 1, hooks'[k].step = "post"
      PROVE  \E i \in Entry : Entries[i].after = hooks'[k].path
  <2>1. CASE k = 2
    BY <1>2, <1>4, <2>1
  <2>2. CASE k # 2
    <3>1. k \in 3..(Len(hooks) + 1) /\ k - 1 \in Calls /\ k - 1 # 1
      BY <1>3, <1>4, <2>2 DEF Calls
    <3>2. hooks'[k] = hooks[k - 1]
      BY <1>2, <3>1
    <3> QED
      BY <1>4, <3>1, <3>2 DEF PostsFollowed
  <2> QED
    BY <2>1, <2>2
<1> QED
  BY <1>4 DEF PostsFollowed

\* Every step keeps it.
LEMMA PostsFollowedKept ==
    ASSUME PaksInv, PostsFollowed, [PaksNext]_pakVars
    PROVE  PostsFollowed'
<1>1. CASE hooks' = hooks
  BY <1>1 DEF PostsFollowed, Calls
<1>2. CASE hooks # <<>> /\ GoesBack
  BY <1>2, PostsFollowedBack
<1>3. ASSUME hooks # <<>>, NEW f, GoesOn(f) PROVE PostsFollowed'
  BY <1>3, PostsFollowedOn
<1>4. ASSUME NEW f, hooks' = <<f>> PROVE PostsFollowed'
  <2>1. Calls' = {1}
    BY <1>4 DEF Calls
  <2> QED
    BY <2>1 DEF PostsFollowed
<1>5. CASE LoadNext
  <2>1. PICK source \in {"CONSTANT", "MAP"} :
          /\ Running("load", "preload") \/ Running("load", "post") \/ Running("load", "map")
          /\ inner.todo # {}
          /\ CallsOn(LoadCall(Entries[First(inner.todo)].path, source),
                     [inner EXCEPT !.todo = @ \ {First(inner.todo)}])
    BY <1>5 DEF LoadNext, CallsOn
  <2>2. hooks # <<>> /\ inner = hooks[1] /\ inner \in LoadFrames /\ CallAt(1)
    BY <2>1, InLoad DEF CallsWell
  <2>3. inner.step = "post" => \E i \in Entry : Entries[i].after = inner.path
    BY <2>1, <2>2 DEF CallAt, LoadFrames
  <2> DEFINE g == [inner EXCEPT !.todo = @ \ {First(inner.todo)}]
  <2>4. g.step = inner.step /\ g.path = inner.path
    BY <2>2 DEF LoadFrames
  <2> HIDE DEF g
  <2>5. CallsOn(LoadCall(Entries[First(inner.todo)].path, source), g)
    BY <2>1 DEF g
  <2> QED
    BY <2>2, <2>3, <2>4, <2>5, PostsFollowedCalls
<1>6. CASE UnloadNext
  <2>1. Running("unload", "maps")
    BY <1>6 DEF UnloadNext
  <2>2. hooks # <<>> /\ inner \in UnloadFrames
    BY <2>1, InUnload
  <2>3. ASSUME NEW h, CallsOn(UnloadCall(h), [inner EXCEPT !.at = h]) PROVE PostsFollowed'
    <3> DEFINE g == [inner EXCEPT !.at = h]
    <3>1. g.step # "post"
      BY <2>2 DEF UnloadFrames
    <3> HIDE DEF g
    <3>2. CallsOn(UnloadCall(h), g)
      BY <2>3 DEF g
    <3> QED
      BY <2>2, <3>1, <3>2, PostsFollowedCalls
  <2> QED
    BY <1>1, <1>3, <1>6, <2>2, <2>3 DEF UnloadNext, CallsOn, GoesOn
<1>7. CASE Enter \/ MapPaks \/ MapPaksEnd \/ EngineLoads \/ LoadEnds
  BY <1>2, <1>3, <1>7
     DEF Enter, MapPaks, MapPaksEnd, EngineLoads, LoadEnds, Returns, Running, GoesOn, GoesBack
<1>8. CASE EnterUnload \/ EngineUnloads
  BY <1>2, <1>3, <1>8 DEF EnterUnload, EngineUnloads, Running, GoesOn, GoesBack
<1>9. ASSUME NEW name \in Names, Request(name) PROVE PostsFollowed'
  BY <1>4, <1>9 DEF Request
<1>10. ASSUME NEW handle \in Handles, RequestUnload(handle) PROVE PostsFollowed'
  BY <1>4, <1>10 DEF RequestUnload
<1> QED
  BY <1>1, <1>5, <1>6, <1>7, <1>8, <1>9, <1>10 DEF PaksNext, pakVars

\* There are finitely many paks to follow.
LEMMA FollowedFinite == IsFiniteSet(Followed) /\ Cardinality(Followed) \in Nat
<1> DEFINE E == [path : Files \ Names, name : Names, auto : BOOLEAN,
                 after : Files \cup {"never"}]
<1>1. Entry = 1..Len(Entries) /\ Len(Entries) \in Nat
  <2> HIDE DEF E
  <2>1. Entries \in Seq(E)
    BY PaksAssumption DEF E
  <2> QED
    BY <2>1 DEF Entry
<1>2. IsFiniteSet(Entry)
  BY <1>1, FS_Interval
<1> DEFINE f == [i \in Entry |-> Entries[i].path]
<1>3. f \in Surjection(Entry, EntryPaths)
  BY DEF EntryPaths, Surjection
<1>4. IsFiniteSet(EntryPaths)
  <2> HIDE DEF f
  <2> QED
    BY <1>2, <1>3, FS_Surjection
<1>5. Followed \in SUBSET EntryPaths
  BY DEF Followed
<1> QED
  BY <1>4, <1>5, FS_Subset, FS_CardinalityType

\* Between the game's load and the innermost one are loads of paks that others follow,
\* each once, and at most one that is gathering paks.
LEMMA NestedLoads ==
    ASSUME PaksInv, PostsFollowed, Followed \cap MayFail = {}, Loading
    PROVE  Outer <= Cardinality(Followed) + 3
<1>1. Outer \in Nat \ {0}
  BY FrameTypes DEF PaksInv, Loading
<1> DEFINE M == 2..(Outer - 1)
           T == Followed \cup {"none"}
           f == [k \in M |-> IF hooks[k].step = "post" THEN hooks[k].name ELSE "none"]
<1>2. /\ CallsWell /\ OneOpening /\ PostsDiffer
      /\ \A k \in M : k \in Calls /\ k # 1 /\ k # Outer
  BY <1>1 DEF PaksInv, LoadCalls, Calls, Outer
<1>3. \A k \in M : CallOf(k) /\ CallAt(k) /\ hooks[k] \in LoadFrames
  BY <1>2, FrameTypes DEF PaksInv, CallsWell, CallOf
<1>4. \A k \in M : /\ hooks[k].step \in {"preload", "post"}
                   /\ hooks[k].name \in EntryPaths /\ hooks[k].path = hooks[k].name
  BY <1>2, <1>3 DEF CallOf
<1>5. ASSUME NEW k \in M, hooks[k].step = "post"
      PROVE  /\ hooks[k].name \in Followed /\ hooks[k].handle \in Handles
             /\ tracked[hooks[k].handle].name = hooks[k].name
             /\ tracked[hooks[k].handle] # Untracked
             /\ ~Excused(hooks[k].name)
  <2>1. hooks[k].name \in Followed
    BY <1>2, <1>4, <1>5 DEF PostsFollowed, Followed
  <2>2. hooks[k].name \notin MayFail /\ hooks[k].name \in Files \ Names
    BY <2>1, <1>4, EntryFacts
  <2>3. hooks[k].handle # Failed /\ hooks[k].handle \in Handles
    BY <2>2, <1>3, <1>4, <1>5 DEF CallAt, LoadFrames
  <2>4. tracked[hooks[k].handle].name = hooks[k].name
    BY <2>3, <1>3, <1>5 DEF CallAt
  <2>5. tracked[hooks[k].handle] # Untracked
    BY <2>2, <2>3, <2>4, TrackedType DEF PaksInv
  <2>6. ~Excused(hooks[k].name)
    BY <2>2, TrackedType DEF PaksInv, FailedWell, Excused
  <2> QED
    BY <2>1, <2>3, <2>4, <2>5, <2>6
<1>6. ASSUME NEW j \in M, NEW k \in M, f[j] = f[k] PROVE j = k
  <2>1. \A n \in Followed : n # "none"
    BY EntryFacts DEF Followed
  <2>2. CASE hooks[j].step = "post"
    <3>1. hooks[k].step = "post" /\ hooks[j].name = hooks[k].name
      BY <1>5, <1>6, <2>1, <2>2
    <3>2. hooks[j].handle = hooks[k].handle /\ hooks[j].handle # Failed
      BY <1>5, <2>2, <3>1, EntryFacts DEF PaksInv, Unique
    <3> QED
      BY <1>2, <2>2, <3>1, <3>2 DEF PostsDiffer
  <2>3. CASE hooks[j].step = "preload"
    <3>1. hooks[k].step = "preload"
      BY <1>4, <1>5, <1>6, <2>1, <2>3
    <3> QED
      BY <1>2, <2>3, <3>1 DEF OneOpening, Opening
  <2> QED
    BY <1>4, <2>2, <2>3
<1>7. f \in Injection(M, T)
  <2>1. f \in [M -> T]
    BY <1>5
  <2> HIDE DEF f
  <2> QED
    BY <2>1, <1>6 DEF Injection, IsInjective
<1>8. IsFiniteSet(T) /\ Cardinality(T) <= Cardinality(Followed) + 1
  <2>1. /\ IsFiniteSet(T)
        /\ Cardinality(T) =
             IF "none" \in Followed THEN Cardinality(Followed) ELSE Cardinality(Followed) + 1
    BY FollowedFinite, FS_AddElement
  <2> QED
    BY <2>1, FollowedFinite
<1>9. Cardinality(M) <= Cardinality(T) /\ Cardinality(T) \in Nat
  <2> HIDE DEF f, M, T
  <2> QED
    BY <1>7, <1>8, FS_Injection, FS_CardinalityType
<1>10. Cardinality(M) = IF 2 > Outer - 1 THEN 0 ELSE Outer - 2
  <2>1. Cardinality(M) = IF 2 > Outer - 1 THEN 0 ELSE (Outer - 1) - 2 + 1
    BY <1>1, FS_Interval
  <2> QED
    BY <2>1, <1>1
<1> HIDE DEF M, T, f
<1> QED
  BY <1>1, <1>8, <1>9, <1>10, FollowedFinite

\* However the mods' paks follow each other, the hook of LoadPakAsync is not nested
\* deeper than they are many.
THEOREM NestingIsBounded == PaksSpec => []NestingBounded
<1>1. PaksInit => PostsFollowed
  <2> SUFFICES ASSUME PaksInit PROVE PostsFollowed
    OBVIOUS
  <2>1. Calls = {}
    BY DEF PaksInit, Calls
  <2> QED
    BY <2>1 DEF PostsFollowed
<1>2. PaksInv /\ PostsFollowed /\ [PaksNext]_pakVars => PostsFollowed'
  BY PostsFollowedKept
<1>3. PaksInv /\ PostsFollowed => NestingBounded
  <2> SUFFICES ASSUME PaksInv, PostsFollowed, Followed \cap MayFail = {}
               PROVE  Len(hooks) <= Cardinality(Followed) + 3
    BY DEF NestingBounded
  <2>1. CASE hooks = <<>>
    BY <2>1, FollowedFinite
  <2>2. CASE Loading
    BY <2>2, NestedLoads DEF Outer
  <2>3. CASE Unloading
    <3>1. Outer \in {1, 2}
      BY <2>3 DEF PaksInv, UnloadCalls
    <3>2. Outer <= Cardinality(Followed) + 3
      BY <3>1, FollowedFinite
    <3> QED
      BY <3>2 DEF Outer
  <2>4. hooks = <<>> \/ Loading \/ Unloading
    <3>1. hooks # <<>> => hooks[1] \in HookFrames
      BY FrameTypes DEF PaksInv
    <3> QED
      BY <3>1 DEF Loading, Unloading, HookFrames, LoadFrames, UnloadFrames
  <2> QED
    BY <2>1, <2>2, <2>3, <2>4
<1> QED
  BY <1>1, <1>2, <1>3, PaksInvariance, PTL DEF PaksSpec

-----------------------------------------------------------------------------
(* Where no load fails.                                                     *)

\* No failed load is tracked.
NoneFailed == tracked[Failed] = Untracked

LEMMA NoneFailedKept ==
    ASSUME MayFail = {}, PaksInv, NoneFailed, [PaksNext]_pakVars
    PROVE  NoneFailed'
<1>1. DOMAIN tracked = Handles \cup {Failed} /\ Failed \notin Handles
  BY TrackedType, EntryFacts DEF PaksInv
<1>2. CASE UNCHANGED tracked
  BY <1>2 DEF NoneFailed
<1>3. ASSUME NEW handle, Returns(handle) PROVE NoneFailed'
  BY <1>1, <1>3 DEF Returns, NoneFailed
<1>4. CASE EngineLoads
  <2>1. PICK handle \in Handles : tracked' = Tracking(handle, inner.name)
    BY <1>4 DEF EngineLoads
  <2> QED
    BY <2>1, <1>1 DEF Tracking, NoneFailed
<1>5. CASE EnterUnload
  <2>1. inner.handle \in Handles
    BY <1>5, InUnload DEF EnterUnload
  <2>2. tracked' = [tracked EXCEPT ![inner.handle] = Untracked]
    BY <1>5 DEF EnterUnload
  <2> QED
    BY <2>1, <2>2, <1>1 DEF NoneFailed
<1>6. CASE Enter \/ MapPaksEnd \/ LoadEnds
  BY <1>2, <1>3, <1>6 DEF Enter, MapPaksEnd, LoadEnds
<1>7. CASE LoadNext \/ MapPaks \/ UnloadNext \/ EngineUnloads
  BY <1>2, <1>7 DEF LoadNext, MapPaks, UnloadNext, EngineUnloads
<1>8. ASSUME NEW name \in Names, Request(name) PROVE NoneFailed'
  BY <1>2, <1>8 DEF Request
<1>9. ASSUME NEW handle \in Handles, RequestUnload(handle) PROVE NoneFailed'
  BY <1>2, <1>9 DEF RequestUnload
<1> QED
  BY <1>2, <1>4, <1>5, <1>6, <1>7, <1>8, <1>9 DEF PaksNext, pakVars

\* Where the engine loads whatever it is asked for, a pak that is loaded is not loaded
\* again, in no hook and at no depth, as the comment in LoadPakAsync says.  What the run
\* in which paks may fail finds is due to nothing but the failed load.
THEOREM LoadedOnceUnlessFailed == ASSUME MayFail = {} PROVE PaksSpec => []LoadedOnce
<1>1. PaksInit => NoneFailed
  BY DEF PaksInit, NoneFailed
<1>2. PaksInv /\ NoneFailed /\ [PaksNext]_pakVars => NoneFailed'
  BY NoneFailedKept
<1>3. PaksInv /\ NoneFailed => LoadedOnce
  <2> SUFFICES ASSUME PaksInv, NoneFailed, NEW g \in loaded, NEW h \in loaded,
                      tracked[g].name = tracked[h].name, tracked[g] # Untracked
               PROVE  g = h
    BY DEF LoadedOnce
  <2>1. g \in Handles /\ h \in Handles
    BY DEF PaksInv, PaksTypeOK
  <2>2. g = h \/ Excused(tracked[g].name)
    BY <2>1 DEF PaksInv, Unique
  <2>3. tracked[g].name \in Files /\ tracked[Failed].name \notin Files
    BY <2>1, TrackedType DEF PaksInv, NoneFailed
  <2> QED
    BY <2>2, <2>3 DEF Excused
<1> QED
  BY <1>1, <1>2, <1>3, PaksInvariance, PTL DEF PaksSpec
=============================================================================
