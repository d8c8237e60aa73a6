-------------------------- MODULE BanSystem_proofs --------------------------
(***************************************************************************)
(* For any accounts and any file: while the main thread is the only one    *)
(* that checks, the ban system implements BanList.                         *)
(*                                                                         *)
(* What makes it so is that the copy and the unread lines together hold    *)
(* what the file bans at every step of a check of a file that opens        *)
(* (Reading), that nothing is written while the file is locked, and that   *)
(* a locked file counts as one others had (Locks).                         *)
(***************************************************************************)
EXTENDS BanSystem, TLAPS

Alone == Checkers = {MainThread}

Now == check[MainThread]

Reading ==
    /\ Now.pc = "idle" => Now.unread = {}
    /\ Now.pc = "reading" =>
         /\ writing = Missing
         /\ ~Opens => Now.unread = {}
         /\ Opens => \A uid \in Uids :
              uid \in Banned <=> uid \in memory \/ uid \in BannedBy(Now.unread)

Locks ==
    /\ locked => file # Missing /\ stale
    /\ writing # Missing => ~locked

Complete == Now = Idle /\ ~stale => Banned \subseteq memory

\* The inductive invariant.
IInv == TypeOK /\ Reading /\ Locks /\ Complete

-----------------------------------------------------------------------------
(* What the operators on lines do.                                          *)

LEMMA BannedByIn ==
    ASSUME NEW lines, NEW uid
    PROVE  uid \in BannedBy(lines) <=> \E l \in lines : l.form # "comment" /\ l.uid = uid
BY DEF BannedBy

LEMMA BannedByUnion ==
    ASSUME NEW some, NEW more
    PROVE  BannedBy(some \cup more) = BannedBy(some) \cup BannedBy(more)
BY DEF BannedBy

LEMMA BannedByType ==
    ASSUME NEW lines \in SUBSET Lines PROVE BannedBy(lines) \subseteq Uids
BY DEF BannedBy, Lines, Blank

LEMMA CommentOutBans ==
    ASSUME NEW lines \in SUBSET Lines, NEW uid \in Uids \cup {0}
    PROVE  /\ CommentOut(lines, uid) \in SUBSET Lines
           /\ BannedBy(CommentOut(lines, uid)) = BannedBy(lines) \ {uid}
<1> USE BanAssumption
<1>1. [uid |-> uid, form |-> "comment"] \in Lines
  BY DEF Lines, Blank
<1>2. CommentOut(lines, uid) \in SUBSET Lines
  BY <1>1 DEF CommentOut
<1>3. ASSUME NEW u \in BannedBy(CommentOut(lines, uid)) PROVE u \in BannedBy(lines) \ {uid}
  BY DEF BannedBy, CommentOut
<1>4. ASSUME NEW u \in BannedBy(lines) \ {uid} PROVE u \in BannedBy(CommentOut(lines, uid))
  <2>1. PICK line \in lines : line.uid = u /\ line.form # "comment"
    BY DEF BannedBy
  <2>2. line \in CommentOut(lines, uid)
    BY <2>1 DEF CommentOut
  <2> QED BY <2>1, <2>2 DEF BannedBy
<1> QED BY <1>2, <1>3, <1>4

\* What a finished operation leaves in last.
Answers == [op : {"none", "ban", "unban", "clear", "edit", "check"},
            uid : Uids \cup {0}, allowed : BOOLEAN]

LEMMA DoneType ==
    ASSUME NEW op \in {"none", "ban", "unban", "clear", "edit", "check"},
           NEW uid \in Uids \cup {0}, NEW allowed \in BOOLEAN
    PROVE  Done(op, uid, allowed) \in Answers
BY DEF Done, Answers

LEMMA TextType == ASSUME TypeOK PROVE Text \in SUBSET Lines /\ OnDisk \in SUBSET Lines
BY DEF TypeOK, Text, OnDisk, Opens

\* Between operations what is known is the copy, and the accounts of what is on disk
\* are those on file.
LEMMA IdleViews ==
    ASSUME TypeOK, Reading, Now = Idle
    PROVE  /\ Known = memory \ {0}
           /\ writing = Missing => Banned = BannedBy(OnDisk)
           /\ Banned \subseteq Uids /\ memory \subseteq Uids \cup {0}
<1>1. BannedBy(Now.unread) = {}
  BY DEF Idle, BannedBy
<1>2. Known = memory \ {0}
  BY <1>1 DEF Known, Now
<1>3. Banned \subseteq Uids
  BY BannedByType, TextType DEF Banned, TypeOK
<1> QED BY <1>2, <1>3 DEF Banned, TypeOK

\* What a finished operation leaves of the copy is what is known then.
LEMMA KnownAfter ==
    ASSUME Now' = Idle PROVE Known' = memory' \ {0}
<1>1. BannedBy(Now'.unread) = {}
  BY DEF Idle, BannedBy
<1> QED BY <1>1 DEF Known, Now

-----------------------------------------------------------------------------
(* The steps.  Each keeps the invariant and is a step of the promise.       *)

LEMMA InitIInv == Init => IInv /\ Abstract!Init
<1> SUFFICES ASSUME Init PROVE IInv /\ Abstract!Init
  OBVIOUS
<1> USE BanAssumption
<1>1. Text \in SUBSET Lines /\ OnDisk \in SUBSET Lines
  BY DEF Init, Text, OnDisk, Opens
<1>2. /\ BannedBy(Text) \subseteq Uids /\ BannedBy(OnDisk) \subseteq Uids
      /\ Banned = BannedBy(OnDisk) /\ Now = Idle
  BY <1>1, BannedByType DEF Init, Banned, Now
<1>3. TypeOK
  BY <1>1, <1>2, DoneType DEF Init, TypeOK, Answers
<1>4. Reading /\ Locks
  BY <1>2 DEF Init, Reading, Locks, Idle
<1>5. Complete
  BY <1>2 DEF Init, Complete, Text, OnDisk, Opens, BannedBy
<1>6. Known = memory \ {0} /\ memory = BannedBy(Text)
  BY <1>2, <1>3, <1>4, IdleViews DEF Init
<1>7. BannedBy({}) = {}
  BY DEF BannedBy
<1>8. Known = IF Access = "open" THEN Banned ELSE {}
  <2>1. Text = IF Access = "open" THEN OnDisk ELSE {}
    BY DEF Init, Access, Text, OnDisk, Opens
  <2> QED BY <1>2, <1>6, <1>7, <2>1
<1>9. /\ Access \in {"open", "missing", "locked"}
      /\ Access = "missing" => Banned = {}
  BY <1>2, <1>7 DEF Init, Access, OnDisk
<1> QED BY <1>2, <1>3, <1>4, <1>5, <1>8, <1>9
        DEF Init, IInv, Done, Abstract!Init, Abstract!Done, Abstract!Accesses

LEMMA StepBeginCheck ==
    ASSUME IInv, BeginCheck(MainThread)
    PROVE  IInv' /\ (Abstract!Look \/ UNCHANGED <<Banned, Known, Access, last>>)
<1> USE BanAssumption
<1>1. PICK uid \in Uids : Reload(MainThread, uid)
  BY DEF BeginCheck
<1>2. /\ UNCHANGED <<file, locked, writing, last>>
      /\ writing = Missing /\ stale' = (stale /\ ~Opens) /\ Now = Idle
      /\ memory' = IF Opens THEN {} ELSE memory
      /\ Now' = [pc |-> "reading", uid |-> uid, unread |-> Text, listed |-> uid \in BannedBy(Text)]
  BY <1>1 DEF BeginCheck, Reload, IInv, TypeOK, Now
<1>3. UNCHANGED <<Banned, Access, last>> /\ Banned = BannedBy(OnDisk)
  BY <1>2 DEF Banned, OnDisk, Access
<1>4. TypeOK'
  <2>1. (uid \in BannedBy(Text)) \in BOOLEAN
    OBVIOUS
  <2>2. [pc |-> "reading", uid |-> uid, unread |-> Text, listed |-> uid \in BannedBy(Text)]
          \in [pc : {"reading"}, uid : Uids, unread : SUBSET Lines, listed : BOOLEAN]
    <3> DEFINE b == uid \in BannedBy(Text)
    <3>1. b \in BOOLEAN
      OBVIOUS
    <3> HIDE DEF b
    <3>2. [pc |-> "reading", uid |-> uid, unread |-> Text, listed |-> b]
          \in [pc : {"reading"}, uid : Uids, unread : SUBSET Lines, listed : BOOLEAN]
      BY <3>1, TextType DEF IInv
    <3> QED BY <3>2 DEF b
  <2> HIDE DEF Text, BannedBy
  <2>3. check' \in [Checkers ->
         {Idle} \cup [pc : {"reading"}, uid : Uids, unread : SUBSET Lines, listed : BOOLEAN]]
    BY <1>1, <2>2 DEF Reload, IInv, TypeOK
  <2>4. stale' \in BOOLEAN
    BY <1>2
  <2> QED BY <1>2, <2>3, <2>4 DEF IInv, TypeOK
<1>5. Opens' = Opens
  BY <1>2 DEF Opens
<1>6. Reading'
  <2>1. CASE ~Opens
    BY <1>2, <1>5, <2>1 DEF Reading, Text
  <2>2. CASE Opens
    <3>1. Text = OnDisk
      BY <2>2 DEF Text, OnDisk, Opens
    <3> QED BY <1>2, <1>3, <1>5, <2>2, <3>1 DEF Reading
  <2> QED BY <2>1, <2>2
<1>7. Locks' /\ Complete'
  BY <1>2 DEF IInv, Locks, Complete, Idle, Opens
<1>8. Known' = (memory' \cup BannedBy(Text)) \ {0}
  BY <1>2 DEF Known, Now
<1>9. CASE Opens
  <2>1. Text = OnDisk /\ Access = "open" /\ Banned \subseteq Uids
    BY <1>2, <1>9, IdleViews DEF Text, OnDisk, Opens, Access, IInv
  <2>2. Known' = Banned
    BY <1>2, <1>3, <1>8, <1>9, <2>1
  <2> QED BY <1>3, <1>4, <1>6, <1>7, <2>1, <2>2 DEF IInv, Abstract!Look
<1>10. CASE ~Opens
  <2>1. BannedBy(Text) = {}
    BY <1>10 DEF Text, BannedBy
  <2>2. Known = memory \ {0}
    BY <1>2, IdleViews DEF IInv
  <2>3. Known' = Known
    BY <1>2, <1>8, <1>10, <2>1, <2>2
  <2> QED BY <1>3, <1>4, <1>6, <1>7, <2>3 DEF IInv
<1> QED BY <1>9, <1>10

LEMMA StepNextLine ==
    ASSUME IInv, NextLine(MainThread)
    PROVE  IInv' /\ UNCHANGED <<Banned, Known, Access, last>>
<1> USE BanAssumption
<1>1. PICK line \in Now.unread :
        /\ memory' = memory \cup {ReadLine(line)}
        /\ check' = [check EXCEPT ![MainThread].unread = @ \ {line}]
  BY DEF NextLine, Now
<1>2. Now.pc = "reading" /\ Now \in [pc : {"reading"}, uid : Uids,
                                     unread : SUBSET Lines, listed : BOOLEAN]
  BY <1>1 DEF IInv, TypeOK, Now, Idle
<1>3. /\ UNCHANGED <<file, locked, writing, last, stale>>
      /\ line \in Lines
      /\ Now' = [Now EXCEPT !.unread = @ \ {line}]
  BY <1>1, <1>2 DEF NextLine, IInv, TypeOK, Now
<1>4. UNCHANGED <<Banned, Access, last, Opens>>
  BY <1>3 DEF Banned, OnDisk, Access, Opens
<1>5. ReadLine(line) \in Uids \cup {0}
  BY <1>3 DEF ReadLine, Lines, Blank
<1>6. TypeOK'
  <2>1. Now' \in [pc : {"reading"}, uid : Uids, unread : SUBSET Lines, listed : BOOLEAN]
    BY <1>2, <1>3
  <2> QED BY <1>1, <1>3, <1>5, <2>1 DEF IInv, TypeOK, Now
<1>7. ASSUME NEW uid
      PROVE  uid \in BannedBy(Now.unread) <=>
               \/ uid \in BannedBy(Now.unread \ {line})
               \/ line.form # "comment" /\ line.uid = uid
  <2> DEFINE Bans(l) == l.form # "comment" /\ l.uid = uid
  <2>1. uid \in BannedBy(Now.unread) <=> \E l \in Now.unread : Bans(l)
    BY BannedByIn
  <2>2. uid \in BannedBy(Now.unread \ {line}) <=> \E l \in Now.unread \ {line} : Bans(l)
    BY BannedByIn
  <2>3. line \in Now.unread
    BY <1>1
  <2> HIDE DEF Bans
  <2>4. uid \in BannedBy(Now.unread) <=> uid \in BannedBy(Now.unread \ {line}) \/ Bans(line)
    BY <2>1, <2>2, <2>3
  <2> QED BY <2>4 DEF Bans
<1>8. ASSUME NEW uid, uid # 0
      PROVE  uid \in memory' \/ uid \in BannedBy(Now'.unread)
               <=> uid \in memory \/ uid \in BannedBy(Now.unread)
  <2>1. ReadLine(line) = uid <=> line.form # "comment" /\ line.uid = uid
    BY <1>8 DEF ReadLine
  <2>2. uid \in memory' <=> uid \in memory \/ ReadLine(line) = uid
    BY <1>1
  <2>3. Now'.unread = Now.unread \ {line}
    BY <1>2, <1>3
  <2> HIDE DEF Now, BannedBy, ReadLine
  <2> QED BY <1>7, <2>1, <2>2, <2>3
<1>9. Reading'
  <2>1. Now'.pc = "reading" /\ Now'.unread = Now.unread \ {line} /\ writing' = Missing
    BY <1>2, <1>3 DEF IInv, Reading
  <2>2. \A uid \in Uids : uid # 0
    OBVIOUS
  <2>3. ~Opens' => Now'.unread = {}
    BY <1>2, <1>4, <2>1 DEF IInv, Reading
  <2>4. ASSUME Opens', NEW uid \in Uids
        PROVE  uid \in Banned' <=> uid \in memory' \/ uid \in BannedBy(Now'.unread)
    <3>1. uid \in Banned <=> uid \in memory \/ uid \in BannedBy(Now.unread)
      BY <1>2, <1>4, <2>4 DEF IInv, Reading
    <3>2. Banned' = Banned
      BY <1>4
    <3> HIDE DEF Now, BannedBy, Banned
    <3> QED BY <1>8, <2>2, <3>1, <3>2
  <2> QED BY <2>1, <2>3, <2>4 DEF Reading
<1>10. Known' = Known
  <2>1. Known' = (memory' \cup BannedBy(Now'.unread)) \ {0}
    BY DEF Known, Now
  <2>2. Known = (memory \cup BannedBy(Now.unread)) \ {0}
    BY DEF Known, Now
  <2> HIDE DEF Now, BannedBy, Known
  <2> QED BY <1>8, <2>1, <2>2
<1>11. Locks' /\ Complete'
  <2>1. Now' # Idle
    BY <1>2, <1>3 DEF Idle
  <2> QED BY <1>3, <2>1 DEF IInv, Locks, Complete
<1> QED BY <1>4, <1>6, <1>9, <1>10, <1>11 DEF IInv

\* The answer is the one that the file gives.
LEMMA StepFind ==
    ASSUME IInv, Find(MainThread)
    PROVE  IInv' /\ \E uid \in Uids : Abstract!Check(uid)
<1> USE BanAssumption
<1>1. Now.pc = "reading" /\ Now.uid \in Uids /\ Now.unread = {}
  BY DEF Find, IInv, TypeOK, Now, Idle
<1>2. /\ UNCHANGED <<file, locked, memory, writing, stale>>
      /\ last' = Done("check", Now.uid, Now.uid \notin memory)
      /\ Now' = Idle
      /\ check' = [check EXCEPT ![MainThread] = Idle]
  BY DEF Find, Now, IInv, TypeOK
<1>3. UNCHANGED <<Banned, Access>>
  BY <1>2 DEF Banned, OnDisk, Access
<1>4. BannedBy(Now.unread) = {}
  BY <1>1 DEF BannedBy
<1>5. Known = memory \ {0} /\ Known' = memory \ {0}
  BY <1>2, <1>4, KnownAfter DEF Known, Now
<1>6. Banned \subseteq Uids /\ memory \subseteq Uids \cup {0}
  BY BannedByType, TextType DEF Banned, IInv, TypeOK
<1>7. Opens => \A uid \in Uids : uid \in Banned <=> uid \in memory
  BY <1>1, <1>4 DEF IInv, Reading
<1>8. Access = "open" => Opens
  BY <1>1 DEF IInv, Reading, Access, Opens
<1>9. Abstract!Check(Now.uid)
  <2>1. Access = "open" => Known = Banned
    BY <1>5, <1>6, <1>7, <1>8
  <2>2. last' = Done("check", Now.uid, Now.uid \notin Known)
    BY <1>1, <1>2, <1>5
  <2> QED BY <1>3, <1>5, <2>1, <2>2 DEF Done, Abstract!Check, Abstract!Done
<1>10. TypeOK'
  <2>1. (Now.uid \notin memory) \in BOOLEAN
    OBVIOUS
  <2>2. last' \in Answers
    BY <1>1, <1>2, <2>1, DoneType
  <2> QED BY <1>2, <2>2 DEF IInv, TypeOK, Answers
<1>11. Reading' /\ Locks' /\ Complete'
  <2>1. Reading'
    BY <1>2 DEF Reading, Idle
  <2>2. Locks'
    BY <1>2 DEF IInv, Locks
  <2>3. ~stale /\ ~Opens => Banned = {}
    BY <1>1 DEF IInv, Reading, Locks, Opens, Banned, OnDisk, BannedBy
  <2>4. Complete'
    BY <1>2, <1>3, <1>6, <1>7, <2>3 DEF Complete
  <2> QED BY <2>1, <2>2, <2>4
<1> QED BY <1>1, <1>9, <1>10, <1>11 DEF IInv

\* What the commands have in common: they start when the main thread is free.
LEMMA FreeIsIdle ==
    ASSUME IInv, MainIsFree
    PROVE  /\ Now = Idle /\ writing = Missing /\ Banned = BannedBy(OnDisk)
           /\ Known = memory \ {0}
           /\ Text \in SUBSET Lines /\ OnDisk \in SUBSET Lines
           /\ ~locked => Text = OnDisk
           /\ Access = "locked" <=> locked
BY TextType, IdleViews DEF MainIsFree, Now, IInv, Text, OnDisk, Opens, Access

\* What a command does to the accounts on file: it writes lines, or, while the file is
\* locked, nothing.
LEMMA StoreLines ==
    ASSUME IInv, MainIsFree, NEW lines \in SUBSET Lines,
           writing' = Writing(lines), locked' = locked,
           file' = file \/ file' = Truncated
    PROVE  /\ Abstract!Store(BannedBy(lines))
           /\ writing' \in {Missing} \cup SUBSET Lines
           /\ file' \in {Missing} \cup SUBSET Lines
<1> USE BanAssumption
<1>1. lines # Missing /\ (Access = "locked" <=> locked) /\ Banned = BannedBy(OnDisk)
  BY FreeIsIdle
<1>2. CASE locked
  <2>1. file' = file /\ writing' = Missing /\ writing = Missing
    BY <1>2, FreeIsIdle DEF Writing, Truncated
  <2>2. Banned' = Banned /\ Access' = Access
    BY <2>1 DEF Banned, OnDisk, Access
  <2>3. Abstract!Store(BannedBy(lines))
    BY <1>1, <1>2, <2>2 DEF Abstract!Store
  <2> QED BY <1>2, <2>1, <2>3 DEF IInv, TypeOK
<1>3. CASE ~locked
  <2>1. writing' = lines
    BY <1>3 DEF Writing
  <2>2. Banned' = BannedBy(lines) /\ Access' = "open"
    BY <1>1, <1>3, <2>1 DEF Banned, Access
  <2>3. Abstract!Store(BannedBy(lines))
    BY <1>1, <1>3, <2>2 DEF Abstract!Store
  <2> QED BY <1>3, <2>1, <2>3 DEF IInv, TypeOK, Truncated
<1> QED BY <1>2, <1>3

LEMMA StepBan ==
    ASSUME IInv, BanUID PROVE IInv' /\ \E uid \in Uids : Abstract!Ban(uid)
<1> USE BanAssumption
<1>1. PICK uid \in Uids, blank \in {{}, {Blank}} :
        /\ memory' = memory \cup {uid}
        /\ writing' = Writing(Text \cup blank \cup {[uid |-> uid, form |-> "plain"]})
        /\ last' = Done("ban", uid, FALSE)
  BY DEF BanUID, Append
<1>2. /\ MainIsFree /\ Now = Idle /\ Banned = BannedBy(OnDisk) /\ Text \in SUBSET Lines
      /\ Known = memory \ {0} /\ (~locked => Text = OnDisk)
      /\ Access = "locked" <=> locked
      /\ UNCHANGED <<file, locked, check, stale>>
  BY FreeIsIdle DEF BanUID
<1> DEFINE line == [uid |-> uid, form |-> "plain"]
           lines == Text \cup blank \cup {line}
<1>3. lines \in SUBSET Lines
  BY <1>1, <1>2 DEF Lines, Blank
<1>4. BannedBy(lines) = BannedBy(Text) \cup {uid}
  <2>1. BannedBy(blank) = {}
    <3>1. Blank.form = "comment"
      BY DEF Blank
    <3> QED BY <1>1, <3>1 DEF BannedBy
  <2>2. BannedBy({line}) = {uid}
    <3>1. line.form # "comment" /\ line.uid = uid
      OBVIOUS
    <3> HIDE DEF line
    <3> QED BY <3>1 DEF BannedBy
  <2>3. BannedBy((Text \cup blank) \cup {line}) = BannedBy(Text \cup blank) \cup BannedBy({line})
    BY BannedByUnion
  <2>4. BannedBy(Text \cup blank) = BannedBy(Text) \cup BannedBy(blank)
    BY BannedByUnion
  <2> HIDE DEF line
  <2> QED BY <2>1, <2>2, <2>3, <2>4
<1> HIDE DEF lines
<1>5. writing' = Writing(lines)
  BY <1>1 DEF lines
<1>6. /\ Abstract!Store(BannedBy(lines))
      /\ writing' \in {Missing} \cup SUBSET Lines
  BY <1>2, <1>3, <1>5, StoreLines
<1>7. Abstract!Store(Banned \cup {uid})
  BY <1>2, <1>4, <1>6 DEF Abstract!Store
<1>8. Now' = Idle /\ Known' = Known \cup {uid}
  <2>1. Now' = Idle
    BY <1>2 DEF Now
  <2> QED BY <1>1, <1>2, <2>1, KnownAfter
<1>9. TypeOK'
  BY <1>1, <1>2, <1>6, DoneType DEF IInv, TypeOK, Answers
<1>10. Reading' /\ Locks'
  BY <1>2, <1>5, <1>8 DEF IInv, Reading, Locks, Idle, Writing
<1>11. Complete'
  <2>1. ~stale => ~locked
    BY DEF IInv, Locks
  <2>2. ~locked => Banned' = Banned \cup {uid}
    BY <1>2, <1>7 DEF Abstract!Store
  <2> QED BY <1>1, <1>2, <2>1, <2>2 DEF IInv, Complete
<1> QED BY <1>1, <1>7, <1>8, <1>9, <1>10, <1>11 DEF IInv, Done, Abstract!Ban, Abstract!Done

LEMMA StepUnban ==
    ASSUME IInv, UnbanUID
    PROVE  IInv' /\ \E uid \in Known \cup {0} : Abstract!Unban(uid)
<1> USE BanAssumption
<1>1. PICK uid \in memory : /\ memory' \in {memory, memory \ {uid}}
                            /\ writing' = Writing(CommentOut(Text, uid))
                            /\ last' = Done("unban", uid, TRUE)
  BY DEF UnbanUID
<1>2. /\ MainIsFree /\ Now = Idle /\ Banned = BannedBy(OnDisk) /\ Text \in SUBSET Lines
      /\ Known = memory \ {0} /\ (~locked => Text = OnDisk)
      /\ Access = "locked" <=> locked
      /\ file' = Truncated /\ UNCHANGED <<locked, check, stale>>
  BY FreeIsIdle DEF UnbanUID
<1>3. uid \in Uids \cup {0} /\ uid \in Known \cup {0}
  BY <1>2 DEF IInv, TypeOK
<1>4. /\ CommentOut(Text, uid) \in SUBSET Lines
      /\ BannedBy(CommentOut(Text, uid)) = BannedBy(Text) \ {uid}
  BY <1>2, <1>3, CommentOutBans
<1>5. /\ Abstract!Store(BannedBy(CommentOut(Text, uid)))
      /\ writing' \in {Missing} \cup SUBSET Lines
      /\ file' \in {Missing} \cup SUBSET Lines
  BY <1>1, <1>2, <1>4, StoreLines
<1>6. Abstract!Store(Banned \ {uid})
  BY <1>2, <1>4, <1>5 DEF Abstract!Store
<1>7. Now' = Idle /\ Known' \in {Known, Known \ {uid}}
  <2>1. Now' = Idle
    BY <1>2 DEF Now
  <2> QED BY <1>1, <1>2, <2>1, KnownAfter
<1>8. TypeOK'
  BY <1>1, <1>2, <1>3, <1>5, DoneType DEF IInv, TypeOK, Answers
<1>9. Reading' /\ Locks'
  BY <1>1, <1>2, <1>7 DEF IInv, Reading, Locks, Idle, Writing, Truncated
<1>10. Complete'
  <2>1. ~stale => ~locked
    BY DEF IInv, Locks
  <2>2. ~locked => Banned' = Banned \ {uid}
    BY <1>2, <1>6 DEF Abstract!Store
  <2> QED BY <1>1, <1>2, <2>1, <2>2 DEF IInv, Complete
<1> QED BY <1>1, <1>3, <1>6, <1>7, <1>8, <1>9, <1>10
        DEF IInv, Done, Abstract!Unban, Abstract!Done

LEMMA StepWrite ==
    ASSUME IInv, Write PROVE IInv' /\ UNCHANGED <<Banned, Known, Access, last>>
<1> USE BanAssumption
<1>1. /\ writing # Missing /\ file' = writing /\ writing' = Missing
      /\ UNCHANGED <<locked, memory, check, last, stale>>
  BY DEF Write
<1>2. Banned' = Banned /\ Known' = Known /\ Access' = Access
  BY <1>1 DEF Banned, OnDisk, Known, Access
<1>3. TypeOK'
  BY <1>1 DEF IInv, TypeOK
<1>4. Reading' /\ Locks' /\ Complete'
  BY <1>1, <1>2 DEF IInv, Reading, Locks, Complete, Now
<1> QED BY <1>1, <1>2, <1>3, <1>4 DEF IInv

LEMMA StepClear ==
    ASSUME IInv, ClearBanlist PROVE IInv' /\ Abstract!Clear
<1> USE BanAssumption
<1>1. /\ Now = Idle /\ writing = Missing /\ memory' = {} /\ file' = Truncated
      /\ last' = Done("clear", 0, TRUE)
      /\ UNCHANGED <<locked, writing, check, stale>>
      /\ Access = "locked" <=> locked
  BY FreeIsIdle DEF ClearBanlist
<1>2. Now' = Idle /\ Known' = {}
  <2>1. Now' = Idle
    BY <1>1 DEF Now
  <2> QED BY <1>1, <2>1, KnownAfter
<1>3. locked => Banned' = Banned /\ Access' = Access /\ file' = file
  BY <1>1 DEF Banned, OnDisk, Access, Truncated
<1>4. ~locked => Banned' = {} /\ Access' = "open" /\ file' = {}
  BY <1>1 DEF Banned, OnDisk, Access, BannedBy, Truncated
<1>5. Abstract!Store({})
  BY <1>1, <1>3, <1>4 DEF Abstract!Store
<1>6. TypeOK'
  BY <1>1, DoneType DEF IInv, TypeOK, Answers, Truncated
<1>7. Reading' /\ Locks' /\ Complete'
  BY <1>1, <1>2, <1>4 DEF IInv, Reading, Locks, Complete, Idle, Truncated
<1> QED BY <1>1, <1>2, <1>5, <1>6, <1>7 DEF IInv, Done, Abstract!Clear, Abstract!Done

LEMMA StepEdit ==
    ASSUME IInv, Edit PROVE IInv' /\ Abstract!Edit
<1> USE BanAssumption
<1>1. /\ Now = Idle /\ writing = Missing /\ file' \in {Missing} \cup SUBSET Lines
      /\ stale' = TRUE /\ locked' \in BOOLEAN /\ (locked' => file' # Missing)
      /\ last' = Done("edit", 0, TRUE)
      /\ UNCHANGED <<memory, writing, check>>
  BY FreeIsIdle DEF Edit
<1>2. OnDisk' \in SUBSET Lines /\ Banned' = BannedBy(OnDisk')
  BY <1>1 DEF Banned, OnDisk
<1>3. Banned' \subseteq Uids /\ Known' = Known
  BY <1>1, <1>2, BannedByType DEF Known
<1>4. /\ Access' \in {"open", "missing", "locked"}
      /\ Access' = "missing" => Banned' = {}
  BY <1>1, <1>2 DEF Access, OnDisk, BannedBy
<1>5. TypeOK'
  BY <1>1, DoneType DEF IInv, TypeOK, Answers
<1>6. Reading' /\ Locks' /\ Complete'
  BY <1>1 DEF Reading, Locks, Complete, Now, Idle
<1> QED BY <1>1, <1>3, <1>4, <1>5, <1>6
        DEF IInv, Done, Abstract!Edit, Abstract!Done, Abstract!Accesses

LEMMA StepIInv ==
    ASSUME Alone, IInv, [Next]_vars PROVE IInv' /\ [Abstract!Next]_Abstract!vars
<1>1. CASE UNCHANGED vars
  <2>1. UNCHANGED <<Banned, Known, Access, last>>
    BY <1>1 DEF vars, Banned, OnDisk, Known, Access
  <2>2. TypeOK'
    BY <1>1 DEF vars, IInv, TypeOK
  <2>3. Reading' /\ Locks' /\ Complete'
    BY <1>1, <2>1 DEF vars, IInv, Reading, Locks, Complete, Now, Opens
  <2> QED BY <2>1, <2>2, <2>3 DEF IInv, Abstract!vars
<1>2. CASE BeginCheck(MainThread) \/ NextLine(MainThread) \/ Write
  BY <1>2, StepBeginCheck, StepNextLine, StepWrite DEF Abstract!vars, Abstract!Next
<1>3. CASE Find(MainThread) \/ BanUID \/ ClearBanlist \/ Edit
  BY <1>3, StepFind, StepBan, StepClear, StepEdit DEF Abstract!Next
<1>4. CASE UnbanUID
  BY <1>4, StepUnban DEF Abstract!Next, Abstract!vars
<1> QED BY <1>1, <1>2, <1>3, <1>4 DEF Alone, Next

-----------------------------------------------------------------------------

\* The ban system with one thread implements BanList, whatever others do to the file
\* between its operations: what it cannot open it neither forgets nor overwrites.
THEOREM Refinement == ASSUME Alone PROVE Spec => IsBanList
<1>1. Init => IInv /\ Abstract!Init
  BY InitIInv
<1>2. IInv /\ [Next]_vars => IInv' /\ [Abstract!Next]_Abstract!vars
  BY StepIInv
<1> QED BY <1>1, <1>2, PTL DEF Spec, IsBanList, Abstract!Spec

\* The file, the copy and the checks have their types.
THEOREM TypeCorrect == ASSUME Alone PROVE Spec => []TypeOK
<1>1. Init => IInv
  BY InitIInv
<1>2. IInv /\ [Next]_vars => IInv'
  BY StepIInv
<1>3. IInv => TypeOK
  BY DEF IInv
<1> QED BY <1>1, <1>2, <1>3, PTL DEF Spec

\* Unban never overlooks an account that the file bans.
THEOREM CopyIsComplete == ASSUME Alone PROVE Spec => []CopyComplete
<1>1. Init => IInv
  BY InitIInv
<1>2. IInv /\ [Next]_vars => IInv'
  BY StepIInv
<1>3. IInv => CopyComplete
  BY DEF IInv, Complete, CopyComplete, MainIsFree, Now
<1> QED BY <1>1, <1>2, <1>3, PTL DEF Spec

\* On one thread a reload does what the comment in IsUIDAllowed says, of a file that can
\* be opened: who is banned when the check ends is refused.  What the run with a second thread finds is due to
\* nothing but the other's reload.
THEOREM BannedRefusedAlone == ASSUME Alone PROVE Spec => BannedAreRefused
<1> DEFINE Goal ==
      \A c \in Checkers :
        Find(c) /\ check[c].listed /\ check[c].uid \in BannedBy(Text) => ~last'.allowed
<1>1. IInv => Goal
  <2> SUFFICES ASSUME IInv, Find(MainThread), Now.uid \in BannedBy(Text)
               PROVE  ~last'.allowed
    BY DEF Alone, Now
  <2>1. /\ Now.pc = "reading" /\ Now.unread = {}
        /\ last' = Done("check", Now.uid, Now.uid \notin memory)
    BY DEF Find, Now
  <2>2. Now.uid \in Uids
    <3>1. check[MainThread] \in
            {Idle} \cup [pc : {"reading"}, uid : Uids, unread : SUBSET Lines, listed : BOOLEAN]
      BY BanAssumption DEF IInv, TypeOK
    <3> QED
      BY <2>1, <3>1 DEF Now, Idle
  <2>3. Opens /\ Banned = BannedBy(Text)
    BY <2>1 DEF IInv, Reading, Banned, Text, OnDisk, Opens, BannedBy
  <2>4. BannedBy(Now.unread) = {}
    BY <2>1 DEF BannedBy
  <2>5. Now.uid \in memory
    BY <2>1, <2>2, <2>3, <2>4 DEF IInv, Reading
  <2> QED
    BY <2>1, <2>5 DEF Done
<1>2. Init => IInv
  BY InitIInv
<1>3. IInv /\ [Next]_vars => IInv'
  BY StepIInv
<1>4. []IInv => [][Goal]_vars
  BY <1>1, PTL
<1>5. [][Goal]_vars => BannedAreRefused
  BY DEF BannedAreRefused
<1> QED BY <1>2, <1>3, <1>4, <1>5, PTL DEF Spec
=============================================================================
