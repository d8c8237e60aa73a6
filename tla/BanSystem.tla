----------------------------- MODULE BanSystem ------------------------------
(***************************************************************************)
(* The ban list of a server: banlist.txt and the copy in m_vBannedUids.    *)
(*                                                                         *)
(* IsUIDAllowed reads the file anew, line by line, into the shared copy    *)
(* and then searches the copy.  It runs on the main thread, when a player  *)
(* connects, and on the threads that handle Atlas' connect requests; the   *)
(* commands ban, unban and clearbanlist run on the main thread.  Nothing   *)
(* is locked.                                                              *)
(*                                                                         *)
(* A line counts by the account it names and by its form.  The order of    *)
(* the lines, and a line written twice, make no difference but one: after  *)
(* a second ban of an account, unban leaves one of the two entries in the  *)
(* copy.  Both outcomes are in UnbanUID.                                   *)
(***************************************************************************)
EXTENDS Naturals

CONSTANTS
    Uids,
    Checkers,       \* threads that call IsUIDAllowed
    MainThread,     \* one of them
    Missing,        \* there is no file
    MayEdit         \* others may edit, delete and lock the file

\* 123, 123 # why, # 123 # unban date: ...; an empty line has no account.
Blank == [uid |-> 0, form |-> "comment"]
Lines == [uid : Uids, form : {"plain", "inline", "comment"}] \cup {Blank}

ASSUME BanAssumption ==
    /\ 0 \notin Uids
    /\ MainThread \in Checkers
    /\ \A lines \in SUBSET Lines : Missing # lines
    /\ MayEdit \in BOOLEAN

VARIABLES
    file,       \* banlist.txt, Missing when there is none
    locked,     \* another program holds it, and no open succeeds
    memory,     \* m_vBannedUids
    writing,    \* what a command is about to write to the file, or Missing
    check,      \* each thread's IsUIDAllowed: what is asked and still unread
    last,       \* history: the last operation and its answer
    stale       \* history: others had the file since it was last read

vars == <<file, locked, memory, writing, check, last, stale>>

Done(op, uid, allowed) == [op |-> op, uid |-> uid, allowed |-> allowed]

\* listed is history: the file banned the account when the check began.
Idle == [pc |-> "idle", uid |-> 0, unread |-> {}, listed |-> FALSE]

\* The file, the copy and the checks have their types.
TypeOK ==
    /\ file \in {Missing} \cup SUBSET Lines
    /\ locked \in BOOLEAN
    /\ memory \subseteq Uids \cup {0}
    /\ writing \in {Missing} \cup SUBSET Lines
    /\ check \in [Checkers ->
         {Idle} \cup [pc : {"reading"}, uid : Uids, unread : SUBSET Lines, listed : BOOLEAN]]
    /\ last \in [op : {"none", "ban", "unban", "clear", "edit", "check"},
                 uid : Uids \cup {0}, allowed : BOOLEAN]
    /\ stale \in BOOLEAN

\* An ifstream of the file opens; what it reads, and what is there.
Opens == file # Missing /\ ~locked
Text == IF Opens THEN file ELSE {}
OnDisk == IF file = Missing THEN {} ELSE file

\* The accounts banned by lines.
BannedBy(lines) == {line.uid : line \in {l \in lines : l.form # "comment"}}

\* strtoull reads the account at the start of a line, and 0 from a comment.
\* Mutant: the account of a commented line is read as well.
ReadUncommented(line) == line.uid
ReadLine(line) == IF line.form = "comment" THEN 0 ELSE line.uid

\* OpenBanlist skips comments; the server starts with or without a file.
Init ==
    /\ file \in {Missing} \cup SUBSET Lines
    /\ locked \in BOOLEAN
    /\ locked => MayEdit /\ file # Missing
    /\ memory = BannedBy(Text)
    /\ writing = Missing
    /\ check = [c \in Checkers |-> Idle]
    /\ last = Done("none", 0, TRUE)
    /\ stale = locked

MainIsFree == writing = Missing /\ check[MainThread] = Idle

-----------------------------------------------------------------------------
(* IsUIDAllowed: ReloadBanlist, then the search.                            *)

\* The file is opened and the copy cleared; when the open fails the old copy
\* stays, and the search goes by it.
\* Mutant: the copy is searched without a reload if there is one.
ReloadOnce(c, uid) ==
    /\ check' = [check EXCEPT ![c] =
         [pc |-> "reading", uid |-> uid, unread |-> {}, listed |-> uid \in BannedBy(Text)]]
    /\ UNCHANGED <<memory, stale>>
Reload(c, uid) ==
    /\ check' = [check EXCEPT ![c] =
         [pc |-> "reading", uid |-> uid, unread |-> Text, listed |-> uid \in BannedBy(Text)]]
    /\ memory' = IF Opens THEN {} ELSE memory
    /\ stale' = (stale /\ ~Opens)

BeginCheck(c) ==
    /\ check[c] = Idle
    /\ c = MainThread => writing = Missing
    /\ \E uid \in Uids : Reload(c, uid)
    /\ UNCHANGED <<file, locked, writing, last>>

NextLine(c) ==
    /\ \E line \in check[c].unread :
         /\ memory' = memory \cup {ReadLine(line)}
         /\ check' = [check EXCEPT ![c].unread = @ \ {line}]
    /\ UNCHANGED <<file, locked, writing, last, stale>>

\* std::find over the copy, whoever filled it.
Find(c) ==
    /\ check[c].pc = "reading" /\ check[c].unread = {}
    /\ last' = Done("check", check[c].uid, check[c].uid \notin memory)
    /\ check' = [check EXCEPT ![c] = Idle]
    /\ UNCHANGED <<file, locked, memory, writing, stale>>

-----------------------------------------------------------------------------
(* The commands.                                                            *)

\* What a command is going to write: nothing, when its open fails.
Writing(lines) == IF locked THEN Missing ELSE lines

\* BanUID remembers the account and appends it to the file.  In a file that
\* does not end in a line break it starts a new line; content.back() of an
\* empty or missing file is undefined, and either may happen.
\* Mutant: the account goes to the file alone.
AppendOnly(uid) ==
    /\ UNCHANGED memory
    /\ writing' = Writing(Text \cup {[uid |-> uid, form |-> "plain"]})
Append(uid) ==
    /\ memory' = memory \cup {uid}
    /\ \E blank \in {{}, {Blank}} :
         /\ blank # {} => Text = {}
         /\ writing' = Writing(Text \cup blank \cup {[uid |-> uid, form |-> "plain"]})

BanUID ==
    /\ MainIsFree
    /\ \E uid \in Uids : Append(uid) /\ last' = Done("ban", uid, FALSE)
    /\ UNCHANGED <<file, locked, check, stale>>

\* UnbanUID comments the account's lines out, with and without inline comment;
\* the 0 that a comment left in the copy is no line's account.
\* Mutant: a line with an inline comment is not recognised.
CommentPlainOut(lines, uid) ==
    {IF line = [uid |-> uid, form |-> "plain"]
     THEN [uid |-> uid, form |-> "comment"] ELSE line : line \in lines}
CommentOut(lines, uid) ==
    {IF line.uid = uid THEN [uid |-> uid, form |-> "comment"] ELSE line : line \in lines}

\* Opening the file for writing makes it, or empties it.
Truncated == IF locked THEN file ELSE {}

UnbanUID ==
    /\ MainIsFree
    /\ \E uid \in memory :
         /\ memory' \in {memory, memory \ {uid}}
         /\ writing' = Writing(CommentOut(Text, uid))
         /\ last' = Done("unban", uid, TRUE)
    /\ file' = Truncated
    /\ UNCHANGED <<locked, check, stale>>

\* The rest of BanUID and UnbanUID: the lines reach the file.
Write ==
    /\ writing # Missing
    /\ file' = writing
    /\ writing' = Missing
    /\ UNCHANGED <<locked, memory, check, last, stale>>

ClearBanlist ==
    /\ MainIsFree
    /\ memory' = {} /\ file' = Truncated
    /\ last' = Done("clear", 0, TRUE)
    /\ UNCHANGED <<locked, writing, check, stale>>

\* Between two operations somebody edits, makes or deletes the file, or another
\* program takes it or lets it go.
Edit ==
    /\ MayEdit /\ MainIsFree
    /\ file' \in {Missing} \cup SUBSET Lines
    /\ locked' \in BOOLEAN
    /\ locked' => file' # Missing
    /\ stale' = TRUE
    /\ last' = Done("edit", 0, TRUE)
    /\ UNCHANGED <<memory, writing, check>>

Next ==
    \/ \E c \in Checkers : BeginCheck(c) \/ NextLine(c) \/ Find(c)
    \/ BanUID \/ UnbanUID \/ Write \/ ClearBanlist \/ Edit

Spec == Init /\ [][Next]_vars

-----------------------------------------------------------------------------
(* Properties.                                                              *)

\* The accounts on file, once a command under way is done.
Banned == BannedBy(IF writing = Missing THEN OnDisk ELSE writing)

\* The accounts in the copy, once a read under way is done.
Known == (memory \cup BannedBy(check[MainThread].unread)) \ {0}

Access ==
    CASE locked -> "locked"
      [] ~locked /\ file = Missing /\ writing = Missing -> "missing"
      [] OTHER -> "open"

Abstract == INSTANCE BanList WITH banned <- Banned, known <- Known, access <- Access

\* While one thread uses it, the ban system implements BanList: a ban or an unban
\* changes one account's standing and keeps all other lines, hand edits and comments
\* included; every check answers what the file says or, when it cannot be opened
\* (ReloadBanlist), what was known before; and no command empties a file it cannot
\* write.
IsBanList == Abstract!Spec

\* What unban works from is complete: unless others had the file since it was
\* last read, every banned account is in the copy, so that the command does
\* not return early for an account the file bans (UnbanUID).
CopyComplete ==
    ~stale /\ MainIsFree => Banned \subseteq memory

\* The comment in IsUIDAllowed, "Reload to have up to date list on join": an
\* account that the file, as it can be read, bans from the start of a check to its
\* end is refused.
BannedAreRefused ==
    [][\A c \in Checkers :
         Find(c) /\ check[c].listed /\ check[c].uid \in BannedBy(Text) =>
           ~last'.allowed]_vars
=============================================================================
