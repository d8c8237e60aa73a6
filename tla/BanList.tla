------------------------------ MODULE BanList -------------------------------
(***************************************************************************)
(* What the ban system promises.  The accounts on file are a set; the      *)
(* commands change the standing of the one account they name, and a check  *)
(* answers from the set as it is.  A file that cannot be opened is not an  *)
(* empty one: as long as it is gone or locked, the server goes by the      *)
(* accounts it knew, and what a command does reaches a lost file anew, and *)
(* a locked one not at all.                                                *)
(***************************************************************************)
CONSTANTS Uids

VARIABLES
    banned,     \* the accounts on file
    known,      \* the accounts the server goes by when it cannot look
    access,     \* whether it can: "open", "missing" or "locked"
    last        \* the last operation: what it was, of whom, and the answer

vars == <<banned, known, access, last>>

Accesses == {"open", "missing", "locked"}

Done(op, uid, allowed) == [op |-> op, uid |-> uid, allowed |-> allowed]

Init ==
    /\ banned \in SUBSET Uids /\ access \in Accesses
    /\ access = "missing" => banned = {}
    /\ known = IF access = "open" THEN banned ELSE {}
    /\ last = Done("none", 0, TRUE)

\* A command has the accounts written to the file.
Store(accounts) ==
    IF access = "locked" THEN UNCHANGED <<banned, access>>
    ELSE banned' = accounts /\ access' = "open"

Ban(uid) ==
    /\ known' = known \cup {uid}
    /\ Store(banned \cup {uid})
    /\ last' = Done("ban", uid, FALSE)

\* An account banned twice may stay known until the next look.
Unban(uid) ==
    /\ known' \in {known, known \ {uid}}
    /\ Store(banned \ {uid})
    /\ last' = Done("unban", uid, TRUE)

Clear == known' = {} /\ Store({}) /\ last' = Done("clear", 0, TRUE)

\* Somebody else edits, makes, deletes, locks or unlocks the file.
Edit ==
    /\ banned' \in SUBSET Uids /\ access' \in Accesses
    /\ access' = "missing" => banned' = {}
    /\ last' = Done("edit", 0, TRUE)
    /\ UNCHANGED known

Look == access = "open" /\ known' = banned /\ UNCHANGED <<banned, access, last>>

Check(uid) ==
    /\ access = "open" => known = banned
    /\ last' = Done("check", uid, uid \notin known)
    /\ UNCHANGED <<banned, known, access>>

\* 0 is nobody, and unbanning it changes no account.
Next ==
    \/ \E uid \in Uids : Ban(uid) \/ Check(uid)
    \/ \E uid \in known \cup {0} : Unban(uid)
    \/ Clear \/ Edit \/ Look

Spec == Init /\ [][Next]_vars
=============================================================================
