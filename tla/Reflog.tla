------------------------------- MODULE Reflog -------------------------------
(***************************************************************************)
(* Undoing the last commit, and going back to an entry of the reflog.      *)
(*                                                                         *)
(* Every move of HEAD adds an entry to its log.  ReflogDialog lists the    *)
(* log of the folder that was active when it was opened and restores the   *)
(* commit of a row in the folder that is active then.  The dialog is not   *)
(* modal.  A commit looks up its parent and undo the parent of HEAD before *)
(* they move HEAD; other jobs of the pool may move it in between.  Whether *)
(* a commit is signed is settled when it is requested.                     *)
(***************************************************************************)
EXTENDS Naturals, SequencesExt

CONSTANTS
    Folders,  \* clones of one repository
    Commits,  \* commits that may be made
    Root,     \* the commit all clones share
    None,
    MaxCount, \* entries the dialog asks for
    MaxJobs,  \* bound: jobs at a time
    MaxLog    \* bound: entries of a reflog

\* Assumed by the modules that instantiate this one.
ReflogAssumption ==
    /\ None \notin Folders \cup Commits /\ Root \in Commits
    /\ MaxCount \in Nat \ {0} /\ MaxJobs \in Nat \ {0} /\ MaxLog \in Nat

VARIABLES
    folder,  \* activeLocalPath_
    head,    \* HEAD of each folder
    log,     \* its reflog, the oldest entry first
    objects, \* the commits in its object database
    parent,  \* first parent of each commit
    jobs,    \* on the pool or on their way back
    shown,   \* whether the dialog is on screen
    rows,    \* the commits it lists
    row,     \* the selected row, 0 for none
    usable,  \* whether its list and its Refresh button are enabled
    restore, \* whether its Restore button is
    asking,  \* commit the question before a restore is about
    chosen   \* history: commits the user confirmed to restore

git    == <<head, log, objects, parent>>
dialog == <<shown, rows, row, usable, restore, asking>>
vars   == <<folder, git, jobs, dialog, chosen>>

Committing == {"commit", "signedCommit"}
Ops == Committing \cup {"undo", "reset", "list"}
Job == [op : Ops, at : Folders, target : Commits \cup {None}, read : Seq(Commits),
        state : {"waits", "looked", "done", "failed"}]

Task(op, at, c) ==
    [op |-> op, at |-> at, target |-> c, read |-> <<>>, state |-> "waits"]
Start(op, c) == jobs' = Append(jobs, Task(op, folder, c))
Room == Len(jobs) < MaxJobs

Free == folder # None /\ asking = None /\ Room

Init ==
    /\ folder \in Folders /\ head = [f \in Folders |-> Root]
    /\ log = [f \in Folders |-> <<Root>>] /\ objects = [f \in Folders |-> {Root}]
    /\ parent = [c \in Commits |-> None] /\ jobs = <<>>
    /\ shown = FALSE /\ rows = <<>> /\ row = 0 /\ usable = TRUE /\ restore = FALSE
    /\ asking = None /\ chosen = {}
-----------------------------------------------------------------------------
(***************************************************************************)
(* The user.  A question is modal, the dialog is not.                      *)
(***************************************************************************)
OpenFolder(f) ==
    /\ asking = None /\ folder' = f /\ UNCHANGED <<git, jobs, dialog, chosen>>

RemoveFolder ==
    /\ asking = None /\ folder' = None /\ UNCHANGED <<git, jobs, dialog, chosen>>

\* The commit button is disabled by a commit and by an undo, but enabled again by
\* any refresh, also while these still run (onWorkerLocalStateReady).
CommitRequested ==
    /\ Free /\ \E op \in Committing : Start(op, None)
    /\ UNCHANGED <<folder, git, dialog, chosen>>

\* The menu entry never is.
UndoLastCommitRequested ==
    /\ Free /\ Start("undo", None) /\ UNCHANGED <<folder, git, dialog, chosen>>

\* From the menu, or with Refresh.
ReflogRequested ==
    /\ Free /\ Start("list", None) /\ shown' = TRUE
    /\ UNCHANGED <<folder, git, rows, row, usable, restore, asking, chosen>>

Select(r) ==
    /\ shown /\ usable /\ asking = None /\ r \in DOMAIN rows /\ r # row
    /\ row' = r /\ restore' = TRUE
    /\ UNCHANGED <<folder, git, jobs, shown, rows, usable, asking, chosen>>

RestoreClicked ==
    /\ shown /\ restore /\ row # 0 /\ asking = None /\ Room
    /\ asking' = rows[row]
    /\ UNCHANGED <<folder, git, jobs, shown, rows, row, usable, restore, chosen>>

\* Mutant of Confirmed: the commit of the row that is selected by then.
ConfirmedRow == IF row = 0 THEN Head(log[folder]) ELSE rows[row]

Confirmed == asking

\* onReflogRestoreRequested does nothing without an active folder.
RestoreConfirmed ==
    /\ asking # None /\ Room /\ chosen' = chosen \cup {asking}
    /\ asking' = None
    /\ IF folder = None
       THEN UNCHANGED <<jobs, usable, restore>>
       ELSE Start("reset", Confirmed) /\ usable' = FALSE /\ restore' = FALSE
    /\ UNCHANGED <<folder, git, shown, rows, row>>

RestoreRefused ==
    /\ asking # None /\ asking' = None
    /\ UNCHANGED <<folder, git, jobs, shown, rows, row, usable, restore, chosen>>

CloseDialog ==
    /\ shown /\ asking = None /\ shown' = FALSE
    /\ UNCHANGED <<folder, git, jobs, rows, row, usable, restore, asking, chosen>>
-----------------------------------------------------------------------------
(***************************************************************************)
(* The pool.  A job looks at the repository and then moves HEAD.           *)
(***************************************************************************)
At(i)      == jobs[i].at
In(i, op, s) == jobs[i].op = op /\ jobs[i].state = s
Makes(i, s)  == jobs[i].op \in Committing /\ jobs[i].state = s
Ends(i, s) == jobs' = [jobs EXCEPT ![i].state = s]

Looks(i, c) == jobs' = [jobs EXCEPT ![i].state = "looked", ![i].target = c]

MoveHead(f, c) ==
    /\ Len(log[f]) < MaxLog
    /\ head' = [head EXCEPT ![f] = c]
    /\ log'  = [log EXCEPT ![f] = Append(@, c)]

\* A merge in progress, or any other error.
Fails(i) ==
    /\ jobs[i].state \in {"waits", "looked"} /\ jobs[i].op # "list"
    /\ Ends(i, "failed") /\ UNCHANGED git

\* Mutant of Follows: no commit is checked against HEAD.
FollowsAny(i) == TRUE

\* git_commit_create refuses a parent that is no longer HEAD; a signed commit is
\* written first and HEAD is then set to it.
Follows(i) == jobs[i].op = "commit" => jobs[i].target = head[At(i)]

commit(i) ==
    \/ Makes(i, "waits") /\ Looks(i, head[At(i)]) /\ UNCHANGED git
    \/ /\ Makes(i, "looked") /\ Follows(i) /\ Ends(i, "done")
       /\ \E c \in Commits \ UNION {objects[f] : f \in Folders} :
            /\ parent'  = [parent EXCEPT ![c] = jobs[i].target]
            /\ objects' = [objects EXCEPT ![At(i)] = @ \cup {c}]
            /\ MoveHead(At(i), c)

undoLastCommit(i) ==
    \/ /\ In(i, "undo", "waits") /\ parent[head[At(i)]] # None
       /\ Looks(i, parent[head[At(i)]]) /\ UNCHANGED git
    \/ /\ In(i, "undo", "looked") /\ MoveHead(At(i), jobs[i].target)
       /\ Ends(i, "done") /\ UNCHANGED <<objects, parent>>

softResetTo(i) ==
    /\ In(i, "reset", "waits") /\ jobs[i].target \in objects[At(i)]
    /\ MoveHead(At(i), jobs[i].target) /\ Ends(i, "done") /\ UNCHANGED <<objects, parent>>

\* Index 0 of libgit2 is the newest entry, so walking the indices down from
\* the last one meets the oldest entry first.
Entries(l) == SubSeq(l, 1, IF Len(l) < MaxCount THEN Len(l) ELSE MaxCount)

\* An error is an empty list.
readHeadReflog(i) ==
    /\ In(i, "list", "waits") /\ UNCHANGED git
    /\ \E read \in {Entries(log[At(i)]), <<>>} :
        jobs' = [jobs EXCEPT ![i].state = "done", ![i].read = read]

Run(i) ==
    /\ commit(i) \/ undoLastCommit(i) \/ softResetTo(i) \/ readHeadReflog(i) \/ Fails(i)
    /\ UNCHANGED <<folder, dialog, chosen>>
-----------------------------------------------------------------------------
(***************************************************************************)
(* Results.                                                                *)
(***************************************************************************)
Back(i, ops) == jobs[i].op \in ops /\ jobs[i].state \in {"done", "failed"}

ReflogReady(i) ==
    /\ Back(i, {"list"}) /\ jobs' = RemoveAt(jobs, i)
    /\ IF At(i) = folder
       THEN rows' = jobs[i].read /\ row' = 0 /\ restore' = FALSE
       ELSE UNCHANGED <<rows, row, restore>>
    /\ UNCHANGED <<folder, git, shown, usable, asking, chosen>>

\* The list is read again if the restore succeeded.
SoftResetFinished(i) ==
    /\ Back(i, {"reset"})
    /\ IF At(i) = folder
       THEN /\ usable' = TRUE /\ restore' = (row # 0)
            /\ jobs' = IF jobs[i].state = "done" /\ shown
                       THEN Append(RemoveAt(jobs, i), Task("list", folder, None))
                       ELSE RemoveAt(jobs, i)
       ELSE jobs' = RemoveAt(jobs, i) /\ UNCHANGED <<usable, restore>>
    /\ UNCHANGED <<folder, git, shown, rows, row, asking, chosen>>

\* What these results refresh is not shown by the dialog.
OtherFinished(i) ==
    /\ Back(i, Committing \cup {"undo"}) /\ jobs' = RemoveAt(jobs, i)
    /\ UNCHANGED <<folder, git, dialog, chosen>>
-----------------------------------------------------------------------------
Next ==
    \/ \E f \in Folders : OpenFolder(f)
    \/ RemoveFolder \/ CommitRequested \/ UndoLastCommitRequested \/ ReflogRequested
    \/ \E r \in DOMAIN rows : Select(r)
    \/ RestoreClicked \/ RestoreConfirmed \/ RestoreRefused \/ CloseDialog
    \/ \E i \in DOMAIN jobs :
        Run(i) \/ ReflogReady(i) \/ SoftResetFinished(i) \/ OtherFinished(i)

Spec == Init /\ [][Next]_vars
-----------------------------------------------------------------------------
\* Every variable stays in its range.
TypeOK ==
    /\ folder \in Folders \cup {None} /\ head \in [Folders -> Commits]
    /\ log \in [Folders -> Seq(Commits)] /\ objects \in [Folders -> SUBSET Commits]
    /\ parent \in [Commits -> Commits \cup {None}] /\ jobs \in Seq(Job)
    /\ shown \in BOOLEAN /\ rows \in Seq(Commits) /\ row \in 0 .. Len(rows)
    /\ usable \in BOOLEAN /\ restore \in BOOLEAN
    /\ asking \in Commits \cup {None} /\ chosen \subseteq Commits

\* Job i moves HEAD, which adds to the log.
Steps(i, op) ==
    /\ log' # log /\ jobs[i].op = op
    /\ jobs[i].state # "done" /\ jobs'[i].state = "done"

(***************************************************************************)
(* A restore moves HEAD to a commit the user confirmed, though the list is *)
(* read again or another folder is opened while the question is open.      *)
(***************************************************************************)
RestoredWasChosen ==
    [][\A i \in DOMAIN jobs : Steps(i, "reset") => head'[At(i)] \in chosen]_vars

(***************************************************************************)
(* An unsigned commit is added to what HEAD is at that moment, whatever    *)
(* moved it while the commit was prepared, be it another commit, signed or *)
(* not, an undo or a restore: nothing made meanwhile is left out of the    *)
(* history, and nothing undone meanwhile comes back.  Of a signed commit   *)
(* it does not hold: HEAD is set to it whatever it has become (commit).    *)
(***************************************************************************)
CommitFollowsHead ==
    [][\A i \in DOMAIN jobs :
          Steps(i, "commit") => parent'[head'[At(i)]] = head[At(i)]]_vars
=============================================================================
