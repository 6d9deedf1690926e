------------------------------ MODULE CloneView -----------------------------
(***************************************************************************)
(* The local half of RepositoryDetailWidget: the branch box and the status *)
(* line of the clone of the repository it shows, the Pull, Push, Refresh   *)
(* and branch controls, and the slots of MainWindow between them and the   *)
(* worker.                                                                 *)
(*                                                                         *)
(* A clone is named by its repository.  The folder of a clone may also be  *)
(* opened as a local folder, which another page of the window shows; what  *)
(* that page does with it is the subject of other modules.  A job acts     *)
(* when it ends, and a branch switch is named by the branch.  How many     *)
(* jobs of one kind are under way for one clone is left open, and so is    *)
(* which item the branch box shows: a pick is of any branch it offers.     *)
(***************************************************************************)
EXTENDS Integers, FiniteSets

CONSTANTS
    Repos,  \* repositories, by full name
    None,   \* no repository
    Branches,      \* branches of every clone
    MaxMoves       \* bound on transfers and switches in flight

\* Assumed by the modules that instantiate this one.
ViewAssumption ==
    /\ None \notin Repos /\ MaxMoves \in Nat \ {0}
    /\ Branches \cap {"status", "branches", "pull", "push"} = {}

VARIABLES
    cloned, \* repositories whose row in the sidebar has a local path
    row,    \* currentRepository(): the selected row
    repo,   \* repo_, the repository the panel shows
    local,  \* repo_ has a local path
    page,   \* detailStack_: the panel, or the page of local folders
    active, \* activeLocalPath_: the clone last opened as a local folder
    head,   \* branch checked out in each clone
    combo,  \* items of the branch box: a branch and the clone it is of
    status, \* clone the status line describes
    jobs,   \* kinds and clones with jobs of the worker in flight
    mixed   \* history: an answer not about the clone shown was due when it was shown

panel == <<combo, status>>
vars  == <<cloned, row, repo, local, page, active, head, panel, jobs, mixed>>

Read == {"status", "branches"}
Move == {"pull", "push"}
Kind == Read \cup Move \cup Branches

Init ==
    /\ cloned \in SUBSET Repos
    /\ row = None /\ repo = None /\ local = FALSE /\ page = "panel" /\ active = None
    /\ head \in [Repos -> Branches]
    /\ combo = {} /\ status = None
    /\ jobs = {} /\ mixed = FALSE
-----------------------------------------------------------------------------
Bounded == Cardinality({j \in jobs' : j[1] \notin Read}) <= MaxMoves

\* applyMode asks for both, and whoever shows a clone for its branches again.
ReadClone(r) == jobs' = jobs \cup (Read \X {r})

\* Mutant of ApplyMode: the panel of a repository without a clone is not cleared.
ApplyModeKeeps(r, isLocal) ==
    /\ IF isLocal THEN ReadClone(r) ELSE UNCHANGED jobs
    /\ UNCHANGED panel

ClearStatus == combo' = {} /\ status' = None

\* applyMode: a clone is read, its predecessor's branches staying meanwhile;
\* without one there is nothing to show.
ApplyMode(r, isLocal) ==
    IF isLocal
    THEN ReadClone(r) /\ UNCHANGED panel
    ELSE ClearStatus /\ UNCHANGED jobs

InFlight(k, r) == <<k, r>> \in jobs
Foreign(r, isLocal) == \E k \in Kind, x \in Repos : InFlight(k, x) /\ (isLocal => x # r)

\* showRepository.
Show(r, isLocal) ==
    /\ repo' = r /\ local' = isLocal
    /\ ApplyMode(r, isLocal)
    /\ mixed' = Foreign(r, isLocal)

Kept == <<repo, local, page, panel, jobs, mixed>>

\* rebuildGithubItems over rows of which known have a local path: the selected
\* row is selected again, which shows its repository, and of no other.
Rebuild(known) ==
    /\ cloned' = known
    /\ IF row = None THEN UNCHANGED Kept
                     ELSE Show(row, row \in known) /\ page' = "panel"
-----------------------------------------------------------------------------
\* repositoryActivated: a row is selected.
Activate(r) ==
    /\ row' = r /\ Show(r, r \in cloned) /\ page' = "panel"
    /\ UNCHANGED <<cloned, active, head>>

\* The search box hides the selected row.
FilterOut ==
    /\ row # None /\ row' = None
    /\ UNCHANGED <<cloned, Kept, active, head>>

\* Another list of rows, annotated with the paths it may have; Clones says which.
Relisted(known) == Rebuild(known) /\ UNCHANGED <<row, active, head>>

\* Mutant of CloneSucceeded: the rows are left as they are.
CloneSucceededQuietly(r) ==
    /\ cloned' = cloned \cup {r} /\ UNCHANGED <<Kept, row, active, head>>

\* onCloneSucceeded: the panel is refreshed if the row of r is selected, which the
\* rebuild has done by then.
CloneSucceeded(r) == Rebuild(cloned \cup {r}) /\ UNCHANGED <<row, active, head>>

\* onOpenSucceeded, from the panel of a repository without a clone.
OpenSucceeded(r) ==
    /\ page = "panel" /\ repo = r /\ ~local
    /\ cloned' = cloned \cup {r} /\ Show(r, TRUE)
    /\ UNCHANGED <<row, page, active, head>>

SignOut ==
    /\ row' = None /\ Show(None, FALSE)
    /\ UNCHANGED <<cloned, page, active, head>>

\* onLocalFolderActivated: the folder of a clone, or another one; its row is
\* selected and that of a repository no longer.
OpenFolder(r) ==
    /\ page' = "folder" /\ active' = r /\ row' = None
    /\ UNCHANGED <<cloned, repo, local, head, panel, jobs, mixed>>

\* onRemoveLocalFolderRequested for the folder on screen.
RemoveFolder ==
    /\ active # None /\ active' = None /\ page' = "panel"
    /\ UNCHANGED <<cloned, row, repo, local, head, panel, jobs, mixed>>

Offers(b) == \E x \in Repos : <<x, b>> \in combo

\* The buttons of the panel.
Ask(kinds) ==
    /\ page = "panel" /\ local
    /\ jobs' = jobs \cup (kinds \X {repo}) /\ Bounded
    /\ UNCHANGED <<cloned, row, repo, local, page, active, head, combo, status, mixed>>

Refresh == Ask(Read)

Transfer(k) == Ask({k})

\* onBranchActivated.
SwitchBranch(b) == Offers(b) /\ Ask({b})
-----------------------------------------------------------------------------
\* A job of kind k about r ends, the last one or not, and those in more follow.
Answers(k, r, more) ==
    /\ InFlight(k, r)
    /\ \E left \in {jobs, jobs \ {<<k, r>>}} : jobs' = left \cup (more \X {r})

\* onBranchesReady and setBranches.
BranchesReady(r) ==
    /\ Answers("branches", r, {})
    /\ combo' = {r} \X Branches
    /\ UNCHANGED <<cloned, row, repo, local, page, active, head, status, mixed>>

\* onStatusReady and updateStatus: the box offers the branch checked out, if it
\* did not.
StatusReady(r) ==
    /\ Answers("status", r, {})
    /\ status' = r
    /\ combo' = IF Offers(head[r]) THEN combo ELSE combo \cup {<<r, head[r]>>}
    /\ UNCHANGED <<cloned, row, repo, local, page, active, head, mixed>>

\* Mutant of Finished: what a job did is not read.
FinishedUnread(k, r, reads) ==
    /\ Answers(k, r, IF active = r \/ k \in Branches THEN {} ELSE reads)
    /\ UNCHANGED <<cloned, row, repo, local, page, active, panel, mixed>>

\* The page of local folders is refreshed if its folder it is, the panel else.
Finished(k, r, reads) ==
    /\ Answers(k, r, IF active = r THEN {} ELSE reads)
    /\ UNCHANGED <<cloned, row, repo, local, page, active, panel, mixed>>

PullFinished(r) == Finished("pull", r, {"status"}) /\ UNCHANGED head
PushFinished(r) == Finished("push", r, {"status"}) /\ UNCHANGED head

\* Refused when it would lose changes.
BranchSwitched(r, b) ==
    /\ Finished(b, r, Read)
    /\ head' = [head EXCEPT ![r] = b] \/ UNCHANGED head
-----------------------------------------------------------------------------
User ==
    \/ SignOut \/ FilterOut \/ Refresh \/ RemoveFolder
    \/ \E b \in Branches : SwitchBranch(b)
    \/ \E r \in Repos : Activate(r) \/ OpenSucceeded(r)
    \/ \E r \in Repos \cup {None} : OpenFolder(r)
    \/ \E k \in Move : Transfer(k)

Worker ==
    \E r \in Repos :
        \/ CloneSucceeded(r)
        \/ BranchesReady(r) \/ StatusReady(r) \/ PullFinished(r) \/ PushFinished(r)
        \/ \E b \in Branches : BranchSwitched(r, b)

Next == User \/ Worker \/ \E known \in SUBSET Repos : Relisted(known)

Spec == Init /\ [][Next]_vars
-----------------------------------------------------------------------------
\* Every variable stays in its range.
TypeOK ==
    /\ cloned \subseteq Repos /\ {row, repo} \subseteq Repos \cup {None}
    /\ {local, mixed} \subseteq BOOLEAN
    /\ page \in {"panel", "folder"} /\ active \in Repos \cup {None}
    /\ head \in [Repos -> Branches]
    /\ combo \subseteq Repos \X Branches /\ status \in Repos \cup {None}
    /\ jobs \subseteq Kind \X Repos

(***************************************************************************)
(* The panel is that of the row selected and knows whether it is cloned.   *)
(* Of a repository whose row is hidden or no longer selected it need not   *)
(* know: a clone that ends then is not shown (onCloneSucceeded).           *)
(***************************************************************************)
PanelIsOfRow == row # None => repo = row /\ (local <=> row \in cloned)

(***************************************************************************)
(* When the worker has answered everything, and no answer about another    *)
(* clone was still due when the repository was shown, the panel shows the  *)
(* branches and status of the clone it has a path of, and none without one *)
(* (applyMode, updateStatus, setBranches).                                 *)
(***************************************************************************)
QuietPanelIsRight ==
    jobs = {} /\ ~mixed =>
        IF local THEN status = repo /\ combo = {repo} \X Branches
                 ELSE status = None /\ combo = {}

(***************************************************************************)
(* When the last switch to a branch under way ends, a new status and a new *)
(* list of branches of its clone are asked for, unless the page of local   *)
(* folders, which reads for itself, has that clone open (onBranchSwitched).*)
(***************************************************************************)
SwitchIsRead ==
    [][\A r \in Repos, b \in Branches : <<b, r>> \in jobs /\ <<b, r>> \notin jobs' =>
          active = r \/ Read \X {r} \subseteq jobs']_vars
=============================================================================
