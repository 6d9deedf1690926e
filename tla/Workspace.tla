------------------------------ MODULE Workspace -----------------------------
(***************************************************************************)
(* LocalWorkspaceController: the folder on screen, the operations the user *)
(* runs in it, and the two places that say one is running: the controls of *)
(* LocalRepositoryWidget and the progress bar of MainWindow.               *)
(*                                                                         *)
(* The worker runs every job on a thread pool.  A job runs, which reads or *)
(* changes the folder, and is delivered to the GUI thread later; jobs run  *)
(* and are delivered in any order.  What a folder contains is a version    *)
(* number that every change made by the program increases; changes made by *)
(* others are left out.  Dialogs that only ask are left out too, as are    *)
(* history and diffs, which neither wait for these jobs nor stop them.     *)
(***************************************************************************)
EXTENDS Integers, Bags

CONSTANTS
    Paths,      \* local folders
    None,       \* no folder
    Ops,        \* operations the user runs
    MaxVersion, \* bound on changes to a folder
    MaxJobs     \* bound on jobs in flight

\* The operations whose results are handled alike: init, create and rename;
\* add and remove a remote; fetch and undo; save, apply, pop and drop a stash;
\* a soft reset from the reflog.
AllOps == {"stage", "commit", "branch", "delete", "switch", "remote", "push",
           "fetch", "stash", "reset"}

ASSUME NoneAssumption  == None \notin Paths \cup [path : Paths, ver : Nat]
ASSUME OpsAssumption   == Ops \subseteq AllOps
ASSUME BoundAssumption == MaxVersion \in Nat /\ MaxJobs \in Nat \ {0}

VARIABLES
    disk,   \* what each folder contains
    shown,  \* activeLocalPath_ of MainWindow
    active, \* activePath_ of the controller, path_ of the widget
    view,   \* what setLocalState was last given since setFolder
    menu,   \* folder whose branches the branch menu offers (branchInfos_)
    busy,   \* busy_ of the widget
    bar,    \* whether the progress bar is shown
    jobs,   \* bag of the jobs in flight
    seen,   \* history: newest version shown since setFolder
    hidden, \* history: folders a failed operation changed, not read since
    excused \* history: a stage failed or the folder was removed, not read since

screen == <<shown, active, view, menu, seen>>
ghosts == <<hidden, excused>>
vars   == <<disk, screen, busy, bar, jobs, ghosts>>

View == [path : Paths, ver : Nat]

Result == {"waiting", "ok", "failed", "changed", "unmerged"}
Job    == [kind : AllOps \cup {"state", "infos"}, path : Paths,
           result : Result, ver : Nat]

Init ==
    /\ disk = [p \in Paths |-> 0]
    /\ shown = None /\ active = None
    /\ view = None /\ seen = 0 /\ menu = None
    /\ busy = FALSE /\ bar = FALSE
    /\ jobs = EmptyBag /\ hidden = {} /\ excused = FALSE
-----------------------------------------------------------------------------
Waiting(k, p) == [kind |-> k, path |-> p, result |-> "waiting", ver |-> 0]
Submit(k, p)  == SetToBag({Waiting(k, p)})
Refresh(p)    == Submit("state", p) (+) Submit("infos", p)

Bounded(now) == BagCardinality(now) <= MaxJobs

InFlight == BagToSet(jobs)
OpJobs   == {j \in InFlight : j.kind \in AllOps}
-----------------------------------------------------------------------------
(***************************************************************************)
(* The user.                                                               *)
(***************************************************************************)

\* Mutant of OpenFolder: the controller is not told of the folder.
OpenFolderUntold(p) ==
    /\ shown' = p /\ UNCHANGED active
    /\ view' = None /\ seen' = 0
    /\ jobs' = jobs (+) Refresh(p) /\ Bounded(jobs')
    /\ UNCHANGED <<disk, menu, busy, bar, ghosts>>

\* onLocalFolderActivated, setFolder, setActivePath, refreshActiveFolder.
OpenFolder(p) ==
    /\ shown' = p /\ active' = p
    /\ view' = None /\ seen' = 0
    /\ jobs' = jobs (+) Refresh(p) /\ Bounded(jobs')
    /\ UNCHANGED <<disk, menu, busy, bar, ghosts>>

\* onRemoveLocalFolderRequested: the controller is not told.
RemoveFolder ==
    /\ shown # None /\ shown' = None /\ excused' = TRUE
    /\ UNCHANGED <<disk, active, view, menu, seen, busy, bar, jobs, hidden>>

\* The Refresh button and the file system watcher.
RefreshRequested ==
    /\ active # None
    /\ jobs' = jobs (+) Refresh(active) /\ Bounded(jobs')
    /\ UNCHANGED <<disk, screen, busy, bar, ghosts>>

\* Buttons of the widget, which busy_ disables; the others are menu entries.
Buttons == {"stage", "commit", "remote", "push"}

\* What each request says is running.
SetsBusy == AllOps \ {"reset"}
SetsBar  == AllOps \ {"stage", "remote"}

\* The changes jobs in flight may still make, were they all of p, stay within
\* MaxVersion: at most so many operations overlap, in one folder or in several.
Room(p) == disk[p] + BagCardinality([j \in OpJobs |-> jobs[j]]) < MaxVersion

Request(k) ==
    /\ k \in Ops /\ shown # None /\ Room(shown)
    /\ k \in Buttons => ~busy
    /\ busy' = (busy \/ k \in SetsBusy)
    /\ bar' = (bar \/ k \in SetsBar)
    /\ jobs' = jobs (+) Submit(k, shown) /\ Bounded(jobs')
    /\ UNCHANGED <<disk, screen, ghosts>>
-----------------------------------------------------------------------------
(***************************************************************************)
(* The worker.                                                             *)
(***************************************************************************)
Ran(j, result, ver) ==
    jobs' = (jobs (-) SetToBag({j}))
            (+) SetToBag({[kind |-> j.kind, path |-> j.path,
                           result |-> result, ver |-> ver]})

\* refreshLocalState reads the folder.
RunRead(j) ==
    /\ j.result = "waiting" /\ j.kind = "state"
    /\ Ran(j, "ok", disk[j.path])
    /\ hidden' = hidden \ {j.path}
    /\ UNCHANGED <<disk, screen, busy, bar, excused>>

Changes(p) == disk' = [disk EXCEPT ![p] = @ + 1]

\* An operation succeeds, or fails and changes nothing.
RunOp(j) ==
    /\ j.result = "waiting" /\ j.kind \in AllOps
    /\ \/ Changes(j.path) /\ Ran(j, "ok", 0)
       \/ UNCHANGED disk /\ Ran(j, "failed", 0)
    /\ UNCHANGED <<screen, busy, bar, ghosts>>

\* createBranch: the branch is made and cannot be checked out.
RunHalf(j) ==
    /\ j.result = "waiting" /\ j.kind = "branch"
    /\ Changes(j.path) /\ Ran(j, "changed", 0)
    /\ hidden' = hidden \cup {j.path}
    /\ UNCHANGED <<screen, busy, bar, excused>>

\* deleteBranch: the branch has commits that HEAD has not.
RunUnmerged(j) ==
    /\ j.result = "waiting" /\ j.kind = "delete" /\ Ran(j, "unmerged", 0)
    /\ UNCHANGED <<disk, screen, busy, bar, ghosts>>
-----------------------------------------------------------------------------
(***************************************************************************)
(* Results.                                                                *)
(***************************************************************************)
Deliver(j, more) ==
    /\ j.result # "waiting" \/ j.kind = "infos"
    /\ jobs' = (jobs (-) SetToBag({j})) (+) more

Idle       == busy' = FALSE /\ bar' = FALSE
StillBusy  == UNCHANGED <<busy, bar>>
IfOk(j, b) == IF j.result = "ok" THEN b ELSE EmptyBag

\* A result for a folder no longer shown is dropped.
Drop(j) == Deliver(j, EmptyBag) /\ StillBusy

\* Mutant of LocalStateReady: the folder is not compared.
LocalStateReadyOfAny(j) ==
    /\ j.kind = "state" /\ Deliver(j, EmptyBag)
    /\ Idle
    /\ view' = [path |-> j.path, ver |-> j.ver]
    /\ seen' = IF j.ver > seen THEN j.ver ELSE seen
    /\ excused' = FALSE
    /\ UNCHANGED <<disk, shown, active, menu, hidden>>

\* onWorkerLocalStateReady, and onWorkspaceStateRefreshed of MainWindow.
LocalStateReady(j) ==
    /\ j.kind = "state" /\ Deliver(j, EmptyBag)
    /\ IF j.path = active THEN Idle /\ excused' = FALSE ELSE StillBusy /\ UNCHANGED excused
    /\ IF j.path = active /\ j.path = shown
       THEN /\ view' = [path |-> j.path, ver |-> j.ver]
            /\ seen' = IF j.ver > seen THEN j.ver ELSE seen
       ELSE UNCHANGED <<view, seen>>
    /\ UNCHANGED <<disk, shown, active, menu, hidden>>

\* onWorkerBranchInfosReady, and onWorkspaceBranchInfosReady of MainWindow:
\* only whose branches they are matters here, so when they were read does not.
BranchInfosReady(j) ==
    /\ j.kind = "infos" /\ Deliver(j, EmptyBag)
    /\ menu' = IF j.path = active /\ j.path = shown THEN j.path ELSE menu
    /\ UNCHANGED <<disk, shown, active, view, seen, busy, bar, ghosts>>

\* Mutant of StageFinished: a stage that worked is not read back.
StageFinishedUnread(j) ==
    /\ j.kind = "stage" /\ Deliver(j, EmptyBag) /\ StillBusy
    /\ excused' = (excused \/ (j.path = active /\ j.result = "failed"))
    /\ UNCHANGED <<disk, screen, hidden>>

\* onWorkerStageFinished and onWorkerUnstageFinished leave it to the refresh
\* to enable the controls.
StageFinished(j) ==
    /\ j.kind = "stage"
    /\ IF j.path = active THEN Deliver(j, IfOk(j, Submit("state", j.path))) /\ StillBusy
                          ELSE Drop(j)
    /\ excused' = (excused \/ (j.path = active /\ j.result = "failed"))
    /\ UNCHANGED <<disk, screen, hidden>>

CommitFinished(j) ==
    /\ j.kind = "commit"
    /\ IF j.path = active THEN Deliver(j, IfOk(j, Submit("state", j.path))) /\ Idle
                          ELSE Drop(j)
    /\ UNCHANGED <<disk, screen, ghosts>>

\* onWorkerInitFinished, onWorkerBranchCreated, onWorkerBranchRenamed.
BranchFinished(j) ==
    /\ j.kind = "branch"
    /\ IF j.path = active THEN Deliver(j, IfOk(j, Refresh(j.path))) /\ Idle
                          ELSE Drop(j)
    /\ UNCHANGED <<disk, screen, ghosts>>

\* Mutant of BranchDeleted: a deletion refused keeps the controls disabled.
BranchDeletedBusy(j) ==
    /\ j.kind = "delete"
    /\ IF j.path = active
       THEN /\ Deliver(j, IfOk(j, Refresh(j.path)))
            /\ IF j.result = "unmerged" THEN StillBusy ELSE Idle
       ELSE Drop(j)
    /\ UNCHANGED <<disk, screen, ghosts>>

\* onWorkerBranchDeleted.  It asks about a forced deletion when the message
\* says "not fully merged", which none of deleteBranch does.
BranchDeleted(j) ==
    /\ j.kind = "delete"
    /\ IF j.path = active THEN Deliver(j, IfOk(j, Refresh(j.path))) /\ Idle
                          ELSE Drop(j)
    /\ UNCHANGED <<disk, screen, ghosts>>

\* onWorkerBranchSwitched, and onBranchSwitched of MainWindow, which looks at
\* no path before it says that nothing is running.
BranchSwitched(j) ==
    /\ j.kind = "switch" /\ Idle
    /\ Deliver(j, (IF j.path = active THEN IfOk(j, Refresh(j.path)) ELSE EmptyBag)
                  (+) (IF j.path = shown THEN Refresh(j.path) ELSE EmptyBag))
    /\ UNCHANGED <<disk, screen, ghosts>>

\* onRemoteOpFinished of MainWindow, outside a publish.
RemoteOpFinished(j) ==
    /\ j.kind = "remote" /\ busy' = FALSE /\ UNCHANGED bar
    /\ Deliver(j, IF j.path = shown THEN Submit("state", j.path) ELSE EmptyBag)
    /\ UNCHANGED <<disk, screen, ghosts>>

\* onPushFinished of MainWindow, outside a publish.
PushFinished(j) ==
    /\ j.kind = "push" /\ Idle
    /\ Deliver(j, IF j.path = shown THEN Submit("state", j.path) ELSE EmptyBag)
    /\ UNCHANGED <<disk, screen, ghosts>>

\* onFetchFinished and onUndoLastCommitFinished.
FetchFinished(j) ==
    /\ j.kind = "fetch"
    /\ IF j.path = shown THEN Deliver(j, IfOk(j, Refresh(active))) /\ Idle
                         ELSE Drop(j)
    /\ UNCHANGED <<disk, screen, ghosts>>

StashOpFinished(j) ==
    /\ j.kind = "stash"
    /\ IF j.path = shown THEN Deliver(j, Submit("state", j.path)) /\ Idle
                         ELSE Drop(j)
    /\ UNCHANGED <<disk, screen, ghosts>>

\* onSoftResetFinished has not disabled the controls.
SoftResetFinished(j) ==
    /\ j.kind = "reset"
    /\ IF j.path = shown
       THEN Deliver(j, IfOk(j, Refresh(active))) /\ bar' = FALSE /\ UNCHANGED busy
       ELSE Drop(j)
    /\ UNCHANGED <<disk, screen, ghosts>>
-----------------------------------------------------------------------------
User ==
    \/ RemoveFolder \/ RefreshRequested
    \/ \E p \in Paths : OpenFolder(p)
    \/ \E k \in Ops : Request(k)

Pool == \E j \in InFlight : RunRead(j) \/ RunOp(j) \/ RunHalf(j) \/ RunUnmerged(j)

Results ==
    \E j \in InFlight :
        \/ LocalStateReady(j) \/ BranchInfosReady(j)
        \/ StageFinished(j) \/ CommitFinished(j) \/ BranchFinished(j)
        \/ BranchDeleted(j) \/ BranchSwitched(j) \/ RemoteOpFinished(j)
        \/ PushFinished(j) \/ FetchFinished(j) \/ StashOpFinished(j)
        \/ SoftResetFinished(j)

Next == User \/ Pool \/ Results

Spec == Init /\ [][Next]_vars
-----------------------------------------------------------------------------
\* Every variable stays in its range.
TypeOK ==
    /\ disk \in [Paths -> Nat]
    /\ shown \in {None, active} /\ active \in Paths \cup {None}
    /\ view \in View \cup {None} /\ seen \in Nat
    /\ menu \in Paths \cup {None}
    /\ busy \in BOOLEAN /\ bar \in BOOLEAN
    /\ InFlight \subseteq Job /\ hidden \subseteq Paths /\ excused \in BOOLEAN

(***************************************************************************)
(* Whatever is delivered late, what is shown of a folder was read in it    *)
(* (the filters on activePath_).                                           *)
(***************************************************************************)
ViewOfShown == view # None => view.path = active /\ seen >= view.ver

Quiet == InFlight = {}

(***************************************************************************)
(* When nothing is in flight, the folder shown has been read, and all that *)
(* was done in it is shown: every change is read back by whoever is told   *)
(* of it.  Two cases are excluded: a reading that an older one overtook    *)
(* (ViewNeverGoesBack), and an operation that failed half, after which     *)
(* nobody reads.                                                           *)
(***************************************************************************)
ChangesAreShown ==
    Quiet /\ shown # None =>
        /\ view # None
        /\ view.ver = seen /\ shown \notin hidden => view.ver = disk[shown]

(***************************************************************************)
(* Once nothing is in flight, nothing is said to be running, unless a      *)
(* stage failed or the folder was removed from the sidebar meanwhile:      *)
(* every way an operation can end enables the controls and hides the bar.  *)
(***************************************************************************)
QuietIsIdle ==
    Quiet /\ ~excused => ~busy /\ ~bar
-----------------------------------------------------------------------------
(***************************************************************************)
(* What a comment says and the code does not do.                           *)
(***************************************************************************)
\* MainWindow.cpp, wireSignals: the worker runs tasks one at a time, so a
\* newer reading is not overtaken by an older one.
ViewNeverGoesBack == view # None => view.ver = seen
=============================================================================
