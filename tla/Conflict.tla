------------------------------ MODULE Conflict ------------------------------
(***************************************************************************)
(* Resolving the conflicts of a merge: ConflictController, the modeless    *)
(* ConflictResolutionDialog it feeds, and the jobs both start on the       *)
(* worker's thread pool.                                                   *)
(*                                                                         *)
(* A job runs on any thread of the pool and its result is delivered later, *)
(* in any order with the others.  The dialog outlives a session: reset()   *)
(* hides it and forgets the controller's state, never the dialog's.  Files *)
(* are numbers in the order in which the index lists them.                 *)
(***************************************************************************)
EXTENDS Integers

CONSTANTS
    Folders,   \* local folders
    NoFolder,  \* the empty path
    NFiles,    \* files that can be in conflict
    MaxJobs,   \* bound on list, resolve and abort jobs of one execution
    MaxLoads,  \* bound on loads in flight of one file
    MaxMerges  \* bound on merges that end in conflicts

ASSUME NoFolderAssumption == NoFolder \notin Folders
ASSUME ConflictAssumption == /\ NFiles \in Nat /\ MaxJobs \in Nat
                             /\ MaxLoads \in Nat /\ MaxMerges \in Nat

VARIABLES
    folder,      \* MainWindow::activeLocalPath_
    activePath,  \* ConflictController::activePath_
    lastEntries, \* ConflictController::lastEntries_
    open,        \* the dialog is visible
    busy,        \* ConflictResolutionDialog::busy_
    list,        \* files of the dialog's list
    selected,    \* the list's current file (0: none)
    shownPath,   \* ConflictResolutionDialog::currentlyShownPath_ (0: none)
    panes,       \* what the three panes show
    jobs,        \* list, resolve and abort jobs under way
    loads,       \* folder, file -> loads of its blobs under way
    sent, merges,\* bounds: jobs and merges so far
    conflicts,   \* folder -> files in conflict in its index
    reused,      \* history: a session has ended, the next one gets its dialog
    disturbed    \* history: a list failed, or a merge began under one

control == <<activePath, lastEntries>>
dialog  == <<open, busy, list, selected, shownPath, panes>>
pool    == <<jobs, loads, sent>>
outside == <<conflicts, merges>>
history == <<reused, disturbed>>
vars    == <<folder, control, dialog, pool, outside, history>>
-----------------------------------------------------------------------------
Files   == 1..NFiles
NoFile  == 0
Paths   == Files \cup {NoFile}
Ops     == {"resolve", "abort"}

\* The panes are blank, await a load, or hold the sides of a folder's file.
Sides(f, p) == [show |-> "sides", of |-> f, file |-> p]
Blank       == [show |-> "blank", of |-> NoFolder, file |-> NoFile]
Loading     == [show |-> "loading", of |-> NoFolder, file |-> NoFile]
Panes       == {Blank, Loading} \cup {Sides(f, p) : f \in Folders, p \in Files}

\* Only a resolve names a file.  got is what a finished list holds, ok whether a
\* finished operation succeeded.
JobOf(kinds, files) == [id : 1..MaxJobs, kind : kinds, of : Folders, file : files,
                        done : BOOLEAN, ok : BOOLEAN, got : SUBSET Files]
Job == JobOf({"resolve"}, Files) \cup JobOf({"list", "abort"}, {NoFile})

Init ==
    /\ folder \in Folders
    /\ activePath = NoFolder /\ lastEntries = {}
    /\ open = FALSE /\ busy = FALSE /\ list = {}
    /\ selected = NoFile /\ shownPath = NoFile /\ panes = Blank
    /\ jobs = {} /\ loads = [f \in Folders |-> [p \in Files |-> 0]] /\ sent = 0
    /\ conflicts \in [Folders -> SUBSET Files] /\ merges = 0
    /\ reused = FALSE /\ disturbed = FALSE
-----------------------------------------------------------------------------
(***************************************************************************)
(* Pieces of the handlers.                                                 *)
(***************************************************************************)
NewJob(kind, of, file) ==
    [id |-> sent + 1, kind |-> kind, of |-> of, file |-> file, done |-> FALSE,
     ok |-> FALSE, got |-> {}]

\* rest: the jobs under way beside the new one.
Submit(rest, kind, of, file) ==
    /\ sent < MaxJobs /\ sent' = sent + 1
    /\ jobs' = rest \cup {NewJob(kind, of, file)}

\* First the blobs of p, then those of q (NoFile: none).
Load(of, p, q) ==
    /\ loads' = [loads EXCEPT ![of] = [x \in Files |->
            @[x] + (IF x = p THEN 1 ELSE 0) + (IF x = q THEN 1 ELSE 0)]]
    /\ \A x \in Files : loads'[of][x] <= MaxLoads

\* ConflictController::reset
Reset ==
    /\ activePath' = NoFolder /\ lastEntries' = {} /\ open' = FALSE
    /\ reused' = (reused \/ activePath # NoFolder)
-----------------------------------------------------------------------------
(***************************************************************************)
(* The user.                                                               *)
(***************************************************************************)
\* onResolveConflictsRequested: ConflictController::start.
Start ==
    /\ activePath' = folder /\ open' = TRUE
    /\ Submit(jobs, "list", folder, NoFile)
    /\ UNCHANGED <<folder, lastEntries, busy, list, selected, shownPath, panes, loads,
                   outside, history>>

\* MainWindow::onLocalFolderActivated
ActivateFolder(f) ==
    /\ folder' = f
    /\ Reset
    /\ UNCHANGED <<busy, list, selected, shownPath, panes, pool, outside, disturbed>>

\* Close and Escape hide the dialog; the controller does not notice.
CloseDialog ==
    /\ open /\ open' = FALSE
    /\ UNCHANGED <<folder, control, busy, list, selected, shownPath, panes, pool, outside,
                   history>>

\* onListSelectionChanged, onDialogEntrySelectionChanged
Select(p) ==
    /\ open /\ p \in list /\ p # selected /\ selected' = p
    /\ \/ /\ p = shownPath /\ UNCHANGED <<panes, loads>>
       \/ /\ p # shownPath /\ panes' = Loading
          /\ \/ /\ activePath # NoFolder /\ p \in lastEntries
                /\ Load(activePath, p, NoFile)
             \/ ~(activePath # NoFolder /\ p \in lastEntries) /\ UNCHANGED loads
    /\ UNCHANGED <<folder, control, open, busy, list, shownPath, jobs, sent, outside, history>>

\* Mutant of MarkResolved: the buttons stay enabled.
MarkResolvedNotBusy ==
    /\ open /\ selected # NoFile /\ ~busy
    /\ activePath # NoFolder
    /\ Submit(jobs, "resolve", activePath, selected)
    /\ UNCHANGED <<folder, control, dialog, loads, outside, history>>

\* onDialogMarkResolved
MarkResolved ==
    /\ open /\ selected # NoFile /\ ~busy
    /\ activePath # NoFolder
    /\ busy' = TRUE
    /\ Submit(jobs, "resolve", activePath, selected)
    /\ UNCHANGED <<folder, control, open, list, selected, shownPath, panes, loads, outside,
                   history>>

\* onDialogAbortMerge, once the user has confirmed.
AbortMerge ==
    /\ open /\ list # {} /\ ~busy
    /\ activePath # NoFolder
    /\ busy' = TRUE
    /\ Submit(jobs, "abort", activePath, NoFile)
    /\ UNCHANGED <<folder, control, open, list, selected, shownPath, panes, loads, outside,
                   history>>

\* A merge, pull or cherry-pick that leaves conflicts, here or in a terminal.
MergeConflicts(f, S) ==
    /\ merges < MaxMerges /\ merges' = merges + 1
    /\ conflicts[f] = {} /\ S # {}
    /\ conflicts' = [conflicts EXCEPT ![f] = S]
    /\ disturbed' = (disturbed \/ \E j \in jobs : j.of = f)
    /\ UNCHANGED <<folder, control, dialog, pool, reused>>
-----------------------------------------------------------------------------
(***************************************************************************)
(* Jobs on the thread pool.                                                *)
(***************************************************************************)
Done(j, ok, got) ==
    jobs' = (jobs \ {j}) \cup {[j EXCEPT !.done = TRUE, !.ok = ok, !.got = got]}

\* GitHandler::listConflicts; the worker drops its error and delivers what the
\* list held by then.
RunList(j) ==
    /\ ~j.done /\ j.kind = "list"
    /\ \/ Done(j, TRUE, conflicts[j.of]) /\ UNCHANGED disturbed
       \/ \E S \in SUBSET conflicts[j.of] : Done(j, FALSE, S) /\ disturbed' = TRUE
    /\ UNCHANGED <<folder, control, dialog, loads, sent, outside, reused>>

\* GitHandler::markResolved; the index is written in one piece or not at all.
RunResolve(j) ==
    /\ ~j.done /\ j.kind = "resolve"
    /\ \/ /\ Done(j, TRUE, {})
          /\ conflicts' = [conflicts EXCEPT ![j.of] = @ \ {j.file}]
       \/ Done(j, FALSE, {}) /\ UNCHANGED conflicts
    /\ UNCHANGED <<folder, control, dialog, loads, sent, merges, history>>

\* GitHandler::abortMerge
RunAbort(j) ==
    /\ ~j.done /\ j.kind = "abort"
    /\ \/ Done(j, TRUE, {}) /\ conflicts' = [conflicts EXCEPT ![j.of] = {}]
       \/ Done(j, FALSE, {}) /\ UNCHANGED conflicts
    /\ UNCHANGED <<folder, control, dialog, loads, sent, merges, history>>
-----------------------------------------------------------------------------
(***************************************************************************)
(* Results on the GUI thread.                                              *)
(***************************************************************************)
\* ConflictResolutionDialog::setEntries with a list that is not empty, and
\* the load of its first entry that onConflictsReady adds.
ShowEntries(S) ==
    \E first \in S :
        LET current == IF selected \in S THEN selected ELSE first
            fresh   == current # shownPath
        IN  /\ \A p \in S : first <= p
            /\ list' = S /\ selected' = current
            /\ panes' = IF fresh THEN Loading ELSE panes
            /\ Load(activePath, IF fresh THEN current ELSE NoFile, first)
            /\ UNCHANGED <<open, shownPath>>

ClearEntries ==
    /\ list' = {} /\ selected' = NoFile /\ shownPath' = NoFile /\ panes' = Blank

\* Mutant of ConflictsReady: the list of any folder is taken.
ConflictsReadyAnyFolder(j) ==
    /\ j.done /\ j.kind = "list" /\ jobs' = jobs \ {j}
    /\ \/ /\ activePath # NoFolder /\ j.got # {}
          /\ lastEntries' = j.got /\ ShowEntries(j.got)
          /\ UNCHANGED <<activePath, reused>>
       \/ /\ activePath # NoFolder /\ j.got = {}
          /\ ClearEntries /\ Reset
          /\ UNCHANGED loads
       \/ /\ activePath = NoFolder
          /\ UNCHANGED <<control, open, list, selected, shownPath, panes, loads, reused>>
    /\ UNCHANGED <<folder, busy, sent, outside, disturbed>>

\* onConflictsReady: an empty list ends the session with allResolved.
ConflictsReady(j) ==
    /\ j.done /\ j.kind = "list" /\ jobs' = jobs \ {j}
    /\ \/ /\ j.of = activePath /\ j.got # {}
          /\ lastEntries' = j.got /\ ShowEntries(j.got)
          /\ UNCHANGED <<activePath, reused>>
       \/ /\ j.of = activePath /\ j.got = {}
          /\ ClearEntries /\ Reset
          /\ UNCHANGED loads
       \/ /\ j.of # activePath
          /\ UNCHANGED <<control, open, list, selected, shownPath, panes, loads, reused>>
    /\ UNCHANGED <<folder, busy, sent, outside, disturbed>>

\* Mutant of BlobsReady: the dialog does not compare with its selection.
BlobsReadyUnchecked(f, p) ==
    /\ loads[f][p] > 0 /\ loads' = [loads EXCEPT ![f][p] = @ - 1]
    /\ \/ f = activePath /\ panes' = Sides(f, p) /\ shownPath' = p
       \/ f # activePath /\ UNCHANGED <<panes, shownPath>>
    /\ UNCHANGED <<folder, control, open, busy, list, selected, jobs, sent, outside, history>>

\* onConflictBlobsReady, setBlobsForEntry; a failed load shows empty sides.
BlobsReady(f, p) ==
    /\ loads[f][p] > 0 /\ loads' = [loads EXCEPT ![f][p] = @ - 1]
    /\ \/ f = activePath /\ p = selected
          /\ panes' = Sides(f, p) /\ shownPath' = p
       \/ ~(f = activePath /\ p = selected) /\ UNCHANGED <<panes, shownPath>>
    /\ UNCHANGED <<folder, control, open, busy, list, selected, jobs, sent, outside, history>>

\* Mutant of OpFinished: a failure returns before the dialog is released.
OpFinishedKeepsBusy(j) ==
    /\ j.done /\ j.kind \in Ops
    /\ \/ /\ j.of # activePath \/ ~j.ok
          /\ jobs' = jobs \ {j} /\ UNCHANGED <<control, open, busy, sent, reused>>
       \/ /\ j.of = activePath /\ j.ok /\ busy' = FALSE
          /\ \/ /\ j.kind = "resolve"
                /\ Submit(jobs \ {j}, "list", j.of, NoFile)
                /\ UNCHANGED <<control, open, reused>>
             \/ j.kind = "abort" /\ jobs' = jobs \ {j} /\ Reset /\ UNCHANGED sent
    /\ UNCHANGED <<folder, list, selected, shownPath, panes, loads, outside, disturbed>>

\* onConflictOpFinished
OpFinished(j) ==
    /\ j.done /\ j.kind \in Ops
    /\ \/ /\ j.of # activePath /\ jobs' = jobs \ {j}
          /\ UNCHANGED <<control, open, busy, sent, reused>>
       \/ /\ j.of = activePath /\ busy' = FALSE
          /\ \/ ~j.ok /\ jobs' = jobs \ {j} /\ UNCHANGED <<control, open, sent, reused>>
             \/ /\ j.ok /\ j.kind = "resolve"
                /\ Submit(jobs \ {j}, "list", j.of, NoFile)
                /\ UNCHANGED <<control, open, reused>>
             \/ /\ j.ok /\ j.kind = "abort" /\ jobs' = jobs \ {j} /\ Reset
                /\ UNCHANGED sent
    /\ UNCHANGED <<folder, list, selected, shownPath, panes, loads, outside, disturbed>>
-----------------------------------------------------------------------------
User == \/ Start \/ CloseDialog \/ MarkResolved \/ AbortMerge
        \/ \E f \in Folders : ActivateFolder(f)
        \/ \E p \in Files : Select(p)
        \/ \E f \in Folders, S \in SUBSET Files : MergeConflicts(f, S)

Run     == \E j \in jobs : RunList(j) \/ RunResolve(j) \/ RunAbort(j)
Deliver == \/ \E j \in jobs : ConflictsReady(j) \/ OpFinished(j)
           \/ \E f \in Folders, p \in Files : BlobsReady(f, p)

Next == User \/ Run \/ Deliver

Spec == Init /\ [][Next]_vars
-----------------------------------------------------------------------------
(***************************************************************************)
(* Properties.                                                             *)
(***************************************************************************)
OpsInFlight == {j \in jobs : j.kind \in Ops}

\* Every variable stays in its range; a resolve always names a file.
TypeOK ==
    /\ folder \in Folders /\ activePath \in Folders \cup {NoFolder}
    /\ lastEntries \subseteq Files /\ list \subseteq Files
    /\ open \in BOOLEAN /\ busy \in BOOLEAN
    /\ selected \in Paths /\ shownPath \in Paths /\ panes \in Panes
    /\ jobs \subseteq Job /\ sent \in 0..MaxJobs
    /\ loads \in [Folders -> [Files -> 0..MaxLoads]]
    /\ conflicts \in [Folders -> SUBSET Files] /\ merges \in 0..MaxMerges
    /\ reused \in BOOLEAN /\ disturbed \in BOOLEAN

\* The dialog never has two operations under way: no two of them write an index
\* at the same time, whichever folders they were started for.
OneOpAtATime == /\ OpsInFlight # {} => busy
                /\ \A j, k \in OpsInFlight : j = k

\* Panes that hold the sides of a file hold those of the selected file, though
\* loads are answered in any order and the list is replaced under the user.
PanesMatchSelection == panes.show = "sides" => panes.file = selected /\ shownPath = selected

\* Until a first session ends, the panes are of the active folder and the buttons
\* are disabled exactly while an operation is under way.
FirstUseIsClean ==
    ~reused => /\ panes.show = "sides" => panes.of = activePath
               /\ busy <=> OpsInFlight # {}

\* The step that takes an empty list for the end of the session in f.
AllResolved(f) ==
    /\ activePath = f /\ activePath' = NoFolder
    /\ \E j \in jobs : j.kind = "list" /\ jobs' = jobs \ {j}

\* When no list failed and no merge began under a job, allResolved tells the truth:
\* the index has no conflict left, whatever was asked and answered meanwhile.
UndisturbedAllResolvedIsTrue ==
    [][\A f \in Folders : AllResolved(f) /\ ~disturbed => conflicts[f] = {}]_vars
=============================================================================
