------------------------------ MODULE Changes -------------------------------
(***************************************************************************)
(* The Changes tab of a local folder: the list of changed files and the    *)
(* diff of the file selected.                                              *)
(*                                                                         *)
(* The list is rebuilt whenever a state of the folder arrives, and the     *)
(* diff asked for again, so several requests for one file may be under way.*)
(* A result carries its folder and its file, not its request: only those   *)
(* of other folders and files are known for stale.                         *)
(***************************************************************************)
EXTENDS Naturals, SequencesExt, FiniteSetsExt

CONSTANTS
    Folders,
    Files,     \* paths relative to a folder, the same in each
    None,
    MaxEdits,  \* bound: editions of the working trees
    MaxJobs    \* bound: requests on the pool or on their way back

ChangesAssumption ==
    /\ None \notin Files /\ IsFiniteSet(Files)
    /\ MaxEdits \in Nat /\ MaxJobs \in Nat \ {0}

VARIABLES
    folder,           \* path_, activeLocalPath_ and activePath_
    edition,          \* counts the changes of the working trees
    isRepository,     \* isRepository_
    list,             \* changesList_, without its note of a clean tree
    listEdition,      \* history: the edition the list was read in
    selected,         \* the files selected in it
    currentDiffPath,  \* currentDiffPath_
    view,             \* diffView_
    jobs

panel == <<folder, isRepository, list, listEdition, selected, currentDiffPath, view>>
vars  == <<panel, edition, jobs>>

View == [state : {"empty", "loading", "diff", "failed"}, file : Files \cup {None},
         at : Folders \cup {None}, edition : Nat,
         passed : BOOLEAN]  \* history: a later request was answered before
Job  == [file : Files \cup {None},  \* None in a reading of the state
         at : Folders, state : {"waits", "done", "failed"}, edition : Nat,
         repo : BOOLEAN, read : SUBSET Files, passed : BOOLEAN]

Empty == [state |-> "empty", file |-> None, at |-> None, edition |-> 0, passed |-> FALSE]
Loading(f) == [Empty EXCEPT !.state = "loading", !.file = f]

Task(f, at) == [file |-> f, at |-> at, state |-> "waits", edition |-> 0,
                repo |-> FALSE, read |-> {}, passed |-> FALSE]

Init ==
    /\ folder \in Folders /\ edition = 0 /\ isRepository = FALSE
    /\ list = {} /\ listEdition = 0 /\ selected = {}
    /\ currentDiffPath = None /\ view = Empty /\ jobs = <<Task(None, folder)>>
-----------------------------------------------------------------------------
\* Mutant of requestDiffForSelection: what is already asked for is not again.
requestDiffOnce(rest) ==
    LET one == isRepository' /\ Cardinality(selected') = 1
        f   == CHOOSE f \in selected' : TRUE
    IN  IF one /\ f # currentDiffPath
        THEN /\ currentDiffPath' = f /\ view' = Loading(f)
             /\ jobs' = Append(rest, Task(f, folder'))
        ELSE /\ jobs' = rest
             /\ IF one THEN UNCHANGED <<currentDiffPath, view>>
                ELSE currentDiffPath' = None /\ view' = Empty

\* A single selection is shown; rest are the other jobs.
requestDiffForSelection(rest) ==
    IF isRepository' /\ Cardinality(selected') = 1
    THEN LET f == CHOOSE f \in selected' : TRUE
         IN  /\ currentDiffPath' = f /\ view' = Loading(f)
             /\ jobs' = Append(rest, Task(f, folder'))
    ELSE currentDiffPath' = None /\ view' = Empty /\ jobs' = rest

Bounded == Len(jobs') <= MaxJobs
-----------------------------------------------------------------------------
\* setFolder and the reading of the state that follows it.
OpenFolder(p) ==
    /\ folder' = p /\ isRepository' = FALSE /\ list' = {} /\ listEdition' = 0
    /\ selected' = {} /\ currentDiffPath' = None /\ view' = Empty
    /\ jobs' = Append(jobs, Task(None, p)) /\ Bounded /\ UNCHANGED edition

\* By the user, by the file watcher and behind an operation.
RefreshRequested ==
    /\ jobs' = Append(jobs, Task(None, folder)) /\ Bounded
    /\ UNCHANGED <<panel, edition>>

ChangesSelectionChanged(s) ==
    /\ isRepository /\ s # selected /\ selected' = s
    /\ UNCHANGED <<folder, edition, isRepository, list, listEdition>>
    /\ requestDiffForSelection(jobs) /\ Bounded

\* An editor, another program, or an operation of the folder.
Edit ==
    /\ edition < MaxEdits /\ edition' = edition + 1 /\ UNCHANGED <<panel, jobs>>
-----------------------------------------------------------------------------
\* Which files are changed is not followed: a reading finds any of them.
readState(i) ==
    /\ jobs[i].file = None
    /\ \E r \in BOOLEAN, s \in SUBSET Files :
        jobs' = [jobs EXCEPT ![i] = [@ EXCEPT
                    !.state = "done", !.edition = edition, !.repo = r,
                    !.read = IF r THEN s ELSE {}]]

fileDiff(i) ==
    /\ jobs[i].file # None
    /\ \/ jobs' = [jobs EXCEPT ![i].state = "done", ![i].edition = edition]
       \/ jobs' = [jobs EXCEPT ![i].state = "failed"]

Run(i) ==
    /\ jobs[i].state = "waits" /\ (readState(i) \/ fileDiff(i))
    /\ UNCHANGED <<panel, edition>>
-----------------------------------------------------------------------------
Back(i) == jobs[i].state # "waits"

\* rebuildChangesList selects again what was selected alone, and no signal of
\* the list is heard meanwhile.
LocalStateReady(i) ==
    /\ Back(i) /\ jobs[i].file = None /\ UNCHANGED <<folder, edition>>
    /\ IF jobs[i].at # folder
       THEN /\ jobs' = RemoveAt(jobs, i)
            /\ UNCHANGED <<isRepository, list, listEdition, selected,
                           currentDiffPath, view>>
       ELSE /\ isRepository' = jobs[i].repo
            /\ IF jobs[i].repo
               THEN /\ list' = jobs[i].read /\ listEdition' = jobs[i].edition
                    /\ selected' = IF Cardinality(selected) = 1
                                   THEN selected \cap jobs[i].read ELSE {}
                    /\ requestDiffForSelection(RemoveAt(jobs, i)) /\ Bounded
               ELSE /\ jobs' = RemoveAt(jobs, i)
                    /\ UNCHANGED <<list, listEdition, selected,
                                   currentDiffPath, view>>

\* Of onWorkspaceFileDiffReady and setFileDiff: the filters of stale results.
Expected(j) == j.at = folder /\ j.file = currentDiffPath

FileDiffReady(i) ==
    LET j == jobs[i]
        Earlier(k) == k < i /\ jobs[k].file = j.file /\ jobs[k].at = j.at
    IN  /\ Back(i) /\ j.file # None
        /\ jobs' = RemoveAt([k \in DOMAIN jobs |->
                       [jobs[k] EXCEPT !.passed = @ \/ Earlier(k)]], i)
        /\ view' = IF ~Expected(j) THEN view
                   ELSE IF j.state = "failed" THEN [Empty EXCEPT !.state = "failed"]
                   ELSE [state |-> "diff", file |-> j.file, at |-> j.at,
                         edition |-> j.edition, passed |-> j.passed]
        /\ UNCHANGED <<folder, isRepository, list, listEdition, selected,
                       currentDiffPath, edition>>
-----------------------------------------------------------------------------
Next ==
    \/ \E p \in Folders : OpenFolder(p)
    \/ RefreshRequested \/ Edit
    \/ \E s \in SUBSET list : ChangesSelectionChanged(s)
    \/ \E i \in DOMAIN jobs : Run(i) \/ LocalStateReady(i) \/ FileDiffReady(i)

Spec == Init /\ [][Next]_vars
-----------------------------------------------------------------------------
\* Every variable stays in its range.
TypeOK ==
    /\ folder \in Folders /\ edition \in Nat /\ listEdition \in Nat
    /\ isRepository \in BOOLEAN /\ list \subseteq Files /\ selected \subseteq list
    /\ currentDiffPath \in Files \cup {None} /\ view \in View /\ jobs \in Seq(Job)

(***************************************************************************)
(* However often the folder and the selection change while diffs are       *)
(* computed, a diff on display is that of the one file selected, in the    *)
(* folder on screen (setFileDiff).                                         *)
(***************************************************************************)
DiffIsOfSelected ==
    view.state = "diff" => view.at = folder /\ selected = {view.file}

\* A request under way whose answer will be taken.
Awaited == \E i \in DOMAIN jobs : jobs[i].file # None /\ Expected(jobs[i])

(***************************************************************************)
(* A diff "loading" has its request under way (requestDiffForSelection).   *)
(***************************************************************************)
LoadingIsAwaited == view.state = "loading" => Awaited

(***************************************************************************)
(* A diff left on display is no older than the list above it: a list that  *)
(* arrives behind a diff asks for it again.  It does not hold of a diff    *)
(* overtaken by the answer to a later request for the same file            *)
(* (setLocalState, setFileDiff).                                           *)
(***************************************************************************)
DiffKeepsUp ==
    view.state = "diff" /\ isRepository /\ ~Awaited /\ ~view.passed =>
        view.edition >= listEdition
=============================================================================
