-------------------------------- MODULE Tags --------------------------------
(***************************************************************************)
(* The tags of a folder and the dialog that lists, creates and deletes     *)
(* them.                                                                   *)
(*                                                                         *)
(* Unlike a stash, a tag is named to its job by its name, and the dialog   *)
(* disables itself for as long as a creation or a deletion runs.  It is    *)
(* modal for the user; results are handled behind it, behind its question  *)
(* and behind the warnings of failures.                                    *)
(***************************************************************************)
EXTENDS Naturals, SequencesExt

CONSTANTS
    Folders,
    Names,       \* well-formed names of tags
    None,
    MaxCommits,  \* bound: commits made in a folder
    MaxJobs      \* bound: jobs and warnings at a time

TagsAssumption ==
    /\ None \notin Folders \cup Names
    /\ MaxCommits \in Nat \ {0} /\ MaxJobs \in Nat \ {0}

VARIABLES
    folder,     \* activeLocalPath_
    head,       \* HEAD of each folder, 0 while unborn
    tags,       \* refs/tags of each folder: the commit of a name, None without
    jobs,       \* on the pool or on their way back
    open,       \* whether the dialog is on screen
    list,       \* currentTags_: the names it lists
    current,    \* the row selected
    typed,      \* nameEdit_
    error,      \* nameError_: not hidden
    canCreate,  \* createBtn_
    busy,       \* the list and the fields disabled
    asking,     \* name the question before a deletion is about
    warnings,   \* warnings on screen
    lapsed,     \* history: a stale or failed reading replaced the list
    deserted    \* history: a result found another folder open

dialog == <<open, list, current, typed, error, canCreate, busy, asking>>
git    == <<head, tags>>
vars   == <<folder, jobs, warnings, lapsed, deserted, git, dialog>>

Changes == {"create", "delete"}
Job == [op : Changes \cup {"list"}, at : Folders, name : Names \cup {None},
        target : 0 .. MaxCommits, read : SUBSET Names,
        state : {"waits", "half", "done", "failed"}]

Task(op, at, n) ==
    [op |-> op, at |-> at, name |-> n, target |-> 0, read |-> {}, state |-> "waits"]
Start(op, n) == jobs' = Append(jobs, Task(op, folder, n))
Room        == Len(jobs) + warnings < MaxJobs
Ends(i, s)  == jobs' = [jobs EXCEPT ![i].state = s, ![i].target = 0]
NamesOf(f)  == {n \in Names : tags[f][n] # None}

Init ==
    /\ folder \in Folders /\ head = [f \in Folders |-> 0]
    /\ tags = [f \in Folders |-> [n \in Names |-> None]]
    /\ jobs = <<>> /\ open = FALSE /\ list = {} /\ current = None
    /\ typed = None /\ error = FALSE /\ canCreate = FALSE /\ busy = FALSE
    /\ asking = None /\ warnings = 0 /\ lapsed = FALSE /\ deserted = FALSE
-----------------------------------------------------------------------------
(***************************************************************************)
(* The window, when no dialog is in front of it, and commits, which may    *)
(* end at any time.                                                        *)
(***************************************************************************)
\* None when the folder is removed from the sidebar.
OpenFolder(f) ==
    /\ ~open /\ warnings = 0 /\ folder' = f
    /\ UNCHANGED <<jobs, warnings, lapsed, deserted, git, dialog>>

\* The dialog comes up with what it showed last.
TagsRequested ==
    /\ ~open /\ warnings = 0 /\ folder # None /\ Room /\ Start("list", None)
    /\ open' = TRUE
    /\ UNCHANGED <<folder, warnings, lapsed, deserted, git, list, current,
                   typed, error, canCreate, busy, asking>>

Commit(f) ==
    /\ head[f] < MaxCommits /\ head' = [head EXCEPT ![f] = @ + 1]
    /\ UNCHANGED <<folder, jobs, warnings, lapsed, deserted, tags, dialog>>
-----------------------------------------------------------------------------
(***************************************************************************)
(* The dialog.                                                             *)
(***************************************************************************)
Dialog == open /\ asking = None /\ warnings = 0

Select(n) ==
    /\ Dialog /\ ~busy /\ n \in list /\ n # current /\ current' = n
    /\ UNCHANGED <<folder, jobs, warnings, lapsed, deserted, git, open, list,
                   typed, error, canCreate, busy, asking>>

\* onNameChanged compares with the tags listed now, and nothing does later.
NameChanged(n) ==
    /\ Dialog /\ ~busy /\ n # typed /\ typed' = n
    /\ error' = (n \in list) /\ canCreate' = (n # None /\ n \notin list)
    /\ UNCHANGED <<folder, jobs, warnings, lapsed, deserted, git, open, list,
                   current, busy, asking>>

\* isVisible() of the error is false as long as the dialog is hidden.
setBusy(b) ==
    /\ busy' = b
    /\ canCreate' = (~b /\ typed # None /\ ~(error /\ open))

\* Mutant of CreateClicked: the window does not disable the dialog.
CreateClickedIdle ==
    /\ Dialog /\ canCreate /\ Room /\ Start("create", typed)
    /\ UNCHANGED <<busy, canCreate>>
    /\ UNCHANGED <<folder, warnings, lapsed, deserted, git, open, list,
                   current, typed, error, asking>>

CreateClicked ==
    /\ Dialog /\ canCreate /\ Room /\ Start("create", typed) /\ setBusy(TRUE)
    /\ UNCHANGED <<folder, warnings, lapsed, deserted, git, open, list,
                   current, typed, error, asking>>

DeleteClicked ==
    /\ Dialog /\ ~busy /\ current # None /\ Room /\ asking' = current
    /\ UNCHANGED <<folder, jobs, warnings, lapsed, deserted, git, open, list,
                   current, typed, error, canCreate, busy>>

DeleteConfirmed ==
    /\ asking # None /\ warnings = 0 /\ Room /\ Start("delete", asking)
    /\ setBusy(TRUE) /\ asking' = None
    /\ UNCHANGED <<folder, warnings, lapsed, deserted, git, open, list,
                   current, typed, error>>

DeleteRefused ==
    /\ asking # None /\ warnings = 0 /\ asking' = None
    /\ UNCHANGED <<folder, jobs, warnings, lapsed, deserted, git, open, list,
                   current, typed, error, canCreate, busy>>

\* Close is not disabled with the rest.
CloseDialog ==
    /\ Dialog /\ open' = FALSE
    /\ UNCHANGED <<folder, jobs, warnings, lapsed, deserted, git, list,
                   current, typed, error, canCreate, busy, asking>>
-----------------------------------------------------------------------------
(***************************************************************************)
(* The pool.                                                               *)
(***************************************************************************)
Waits(i, op) == jobs[i].op = op /\ jobs[i].state = "waits"

\* The worker drops the error of listTags: a failure is an empty list.
listTags(i) ==
    /\ Waits(i, "list")
    /\ \/ jobs' = [jobs EXCEPT ![i].state = "done", ![i].read = NamesOf(jobs[i].at)]
       \/ Ends(i, "failed")
    /\ UNCHANGED git

\* Without a commit, an author or a key that can sign tags it is refused (Fails).
resolveTarget(i) ==
    /\ Waits(i, "create") /\ UNCHANGED git
    /\ head[jobs[i].at] # 0
    /\ jobs' = [jobs EXCEPT ![i].state = "half", ![i].target = head[jobs[i].at]]

\* Written after the annotation was signed, if it has a message and GPG is
\* configured; never over a tag of that name.
writeTag(i) ==
    /\ jobs[i].op = "create" /\ jobs[i].state = "half"
    /\ tags[jobs[i].at][jobs[i].name] = None
    /\ tags' = [tags EXCEPT ![jobs[i].at][jobs[i].name] = jobs[i].target]
    /\ Ends(i, "done") /\ UNCHANGED head

deleteTag(i) ==
    /\ Waits(i, "delete") /\ tags[jobs[i].at][jobs[i].name] # None
    /\ tags' = [tags EXCEPT ![jobs[i].at][jobs[i].name] = None]
    /\ Ends(i, "done") /\ UNCHANGED head

Fails(i) ==
    /\ jobs[i].op \in Changes /\ jobs[i].state \in {"waits", "half"}
    /\ Ends(i, "failed") /\ UNCHANGED git

Run(i) ==
    /\ listTags(i) \/ resolveTarget(i) \/ writeTag(i) \/ deleteTag(i) \/ Fails(i)
    /\ UNCHANGED <<folder, warnings, lapsed, deserted, dialog>>
-----------------------------------------------------------------------------
(***************************************************************************)
(* Results.                                                                *)
(***************************************************************************)
Back(i)  == jobs[i].state \in {"done", "failed"}
Rest(i)  == RemoveAt(jobs, i)

\* setTags neither enables nor disables anything, nor looks at the name typed.
TagsReady(i) ==
    /\ Back(i) /\ jobs[i].op = "list" /\ jobs' = Rest(i)
    /\ IF jobs[i].at = folder
       THEN /\ list' = jobs[i].read /\ current' = None
            /\ lapsed' = (\/ jobs[i].state = "failed"
                          \/ /\ jobs[i].read # NamesOf(folder)
                             /\ lapsed \/ list = NamesOf(folder))
       ELSE UNCHANGED <<list, current, lapsed>>
    /\ UNCHANGED <<folder, warnings, deserted, git, open, typed, error,
                   canCreate, busy, asking>>

\* The end of onTagOpFinished.
Relist(rest) ==
    jobs' = IF open THEN Append(rest, Task("list", folder, None)) ELSE rest

\* A failure stops it at the warning.
TagOpFinished(i) ==
    /\ Back(i) /\ jobs[i].op \in Changes
    /\ IF jobs[i].at # folder
       THEN /\ jobs' = Rest(i) /\ deserted' = TRUE
            /\ UNCHANGED <<busy, canCreate, warnings>>
       ELSE /\ setBusy(FALSE) /\ UNCHANGED deserted
            /\ IF jobs[i].state = "failed"
               THEN warnings' = warnings + 1 /\ jobs' = Rest(i)
               ELSE Relist(Rest(i)) /\ UNCHANGED warnings
    /\ UNCHANGED <<folder, lapsed, git, open, list, current, typed, error,
                   asking>>

\* The user closes the topmost warning.
Acknowledge ==
    /\ warnings > 0 /\ warnings' = warnings - 1 /\ Relist(jobs)
    /\ UNCHANGED <<folder, lapsed, deserted, git, dialog>>
-----------------------------------------------------------------------------
Next ==
    \/ \E f \in Folders \cup {None} : OpenFolder(f)
    \/ \E f \in Folders : Commit(f)
    \/ TagsRequested
    \/ \E n \in Names : Select(n)
    \/ \E n \in Names \cup {None} : NameChanged(n)
    \/ CreateClicked \/ DeleteClicked \/ DeleteConfirmed \/ DeleteRefused \/ CloseDialog
    \/ \E i \in DOMAIN jobs : Run(i) \/ TagsReady(i) \/ TagOpFinished(i)
    \/ Acknowledge

Spec == Init /\ [][Next]_vars
-----------------------------------------------------------------------------
\* Every variable stays in its range.
TypeOK ==
    /\ folder \in Folders \cup {None} /\ head \in [Folders -> 0 .. MaxCommits]
    /\ \A f \in Folders : /\ DOMAIN tags[f] = Names
                          /\ \A n \in NamesOf(f) : tags[f][n] \in 1 .. MaxCommits
    /\ jobs \in Seq(Job) /\ warnings \in Nat
    /\ list \subseteq Names /\ current \in Names \cup {None}
    /\ typed \in Names \cup {None} /\ asking \in Names \cup {None}
    /\ {open, error, canCreate, busy, lapsed, deserted} \subseteq BOOLEAN

(***************************************************************************)
(* Whatever ran while the dialog was open or before, the list the user is  *)
(* left with is that of the folder's tags, unless the last reading failed  *)
(* or was overtaken by an older one (onTagsReady).                         *)
(***************************************************************************)
Quiet == open /\ jobs = <<>> /\ warnings = 0 /\ asking = None
ListIsRead == Quiet /\ ~lapsed => list = NamesOf(folder)

(***************************************************************************)
(* One tag is created or deleted at a time, the dialog is busy meanwhile,  *)
(* and no longer than that, unless the result found another folder open:   *)
(* then nothing ever enables the dialog again (onTagOpFinished).           *)
(***************************************************************************)
Running == {i \in DOMAIN jobs : jobs[i].op \in Changes}
BusyIsRunning ==
    /\ \A i, j \in Running : i = j
    /\ IF Running # {} THEN busy ELSE busy => deserted

(***************************************************************************)
(* A tag keeps the commit it was created for until it is deleted: however  *)
(* stale the list the name was compared with and however late the tag is   *)
(* written, none is replaced (createTag).                                  *)
(***************************************************************************)
TagsStay ==
    [][\A f \in Folders : \A n \in NamesOf(f) :
           tags'[f][n] \in {tags[f][n], None}]_vars
=============================================================================
