------------------------------- MODULE Stash -------------------------------
(***************************************************************************)
(* The stack of stashes of a folder and the dialog that manages it.        *)
(*                                                                         *)
(* A row of StashListDialog carries the position its stash had when the    *)
(* stack was read, and Apply, Pop and Drop name the stash by that position *)
(* to a job on the pool.  Jobs overlap and their results arrive in any     *)
(* order.  The dialog is modal for the user, but results are handled       *)
(* behind it, behind its question and behind the warnings of failures.     *)
(***************************************************************************)
EXTENDS Naturals, SequencesExt

CONSTANTS
    Folders,
    Stashes,  \* stashes that may be saved
    None,
    MaxJobs   \* bound: jobs and warnings at a time

ASSUME StashAssumption == None \notin Folders \cup Stashes /\ MaxJobs \in Nat \ {0}

VARIABLES
    folder,    \* activeLocalPath_
    stack,     \* refs/stash of each folder, the last saved first
    jobs,      \* on the pool or on their way back
    open,      \* whether the dialog is on screen
    rows,      \* the stashes it lists
    row,       \* the selected row, 0 for none
    enabled,   \* its buttons
    asking,    \* row the question before a drop is about, 0 if none
    warnings,  \* warnings on screen
    home,      \* history: where each stash was saved
    about,     \* history: the stash that row showed
    chosen,    \* history: stashes the user chose to pop or drop
    lapsed,    \* history: a stale or failed reading replaced the list
    crowded    \* history: two things under way at a time since the list was right

git    == <<stack, home>>
dialog == <<open, rows, row, enabled, asking>>
user   == <<about, chosen>>
vars   == <<folder, jobs, warnings, lapsed, crowded, git, dialog, user>>

Ops == {"save", "list", "apply", "pop", "drop"}
Job == [op : Ops, at : Folders, row : Nat, read : Seq(Stashes),
        state : {"waits", "half", "done", "failed"}]

Task(op, at, r) == [op |-> op, at |-> at, row |-> r, read |-> <<>>, state |-> "waits"]
Start(op, r) == jobs' = Append(jobs, Task(op, folder, r))
Room         == Len(jobs) + warnings < MaxJobs
Ends(i, s)   == jobs' = [jobs EXCEPT ![i].state = s]

Init ==
    /\ folder \in Folders /\ stack = [f \in Folders |-> <<>>] /\ jobs = <<>>
    /\ open = FALSE /\ rows = <<>> /\ row = 0 /\ enabled = FALSE /\ asking = 0
    /\ warnings = 0 /\ home = [s \in Stashes |-> None]
    /\ about = None /\ chosen = {} /\ lapsed = FALSE /\ crowded = FALSE
-----------------------------------------------------------------------------
(***************************************************************************)
(* The window, when no dialog is in front of it.                           *)
(***************************************************************************)
Window == ~open /\ warnings = 0

OpenFolder(f) ==
    /\ Window /\ folder' = f
    /\ UNCHANGED <<jobs, warnings, lapsed, git, dialog, user>>

RemoveFolder ==
    /\ Window /\ folder' = None
    /\ UNCHANGED <<jobs, warnings, lapsed, git, dialog, user>>

\* Mutant of StashSaveRequested: no folder need be active.
StashSaveAnyway ==
    /\ Window /\ Room /\ Start("save", 0)
    /\ UNCHANGED <<folder, warnings, lapsed, git, dialog, user>>

StashSaveRequested ==
    /\ Window /\ folder # None /\ Room /\ Start("save", 0)
    /\ UNCHANGED <<folder, warnings, lapsed, git, dialog, user>>

\* The dialog comes up with what it showed last.
StashListRequested ==
    /\ Window /\ folder # None /\ Room /\ Start("list", 0) /\ open' = TRUE
    /\ UNCHANGED <<folder, warnings, lapsed, git, rows, row, enabled, asking, user>>
-----------------------------------------------------------------------------
(***************************************************************************)
(* The dialog.                                                             *)
(***************************************************************************)
Dialog == open /\ asking = 0 /\ warnings = 0

\* onSelectionChanged asks for a selection only, not whether anything runs.
Select(r) ==
    /\ Dialog /\ r \in DOMAIN rows /\ r # row /\ row' = r /\ enabled' = TRUE
    /\ UNCHANGED <<folder, jobs, warnings, lapsed, git, open, rows, asking, user>>

ApplyClicked ==
    /\ Dialog /\ enabled /\ Room /\ Start("apply", row) /\ enabled' = FALSE
    /\ UNCHANGED <<folder, warnings, lapsed, git, open, rows, row, asking, user>>

PopClicked ==
    /\ Dialog /\ enabled /\ Room /\ Start("pop", row) /\ enabled' = FALSE
    /\ chosen' = chosen \cup {rows[row]}
    /\ UNCHANGED <<folder, warnings, lapsed, git, open, rows, row, asking, about>>

\* The row is read before the question is asked.
DropClicked ==
    /\ Dialog /\ enabled /\ Room /\ asking' = row /\ about' = rows[row]
    /\ UNCHANGED <<folder, jobs, warnings, lapsed, git, open, rows, row, enabled,
                   chosen>>

DropConfirmed ==
    /\ asking # 0 /\ warnings = 0 /\ Room /\ Start("drop", asking)
    /\ asking' = 0 /\ enabled' = FALSE /\ about' = None
    /\ chosen' = chosen \cup {about}
    /\ UNCHANGED <<folder, warnings, lapsed, git, open, rows, row>>

DropRefused ==
    /\ asking # 0 /\ warnings = 0 /\ asking' = 0 /\ about' = None
    /\ UNCHANGED <<folder, jobs, warnings, lapsed, git, open, rows, row, enabled,
                   chosen>>

CloseDialog ==
    /\ Dialog /\ open' = FALSE
    /\ UNCHANGED <<folder, jobs, warnings, lapsed, git, rows, row, enabled, asking, user>>
-----------------------------------------------------------------------------
(***************************************************************************)
(* The pool.                                                               *)
(***************************************************************************)
Fails(i) ==
    /\ jobs[i].state # "done" /\ Ends(i, "failed") /\ UNCHANGED git

stashSave(i) ==
    /\ \E s \in {s \in Stashes : home[s] = None} :
        /\ stack' = [stack EXCEPT ![jobs[i].at] = <<s>> \o @]
        /\ home'  = [home EXCEPT ![s] = jobs[i].at]
    /\ Ends(i, "done")

\* The worker drops the error of stashList: a failure is an empty list.
stashList(i) ==
    /\ \/ jobs' = [jobs EXCEPT ![i].state = "done", ![i].read = stack[jobs[i].at]]
       \/ Ends(i, "failed")
    /\ UNCHANGED git

Found(i) == jobs[i].row \in DOMAIN stack[jobs[i].at]

\* git_stash_apply, alone or as the first half of git_stash_pop.
Apply(i, s) ==
    /\ Found(i) /\ Ends(i, s) /\ UNCHANGED git

\* git_stash_drop, alone or as the second half of git_stash_pop.
Drop(i) ==
    /\ Found(i) /\ stack' = [stack EXCEPT ![jobs[i].at] = RemoveAt(@, jobs[i].row)]
    /\ Ends(i, "done") /\ UNCHANGED home

Waits(i, op) == jobs[i].op = op /\ jobs[i].state = "waits"

stashPop(i) ==
    \/ Waits(i, "pop") /\ Apply(i, "half")
    \/ jobs[i].state = "half" /\ Drop(i)

Run(i) ==
    /\ \/ Waits(i, "save")  /\ (stashSave(i) \/ Fails(i))
       \/ Waits(i, "list")  /\ stashList(i)
       \/ Waits(i, "apply") /\ (Apply(i, "done") \/ Fails(i))
       \/ stashPop(i) \/ (jobs[i].op = "pop" /\ Fails(i))
       \/ Waits(i, "drop")  /\ (Drop(i) \/ Fails(i))
    /\ UNCHANGED <<folder, warnings, lapsed, dialog, user>>
-----------------------------------------------------------------------------
(***************************************************************************)
(* Results.                                                                *)
(***************************************************************************)
Back(i, op) == jobs[i].op = op /\ jobs[i].state \in {"done", "failed"}
Rest(i)     == RemoveAt(jobs, i)

setEntries(read) ==
    rows' = read /\ row' = 0 /\ enabled' = FALSE /\ UNCHANGED <<open, asking>>

StashListReady(i) ==
    /\ Back(i, "list") /\ jobs' = Rest(i)
    /\ IF jobs[i].at = folder
       THEN /\ setEntries(jobs[i].read)
            /\ lapsed' = (\/ jobs[i].state = "failed"
                          \/ /\ jobs[i].read # stack[folder]
                             /\ lapsed \/ rows = stack[folder])
       ELSE UNCHANGED <<dialog, lapsed>>
    /\ UNCHANGED <<folder, warnings, git, user>>

\* The end of onStashOpFinished.
Relist(rest) ==
    jobs' = IF open THEN Append(rest, Task("list", folder, 0)) ELSE rest

\* A failure stops it at the warning.
StashOpFinished(i) ==
    /\ \E op \in Ops \ {"list"} : Back(i, op)
    /\ IF jobs[i].at # folder
       THEN jobs' = Rest(i) /\ UNCHANGED <<enabled, warnings>>
       ELSE /\ enabled' = (row # 0)
            /\ IF jobs[i].state = "failed"
               THEN warnings' = warnings + 1 /\ jobs' = Rest(i)
               ELSE Relist(Rest(i)) /\ UNCHANGED warnings
    /\ UNCHANGED <<folder, lapsed, git, open, rows, row, asking, user>>

\* The user closes the topmost warning.
Acknowledge ==
    /\ warnings > 0 /\ warnings' = warnings - 1 /\ Relist(jobs)
    /\ UNCHANGED <<folder, lapsed, git, dialog, user>>
-----------------------------------------------------------------------------
Step ==
    \/ \E f \in Folders : OpenFolder(f)
    \/ RemoveFolder \/ StashSaveRequested \/ StashListRequested
    \/ \E r \in DOMAIN rows : Select(r)
    \/ ApplyClicked \/ PopClicked \/ DropClicked \/ DropConfirmed \/ DropRefused
    \/ CloseDialog
    \/ \E i \in DOMAIN jobs : Run(i) \/ StashListReady(i) \/ StashOpFinished(i)
    \/ Acknowledge

\* What is under way: jobs, warnings and the question.
Pending == Len(jobs) + warnings + (IF asking = 0 THEN 0 ELSE 1)

Quiet == open /\ Pending = 0

Next ==
    /\ Step
    /\ crowded' = (\/ Pending' > 1
                   \/ crowded /\ ~(Quiet' /\ rows' = stack'[folder']))

Spec == Init /\ [][Next]_vars
-----------------------------------------------------------------------------
\* Every variable stays in its range.
TypeOK ==
    /\ folder \in Folders \cup {None} /\ stack \in [Folders -> Seq(Stashes)]
    /\ jobs \in Seq(Job) /\ warnings \in Nat
    /\ open \in BOOLEAN /\ rows \in Seq(Stashes) /\ row \in 0 .. Len(rows)
    /\ enabled \in BOOLEAN /\ asking \in Nat
    /\ home \in [Stashes -> Folders \cup {None}]
    /\ about \in Stashes \cup {None} /\ chosen \subseteq Stashes
    /\ lapsed \in BOOLEAN /\ crowded \in BOOLEAN

(***************************************************************************)
(* Whatever ran while the dialog was open or before, the list the user is  *)
(* left with is the stack, unless the last reading failed or was overtaken *)
(* by an older one.                                                        *)
(***************************************************************************)
ListIsStack == Quiet /\ ~lapsed => rows = stack[folder]

Gone == {s \in Stashes : home[s] # None /\ \A f \in Folders : s \notin ToSet(stack[f])}

(***************************************************************************)
(* A stash leaves its stack only if the user chose that stash, by its row, *)
(* to be popped or dropped.  Positions go stale, but none is used that is  *)
(* stale as long as jobs, question and warnings come one at a time         *)
(* (onStashOpFinished).                                                    *)
(***************************************************************************)
GoneWasChosen == [][~crowded' => Gone' \ Gone \subseteq chosen]_vars
=============================================================================
