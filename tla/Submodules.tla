----------------------------- MODULE Submodules -----------------------------
(***************************************************************************)
(* The submodules of a folder and the tab that lists them.                 *)
(*                                                                         *)
(* A submodule is recorded in five places, and its operations are          *)
(* sequences of git calls on one or more of them.  Each call may fail:     *)
(* adding, initialising and updating stop there and report it, removing    *)
(* goes on and reports success.  The tab has no busy state, so operations  *)
(* on one submodule may overlap.  The state of the folder that is read     *)
(* behind an addition or a removal is the business of Workspace.           *)
(***************************************************************************)
EXTENDS Naturals, SequencesExt

CONSTANTS
    Folders,
    Subs,     \* names of submodules
    None,
    MaxJobs   \* bound: jobs and warnings at a time

SubmodulesAssumption == None \notin Folders \cup Subs /\ MaxJobs \in Nat \ {0}

\* .gitmodules, .git/config, the gitlink in the index, .git/modules/<name>
\* and the directory in the working tree.
Places == {"gitmodules", "config", "index", "modules", "work"}

VARIABLES
    folder,    \* activeLocalPath_
    has,       \* places a folder has of a submodule
    jobs,      \* on the pool or on their way back
    rows,      \* submodules_
    warnings,  \* warnings on screen
    lapsed     \* history: a stale or failed reading replaced the rows

vars == <<folder, has, jobs, rows, warnings, lapsed>>

\* Mutant of AddCalls: what is added is not staged.
AddCallsUnstaged == <<"free", "setup", "init", "update">>

\* addSubmodule: the gitlink is staged last.
AddCalls == <<"free", "setup", "init", "update", "finalize">>

\* The calls of an operation, in order.
Calls ==
    [list   |-> <<"read">>,
     init   |-> <<"lookup", "init", "update">>,
     update |-> <<"lookup", "update">>,
     sync   |-> <<"lookup">>,
     add    |-> AddCalls,
     remove |-> <<"lookup", "gitmodules", "config", "index", "modules", "work">>]

Steps == Places \cup {"read", "lookup", "free", "setup", "init", "update", "finalize"}
Ops   == {"list", "init", "update", "sync", "add", "remove"}
Job   == [op : Ops, at : Folders, sub : Subs \cup {None}, todo : Seq(Steps),
        read : SUBSET Subs, state : {"runs", "done", "failed"},
        alone : BOOLEAN]  \* history: no other job changed the submodule

Changing(j) == j.op \notin {"list", "sync"}
SameSub(j, k) == j.at = k.at /\ j.sub = k.sub /\ Changing(j) /\ Changing(k)

Task(op, at, s) ==
    [op |-> op, at |-> at, sub |-> s, todo |-> Calls[op], read |-> {},
     state |-> "runs", alone |-> TRUE]

Met(q, j) == \E i \in DOMAIN q : SameSub(q[i], j)

\* q with js behind the others; no two of js are of one submodule.
Submit(q, js) ==
    [i \in DOMAIN q |-> [q[i] EXCEPT !.alone = @ /\ ~Met(js, q[i])]]
    \o [i \in DOMAIN js |-> [js[i] EXCEPT !.alone = ~Met(q, js[i])]]

Start(op, s) == jobs' = Submit(jobs, <<Task(op, folder, s)>>)
Room == Len(jobs) + warnings < MaxJobs

\* git_submodule_lookup and git_submodule_foreach know a submodule by these.
Known(f, s) == has[f][s] \cap {"gitmodules", "index"} # {}
KnownIn(f)  == {s \in Subs : Known(f, s)}

\* A folder may have been cloned with submodules that were never initialised.
Init ==
    /\ folder \in Folders /\ jobs = <<>> /\ warnings = 0 /\ lapsed = TRUE
    /\ has \in [Folders -> [Subs -> {{}, {"gitmodules", "index"}, Places}]]
    /\ rows = {}
-----------------------------------------------------------------------------
(***************************************************************************)
(* The tab, when no warning is in front of it.                             *)
(***************************************************************************)
Tab == folder # None /\ warnings = 0

\* The rows of the folder before stay until the new list arrives.  None is
\* opened when the folder is removed from the sidebar.
OpenFolder(f) ==
    /\ warnings = 0 /\ f # folder /\ folder' = f
    /\ IF f = None THEN UNCHANGED jobs
       ELSE Room /\ jobs' = Append(jobs, Task("list", f, None))
    /\ UNCHANGED <<has, rows, warnings, lapsed>>

SubmodulesListRequested ==
    /\ Tab /\ Room /\ Start("list", None)
    /\ UNCHANGED <<folder, has, rows, warnings, lapsed>>

\* Of the row selected; with or without an explicit key.  The question before
\* a removal is about this name in this folder, whatever happens behind it.
SubmoduleRequested(op, s) ==
    /\ Tab /\ op \in {"init", "update", "sync", "remove"} /\ s \in rows /\ Room
    /\ Start(op, s)
    /\ UNCHANGED <<folder, has, rows, warnings, lapsed>>

\* One request for each row.
UpdateAllClicked ==
    /\ Tab
    /\ \E n \in 1 .. MaxJobs - Len(jobs) : \E order \in Bijection(1 .. n, rows) :
          jobs' = Submit(jobs, [k \in 1 .. n |-> Task("init", folder, order[k])])
    /\ UNCHANGED <<folder, has, rows, warnings, lapsed>>

SubmoduleAddRequested(s) ==
    /\ Tab /\ Room /\ Start("add", s)
    /\ UNCHANGED <<folder, has, rows, warnings, lapsed>>
-----------------------------------------------------------------------------
(***************************************************************************)
(* The pool.  The calls of libgit2 are known by what the code expects of   *)
(* them.                                                                   *)
(***************************************************************************)
Call(i)  == Head(jobs[i].todo)
Mine(i)  == has[jobs[i].at][jobs[i].sub]

\* What a call needs, beyond its luck.
Able(i) ==
    CASE Call(i) = "free"     -> "work" \notin Mine(i)
      [] Call(i) = "setup"    -> ~Known(jobs[i].at, jobs[i].sub)
      [] Call(i) = "lookup"   -> Known(jobs[i].at, jobs[i].sub)
      [] Call(i) = "update"   -> "config" \in Mine(i)
      [] Call(i) = "finalize" -> "work" \in Mine(i)
      [] OTHER -> TRUE

\* The places of the submodule after a call.
After(i) ==
    CASE Call(i) = "setup"    -> Mine(i) \cup {"gitmodules", "config", "modules", "work"}
      [] Call(i) = "init"     -> Mine(i) \cup {"config"}
      [] Call(i) = "update"   -> Mine(i) \cup {"modules", "work"}
      [] Call(i) = "finalize" -> Mine(i) \cup {"index"}
      [] Call(i) \in Places   -> Mine(i) \ {Call(i)}
      [] OTHER -> Mine(i)

Proceed(i, alone) ==
    jobs' = [jobs EXCEPT ![i].todo = Tail(@), ![i].alone = alone,
                         ![i].state = IF Len(jobs[i].todo) = 1 THEN "done" ELSE @]

Perform(i) ==
    /\ Call(i) # "read" /\ Able(i) /\ Proceed(i, jobs[i].alone)
    /\ has' = [has EXCEPT ![jobs[i].at][jobs[i].sub] = After(i)]

\* A call of a removal that fails is passed over; history counts it as the
\* doing of another.
PassOver(i) == Call(i) \in Places /\ Proceed(i, FALSE) /\ UNCHANGED has

Fails(i) ==
    /\ Call(i) \notin Places /\ UNCHANGED has
    /\ jobs' = [jobs EXCEPT ![i].state = "failed", ![i].todo = <<>>, ![i].alone = FALSE]

listSubmodules(i) ==
    /\ Call(i) = "read" /\ UNCHANGED has
    /\ jobs' = [jobs EXCEPT ![i].state = "done", ![i].read = KnownIn(jobs[i].at)]

Run(i) ==
    /\ jobs[i].state = "runs"
    /\ Perform(i) \/ PassOver(i) \/ Fails(i) \/ listSubmodules(i)
    /\ UNCHANGED <<folder, rows, warnings, lapsed>>
-----------------------------------------------------------------------------
(***************************************************************************)
(* Results.                                                                *)
(***************************************************************************)
Back(i) == jobs[i].state # "runs"
Rest(i) == RemoveAt(jobs, i)

\* A failed list is an empty one.
SubmodulesReady(i) ==
    /\ Back(i) /\ jobs[i].op = "list" /\ jobs' = Rest(i)
    /\ IF jobs[i].at = folder
       THEN /\ rows' = jobs[i].read
            /\ lapsed' = (\/ jobs[i].state = "failed"
                          \/ /\ jobs[i].read # KnownIn(folder)
                             /\ lapsed \/ rows = KnownIn(folder))
       ELSE UNCHANGED <<rows, lapsed>>
    /\ UNCHANGED <<folder, has, warnings>>

\* Mutant of Relist: the rows are left as they are.
RelistNever(rest) == jobs' = rest

Relist(rest) == jobs' = Append(rest, Task("list", folder, None))

\* A failure stops it at the warning.
SubmoduleOpFinished(i) ==
    /\ Back(i) /\ jobs[i].op # "list"
    /\ IF jobs[i].at # folder THEN jobs' = Rest(i) /\ UNCHANGED warnings
       ELSE IF jobs[i].state = "failed"
       THEN warnings' = warnings + 1 /\ jobs' = Rest(i)
       ELSE Relist(Rest(i)) /\ UNCHANGED warnings
    /\ UNCHANGED <<folder, has, rows, lapsed>>

\* The user closes the topmost warning.
Acknowledge ==
    /\ warnings > 0 /\ warnings' = warnings - 1 /\ Relist(jobs)
    /\ UNCHANGED <<folder, has, rows, lapsed>>
-----------------------------------------------------------------------------
Next ==
    \/ \E f \in Folders \cup {None} : OpenFolder(f)
    \/ SubmodulesListRequested \/ UpdateAllClicked
    \/ \E s \in Subs : \/ SubmoduleAddRequested(s)
                       \/ \E op \in Ops : SubmoduleRequested(op, s)
    \/ \E i \in DOMAIN jobs : Run(i) \/ SubmodulesReady(i) \/ SubmoduleOpFinished(i)
    \/ Acknowledge

Spec == Init /\ [][Next]_vars
-----------------------------------------------------------------------------
\* Every variable stays in its range.
TypeOK ==
    /\ folder \in Folders \cup {None} /\ has \in [Folders -> [Subs -> SUBSET Places]]
    /\ jobs \in Seq(Job) /\ rows \subseteq Subs /\ warnings \in Nat
    /\ lapsed \in BOOLEAN

(***************************************************************************)
(* The rows the user is left with are the submodules of the folder, unless *)
(* the last reading failed or was overtaken by an older one                *)
(* (onSubmoduleOpFinished).                                                *)
(***************************************************************************)
RowsAreRead ==
    Tab /\ jobs = <<>> /\ ~lapsed => rows = KnownIn(folder)

(***************************************************************************)
(* An operation that reports success, and was alone with its submodule     *)
(* and passed nothing over, leaves it whole: everywhere when added,        *)
(* nowhere when removed, whatever a failed addition before had left, and   *)
(* checked out when initialised (addSubmodule, removeSubmodule).           *)
(***************************************************************************)
SuccessIsWhole ==
    \A i \in DOMAIN jobs : jobs[i].state = "done" /\ jobs[i].alone =>
        CASE jobs[i].op = "add"    -> Mine(i) = Places
          [] jobs[i].op = "remove" -> Mine(i) = {}
          [] jobs[i].op = "init"   -> {"config", "modules", "work"} \subseteq Mine(i)
          [] OTHER -> TRUE
=============================================================================
