-------------------------------- MODULE Watch --------------------------------
(***************************************************************************)
(* How LocalRepositoryWidget notices that others changed its folder: a     *)
(* QFileSystemWatcher on three paths, a timer that waits for a pause, and  *)
(* the readings of the folder that follow.                                 *)
(*                                                                         *)
(* A change is heard through the paths it touches.  The watcher learns of  *)
(* it later, and drops a file that was replaced, as git replaces HEAD and  *)
(* the index.  setupWatcher watches again what exists; what the kernel had *)
(* queued for the paths before it is lost.  A reading runs on the pool and *)
(* is delivered in any order; it changes nothing.  The folder stays the    *)
(* same, for another one starts as Open does.                              *)
(***************************************************************************)
EXTENDS Naturals, SequencesExt

CONSTANTS
    MaxVersion, \* bound: changes to the folder
    MaxReads    \* bound: readings in flight

\* Assumed by the modules that instantiate this one.
WatchAssumption == MaxVersion \in Nat \ {0} /\ MaxReads \in Nat \ {0}

VARIABLES
    disk,    \* version of the folder
    exists,  \* of the three paths, those that exist
    watched, \* those watcher_ has
    queued,  \* the watcher has an event to deliver
    timer,   \* autoRefreshTimer_ runs
    reads,   \* readings in flight
    view,    \* version the panel shows (0: none)
    known,   \* history: what setupWatcher found last
    missed   \* history: a change was not heard, or an older reading shown,
             \* and nothing was read since

vars == <<disk, exists, watched, queued, timer, reads, view, known, missed>>

Root  == "root"
Files == {"HEAD", "index"}
Spots == {Root} \cup Files

IsRepository == "HEAD" \in exists

\* A reading that has not run has version 0.
Reading == [ver : 0..MaxVersion, repo : BOOLEAN]
Asked   == [ver |-> 0, repo |-> FALSE]

\* A folder at rest, with or without a repository.
Init ==
    /\ disk = 1 /\ view = 1
    /\ exists \in {{Root}, {Root, "HEAD"}, Spots}
    /\ watched = exists /\ known = exists
    /\ queued = FALSE /\ timer = FALSE /\ reads = <<>> /\ missed = FALSE
-----------------------------------------------------------------------------
(***************************************************************************)
(* Others, in a terminal or an editor.                                     *)
(***************************************************************************)

\* What each change touches: a name in the folder appears or goes, git init,
\* git add or commit, git switch; an edit in place, below the folder, or of
\* other parts of .git.
Touches(change) ==
    CASE change = "entry"  -> {Root}
      [] change = "init"   -> {Root, "HEAD"}
      [] change = "add"    -> {"index"}
      [] change = "switch" -> Files
      [] change = "inside" -> {}

Possible(change) == (change \in {"entry", "inside"}) \/ (change = "init" <=> ~IsRepository)

Change(change) ==
    /\ disk < MaxVersion /\ Possible(change) /\ disk' = disk + 1
    /\ exists' = exists \cup Touches(change)
    /\ watched' = watched \ (Touches(change) \cap Files)
    /\ queued' = (queued \/ watched \cap Touches(change) # {})
    /\ missed' = (missed \/ known \cap Touches(change) = {})
    /\ UNCHANGED <<timer, reads, view, known>>
-----------------------------------------------------------------------------
onWatchedPathChanged ==
    /\ queued /\ queued' = FALSE /\ timer' = TRUE
    /\ UNCHANGED <<disk, exists, watched, reads, view, known, missed>>

\* teardownWatcher and addPaths.
setupWatcher == watched' = exists /\ known' = exists /\ queued' = FALSE

\* Mutant of onAutoRefreshTimeout: files that were replaced stay unwatched.
onAutoRefreshTimeoutUnwatched ==
    /\ timer /\ timer' = FALSE /\ Len(reads) < MaxReads
    /\ reads' = Append(reads, Asked)
    /\ UNCHANGED <<disk, exists, watched, queued, known, view, missed>>

onAutoRefreshTimeout ==
    /\ timer /\ timer' = FALSE /\ Len(reads) < MaxReads
    /\ setupWatcher
    /\ reads' = Append(reads, Asked)
    /\ UNCHANGED <<disk, exists, view, missed>>

\* The Refresh button, and the operations of the program that end in a reading.
onRefreshRequested ==
    /\ Len(reads) < MaxReads /\ reads' = Append(reads, Asked)
    /\ UNCHANGED <<disk, exists, watched, queued, timer, view, known, missed>>

\* The folder is opened again: setFolder, and a reading.
Open ==
    /\ Len(reads) < MaxReads
    /\ setupWatcher /\ view' = 0
    /\ reads' = Append(reads, Asked)
    /\ UNCHANGED <<disk, exists, timer, missed>>

\* refreshLocalState on the pool.
Read ==
    \E i \in DOMAIN reads :
        /\ reads[i] = Asked
        /\ reads' = [reads EXCEPT ![i] = [ver |-> disk, repo |-> IsRepository]]
        /\ missed' = FALSE
        /\ UNCHANGED <<disk, exists, watched, queued, timer, view, known>>

\* setLocalState.  Without a repository it returns before the watcher.
setLocalState ==
    \E i \in DOMAIN reads :
        /\ reads[i] # Asked
        /\ reads' = RemoveAt(reads, i) /\ view' = reads[i].ver
        /\ IF reads[i].repo THEN setupWatcher ELSE UNCHANGED <<watched, known, queued>>
        /\ missed' = (missed \/ (reads[i].repo /\ queued) \/ reads[i].ver < view)
        /\ UNCHANGED <<disk, exists, timer>>
-----------------------------------------------------------------------------
Next ==
    \/ \E change \in {"entry", "init", "add", "switch", "inside"} : Change(change)
    \/ onWatchedPathChanged \/ onAutoRefreshTimeout \/ onRefreshRequested \/ Open
    \/ Read \/ setLocalState

Spec == Init /\ [][Next]_vars

\* The event loop, the timer and the pool go on.
Fairness ==
    /\ WF_vars(onWatchedPathChanged) /\ WF_vars(onAutoRefreshTimeout)
    /\ WF_vars(Read) /\ WF_vars(setLocalState)
-----------------------------------------------------------------------------
\* Every variable stays in its range.
TypeOK ==
    /\ disk \in 1..MaxVersion /\ view \in 0..MaxVersion
    /\ exists \subseteq Spots /\ watched \subseteq exists /\ known \subseteq exists
    /\ queued \in BOOLEAN /\ timer \in BOOLEAN /\ missed \in BOOLEAN
    /\ reads \in Seq(Reading)

(***************************************************************************)
(* What others do to a path that was there when it was last looked for is  *)
(* shown in the end, although each change of HEAD or of the index takes it *)
(* out of the watcher.  Excluded, because it fails there: changes that     *)
(* touch none of the three paths, the first index, an event that was under *)
(* way when setLocalState watched anew, and readings delivered in the      *)
(* other order (onAutoRefreshTimeout, setupWatcher).                       *)
(***************************************************************************)
ChangesAreSeen == (view # disk /\ ~missed) ~> (view = disk \/ missed)
=============================================================================
