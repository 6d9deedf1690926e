------------------------------- MODULE Clones -------------------------------
(***************************************************************************)
(* Which repository is cloned where: GitHubCloneController, the map of     *)
(* local paths MainWindow keeps, the sidebar and the detail panel that     *)
(* show it, and the clone that runs on a worker thread.                    *)
(*                                                                         *)
(* A local path is recorded in four places: localPathByFullName_, the rows *)
(* of the sidebar, reposCache_ (as it was annotated when the list was last *)
(* loaded) and the detail panel.  The dialogs that choose a folder are     *)
(* modal: opening one and accepting it is one step.                        *)
(***************************************************************************)

CONSTANTS
    Repos, \* repositories, by full name
    Paths, \* folders
    None   \* no repository, the empty path

ASSUME NoneAssumption == None \notin Repos /\ None \notin Paths

VARIABLES
    hosted,   \* repositories of the account on GitHub
    signedIn, \* a session exists
    map,      \* localPathByFullName_
    cache,    \* reposCache_: its repositories and the path each was annotated with
    list,     \* the sidebar's repos_, likewise
    sel,      \* the selected row of the sidebar
    detail,   \* repository and path the detail panel shows
    asking,   \* repositories with a change of visibility in flight
    inFlight, \* the clone the controller waits for
    clones,   \* clone jobs of the worker
    disk,     \* what is at each path
    shared    \* history: paths opened while a clone was writing them

window == <<map, cache, list, sel, detail>>
worker == <<clones, disk>>
vars   == <<hosted, signedIn, window, asking, inFlight, worker, shared>>

Path   == Paths \cup {None}
Rows   == UNION {[R -> Path] : R \in SUBSET Repos}
Folder == {"absent", "plain", "partial", "git"}
Stage  == {"queued", "running", "ok", "failed"}
Clone  == [repo : Repos, path : Paths]
Nothing == [repo |-> None, path |-> None]
NoRows == [r \in {} |-> None]

isBusy == inFlight # Nothing

Init ==
    /\ hosted \in SUBSET Repos /\ signedIn = TRUE
    /\ map = [r \in Repos |-> None]
    /\ cache = NoRows /\ list = NoRows /\ sel = None /\ detail = Nothing
    /\ asking = {} /\ inFlight = Nothing /\ clones = {}
    /\ disk \in [Paths -> {"absent", "plain", "git"}]
    /\ shared = {}
-----------------------------------------------------------------------------
(***************************************************************************)
(* Pieces of the slots.                                                    *)
(***************************************************************************)

\* rebuildGithubItems: the rows are rebuilt and the selected one, if it is
\* still there, is selected again, which shows it in the detail panel.
Rebuild(rows) ==
    /\ list' = rows
    /\ IF sel \in DOMAIN rows
       THEN detail' = [repo |-> sel, path |-> rows[sel]] /\ UNCHANGED sel
       ELSE sel' = None /\ UNCHANGED detail

\* setLocalPath: nothing happens to a repository that is not listed.
WithPath(r, p) == [x \in DOMAIN list |-> IF x = r THEN p ELSE list[x]]

\* Mutant of RollBack: the optimistic insert stays.
RollBackNothing(r, p) == UNCHANGED map

\* onCloneFailed: forget the path of r if it is p.
RollBack(r, p) ==
    map' = [map EXCEPT ![r] = IF @ = p THEN None ELSE @]
-----------------------------------------------------------------------------
(***************************************************************************)
(* The session, the sidebar and the panel.                                 *)
(***************************************************************************)
SignIn ==
    /\ ~signedIn /\ signedIn' = TRUE
    /\ UNCHANGED <<hosted, window, asking, inFlight, worker, shared>>

\* Mutant of SignOut: the selection survives the rows.
SignOutKeepsSelection ==
    /\ signedIn /\ signedIn' = FALSE
    /\ list' = NoRows /\ detail' = Nothing
    /\ UNCHANGED <<hosted, map, cache, sel, asking, inFlight, worker, shared>>

\* The list and the panel are emptied; the cache and the map are not.
SignOut ==
    /\ signedIn /\ signedIn' = FALSE
    /\ list' = NoRows /\ sel' = None /\ detail' = Nothing
    /\ UNCHANGED <<hosted, map, cache, asking, inFlight, worker, shared>>

ReposLoaded ==
    /\ signedIn
    /\ LET annotated == [r \in hosted |-> map[r]]
       IN  cache' = annotated /\ Rebuild(annotated)
    /\ UNCHANGED <<hosted, signedIn, map, asking, inFlight, worker, shared>>

Select(r) ==
    /\ r \in DOMAIN list \ {sel}
    /\ sel' = r /\ detail' = [repo |-> r, path |-> list[r]]
    /\ UNCHANGED <<hosted, signedIn, map, cache, list, asking, inFlight, worker,
                   shared>>

\* The search box hides the selected row: the panel keeps what it shows.
FilterOut ==
    /\ sel # None /\ sel' = None
    /\ UNCHANGED <<hosted, signedIn, map, cache, list, detail, asking, inFlight,
                   worker, shared>>

ChangeVisibility(r) ==
    /\ r \in DOMAIN list /\ signedIn
    /\ asking' = asking \cup {r}
    /\ UNCHANGED <<hosted, signedIn, window, inFlight, worker, shared>>

\* The row of r is replaced in the cache, its path preserved, and the sidebar
\* is given the cache.
VisibilityChanged(r) ==
    /\ r \in asking /\ asking' = asking \ {r}
    /\ IF r \in DOMAIN cache THEN Rebuild(cache) ELSE UNCHANGED <<list, sel, detail>>
    /\ UNCHANGED <<hosted, signedIn, map, cache, inFlight, worker, shared>>

VisibilityFails(r) ==
    /\ r \in asking /\ asking' = asking \ {r}
    /\ UNCHANGED <<hosted, signedIn, window, inFlight, worker, shared>>

\* PublishController reports the repository a local folder was published to.
\* One that GitHub had is in the cache; a new one, which may be reported after the
\* session that asked for it, is put there.
RepoCreated(r, p) ==
    /\ disk[p] = "git"
    /\ r \in hosted => signedIn /\ r \in DOMAIN cache
    /\ hosted' = hosted \cup {r}
    /\ map' = [map EXCEPT ![r] = p]
    /\ IF r \in DOMAIN cache
       THEN cache' = cache /\ Rebuild(WithPath(r, p))
       ELSE /\ cache' = [x \in DOMAIN cache \cup {r} |->
                            IF x = r THEN p ELSE cache[x]]
            /\ Rebuild(cache')
    /\ UNCHANGED <<signedIn, asking, inFlight, worker, shared>>
-----------------------------------------------------------------------------
(***************************************************************************)
(* The buttons of the panel: both are there while it shows no local path.  *)
(***************************************************************************)
Offered(r) == detail.repo = r /\ detail.path = None

\* Mutant of StartClone: another clone may be in flight.
StartCloneBusy(r, p) ==
    /\ Offered(r) /\ disk[p] = "absent"
    /\ inFlight' = [repo |-> r, path |-> p]
    /\ map' = [map EXCEPT ![r] = p]
    /\ clones' = clones \cup {[path |-> p, stage |-> "queued"]}
    /\ UNCHANGED <<hosted, signedIn, cache, list, sel, detail, asking, disk, shared>>

\* onCloneRequested and startClone.
StartClone(r, p) ==
    /\ Offered(r) /\ ~isBusy /\ disk[p] = "absent"
    /\ inFlight' = [repo |-> r, path |-> p]
    /\ map' = [map EXCEPT ![r] = p]
    /\ clones' = clones \cup {[path |-> p, stage |-> "queued"]}
    /\ UNCHANGED <<hosted, signedIn, cache, list, sel, detail, asking, disk, shared>>

CloneRefused(r, p) ==
    /\ Offered(r) /\ ~isBusy /\ disk[p] # "absent"
    /\ RollBack(r, p)
    /\ UNCHANGED <<hosted, signedIn, cache, list, sel, detail, asking, inFlight,
                   worker, shared>>

\* A folder that holds .git; git_clone creates it at some point of its run.
openExisting(r, p) ==
    /\ Offered(r) /\ disk[p] \in {"git", "partial"}
    /\ map' = [map EXCEPT ![r] = p]
    /\ list' = WithPath(r, p)
    /\ detail' = [repo |-> r, path |-> p]
    /\ shared' = IF disk[p] = "partial" THEN shared \cup {p} ELSE shared
    /\ UNCHANGED <<hosted, signedIn, cache, sel, asking, inFlight, worker>>

OpenRefused(r, p) ==
    /\ Offered(r) /\ disk[p] \in {"plain", "partial"}
    /\ RollBack(r, p)
    /\ UNCHANGED <<hosted, signedIn, cache, list, sel, detail, asking, inFlight,
                   worker, shared>>
-----------------------------------------------------------------------------
(***************************************************************************)
(* GitHandler::clone on a worker thread, and cloneFinished.                *)
(***************************************************************************)
Stages(c, stage) == (clones \ {c}) \cup {[path |-> c.path, stage |-> stage]}

\* The target is looked at once more.
BeginClone(c) ==
    /\ c.stage = "queued"
    /\ IF disk[c.path] = "absent"
       THEN clones' = Stages(c, "running") /\ disk' = [disk EXCEPT ![c.path] = "partial"]
       ELSE clones' = Stages(c, "failed") /\ UNCHANGED disk
    /\ UNCHANGED <<hosted, signedIn, window, asking, inFlight, shared>>

\* A clone that fails removes what it wrote.
EndClone(c) ==
    /\ c.stage = "running"
    /\ \/ clones' = Stages(c, "ok") /\ disk' = [disk EXCEPT ![c.path] = "git"]
       \/ clones' = Stages(c, "failed") /\ disk' = [disk EXCEPT ![c.path] = "absent"]
    /\ UNCHANGED <<hosted, signedIn, window, asking, inFlight, shared>>

\* onCloneFinished: only the clone the controller waits for counts.
CloneFinished(c) ==
    /\ c.stage \in {"ok", "failed"}
    /\ clones' = clones \ {c}
    /\ IF c.path # inFlight.path
       THEN UNCHANGED <<inFlight, window>>
       ELSE /\ inFlight' = Nothing
            /\ IF c.stage = "ok"
               THEN Rebuild(WithPath(inFlight.repo, c.path)) /\ UNCHANGED <<map, cache>>
               ELSE RollBack(inFlight.repo, c.path)
                    /\ UNCHANGED <<cache, list, sel, detail>>
    /\ UNCHANGED <<hosted, signedIn, asking, disk, shared>>

\* Another program puts a folder where there was none.
FolderAppears(p) ==
    /\ disk[p] = "absent"
    /\ \E f \in {"plain", "git"} : disk' = [disk EXCEPT ![p] = f]
    /\ UNCHANGED <<hosted, signedIn, window, asking, inFlight, clones, shared>>
-----------------------------------------------------------------------------
Worker == \E c \in clones : BeginClone(c) \/ EndClone(c)

Deliver == \E c \in clones : CloneFinished(c)

User ==
    \/ SignIn \/ SignOut \/ FilterOut
    \/ \E r \in Repos :
          \/ Select(r) \/ ChangeVisibility(r)
          \/ \E p \in Paths : \/ StartClone(r, p) \/ CloneRefused(r, p)
                              \/ openExisting(r, p) \/ OpenRefused(r, p)

Network ==
    \/ ReposLoaded
    \/ \E r \in Repos : VisibilityChanged(r) \/ VisibilityFails(r)
    \/ \E r \in Repos, p \in Paths : RepoCreated(r, p)

Next == Worker \/ Deliver \/ User \/ Network \/ \E p \in Paths : FolderAppears(p)

Spec == Init /\ [][Next]_vars
-----------------------------------------------------------------------------
\* Every variable stays in its range.
TypeOK ==
    /\ hosted \subseteq Repos /\ signedIn \in BOOLEAN
    /\ map \in [Repos -> Path]
    /\ cache \in Rows /\ list \in Rows
    /\ sel \in DOMAIN list \cup {None}
    /\ detail \in [repo : Repos, path : Path] \cup {Nothing}
    /\ asking \subseteq Repos
    /\ inFlight \in Clone \cup {Nothing}
    /\ clones \subseteq [path : Paths, stage : Stage]
    /\ disk \in [Paths -> Folder]
    /\ shared \subseteq Paths

(***************************************************************************)
(* The worker clones exactly what the controller waits for: at most one    *)
(* repository at a time, and no result is ignored (GitHubCloneController). *)
(***************************************************************************)
ControllerOwnsClone ==
    /\ isBusy <=> clones # {}
    /\ \A c \in clones : c.path = inFlight.path
    /\ \A c, d \in clones : c = d

(***************************************************************************)
(* The panel shows the selected row as the sidebar has it, through every   *)
(* rebuild of the rows, late clone and change of the list.                 *)
(***************************************************************************)
PanelShowsSelection ==
    sel # None => detail = [repo |-> sel, path |-> list[sel]]

(***************************************************************************)
(* A path is remembered only for a folder that holds a repository, or for  *)
(* the clone in flight; the one exception is a folder the user opened      *)
(* while a clone was writing it (onCloneStarted, onCloneFailed).           *)
(***************************************************************************)
RememberedIsReal ==
    \A r \in Repos : map[r] # None =>
        \/ disk[map[r]] = "git"
        \/ inFlight = [repo |-> r, path |-> map[r]]
        \/ map[r] \in shared
=============================================================================
