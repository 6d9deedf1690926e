------------------------------- MODULE History ------------------------------
(***************************************************************************)
(* The History tab: pages of commits read on the worker's thread pool and  *)
(* put into one list, with a last row to click for more.                   *)
(*                                                                         *)
(* A commit is a number; a greater one is newer, so that the walk by time  *)
(* and topology of GitHandler::log is the reachable commits in descending  *)
(* order.  Commits never change, heads do.  Jobs run and are delivered in  *)
(* any order.  The filter, signature badges and the commit shown below the *)
(* list are left out: none of them changes which rows there are.           *)
(***************************************************************************)
EXTENDS Integers, SequencesExt

CONSTANTS
    Paths,    \* local folders, all of them repositories
    None,     \* no folder, no commit
    Commits,  \* all commits, numbered by age
    Parents,  \* parents of each commit
    Folder,   \* repository of each commit
    PageSize, \* kHistoryPageSize, and the 200 of every loadHistory
    MaxJobs   \* bound on jobs in flight

\* Assumed by the modules that instantiate this one.
HistoryAssumption ==
    /\ None \notin Paths \cup Commits
    /\ Commits \subseteq Nat /\ IsFiniteSet(Commits)
    /\ Parents \in [Commits -> SUBSET Commits] /\ Folder \in [Commits -> Paths]
    /\ \A c \in Commits : \A q \in Parents[c] : q < c /\ Folder[q] = Folder[c]
    /\ PageSize \in Nat \ {0} /\ MaxJobs \in Nat \ {0}

VARIABLES
    head,    \* HEAD of each folder
    shown,   \* activeLocalPath_ of MainWindow
    path,    \* path_ of the widget, activePath_ of the controller
    repo,    \* isRepository_: the state of the folder has arrived
    tab,     \* whether the History tab is the current one
    loaded,  \* historyLoaded_
    rows,    \* historyList_
    more,    \* its last row: "none", "more", or "loading" once clicked
    oldest,  \* oldestLoadedSha_
    loading, \* isLoadingMore_
    jobs,    \* bag of the loads in flight
    crossed, \* history: the rows a page in flight was to follow are gone
    lost     \* history: a page of those shown could not be read

list   == <<loaded, rows, more, oldest, loading>>
ghosts == <<crossed, lost>>
vars   == <<head, shown, path, repo, tab, list, jobs, ghosts>>

Job == [path : Paths, after : Commits \cup {None}, done : BOOLEAN,
        page : Seq(Commits), failed : BOOLEAN]

Init ==
    /\ head \in {h \in [Paths -> Commits \cup {None}] :
                    \A p \in Paths : h[p] # None => Folder[h[p]] = p}
    /\ shown = None /\ path = None /\ repo = FALSE /\ tab = FALSE
    /\ loaded = FALSE /\ rows = <<>> /\ more = "none" /\ oldest = None
    /\ loading = FALSE
    /\ jobs = EmptyBag /\ crossed = FALSE /\ lost = FALSE
-----------------------------------------------------------------------------
(***************************************************************************)
(* GitHandler::log.                                                        *)
(***************************************************************************)
Ancestors[c \in Commits] == {c} \cup UNION {Ancestors[q] : q \in Parents[c]}

\* The k-th of a walk is one of k that are no older.
Walk(c) ==
    [k \in 1..Cardinality(Ancestors[c]) |->
        CHOOSE d \in Ancestors[c] : Cardinality({e \in Ancestors[c] : e >= d}) = k]

FirstPage(s) == SubSeq(s, 1, IF Len(s) < PageSize THEN Len(s) ELSE PageSize)

\* Mutant of Log: the commit to start after is not skipped.
LogFrom(h, after) ==
    IF after # None THEN FirstPage(Walk(after))
    ELSE IF h # None THEN FirstPage(Walk(h)) ELSE <<>>

Log(h, after) ==
    IF after # None THEN FirstPage(Tail(Walk(after)))
    ELSE IF h # None THEN FirstPage(Walk(h)) ELSE <<>>
-----------------------------------------------------------------------------
InFlight == BagToSet(jobs)
Load(p, after) == SetToBag({[path |-> p, after |-> after, done |-> FALSE,
                             page |-> <<>>, failed |-> FALSE]})
Request(p, after) == jobs' = jobs (+) Load(p, after) /\ BagCardinality(jobs') <= MaxJobs

\* Pages in flight of a folder.
Pending(p) == {j \in InFlight : j.path = p /\ j.after # None}
-----------------------------------------------------------------------------
(***************************************************************************)
(* The user and the other operations.                                      *)
(***************************************************************************)

\* setFolder empties the list; oldest and loading stay.
OpenFolder(p) ==
    /\ shown' = p /\ path' = p /\ repo' = FALSE
    /\ loaded' = FALSE /\ rows' = <<>> /\ more' = "none"
    /\ crossed' = (Pending(p) # {}) /\ lost' = FALSE
    /\ UNCHANGED <<head, tab, oldest, loading, jobs>>

RemoveFolder ==
    /\ shown # None /\ shown' = None
    /\ UNCHANGED <<head, path, repo, tab, list, jobs, ghosts>>

\* setLocalState.
StateReady ==
    /\ shown # None /\ repo' = TRUE
    /\ UNCHANGED <<head, shown, path, tab, list, jobs, ghosts>>

\* onTabChanged: loaded on the first activation.
OpenTab ==
    /\ shown # None /\ ~tab /\ tab' = TRUE
    /\ IF repo /\ ~loaded THEN Request(path, None) ELSE UNCHANGED jobs
    /\ UNCHANGED <<head, shown, path, repo, list, ghosts>>

LeaveTab ==
    /\ shown # None /\ tab /\ tab' = FALSE
    /\ UNCHANGED <<head, shown, path, repo, list, jobs, ghosts>>

HistoryRefreshClicked ==
    /\ shown # None /\ repo /\ tab
    /\ Request(path, None)
    /\ UNCHANGED <<head, shown, path, repo, tab, list, ghosts>>

\* onHistorySelectionChanged of the last row.
LoadMore ==
    /\ shown # None /\ repo /\ tab /\ more # "none"
    /\ ~loading /\ oldest # None
    /\ loading' = TRUE /\ more' = "loading"
    /\ Request(path, oldest)
    /\ UNCHANGED <<head, shown, path, repo, tab, loaded, rows, oldest, ghosts>>

\* A commit, an undo or a soft reset ends and reloads the history; a switch, a
\* pull or a change made by others moves the head and does not.
HeadMoves(p, c) ==
    /\ Folder[c] = p /\ head' = [head EXCEPT ![p] = c]
    /\ (p = shown /\ Request(p, None)) \/ UNCHANGED jobs
    /\ UNCHANGED <<shown, path, repo, tab, list, ghosts>>
-----------------------------------------------------------------------------
(***************************************************************************)
(* The worker.  A load that fails is delivered as an empty page.           *)
(***************************************************************************)
Answer(j, page, failed) ==
    jobs' = (jobs (-) SetToBag({j}))
            (+) SetToBag({[path |-> j.path, after |-> j.after, done |-> TRUE,
                           page |-> page, failed |-> failed]})

LoadHistory(j) ==
    /\ ~j.done
    /\ Answer(j, Log(head[j.path], j.after), FALSE) \/ Answer(j, <<>>, TRUE)
    /\ UNCHANGED <<head, shown, path, repo, tab, list, ghosts>>
-----------------------------------------------------------------------------
(***************************************************************************)
(* Results.                                                                *)
(***************************************************************************)
Sentinel(page) == IF Len(page) >= PageSize THEN "more" ELSE "none"

\* Mutant of setHistory: a page on its way keeps the last row from working.
setHistoryWaiting(page) ==
    /\ loaded' = TRUE /\ rows' = page /\ more' = Sentinel(page)
    /\ oldest' = IF page = <<>> THEN None ELSE Last(page)
    /\ UNCHANGED loading

setHistory(page) ==
    /\ loaded' = TRUE /\ rows' = page /\ more' = Sentinel(page)
    /\ oldest' = IF page = <<>> THEN None ELSE Last(page)
    /\ loading' = FALSE

appendHistory(page) ==
    /\ rows' = rows \o page /\ more' = Sentinel(page)
    /\ oldest' = IF page = <<>> THEN oldest ELSE Last(page)
    /\ loading' = FALSE
    /\ UNCHANGED loaded

\* onWorkerHistoryReady, and onWorkspaceHistoryReady of MainWindow.
Accepted(j) == j.path = path /\ j.path = shown

HistoryReady(j) ==
    /\ j.done /\ Accepted(j)
    /\ jobs' = jobs (-) SetToBag({j})
    /\ IF j.after = None
       THEN /\ setHistory(j.page)
            /\ crossed' = (Pending(path) # {}) /\ lost' = j.failed
       ELSE /\ appendHistory(j.page)
            /\ lost' = (lost \/ j.failed) /\ UNCHANGED crossed
    /\ UNCHANGED <<head, shown, path, repo, tab>>

HistoryDropped(j) ==
    /\ j.done /\ ~Accepted(j)
    /\ jobs' = jobs (-) SetToBag({j})
    /\ UNCHANGED <<head, shown, path, repo, tab, list, ghosts>>
-----------------------------------------------------------------------------
Next ==
    \/ RemoveFolder \/ StateReady \/ OpenTab \/ LeaveTab
    \/ HistoryRefreshClicked \/ LoadMore
    \/ \E p \in Paths : OpenFolder(p) \/ \E c \in Commits : HeadMoves(p, c)
    \/ \E j \in InFlight : LoadHistory(j) \/ HistoryReady(j) \/ HistoryDropped(j)

Spec == Init /\ [][Next]_vars
-----------------------------------------------------------------------------
\* Every variable stays in its range.
TypeOK ==
    /\ head \in [Paths -> Commits \cup {None}]
    /\ shown \in {None, path} /\ path \in Paths \cup {None}
    /\ repo \in BOOLEAN /\ tab \in BOOLEAN /\ loaded \in BOOLEAN
    /\ rows \in Seq(Commits) /\ more \in {"none", "more", "loading"}
    /\ oldest \in Commits \cup {None} /\ loading \in BOOLEAN
    /\ \A j \in InFlight : j \in Job
    /\ crossed \in BOOLEAN /\ lost \in BOOLEAN

(***************************************************************************)
(* Whatever arrives late, the commits listed are the folder's on screen    *)
(* (the filters on activePath_ and activeLocalPath_).                      *)
(***************************************************************************)
RowsOfFolder == \A i \in DOMAIN rows : Folder[rows[i]] = path

(***************************************************************************)
(* The last row works: when it offers more, a click is not ignored and     *)
(* asks for what follows the row above; once clicked, a page is on its way *)
(* that will replace it (isLoadingMore_ and oldestLoadedSha_ against       *)
(* folders opened and refreshes made while pages were in flight).          *)
(***************************************************************************)
LastRowWorks ==
    shown # None =>
        /\ more = "more" => ~loading /\ rows # <<>> /\ oldest = Last(rows)
        /\ more = "loading" => loading /\ Pending(path) # {}

Linear == \A c \in Commits : \A p, q \in Parents[c] : p = q

Complete == more = "none" /\ rows # <<>> => ToSet(rows) = Ancestors[Head(rows)]

(***************************************************************************)
(* Pages join: however many were put together, the list is the history     *)
(* from its first row on with no commit left out or repeated, and without  *)
(* a last row it is all of it.  Excluded, because it fails there: merges,  *)
(* pages whose list was replaced before they came, and pages that could    *)
(* not be read.                                                            *)
(***************************************************************************)
PagesJoin ==
    shown # None /\ ~crossed /\ Linear =>
        /\ rows # <<>> => IsPrefix(rows, Walk(Head(rows)))
        /\ ~lost => Complete
=============================================================================
