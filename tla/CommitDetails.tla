--------------------------- MODULE CommitDetails ----------------------------
(***************************************************************************)
(* The lower half of the History tab: the files changed by the commit      *)
(* picked in the list, or between the two picked, and the diff of one.     *)
(*                                                                         *)
(* The list is the business of History; here its rows are commits by       *)
(* number, newest first, and below them the row that offers more.  Any     *)
(* rows may be picked together, and what is asked for is worked out from   *)
(* those picked and, when there are more than two, from the row that has   *)
(* the focus.                                                              *)
(***************************************************************************)
EXTENDS Naturals, SequencesExt, FiniteSetsExt

CONSTANTS
    Folders,
    None,
    MaxRows,  \* bound: commits listed
    MaxJobs   \* bound: requests on the pool or on their way back

CommitDetailsAssumption ==
    /\ None \notin Folders \cup (1 .. MaxRows + 1)
    /\ MaxRows \in Nat /\ MaxJobs \in Nat \ {0}

VARIABLES
    folder,             \* path_, activeLocalPath_ and activePath_
    rows,               \* number of commits in historyList_
    offer,              \* whether the row that offers more is below them
    isLoadingMore,      \* isLoadingMore_
    picked,             \* selectedItems()
    focus,              \* currentItem(), 0 for none
    currentCommitSha,   \* currentCommitSha_: <<c>>, <<old, new>>, or <<>>
    files,              \* currentCommitFiles_ and commitFilesList_: whose they are
    view,               \* commitDiffView_
    jobs

history == <<rows, offer, isLoadingMore, picked, focus>>
details == <<currentCommitSha, files, view>>
vars    == <<folder, history, details, jobs>>

Commits == 1 .. MaxRows
Shas    == {<<>>} \cup {<<c>> : c \in Commits} \cup (Commits \X Commits)
\* What a result is about.
About   == [at : Folders, sha : Shas]
Nothing == [at |-> None, sha |-> <<>>]
Job     == [at : Folders, sha : Shas, state : {"waits", "done", "bare", "failed"}]

Offer == rows + 1
Rows  == 1 .. rows \cup IF offer THEN {Offer} ELSE {}

Init ==
    /\ folder \in Folders /\ rows = 0 /\ offer = FALSE /\ isLoadingMore = FALSE
    /\ picked = {} /\ focus = 0 /\ currentCommitSha = <<>> /\ files = Nothing
    /\ view = "empty" /\ jobs = <<>>
-----------------------------------------------------------------------------
(***************************************************************************)
(* onHistorySelectionChanged, for the rows p picked and the focus on f.    *)
(***************************************************************************)
Cleared == currentCommitSha' = <<>> /\ files' = Nothing /\ view' = "empty"

\* What the code asks for: the row with the focus, if more than two are picked.
Sha(p, f) ==
    LET Id(r) == IF r = Offer THEN <<>> ELSE <<r>>
    IN  CASE Cardinality(p) = 2 -> Id(Max(p)) \o Id(Min(p))
          [] Cardinality(p) = 1 -> Id(Min(p))
          [] OTHER -> Id(f)

\* LocalWorkspaceController drops a request without a commit.
Ask(sha) ==
    IF sha = currentCommitSha THEN UNCHANGED <<details, jobs>>
    ELSE /\ currentCommitSha' = sha /\ files' = Nothing /\ view' = "loading"
         /\ IF sha = <<>> THEN UNCHANGED jobs
            ELSE /\ Len(jobs) < MaxJobs
                 /\ jobs' = Append(jobs, [at |-> folder, sha |-> sha, state |-> "waits"])

\* Picked alone, the row that offers more is asked to, and picked no longer.
SelectionChanged(p, f) ==
    /\ focus' = f
    /\ IF p \in {{}, {Offer}}
       THEN picked' = {} /\ Cleared /\ UNCHANGED jobs
       ELSE /\ picked' = p
            /\ IF Cardinality(p) = 2 /\ Offer \in p THEN UNCHANGED <<details, jobs>>
               ELSE Ask(Sha(p, f))

\* A click picks a row, with Ctrl turns it, with Shift picks from the row that
\* had the focus.
Pick(r) ==
    /\ \E p \in {{r}, SymDiff(picked, {r}),
                 {x \in Rows : \/ focus <= x /\ x <= r
                               \/ r <= x /\ x <= focus}} :
        /\ p # picked /\ SelectionChanged(p, r)
        /\ isLoadingMore' = (isLoadingMore \/ p = {Offer})
    /\ UNCHANGED <<folder, rows, offer>>
-----------------------------------------------------------------------------
OpenFolder(p) ==
    /\ folder' = p /\ rows' = 0 /\ offer' = FALSE /\ picked' = {} /\ focus' = 0
    /\ Cleared /\ UNCHANGED <<isLoadingMore, jobs>>

\* A first page, which History asked for; the last commits keep their numbers.
setHistory(n, more) ==
    /\ rows' = n /\ offer' = more /\ isLoadingMore' = FALSE
    /\ picked' = {} /\ focus' = 0 /\ Cleared /\ UNCHANGED <<folder, jobs>>

\* A further page: the row that offers more is removed before the rows are
\* added, and its focus goes to the row above.
appendHistory(n, more) ==
    /\ isLoadingMore /\ isLoadingMore' = FALSE /\ n >= rows
    /\ rows' = n /\ offer' = more /\ UNCHANGED folder
    /\ LET f == IF focus = Offer THEN rows ELSE focus
       IN  IF offer /\ Offer \in picked THEN SelectionChanged(picked \ {Offer}, f)
           ELSE focus' = f /\ UNCHANGED <<picked, details, jobs>>
-----------------------------------------------------------------------------
\* commitDiff and commitDiffBetween: "bare" without a file changed.
Run(i) ==
    /\ jobs[i].state = "waits"
    /\ \E s \in {"done", "bare", "failed"} : jobs' = [jobs EXCEPT ![i].state = s]
    /\ UNCHANGED <<folder, history, details>>

\* Mutant of Expected: the commits of a result are not looked at.
ExpectedAny(j) == j.at = folder

\* Of onWorkspaceCommitDiffReady and setCommitDiff: the filters of stale results.
Expected(j) == j.at = folder /\ j.sha = currentCommitSha

\* The first file is selected, and its diff shown.
CommitDiffReady(i) ==
    LET j == jobs[i]
    IN  /\ j.state # "waits" /\ jobs' = RemoveAt(jobs, i)
        /\ IF ~Expected(j) THEN UNCHANGED <<files, view>>
           ELSE /\ files' = IF j.state = "done" THEN [at |-> j.at, sha |-> j.sha]
                            ELSE Nothing
                /\ view' = CASE j.state = "done"   -> "diff"
                             [] j.state = "bare"   -> "empty"
                             [] j.state = "failed" -> "failed"
        /\ UNCHANGED <<folder, history, currentCommitSha>>

\* A click in the list of files: on one, or on the one selected to leave none.
CommitFileSelectionChanged ==
    /\ files # Nothing /\ \E v \in {"diff", "empty"} : view' = v
    /\ UNCHANGED <<folder, history, currentCommitSha, files, jobs>>
-----------------------------------------------------------------------------
Next ==
    \/ \E p \in Folders : OpenFolder(p)
    \/ \E r \in Rows : Pick(r)
    \/ \E n \in 0 .. MaxRows, more \in BOOLEAN :
        /\ n > 0 \/ ~more
        /\ setHistory(n, more) \/ appendHistory(n, more)
    \/ \E i \in DOMAIN jobs : Run(i) \/ CommitDiffReady(i)
    \/ CommitFileSelectionChanged

Spec == Init /\ [][Next]_vars
-----------------------------------------------------------------------------
\* Every variable stays in its range.
TypeOK ==
    /\ folder \in Folders /\ rows \in 0 .. MaxRows /\ picked \subseteq Rows
    /\ focus \in Rows \cup {0} /\ {offer, isLoadingMore} \subseteq BOOLEAN
    /\ currentCommitSha \in Shas /\ files \in About \cup {Nothing}
    /\ view \in {"empty", "loading", "diff", "failed"} /\ jobs \in Seq(Job)

(***************************************************************************)
(* However the picked rows and the folder change while diffs are computed, *)
(* the files listed are those of the one commit picked in this folder, or  *)
(* those between the two picked, the older first; a diff is of one of      *)
(* them.  With the row that offers more among two it is what was picked    *)
(* before, with more than two what had the focus (setCommitDiff,           *)
(* onHistorySelectionChanged).                                             *)
(***************************************************************************)
FilesOfPicked ==
    /\ view = "diff" => files # Nothing
    /\ files # Nothing =>
        /\ files = [at |-> folder, sha |-> currentCommitSha]
        /\ Cardinality(picked) = 1 => files.sha = <<Min(picked)>>
        /\ Cardinality(picked) = 2 /\ Offer \notin picked =>
              files.sha = <<Max(picked), Min(picked)>>

(***************************************************************************)
(* A view that says "loading" has its request under way, unless the row    *)
(* that offers more had the focus among more than two: no request is made  *)
(* without a commit (onCommitDiffRequested).                               *)
(***************************************************************************)
LoadingIsAwaited ==
    view = "loading" /\ currentCommitSha # <<>> =>
        \E i \in DOMAIN jobs : Expected(jobs[i])
=============================================================================
