------------------------------ MODULE Publish ------------------------------
(***************************************************************************)
(* "Publish to GitHub": PublishController drives create repository -> add  *)
(* origin -> read the branch -> push, one asynchronous step at a time.     *)
(*                                                                         *)
(* Three parties run here.  The GUI thread owns the controller, MainWindow *)
(* and LocalWorkspaceController and handles one signal per step.  GitHub   *)
(* answers REST requests, or the network loses them.  GitWorker runs every *)
(* operation on the global thread pool, so operations overlap and their    *)
(* results come back in any order.  Nothing cancels an operation: one that *)
(* outlives the flow that started it still takes effect and still reports. *)
(*                                                                         *)
(* A signal carries the folder it is about and not the request it answers. *)
(* The history variable attempts, and the field by of a job or request     *)
(* (0: not from a flow), record what the program itself does not know.     *)
(***************************************************************************)
EXTENDS Integers, Bags

CONSTANTS
    Folders,     \* local folders in the sidebar
    Repos,       \* full names of repositories of the account
    NoFolder,    \* the empty path
    NoRepo,      \* the empty clone URL, and "no origin remote"
    MaxStarts,   \* bound on calls of PublishController::start
    MaxUserOps,  \* bound on what the user does besides publishing
    MaxJobs      \* the user waits while this many worker jobs are unfinished

ASSUME NoFolderAssumption == NoFolder \notin Folders
ASSUME NoRepoAssumption   == NoRepo \notin Repos
ASSUME BoundAssumption    == MaxStarts \in Nat \ {0} /\ MaxUserOps \in Nat
                            /\ MaxJobs \in Nat \ {0}

VARIABLES
    flow,        \* PublishController::state_
    watchdog,    \* the watchdog timer is running
    requests,    \* POST /user/repos requests not yet answered on the GUI thread
    query,       \* some other REST request is in flight
    github,      \* repositories that exist on GitHub
    pool,        \* bag of GitWorker jobs not yet reported on the GUI thread
    origin,      \* folder -> URL of its origin remote
    head,        \* folder -> what its HEAD points at
    pushed,      \* <<folder, repo>>: the branch of folder was uploaded to repo
    active,      \* MainWindow::activeLocalPath_ (and the workspace's activePath_)
    busy,        \* LocalRepositoryWidget::busy_
    view,        \* what the widget shows of the active folder
    localPathOf, \* MainWindow::localPathByFullName_
    started, attempts,    \* history: calls of start() and what became of them
    userOps      \* user operations spent

flowVars == <<flow, watchdog, attempts>>
netVars  == <<requests, query, github>>
gitVars  == <<origin, head, pushed>>
uiVars   == <<active, busy, view>>
vars     == <<flowVars, netVars, pool, gitVars, uiVars, localPathOf,
              started, userOps>>
-----------------------------------------------------------------------------
Steps    == {"Idle", "CreatingRepo", "AddingRemote", "RefreshingState", "Pushing"}
Outcomes == {"pending", "pushed", "connected", "rejected", "createFailed",
             "linkFailed", "pushFailed", "timedOut"}
Heads    == {"branch", "unborn", "detached"}
Flow     == [step : Steps, path : Folders \cup {NoFolder},
             repo : Repos \cup {NoRepo}, pushAfter : BOOLEAN]

\* stray: a result the flow did not ask for moved it; meddled: the folder's
\* origin was changed by someone else while the flow ran.
Attempt  == [folder : Folders \cup {NoFolder}, repo : Repos \cup {NoRepo},
             pushAfter : BOOLEAN, outcome : Outcomes,
             stray : BOOLEAN, meddled : BOOLEAN]

Request  == [by : 1..MaxStarts, repo : Repos,
             res : {"sent", "created", "malformed", "failed"}]
View     == [known : BOOLEAN, named : BOOLEAN, origin : Repos \cup {NoRepo}]

\* repo: the URL to add, the origin a refresh has read, or where a push went;
\* named: the branch a refresh has read is a name ("main"), not "(detached)".
Job      == [op : {"addRemote", "removeRemote", "refresh", "push"},
             folder : Folders, repo : Repos \cup {NoRepo}, named : BOOLEAN,
             by : 0..MaxStarts,
             res : {"queued", "ok", "error", "upstreamError"}]

NoFlow    == [step |-> "Idle", path |-> NoFolder, repo |-> NoRepo, pushAfter |-> TRUE]
NoAttempt == [folder |-> NoFolder, repo |-> NoRepo, pushAfter |-> TRUE,
              outcome |-> "pending", stray |-> FALSE, meddled |-> FALSE]
NoView    == [known |-> FALSE, named |-> FALSE, origin |-> NoRepo]

NewJob(op, f, r, n) ==
    [op |-> op, folder |-> f, repo |-> r, named |-> FALSE, by |-> n, res |-> "queued"]
Refresh(f, n) == NewJob("refresh", f, NoRepo, n)

isActive == flow.path # NoFolder
Jobs     == BagToSet(pool)
Submit(p, S) == p (+) SetToBag(S)
Without(j)   == pool (-) SetToBag({j})

Init ==
    /\ flow = NoFlow /\ watchdog = FALSE
    /\ requests = {} /\ query = FALSE
    /\ github \in SUBSET Repos
    /\ pool = EmptyBag
    /\ origin = [f \in Folders |-> NoRepo]
    /\ head \in [Folders -> Heads]
    /\ pushed = {}
    /\ active = NoFolder /\ busy = FALSE /\ view = NoView
    /\ localPathOf = [r \in Repos |-> NoFolder]
    /\ started = 0 /\ attempts = [n \in 1..MaxStarts |-> NoAttempt]
    /\ userOps = 0
-----------------------------------------------------------------------------
(***************************************************************************)
(* Pieces of the handlers.  A handler that ends the flow reaches           *)
(* onPublishSucceeded or onPublishFailed before it returns.                *)
(***************************************************************************)

\* Mutant of TransitionTo: the timer is not armed again.
TransitionToUnarmed(next, repo) ==
    /\ flow' = [flow EXCEPT !.step = next, !.repo = repo]
    /\ watchdog' = FALSE

\* transitionTo(next) arms the watchdog for the step that begins.
TransitionTo(next, repo) ==
    /\ flow' = [flow EXCEPT !.step = next, !.repo = repo]
    /\ watchdog' = TRUE

\* Mutants of Reset: the timer keeps running; only the path is cleared.
ResetKeepsTimer == flow' = NoFlow /\ UNCHANGED watchdog
ResetKeepsStep  == flow' = [flow EXCEPT !.path = NoFolder] /\ watchdog' = FALSE

\* reset(): forget the flow, stop the timer.
Reset ==
    /\ flow' = NoFlow
    /\ watchdog' = FALSE

\* Mutant of Finish: the outcome is reported, the flow not reset.
FinishKeepsFlow(result, stray) ==
    /\ UNCHANGED <<flow, watchdog>>
    /\ attempts' = [attempts EXCEPT ![started].outcome = result,
                                    ![started].repo    = flow.repo,
                                    ![started].stray   = @ \/ stray]

\* The flow reports its one outcome; stray says whose result ended it.
Finish(result, stray) ==
    /\ Reset
    /\ attempts' = [attempts EXCEPT ![started].outcome = result,
                                    ![started].repo    = flow.repo,
                                    ![started].stray   = @ \/ stray]

Advance(next, repo, stray) ==
    /\ TransitionTo(next, repo)
    /\ attempts' = [attempts EXCEPT ![started].stray = @ \/ stray]

\* MainWindow::onPublishSucceeded and onPublishFailed refresh the folder shown.
FinishJobs == IF flow.path = active THEN {Refresh(active, 0)} ELSE {}

\* rememberLocalPath, from onPublishRepoCreated.
RememberLocalPath(r, f) == localPathOf' = [localPathOf EXCEPT ![r] = f]
-----------------------------------------------------------------------------
(***************************************************************************)
(* start(): from the publish button of the folder shown, which is visible  *)
(* while the widget knows no origin, after the host's isActive() check.    *)
(***************************************************************************)
MayStart ==
    /\ ~isActive /\ started < MaxStarts /\ BagCardinality(pool) < MaxJobs
    /\ view.known /\ view.origin = NoRepo

NewAttempt(pushAfter) == [NoAttempt EXCEPT !.folder = active, !.pushAfter = pushAfter]

Begin(step, r, pushAfter) ==
    /\ MayStart
    /\ flow' = [step |-> step, path |-> active, repo |-> r, pushAfter |-> pushAfter]
    /\ watchdog' = TRUE
    /\ started' = started + 1
    /\ attempts' = [attempts EXCEPT ![started + 1] = NewAttempt(pushAfter)]
    /\ busy' = TRUE

StartCreate(r, pushAfter) ==
    /\ Begin("CreatingRepo", NoRepo, pushAfter)
    /\ requests' = requests \cup {[by |-> started + 1, repo |-> r, res |-> "sent"]}
    /\ UNCHANGED <<query, github, pool, gitVars, active, view, localPathOf, userOps>>

StartExisting(r, pushAfter) ==
    /\ r \in github
    /\ Begin("AddingRemote", r, pushAfter)
    /\ RememberLocalPath(r, active)
    /\ pool' = Submit(pool, {NewJob("addRemote", active, r, started + 1)})
    /\ UNCHANGED <<netVars, gitVars, active, view, userOps>>

\* An existing repository without a clone URL: failed() before any step.
StartRejected ==
    /\ MayStart
    /\ started' = started + 1
    /\ attempts' = [attempts EXCEPT ![started + 1] =
                       [NewAttempt(TRUE) EXCEPT !.outcome = "rejected"]]
    /\ pool' = Submit(pool, {Refresh(active, 0)})
    /\ busy' = FALSE
    /\ UNCHANGED <<flow, watchdog, netVars, gitVars, active, view, localPathOf, userOps>>
-----------------------------------------------------------------------------
(***************************************************************************)
(* GitHub and the network.                                                 *)
(***************************************************************************)
Answer(q, res) == requests' = (requests \ {q}) \cup {[q EXCEPT !.res = res]}

\* GitHub creates the repository; its answer may still be unusable.
GitHubCreates(q) ==
    /\ q.res = "sent" /\ q.repo \notin github
    /\ github' = github \cup {q.repo}
    /\ \E res \in {"created", "malformed", "failed"} : Answer(q, res)
    /\ UNCHANGED <<flowVars, query, pool, gitVars, uiVars, localPathOf,
                   started, userOps>>

\* The name is taken, or the request never arrives.
GitHubRefuses(q) ==
    /\ q.res = "sent"
    /\ Answer(q, "failed")
    /\ UNCHANGED <<flowVars, query, github, pool, gitVars, uiVars, localPathOf,
                   started, userOps>>

RepositoryCreated(q) ==
    /\ q.res \in {"created", "malformed"}
    /\ requests' = requests \ {q}
    /\ \/ /\ flow.step # "CreatingRepo"
          /\ UNCHANGED <<flowVars, pool, busy, localPathOf>>
       \/ /\ flow.step = "CreatingRepo" /\ q.res = "malformed"
          /\ Finish("createFailed", q.by # started)
          /\ pool' = Submit(pool, FinishJobs) /\ busy' = FALSE
          /\ UNCHANGED localPathOf
       \/ /\ flow.step = "CreatingRepo" /\ q.res = "created"
          /\ Advance("AddingRemote", q.repo, q.by # started)
          /\ RememberLocalPath(q.repo, flow.path)
          /\ pool' = Submit(pool, {NewJob("addRemote", flow.path, q.repo, started)})
          /\ UNCHANGED busy
    /\ UNCHANGED <<query, github, gitVars, active, view, started, userOps>>

\* onClientNetworkError: the signal does not say which request failed.
NetworkErrorInFlow(own) ==
    \/ /\ flow.step = "CreatingRepo"
       /\ Finish("createFailed", ~own)
       /\ pool' = Submit(pool, FinishJobs) /\ busy' = FALSE
    \/ /\ flow.step # "CreatingRepo"
       /\ UNCHANGED <<flowVars, pool, busy>>

CreateFails(q) ==
    /\ q.res = "failed"
    /\ requests' = requests \ {q}
    /\ NetworkErrorInFlow(q.by = started)
    /\ UNCHANGED <<query, github, gitVars, active, view, localPathOf, started, userOps>>

QueryFails ==
    /\ query /\ query' = FALSE
    /\ NetworkErrorInFlow(FALSE)
    /\ UNCHANGED <<requests, github, gitVars, active, view, localPathOf, started, userOps>>

QuerySucceeds ==
    /\ query /\ query' = FALSE
    /\ UNCHANGED <<flowVars, requests, github, pool, gitVars, uiVars, localPathOf,
                   started, userOps>>
-----------------------------------------------------------------------------
(***************************************************************************)
(* GitWorker on a pool thread: the operation takes effect.                 *)
(***************************************************************************)
Report(j, k) == pool' = Submit(Without(j), {k})

\* Someone other than the running flow changes the origin of its folder.
Meddle(j) ==
    attempts' = IF isActive /\ flow.path = j.folder /\ j.by # started
                THEN [attempts EXCEPT ![started].meddled = TRUE] ELSE attempts

ExecAddRemote(j) ==
    /\ j.op = "addRemote" /\ j.res = "queued"
    /\ \/ /\ origin[j.folder] = NoRepo
          /\ origin' = [origin EXCEPT ![j.folder] = j.repo]
          /\ Report(j, [j EXCEPT !.res = "ok"])
          /\ Meddle(j)
       \/ /\ Report(j, [j EXCEPT !.res = "error"])
          /\ UNCHANGED <<origin, attempts>>
    /\ UNCHANGED <<flow, watchdog, netVars, head, pushed, uiVars, localPathOf,
                   started, userOps>>

ExecRemoveRemote(j) ==
    /\ j.op = "removeRemote" /\ j.res = "queued"
    /\ \/ /\ origin[j.folder] # NoRepo
          /\ origin' = [origin EXCEPT ![j.folder] = NoRepo]
          /\ Report(j, [j EXCEPT !.res = "ok"])
          /\ Meddle(j)
       \/ /\ Report(j, [j EXCEPT !.res = "error"])
          /\ UNCHANGED <<origin, attempts>>
    /\ UNCHANGED <<flow, watchdog, netVars, head, pushed, uiVars, localPathOf,
                   started, userOps>>

\* currentBranch() of an unborn HEAD is the name it will have, so an empty
\* repository looks like any other branch; a detached HEAD has no name.
HeadIsNamed(h) == h \in {"branch", "unborn"}

ExecRefresh(j) ==
    /\ j.op = "refresh" /\ j.res = "queued"
    /\ Report(j, [j EXCEPT !.res = "ok", !.repo = origin[j.folder],
                           !.named = HeadIsNamed(head[j.folder])])
    /\ UNCHANGED <<flowVars, netVars, gitVars, uiVars, localPathOf, started, userOps>>

\* pushBranch looks origin up, uploads the branch if it exists, then writes the
\* upstream configuration; a failure of that last write is a failed push too.
ExecPush(j) ==
    /\ j.op = "push" /\ j.res = "queued"
    /\ \/ /\ origin[j.folder] # NoRepo /\ head[j.folder] # "unborn"
          /\ pushed' = pushed \cup {<<j.folder, origin[j.folder]>>}
          /\ \E res \in {"ok", "upstreamError"} :
                Report(j, [j EXCEPT !.res = res, !.repo = origin[j.folder]])
       \/ /\ Report(j, [j EXCEPT !.res = "error"])
          /\ UNCHANGED pushed
    /\ UNCHANGED <<flowVars, netVars, origin, head, uiVars, localPathOf, started, userOps>>

Execute(j) ==
    ExecAddRemote(j) \/ ExecRemoveRemote(j) \/ ExecRefresh(j) \/ ExecPush(j)
-----------------------------------------------------------------------------
(***************************************************************************)
(* The GUI thread handles a result.  The controller was connected before   *)
(* MainWindow, so its slot runs first and MainWindow sees flow'.           *)
(***************************************************************************)
Ended   == isActive /\ flow'.path = NoFolder
Ignored == UNCHANGED flowVars

FlowRemoteOpAlwaysPushes(j) ==
    \/ /\ flow.step # "AddingRemote" \/ j.folder # flow.path
       /\ Ignored
    \/ /\ flow.step = "AddingRemote" /\ j.folder = flow.path
       /\ \/ j.res # "ok" /\ Finish("linkFailed", j.by # started)
          \/ j.res = "ok" /\ Advance("RefreshingState", flow.repo, j.by # started)

\* PublishController::onRemoteOpFinished, and the jobs it leads to.
FlowRemoteOp(j) ==
    \/ /\ flow.step # "AddingRemote" \/ j.folder # flow.path
       /\ Ignored
    \/ /\ flow.step = "AddingRemote" /\ j.folder = flow.path
       /\ \/ j.res # "ok" /\ Finish("linkFailed", j.by # started)
          \/ j.res = "ok" /\ ~flow.pushAfter /\ Finish("connected", j.by # started)
          \/ j.res = "ok" /\ flow.pushAfter
             /\ Advance("RefreshingState", flow.repo, j.by # started)

\* What MainWindow does when the running flow does not own the result.
WindowOwns(j) == ~(flow'.path # NoFolder /\ flow'.path = j.folder)
WindowJobs(j) == IF WindowOwns(j) /\ active = j.folder
                 THEN {Refresh(active, 0)} ELSE {}

DeliverRemoteOp(j) ==
    /\ j.op \in {"addRemote", "removeRemote"} /\ j.res # "queued"
    /\ FlowRemoteOp(j)
    /\ LET flowJobs == IF Ended THEN FinishJobs
                       ELSE IF flow'.step = "RefreshingState" /\ flow.step # flow'.step
                            THEN {Refresh(flow.path, started)} ELSE {}
       IN  pool' = Submit(Submit(Without(j), flowJobs), WindowJobs(j))
    /\ busy' = (busy /\ ~Ended /\ ~WindowOwns(j))
    /\ UNCHANGED <<netVars, gitVars, active, view, localPathOf, started, userOps>>

\* PublishController::onLocalStateReady: push, unless the branch has
\* no name (taken for "no commits yet").
FlowLocalState(j) ==
    \/ /\ flow.step # "RefreshingState" \/ j.folder # flow.path
       /\ Ignored
    \/ /\ flow.step = "RefreshingState" /\ j.folder = flow.path
       /\ \/ ~j.named /\ Finish("connected", j.by # started)
          \/ j.named /\ Advance("Pushing", flow.repo, j.by # started)

\* LocalWorkspaceController's slot comes first: it shows the state of the
\* active folder and ends the widget's busy state, whoever set it.
DeliverLocalState(j) ==
    /\ j.op = "refresh" /\ j.res # "queued"
    /\ view' = IF j.folder = active THEN [known |-> TRUE, named |-> j.named, origin |-> j.repo] ELSE view
    /\ FlowLocalState(j)
    /\ LET flowJobs == IF Ended THEN FinishJobs
                       ELSE IF flow'.step = "Pushing" /\ flow.step # flow'.step
                            THEN {NewJob("push", flow.path, NoRepo, started)} ELSE {}
       IN  pool' = Submit(Without(j), flowJobs)
    /\ busy' = (busy /\ ~Ended /\ j.folder # active)
    /\ UNCHANGED <<netVars, gitVars, active, localPathOf, started, userOps>>

\* Mutant of FlowPush: a failed push counts as pushed.
FlowPushIgnoresError(j) ==
    \/ /\ flow.step # "Pushing" \/ j.folder # flow.path
       /\ Ignored
    \/ /\ flow.step = "Pushing" /\ j.folder = flow.path
       /\ Finish("pushed", j.by # started)

\* PublishController::onPushFinished.
FlowPush(j) ==
    \/ /\ flow.step # "Pushing" \/ j.folder # flow.path
       /\ Ignored
    \/ /\ flow.step = "Pushing" /\ j.folder = flow.path
       /\ Finish(IF j.res = "ok" THEN "pushed" ELSE "pushFailed", j.by # started)

DeliverPush(j) ==
    /\ j.op = "push" /\ j.res # "queued"
    /\ FlowPush(j)
    /\ pool' = Submit(Submit(Without(j), IF Ended THEN FinishJobs ELSE {}),
                      WindowJobs(j))
    /\ busy' = (busy /\ ~Ended /\ ~WindowOwns(j))
    /\ UNCHANGED <<netVars, gitVars, active, view, localPathOf, started, userOps>>

Deliver(j) == DeliverRemoteOp(j) \/ DeliverLocalState(j) \/ DeliverPush(j)

\* The single-shot watchdog of the current step expires.
WatchdogTimeout ==
    /\ watchdog
    /\ Finish("timedOut", FALSE)
    /\ pool' = Submit(pool, FinishJobs)
    /\ busy' = FALSE
    /\ UNCHANGED <<netVars, gitVars, active, view, localPathOf, started,
                   userOps>>
-----------------------------------------------------------------------------
(***************************************************************************)
(* The user, besides publishing.  The buttons of the Remotes tab follow    *)
(* busy and view; the sidebar does not.                                    *)
(***************************************************************************)
UserOp ==
    /\ userOps < MaxUserOps /\ BagCardinality(pool) < MaxJobs
    /\ userOps' = userOps + 1

ActivateFolder(f) ==
    /\ UserOp
    /\ active' = f /\ view' = NoView
    /\ pool' = Submit(pool, {Refresh(f, 0)})
    /\ UNCHANGED <<flowVars, netVars, gitVars, busy, localPathOf, started>>

ManualRemoteOp(op, r) ==
    /\ UserOp
    /\ view.known /\ ~busy
    /\ op = "removeRemote" => view.origin # NoRepo
    /\ pool' = Submit(pool, {NewJob(op, active, r, 0)})
    /\ busy' = TRUE
    /\ UNCHANGED <<flowVars, netVars, gitVars, active, view, localPathOf, started>>

ManualPush ==
    /\ UserOp
    /\ view.known /\ ~busy
    /\ view.named /\ view.origin # NoRepo
    /\ pool' = Submit(pool, {NewJob("push", active, NoRepo, 0)})
    /\ busy' = TRUE
    /\ UNCHANGED <<flowVars, netVars, gitVars, active, view, localPathOf, started>>

\* Refresh button and file watcher.
ManualRefresh ==
    /\ UserOp
    /\ active # NoFolder
    /\ pool' = Submit(pool, {Refresh(active, 0)})
    /\ UNCHANGED <<flowVars, netVars, gitVars, uiVars, localPathOf, started>>

\* The first commit, in the application or in a terminal.
FirstCommit(f) ==
    /\ UserOp
    /\ head[f] = "unborn" /\ head' = [head EXCEPT ![f] = "branch"]
    /\ UNCHANGED <<flowVars, netVars, pool, origin, pushed, uiVars, localPathOf,
                   started>>

\* Selecting a repository, refreshing the list...: a request of the same client.
OtherRequest ==
    /\ UserOp
    /\ ~query /\ query' = TRUE
    /\ UNCHANGED <<flowVars, requests, github, pool, gitVars, uiVars, localPathOf,
                   started>>
-----------------------------------------------------------------------------
Start ==
    \/ \E r \in Repos, p \in BOOLEAN : StartCreate(r, p) \/ StartExisting(r, p)
    \/ StartRejected

GitHub  == \E q \in requests : GitHubCreates(q) \/ GitHubRefuses(q)
Reply   == \/ \E q \in requests : RepositoryCreated(q) \/ CreateFails(q)
           \/ QueryFails \/ QuerySucceeds
Worker  == \E j \in Jobs : Execute(j)
Results == \E j \in Jobs : Deliver(j)
User    == \/ \E f \in Folders : ActivateFolder(f) \/ FirstCommit(f)
           \/ \E r \in Repos : ManualRemoteOp("addRemote", r)
           \/ ManualRemoteOp("removeRemote", NoRepo)
           \/ ManualPush \/ ManualRefresh \/ OtherRequest

Next == Start \/ GitHub \/ Reply \/ Worker \/ Results \/ WatchdogTimeout \/ User

Spec == Init /\ [][Next]_vars

\* Only the timer is sure to act: the network may hang, a job may never end.
Fairness == WF_vars(WatchdogTimeout)
-----------------------------------------------------------------------------
(***************************************************************************)
(* Properties.                                                             *)
(***************************************************************************)

\* Every variable stays in its range.
TypeOK ==
    /\ flow \in Flow /\ watchdog \in BOOLEAN
    /\ requests \subseteq Request /\ query \in BOOLEAN /\ github \subseteq Repos
    /\ Jobs \subseteq Job
    /\ origin \in [Folders -> Repos \cup {NoRepo}]
    /\ head \in [Folders -> Heads] /\ pushed \subseteq Folders \X Repos
    /\ active \in Folders \cup {NoFolder} /\ busy \in BOOLEAN /\ view \in View
    /\ localPathOf \in [Repos -> Folders \cup {NoFolder}]
    /\ started \in 0..MaxStarts /\ attempts \in [1..MaxStarts -> Attempt]
    /\ userOps \in 0..MaxUserOps

\* The controller's fields, its timer and the call of start() it works for
\* agree at every moment: the timer runs exactly while a flow does, the newest
\* start is undecided exactly while a flow runs, every older one is decided,
\* and past the create step the folder is mapped to the repository it links.
FlowConsistent ==
    /\ flow.step = "Idle" <=> ~isActive
    /\ watchdog <=> isActive
    /\ isActive => /\ started > 0
                   /\ attempts[started].folder = flow.path
                   /\ attempts[started].pushAfter = flow.pushAfter
    /\ \A n \in 1..MaxStarts :
          attempts[n].outcome = "pending" <=> n > started \/ (isActive /\ n = started)
    /\ flow.step \in {"AddingRemote", "RefreshingState", "Pushing"}
           => flow.repo # NoRepo /\ localPathOf[flow.repo] = flow.path
    /\ flow.step \in {"RefreshingState", "Pushing"} => flow.pushAfter

\* A flow started without "push after publishing" never uploads a commit,
\* whatever results of other operations it mistakes for its own.
NoPushWithoutConsent ==
    \A j \in Jobs : j.op = "push" /\ j.by > 0 => attempts[j.by].pushAfter

\* A flow that moved on its own results, in a folder whose remotes nobody else
\* touched meanwhile, tells the truth when it reports that it has pushed: the
\* commits are in the repository it was started for, and in no other's place.
CleanSuccessIsTrue ==
    \A n \in 1..started :
        attempts[n].outcome = "pushed" /\ ~attempts[n].stray /\ ~attempts[n].meddled
            => <<attempts[n].folder, attempts[n].repo>> \in pushed

\* Once a flow has ended nothing is submitted in its name: late signals of a
\* timed-out flow start no further operation.
DeadFlowsSubmitNothing ==
    [][/\ \A j \in BagToSet(pool') \ Jobs :
             j.by > 0 /\ j.res = "queued" => flow'.path # NoFolder /\ j.by = started'
       /\ \A q \in requests' \ requests : q.res = "sent" => q.by = started']_vars

\* The watchdog alone guarantees that every flow ends, even when GitHub and
\* the worker never answer.
EveryFlowEnds == isActive ~> ~isActive

Promise == INSTANCE PublishPromise WITH
    Terminal <- Outcomes \ {"pending"},
    running  <- isActive,
    result   <- [n \in 1..MaxStarts |-> attempts[n].outcome]

\* PublishController.h: a start that is accepted gets exactly one terminal
\* signal, and no second flow begins before it.  (That the signal comes is
\* EveryFlowEnds.)
KeepsPromise == Promise!Safety
=============================================================================
