# A TLA+ model of GitHub Manager

GitHub Manager (`src/`, C++20 and Qt 6) is a desktop client: a sidebar with the
account's GitHub repositories and the user's local folders, a detail view for
each, and git operations done with libgit2.  These modules model its concurrent
core, check it with TLC and prove theorems about it with TLAPS.

* [The system](#the-system)
* [Inventory](#inventory)
* [Modules](#modules)
* [Runs](#runs)
* [Bounds](#bounds)
* [Fairness](#fairness)
* [Proofs](#proofs)
* [Disagreements](#disagreements)
* [What is not modelled](#what-is-not-modelled)
* [Plan](#plan)

## The system

Two kinds of activity meet on the GUI thread's event loop.

* **The GUI thread** runs every controller, dialog and widget.  A handler runs
  to completion before the next, except where it opens a modal dialog, whose
  nested event loop handles other signals.
* **Workers.**  `GitWorker` wraps every git operation in `QtConcurrent::run` on
  the *global thread pool*: operations overlap, on one repository too, and their
  results are handled in any order.  No operation can be cancelled.
* **The network.**  `GitHubClient` sends REST requests.  It sets no timeout; a
  reply may take arbitrarily long.  `networkError` does not say which request
  failed.

Results are broadcast: each is a Qt signal that carries the folder it is about
(never the request it answers), and every interested controller filters it by
its own state.  Most of what can go wrong here follows from that: a result may be
late, of another folder, of another request about the same folder, overtaken by
a newer one, or handled by two slots in an order that matters.

## Inventory

| Component | State | Operations | Talks to | Hard behaviour | Correct when |
|---|---|---|---|---|---|
| `PublishController` | step, folder, repository, watchdog | `start`, four steps, watchdog, `reset` | GitHubClient, GitWorker, MainWindow (signals) | late and foreign results, timeouts | every accepted start ends in one outcome; nothing is pushed without consent; success is true |
| `SessionController`, `SecureStorage` | token, user, keyring, settings | restore, sign in, sign out, refresh | GitHubClient, LoginDialog | failing keyring, restart, replies behind the modal login | memory, settings and keyring agree; never without both session and login |
| `LoginDialog`, `OAuthFlowController`, `OAuthLoginDialog` | flow state, device code, timers, token | typed token, device flow, cancel | GitHubClient | unmarked late replies, lost replies, expiry | one sign-in at a time; the verified token is returned; waits end |
| `ConflictController`, `ConflictResolutionDialog` | active folder, entries, panes, busy | list, load sides, resolve, abort | GitWorker, MainWindow | overlapping lists and loads, a dialog that outlives its session | panes of the selected file; one operation; "all resolved" is true |
| `GitHubCloneController`, `RepositoryListWidget`, the path maps of `MainWindow` | clone in flight, remembered paths, rows, cache | clone, open, roll back, change visibility, reload | GitWorker, GitHubClient, Settings | four copies of a path, updated by different slots | a remembered path exists; the panel is of the row |
| `RepositoryDetailWidget` | repository shown, tabs, caches, branch box, status | select, request, pull, push, switch | MainWindow, GitWorker, GitHubClient | answers for a repository no longer shown | a panel at rest shows its own repository |
| `LocalWorkspaceController`, `LocalRepositoryWidget` | active folder, state shown, busy, branch menu, history rows | ten kinds of operation, refresh, pages | GitWorker, MainWindow | jobs overlap, one busy flag for all | what is shown is of the folder; changes are read back; pages join |
| the file watcher of `LocalRepositoryWidget` | watched paths, debounce timer | watch, hear, refresh | GitWorker, the kernel | git replaces the files watched, which ends their watching | what others do to a watched path is shown in the end |
| the signature badges, `SignatureVerifier`, `CommitSigner` | rows in view, verdicts kept, debounce timer | scroll, filter, page, verify, show | GitWorker, gpg, ssh-keygen | verdicts in any order, for rows that were replaced | a badge is its commit's own, true, and on its way while it is missing |
| branches, HEAD and index (`GitHandler`) | refs, HEAD, index, files | switch, create, rename, delete, stage, commit, pull | libgit2 | each is several calls, between which those of another come | no commit is lost; HEAD stands on a branch whose tree the index holds |
| `StashListDialog`, `ReflogDialog` and their slots | rows, selection, question | list, apply, pop, drop; undo, restore | GitWorker | positions go stale, lists replaced behind a question | only what was chosen goes or is restored |
| `TagsDialog` and its slots | names listed, row, typed name, busy | list, create, delete | GitWorker | the name is compared with a list read earlier; results behind the question | the list is that of the folder; busy while a change runs and no longer; no tag moves |
| the Submodules tab and its slots | rows; five places on disk | list, add, initialise, update, sync, remove | GitWorker | each operation is several calls, any of which may fail; no busy state | what reports success is whole; the rows are read again |
| the diff views of `LocalRepositoryWidget` | file or commits selected, request awaited, text shown | select, refresh, page | GitWorker | a result carries what it is about, not which request it answers | what is shown is of the selection; "Loading" is awaited |
| `HostKeyApprover`, `TlsCertApprover`, shutdown | dialogs, fingerprints, known_hosts | ask, accept, forget, close | pool threads (blocking), GitHubClient | a pool thread blocks on the GUI thread; nested dialogs; destruction order | nobody waits for ever; nothing proceeds unapproved |
| `GitWorker`, `GitHandler` | the repository on disk | all git operations | libgit2 | operations of one repository interleave | in the modules of the flows that use them |
| `GitHubClient` | token, network manager | REST requests, paging | api.github.com | replies unordered and unmarked | likewise |
| `PublishToGitHubDialog`, `RepoNameSuggester` | mode, name, templates, label, list, button | type, choose, search, accept | MainWindow | the button is decided about by some events only, and by what is visible | what is suggested, and what is returned, can be used |
| `Settings`, `Translator`, parsers, other input dialogs | see [What is not modelled](#what-is-not-modelled) | | | | |

## Modules

Variables and actions carry the names of the source where it has one; the comment
of each variable gives the field it stands for, and the `map` of `PROJECT.json` the
lines of each definition.  A handler is one action, with the job or request it
starts; the pool's work on a job and the handling of its result are two more, so
that other steps come between.

| Module | Models | Instance | Proofs |
|---|---|---|---|
| `Publish` | `PublishController`, with the slots of `MainWindow` and `LocalWorkspaceController` that handle the same signals, GitHub, and the git operations they use | `MCPublish`, `MCBackground` (as `Flows`) | `PublishProofs` |
| `PublishPromise` | abstract: an accepted start gets exactly one terminal signal, and no flow begins before it | `Publish!Promise` | `PublishProofs` |
| `PublishDialog` | the dialog a publish begins with, and the name it suggests | `MCPublish` (as `Inputs`) | `PublishProofs` |
| `Session` | `SessionController`, the keyring, settings, restarts | `MCSession` | `SessionProofs` |
| `SignIn` | the login dialog and the device flow | `MCBackground` | `BackgroundProofs` |
| `Conflict` | conflict resolution, dialog and index operations | `MCConflict` | `ConflictProofs` |
| `Clones` | the clone controller, the sidebar and the maps of paths | `MCPanels` | `PanelsProofs` |
| `CloneView` | branch box, status and controls of a clone in the detail panel | `MCPanels` (as `View`) | `PanelsProofs` |
| `Preview` | README, files and languages tabs and their caches | `MCPanels` (as `Tabs`) | `PanelsProofs` |
| `Workspace` | operations on a local folder, busy flag, progress bar, branch menu | `MCLocal` | `LocalProofs` |
| `History` | the pages of the history list | `MCLocal` (as `Pages`) | `LocalProofs` |
| `Badges` | the signature badges of the history list, and what gpg and ssh-keygen are taken to say | `MCLocal` (as `Signatures`) | `LocalProofs` |
| `Stash` | the stack of stashes and its dialog | `MCDialogs` | `DialogsProofs` |
| `Reflog` | undo, commit and the reflog dialog | `MCDialogs` (as `Moves`) | `DialogsProofs` |
| `Tags` | the tags of a folder and their dialog | `MCDialogs` (as `Labels`) | `DialogsProofs` |
| `Submodules` | the submodules of a folder, the calls that change them, their tab | `MCDialogs` (as `Nested`) | `DialogsProofs` |
| `Branches` | branches, HEAD and the index, and the calls that move them | `MCDialogs` (as `Refs`) | `DialogsProofs` |
| `Changes` | the list of changed files and the diff of the one selected | `MCPanels` (as `Diffs`) | `PanelsProofs` |
| `CommitDetails` | the files and diffs of the commits picked in the history | `MCPanels` (as `Details`) | `PanelsProofs` |
| `Approval` | host keys, certificates and closing the window | `MCBackground` (as `Servers`, through `ApprovalProofs`) | `ApprovalProofs`, `BackgroundProofs` |
| `Watch` | how changes made by others are noticed | `MCBackground` (as `Watcher`) | `BackgroundProofs` |

Some things are worth knowing before reading one.

* **History variables** record what the program does not know: which start a job
  was submitted by (`by` in `Publish`), whether a result moved a flow that had not
  asked for it (`stray`), whether a keyring call failed (`faulted`), which stashes
  the user chose (`chosen`).  No guard reads them; properties do.
* **Order of slots.**  Qt calls the slots of a signal in the order of connection.
  Where two slots handle one signal, one action does both in that order
  (`DeliverPush` in `Publish`: the controller's slot runs before MainWindow's,
  which therefore sees `flow'`).
* **Modal dialogs.**  A dialog that only asks, and whose answer does not depend on
  what happens behind it, is part of the action that opens it.  Where the answer
  may be stale when it comes (the drop of a stash, the restore of a reflog
  entry, a host key) asking and answering are two actions.
* **Modules beside each other.**  `MCPublish`, `MCBackground`, `MCPanels`, `MCLocal`
  and `MCDialogs` instantiate two to five components whose variables are disjoint.  A behaviour of the
  components together is a shuffle of one behaviour of each, and every property
  is about one component, so it holds of all shuffles if it holds when the others
  stand still.  `moving`, chosen initially, says which one moves; this checks
  each component completely at the sum, not the product, of their state counts.
  Constants two components of an instance share by name, though not by meaning, are
  told apart there (`Opened`, `MaxRequests`, `MaxLoads`); `here` and `there` are the
  folders of its small instances, `here` the one in which who stands still does so.
  Where several components promise the same kind of thing, the instance module
  states it once, as the conjunction of their own properties (`ListsAreRead` of
  `ListIsStack`, `Tags!ListIsRead`, `Tags!BusyIsRunning` and `Submodules!RowsAreRead`); a reader finds the
  parts, each with its own comment, in the component's module.
* **Where components meet.**  A component that others act on models those others as
  actions of its own: another request on the shared client and operations by hand
  in `Publish`, the local page in `CloneView` (`active`), commits in `Reflog`,
  folders opened and removed in `Workspace`, `History`, `Stash`, `Reflog` and
  `Conflict`, saves in `Stash`, commits in `Tags`, edits of the working tree in
  `Changes`, pages and refreshes of the list in `CommitDetails`.

What the modules say, one by one:

* **Publish.**  `flow` is `state_`; `watchdog` its timer.  `attempts[n]` is the
  history of the n-th accepted or rejected `start`.  `pool` is a bag of jobs with
  the result they will report.  Requests may be answered, lost, or answered after
  the flow that made them timed out.  The user may push, change remotes, refresh
  or open another folder at any time the buttons allow.  `FlowConsistent` ties the
  step, the timer, the attempts and the local path map together;
  `NoPushWithoutConsent` says that no confusion of results makes a flow push that
  was started without; `CleanSuccessIsTrue` that a reported push is in the
  repository when no foreign result and no foreign change of the remotes was
  involved (without that condition it is false, see below); `DeadFlowsSubmitNothing`
  that late results start nothing.
* **Session.**  A token is named by the account it authenticates.  The process may
  stop between two handlers and start again with what keyring and settings hold.
  Pages of one list are requests of their own, each with the token of its moment;
  Two more requests fill the sidebar when they are answered: a change of visibility
  (`changes`) and the creation of a repository that is published (`creations`,
  `creating`), each after a modal question (`asking`); both show `reposCache_`
  (`cache`), which sign-out keeps although it empties the sidebar.  So a former
  account's repositories can be listed again, without a session too (see below).
  `late` marks a list, creation or question that outlived its session, `stale` a cache
  that holds what a former session asked for, and `foreign` a sidebar last filled with
  such things: these `SidebarIsOfSession` excludes, and nothing else.  The first list of
  the new session to be answered ends both.  `CrashInSignIn` stops the process between
  the two writes of `signIn`, to the settings and to the keyring.
* **PublishDialog.**  A text is a sequence of kinds of character.  The button is
  recomputed by the events the code recomputes it by, so it may be stale, and
  `AcceptedIsUsable` rests on what `onAccept` asks again.  The loop of
  `suggestRepoName` is the function `Scan`, one `Add` for each character.
  `SuggestionIsUsable` compares its result with a definition by positions: TLC over
  every folder name of up to four characters, the proof over names of any length.
* **SignIn.**  A device code is a number, the token granted for it has that number.
  GitHub's knowledge of each code is modelled (`github`), so polls of an old code,
  of a granted one and of an expired one have the answers the parser classifies.
* **Conflict.**  Files are numbers.  List, blob and index jobs run at different
  times from their delivery.  The dialog's fields survive the session.
* **Clones.**  The disk distinguishes absent, plain, partial (being cloned) and git
  folders.  The four places a path is recorded in are four variables.
* **CloneView.**  A job acts when it ends; `jobs` is the set of kinds and clones with
  jobs in flight, and how many of one kind there are is left open.  The row selected
  (`row`) and the repository shown (`repo`) are two variables, because the search box
  hides rows and the panel keeps its repository: `Rebuild` selects again what is
  selected, and nothing else, so that a clone that ends with its row hidden leaves the
  panel as it was.  `local`, what the panel knows of its clone, is therefore a variable
  too; `PanelIsOfRow` says when it is right, and `QuietPanelIsRight` what is shown
  accordingly.  `mixed` excuses the answers about another clone that were in flight
  when a repository was shown; these do spoil the panel (see below).
* **Preview.**  Content is named by the repository it is of.
* **Workspace.**  The content of a folder is a version number which every change
  increases.  Ten kinds of operation stand for all whose results are handled
  alike.  `seen`, `hidden` and `excused` are history.
* **History.**  Commits are numbers, greater is newer; `Walk` is the reachable commits
  in descending order; `Log` pages through it as `GitHandler::log` does.
* **Stash.**  A pop is two steps of a job (apply, drop).  A job names a position.
* **Badges.**  A list of at most three rows and a viewport of one or two.  The world (which
  commits are signed, how, and what keys there are) is chosen initially; `verifyGpg`
  and `verifySsh` are the order in which the code looks at what the tools report.  A
  verdict is kept by commit for ever (`cache`), and shown on the row that has the
  commit now.  `unsure` marks attempts that failed, `grown` a viewport that was
  enlarged, of which the code takes no notice.
* **Watch.**  The folder is a version number and three paths: the folder itself, `HEAD`
  and `index`.  Replacing a file takes it out of the watcher, an event is handed over
  later than the change, and watching anew loses what was queued.  `missed` excuses a
  change that nothing was listening for.
* **Reflog.**  A commit and an undo look at HEAD and then move it, in two steps, and
  any of them run side by side: the button that starts a commit is enabled by every
  refresh.  Each commit is signed or not; `CommitFollowsHead` speaks of those that are
  not, beside others that are (of signed ones it is false, see below).
  `Steps(i, op)` picks out the second: job `i` ends and the log has grown.
* **Tags.**  A tag is named to its job by name.  Creating looks the name up and then
  writes it, in two steps.  `lapsed` excuses a list whose last reading failed or was
  overtaken; `deserted` a dialog that stayed disabled because the result found
  another folder open (see below).
* **Submodules.**  A submodule is a subset of five places (`.gitmodules`,
  `.git/config`, the gitlink, `.git/modules`, the working tree).  A job is the
  sequence of calls it has still to make; a failed call ends an addition, an
  initialisation or an update, and is passed over by a removal.  `alone` tells the
  jobs during which nothing else changed the submodule, and which passed over no
  failure: only of these does `SuccessIsWhole` speak.  "Update all" submits a job for
  each row in one step, in any order of their threads.
* **Branches.**  A commit is the sequence of trees from the root to it, a tree the set of
  changes in it, so "is an ancestor" is "is a prefix".  Each job is the calls it has
  still to make: a switch checks the tree out and then sets HEAD, a commit reads the
  index, then the tip, then moves the branch, a pull fetches, analyses, moves the branch
  and checks it out.  `crossed` marks jobs one of which moved what another had looked
  up; `pulled` the changes that came with a pull, which the index lacks (see below).  A
  deletion checks that the branch has nothing HEAD lacks and then deletes it; where the
  branch HEAD was on is itself gone by then, the two deletions have each relied on the
  other's branch, and their commits may be lost: `crossed` marks this as well.
* **Changes.**  The working tree is an edition number.  A result carries its folder
  and file, so an older answer for the same file is taken for the newer one;
  `passed` marks these.
* **CommitDetails.**  Rows are numbers and the row that offers more is one of them,
  which the user can pick, also together with commits.
* **Approval.**  Dialogs nest, only the topmost is answered.  Closing destroys the
  worker, then the approvers, and last waits for the pool, in the order the
  destructors run.

## Runs

| Run | Specification | Checks | Shows |
|---|---|---|---|
| `publish` | `MCPublish`, safety | `FlowConsistent`, `NoPushWithoutConsent`, `CleanSuccessIsTrue`, `DeadFlowsSubmitNothing`, `KeepsPromise`, `InputsAreUsable` | late and foreign results never break the controller, and it implements `PublishPromise`; what its dialog returns can be used |
| `session` | `MCSession`, safety | `NeverStranded`, `SessionSurvivesRestart`, `NoTokenLeftBehind`, `SidebarIsOfSession` | across restarts, revocations and keyring failures |
| `background` | `MCBackground`, fair | `OneSignInAtATime`, `ReturnsVerifiedToken`, `WaitingEnds`; `BlockedIsHeard`, `ProceedsIfApproved`, `ClosingEnds`; `ChangesAreSeen`; `EveryFlowEnds`; `AllTypesOK` | sign-in with lost, late and reordered replies; approval by nested dialogs, and shutdown; the watcher beside somebody else's git; the watchdog, which alone ends every flow |
| `conflict` | `MCConflict`, safety | `OneOpAtATime`, `PanesMatchSelection`, `FirstUseIsClean`, `UndisturbedAllResolvedIsTrue` | over two folders and a dialog used twice |
| `panels` | `MCPanels`, safety | `ControllerOwnsClone`, `RememberedIsReal`, `ShownIsSelected`, `SwitchIsRead`, `LoadingIsAwaited`, `AllTypesOK` | the sidebar, and the panels that show answers to requests |
| `local` | `MCLocal`, safety | `ShownIsOfFolder`, `ChangesAreShown`, `QuietIsIdle`, `RowsAreAwaited`, `RowsAreTrue`, `AllTypesOK` | the operations on local folders, the pages of their history and its badges |
| `dialogs` | `MCDialogs`, safety | `ListsAreRead`, `SuccessIsWhole`, `NothingLostUnchosen`, `HeadStands`, `AllTypesOK` | what acts on a list read earlier: stashes, reflog, tags, submodules, branches |
| `session_auth` | `MCSession` | `AuthErrorMeansRejected` **violated** | a network failure at start-up destroys a valid token |
| `workspace_overtaken` | `MCLocal` | `ViewNeverGoesBack` **violated** | an older state is shown after a newer one |
| `publish_template` | `MCPublish` | `TemplateIsOffered` **violated** | choosing a licence or a .gitignore disables the button that would publish with it |
| `approval_joined` | `MCBackground` | `WorkerIsJoinedFirst` **violated** | operations run on after libgit2 and the approvers are gone |
| `pull_checkout` | `MCDialogs` | `PulledIsCheckedOut` **violated** | a pull leaves the files and the index as they were, and the next commit undoes it |

The last five check what a comment of the code or the README of the program says; TLC's trace shows how the code
departs from it, and `findings` in `PROJECT.json` quotes what is said.

Every property of a passing run has a mutant: an operator beside the one it
changes, commented "Mutant of ...", that is the code with a plausible bug (a guard
dropped, a field not reset, an error ignored, a filter by folder left out).  With
the mutant in its place TLC finds the property violated.

## Bounds

| Run | Bounds | Why they are enough |
|---|---|---|
| `publish` | 1 folder, 2 repositories, 2 starts, 2 user operations, 2 jobs | two starts let the first one's late results meet the second; two repositories let a flow be credited with the other's result; results are filtered by folder, so a second folder only removes interference. The dialog: folder names of up to 4 of 5 kinds of character, 2 repositories, 6 texts typed: a run of blanks beside a hyphen or a dot, at the ends and inside; a name taken, free, invalid and differing in case |
| `session` | 2 accounts, 2 starts, 2 pages, 3 requests (lists, changes of visibility, creations) | two accounts can be confused; a start after a crash or a failure; a list or creation of one session beside those of the next, and the list that puts an end to what they left |
| `background` | sign-in: 2 flows, 1 typed token, 4 requests | two flows let the first one's replies meet the second; four requests are a code and a poll of each, or overlapping polls of one |
| `conflict` | 2 folders, 2 files, 3 jobs, 2 loads of a file, 1 merge | a selection can move and return, a session can follow another, and two lists can cross an operation |
| `panels` | 2 repositories, 2 paths, 2 branches, 1 pull, push or switch of the panel in flight, beside any readings; 2 folders, 2 files, 1 edit, 2 requests; 2 commits and the row that offers more | one selected and one another; a switch and its readings in flight beside those of another clone; two requests for one file with an edit between them; three rows picked together |
| `local` | 2 folders, 2 changes of each, 3 jobs of which 2 may be operations; 4 commits and 1, pages of 2 | two operations overlap in one folder or in two, and one falls between two readings; pages that exactly exhaust a history, and a folder with less than a page. Badges: 3 commits in pages of 2, a viewport of 1 or 2 rows, 2 folders that share a commit, 2 verifications in flight, 5 worlds: a row leaves and enters the viewport by scrolling, filtering, paging and opening another folder while it is being verified |
| | approval: 2 operations, 1 request, 2 servers, 2 certificates | an SSH and a TLS operation beside a request to the same server: two dialogs about one certificate, and a server that changes its certificate |
| | watching: 3 changes by others, 2 readings in flight | a file is replaced, watched again and replaced again, with a reading on either side |
| | publishing: 1 repository, 2 starts, 1 user operation, 2 jobs | which repository a flow is about plays no part in its ending; a late result of the first flow and one foreign result can reach the second |
| `dialogs` | 2 stashes, 2 folders, 2 jobs; 3 commits, a reflog of 3, 2 entries listed; 2 folders, 1 tag, 2 commits; 1 folder or none open, 1 submodule | two positions can be exchanged by one operation between listing and use; a commit can be prepared while another is made or undone; a tag's name can be taken between listing and creation, for another commit; two operations on one submodule can cross, and operations on different submodules share nothing but the list. Branches: 2 names, a change of the user's and one of others, 2 jobs, lines of 2 commits: two branches can diverge, and each operation can fall between the calls of every other |

Symmetry is used for sets whose elements the model treats alike (repositories,
folders, stashes, accounts, commits other than the root), in safety runs only.
`CHECK_DEADLOCK FALSE` stands in the runs where a bound on requests, starts or jobs
can be used up, and in `background`, where the process ends and the login dialog
closes.

## Fairness

* **Publish** assumes only that the watchdog's timer fires.  The network may never
  answer and a job may never end: `PublishController` must not rely on them.
* **SignIn** assumes the tick timer and the passing of time; GitHub and the user may
  never answer.
* **Approval** assumes that the pool runs the jobs it was given, that the GUI thread
  handles its events and goes on closing, and that the user answers the dialog in
  front.  libgit2 calls are assumed to return; the code sets no timeout on them.

* **Watch** assumes that the event loop delivers what the watcher heard, that the timer
  fires, that the pool runs the readings and that their results are handled.  Whoever
  changes the folder may stop at any time.

No liveness is claimed of the other components: the code guarantees no answer there.

## Proofs

The theorems hold for every value of the constants that satisfies the assumptions
in the modules: any sets of folders, repositories, accounts, tokens, files and paths,
and any bounds.  Each theorem of the form `Spec => []P` follows from an inductive
invariant, by `Init => IInv`, `IInv /\ [Next]_vars => IInv'` (a lemma per group of
actions), and `IInv => P`; where a theorem needs more than `IInv` of its module, the
table names what is added.  TLC agreed with every `P` before it was proved.

| Module | Theorem | Property | What `IInv` adds, and why |
|---|---|---|---|
| `PublishProofs` | `FlowIsConsistent` | `FlowConsistent` | types, and that the view is of the folder shown: a push by hand reads the view |
| | `PublishImplementsPromise` | `KeepsPromise` | nothing more: every step of the flow is `Begin`, `End` or a stutter of `PublishPromise`, because a pending attempt is exactly an active flow |
| | `ConsentIsKept` | `NoPushWithoutConsent` | that no job is of a start to come (`JobsOfStarts`), and that what a step submits in a flow's name is of the flow running (`Lawful`) |
| | `EndedFlowsAreSilent` | `DeadFlowsSubmitNothing` | `Lawful` likewise |
| | `CleanReportsAreTrue` | `CleanSuccessIsTrue` | that while the flow is undisturbed the jobs submitted for it are what it asked for, a link they report is there, and past the link the origin is the flow's repository (`CleanFlow`) |
| | `DialogInputs` | `InputsAreUsable` | what the loop has read after each character (`Scanned`), so that what is suggested is known place by place; and `DialogInv`: the button of an untouched or unlabelled name, a label for every name that is taken, a row that is on the list |
| | `PublishSpecImplements` | `Spec` of `Publish` | nothing: a step of `MCPublish` is one of the flow or leaves it, so the theorems above are about the run too |
| `SessionProofs` | `SessionNeverStranded` | `NeverStranded` | that a validation is of the session's own token, that a stopped process is empty, and that a list request has a token |
| | `SessionIsDurable` | `SessionSurvivesRestart` | that the keyring holds a token for the last user only |
| | `SignOutIsFinal` | `NoTokenLeftBehind` | likewise: what sign-out clears is then all there is |
| | `SidebarMatchesSession` | `SidebarIsOfSession` | that what the sidebar is filled from (the cache, the pages and creations in flight, the question on screen) is of the account signed in, unless it is marked as a former session's (`Own`) |
| `BackgroundProofs` | `SignInsDoNotOverlap` | `OneSignInAtATime` | which of the flow, the validation and the dialogs is busy, and with what (`Safe`) |
| | `OnlyVerifiedTokens` | `ReturnsVerifiedToken` | that the validation in flight is of `token`, with its kind |
| | `PolledCodeIsShown` | `ShownCodeIsPolled` | nothing more |
| `ConflictProofs` | `OneOperation` | `OneOpAtATime` | types |
| | `PanesAreOfSelection` | `PanesMatchSelection` | types |
| | `FirstSessionIsClean` | `FirstUseIsClean` | that an operation under way is of the active folder (`FirstInv`): its result is not dropped and enables the buttons |
| | `EndOfSessionIsTrue` | `UndisturbedAllResolvedIsTrue` | that what is in conflict is in every list on its way (`ListsHold`): operations only resolve |
| `ApprovalProofs` | `WaitingIsHeard` | `BlockedIsHeard` | that the open dialogs are exactly of those that asked, each once (`DialogsAreAsked`) |
| | `OnlyApprovedProceed` | `ProceedsIfApproved` | likewise: an answer is of the dialog in front |
| | `TypesHold` | `TypeOK` | likewise |
| `BackgroundProofs` | `BackgroundTypes` | `AllTypesOK` | for `Watch`, that only paths that exist are watched or in a reading |
| | `BackgroundWaits`, `BackgroundProceeds` | `BlockedIsHeard`, `ProceedsIfApproved` | the theorems of `ApprovalProofs`, instantiated |
| `PanelsProofs` | `OneClone` | `ControllerOwnsClone` | that the stage of a clone agrees with what is on disk |
| | `RememberedPathsAreReal` | `RememberedIsReal` | likewise: a failed clone leaves nothing behind, a finished one a repository |
| | `PanelIsOfSelection` | `PanelShowsSelection` | types |
| | `PanelsClones` | `ControllerOwnsClone`, `RememberedIsReal` | the same, beside the other panels |
| | `PanelsTypes` | `AllTypesOK` | all of what follows |
| | `PanelsShown` | `ShownIsSelected` | for `CloneView`, that what the panel lacks of its clone is in flight, as long as no answer about another clone was due (`ViewComes`, `ViewNear`), and that the panel is of the row selected (`PanelIsOfRow`); for `Changes`, that the last diff asked for is no older than the list (`Fresh`); for `CommitDetails`, what was asked for from the rows picked (`Told`) |
| | `PanelsAwaited` | `LoadingIsAwaited` | for `Changes` and `CommitDetails`, that a job about what is selected is in flight while the view says "Loading" (`DiffComes`, `DetailComes`) |
| | `PanelsSwitch` | `SwitchIsRead` | that a job is about a clone there is (`ViewKnown`) |
| `LocalProofs` | `ControlsAreReleased` | `QuietIsIdle` | a promise kept while jobs are in flight: whatever is said to be running is released by the result of one of them (`ReleaseComes`) |
| | `EveryChangeIsReadBack` | `ChangesAreShown` | likewise: the newest state is shown, or is on its way, or will be asked for when a result arrives (`ReadingComes`), and nothing read is newer than the folder |
| | `LocalQuiet` | both | the same, beside history and badges |
| | `ViewIsOfShown` | `ViewOfShown` | types |
| | `LocalShown` | `ShownIsOfFolder` | for `History`, that every load in flight brings commits of the folder it names (`PageTrue`) |
| | `LocalAwaited` | `RowsAreAwaited` | for `History`, that the page asked for last is the only one on its way and follows the rows, unless a list was replaced meanwhile (`PageComes`); for `Badges`, that the rows are those of the log, each with what is kept of its commit (`RowsShow`) |
| | `LocalRows` | `RowsAreTrue` | for `History`, `PageComes` and what a walk leaves after one of its commits (`WalkRest`); for `Badges`, that what is kept or on its way is what the signature deserves, or not known yet (`VerdictsAreTrue`) |
| | `LocalTypes` | `AllTypesOK` | all of these |
| `DialogsProofs` | `DialogsTypes` | `AllTypesOK` | all of what follows |
| | `DialogsLists` | `ListsAreRead` | that while the list differs from the repository a reading of it is in flight, or the result of a change that asks for one is, or a warning is in the way of it (`StashListed`, `TagsListed`, `NestedListed`); for `Tags`, that at most one change runs and busy says so (`TagsAlone`) |
| | `DialogsWhole` | `SuccessIsWhole` | what a job that was alone has left in the five places after each of its calls (`NestedPool`) |
| | `DialogsHead` | `HeadStands` | as long as no jobs crossed: at most one switch is between its halves, what it checked out is what HEAD will stand on (`SwitchCarries`), the tree and parent a commit holds are the index and HEAD (`TreeCarries`, `ParentCarries`), a pull extends the branch (`PullExtends`), a branch found merged is on another one (`DeletedIsElsewhere`) |
| | `DialogsLoseNothing` | `NothingLostUnchosen` | the invariants of `Stash`, `Reflog`, `Tags` and `Branches`: in a stash dialog that is not crowded the question is about the row named, and a job's position is of a stash chosen (`StashAlone`); a reset goes to what was confirmed (`ReflogFits`); a commit needs none, because `git_commit_create` compares |

`PanelsProofs`, `LocalProofs` and `DialogsProofs` each prove one inductive invariant per component, and the
conjunction of them for the instance module, in which one component moves and the others
stand still (`PanelsMove`, `DialogsMove` and the like).

* **`PublishProofs`** speaks of the dialog's texts by counting the places that stay
  (`Count`): the k-th character read is what the k-th of them has become.  That the loop
  is a function at all, and what it has after n characters, is shown by the least n for
  which it would not be so (`UpTo`).
* **`LocalProofs`** treats the jobs in flight of `Workspace` and the loads of `History` as
  the bags they are, so that two equal jobs count as two; the lemmas about bags say what
  adding and taking one does to the set of jobs.  Every result but that of a reading has
  one form, stated once (`Settles`) and shown of each handler: it asks for a reading of
  its folder, or it is of another folder, or it has changed nothing and releases what is
  said to be running.  The history is any acyclic one; that pages join to its end is
  claimed of histories that are a line, as in the property, because with merges it is
  false (see below).  `Ancestors` is a function defined by itself; the proof gives the
  least set closed under parents as a solution of its equation, and then uses the
  equation.  `Walk` lists a set of numbers from the greatest down by rank, so that the
  walk from one of its commits is the rest of the walk (`FallingRest`).
* **`DialogsProofs`** proves of every job in a pool what its own kind promises, and that
  the steps of other jobs, of the user and of others leave it alone unless they mark
  what the property excludes (`crowded`, `lapsed`, `crossed`, `alone`).
  What `DialogsLoseNothing` says of commits it says of unsigned ones, whatever runs
  beside them: a signed commit is not made by `git_commit_create`, which compares the
  parent with HEAD, and loses what came between (see below).
* **`PanelsProofs`** keeps of `CloneView` that, unless an answer about something else was
  due when the repository was shown, all that is due is about its clone (`ViewNear`),
  and what the panel lacks is due (`ViewComes`).

The assumptions are those of the modules and nothing else: that the sets of commits
and of files are finite, that "none" is none of the folders, paths and so on, that
bounds are natural numbers, and what a history is (parents are older commits of the same
folder).

Only model-checked: `EveryFlowEnds`, `WaitingEnds`, `ClosingEnds` and `ChangesAreSeen`;
liveness is beyond the prover.  Every invariant and every action property of a passing
run is a theorem.

## Disagreements

While the modules were written from the code, these disagreements between it and what
its comments, documents or tests say came up.  The first five are kept as runs.  The
others of the first table were each confirmed by TLC as the violation of a property stating the quoted
sentence; the conditions that exclude them are what the properties above carry
(`stray`, `mixed`, `excused`, `crossed` and so on).

| Where | What the code does | What is said |
|---|---|---|
| `github/GitHubClient.cpp:180` | a network error during validation counts as a rejected token, which is then deleted | `SessionController.h:82` "the saved token was revoked, expired, or never valid" |
| `git/GitWorker.cpp:23` | jobs run several at once, so an older state can be shown after a newer one | `MainWindow.cpp:735` "the worker already runs tasks one at a time" |
| `git/GitWorker.cpp:63` | the destructor waits for nothing | `HostKeyApprover.h:64` "worker is joined first" |
| `git/GitHandler.cpp:472` | a pull sets the branch and then checks it out "safely", for which there is nothing left to do: files and index stay, and the next commit undoes what was pulled | `README.md:37` "fast-forward / rebase pulls" |
| `ui/PublishToGitHubDialog.cpp:437` | the hint that follows the choice of a licence or a .gitignore is shown in the label whose visibility disables the button: no template can be had | `README.md:50` "with optional LICENSE and .gitignore templates", and `:237` "Warn them" |
| `workspace/PublishController.cpp:230` | any push of the folder ends the push step | `:19-21` the filter keeps out "a manual push" |
| `workspace/PublishController.cpp:154` | any failed request ends the create step | `:152` "Only relevant if the network error interrupted the CreatingRepo step" |
| `ui/MainWindow.cpp:1370` | the result that ends a flow is reported a second time, the controller having reset itself first | `:1367` "we stay out of the way" |
| `git/GitHandler.cpp:3322` | an upload whose upstream could not be configured is a failed publish | `:3320` "don't make the whole operation look failed" |
| `workspace/PublishController.cpp:211` | a repository without commits goes on to push and fails: the name of its branch is not empty | `:207` "we wrap up as a non-failure" |
| `session/SessionController.cpp:102` | sign-out keeps the token in the client, and in the keyring if that fails | `SessionController.h:57` "Discards the in-memory + persisted token" |
| `ui/MainWindow.cpp:1113` | sign-out empties the sidebar but not `reposCache_`, which a late change of visibility (`:1571`) or creation (`:2465`) shows again: the repositories of the account that left, without a session or in the next one's | `MainWindow.h:333` "last-fetched GitHub repos" |
| `github/GitHubClient.cpp:236` | pages of one list are requested with the token of the moment, and a list asked for before a sign-out fills the sidebar after it | `GitHubClient.h:35` "the authenticated user's repos" |
| `ui/OAuthLoginDialog.cpp:81` | closing the window leaves the flow running behind a disabled login dialog | the same line, "Catch window-manager close as cancel too" |
| `session/OAuthFlowController.cpp:131` | replies of a cancelled flow move or end the next one | the same line, "not ours" |
| `git/GitWorker.cpp:473` | a list of conflicts that failed is an empty one: all resolved | `ConflictController.h:73` |
| `ui/ConflictResolutionDialog.cpp:164` | closing the dialog leaves the controller active | `ConflictController.h:45` "True while the dialog is open" |
| `workspace/ConflictController.cpp:40` | `reset` leaves the dialog busy, with list, selection and panes of the repository before | `ConflictController.h:55` "Drop state" |
| `ui/ConflictResolutionDialog.cpp:288` | going back to the file shown before leaves the panes at "Loading" | `:291` |
| `workspace/ConflictController.cpp:66` | a list read before a resolve can land after the list read behind it | `:121` "the dialog updates" |
| `ui/MainWindow.cpp:1292` | a clone that starts is remembered in the map only; no badge appears | `:1289` "appears immediately" |
| `ui/MainWindow.cpp:1309` | a clone that ends while the search box hides its row leaves the panel that shows it without branches, status and controls | `:1303` "If the user is currently looking at this repo's detail view, refresh it" |
| `ui/MainWindow.cpp:1335` | a list loaded during a clone keeps the path of a clone that failed | `GitHubCloneController.h:12` "roll back any optimistic UI changes" |
| `ui/MainWindow.cpp:1338` | a refused clone or open erases a path remembered before | `:1332` "this loop is a no-op" |
| `ui/MainWindow.cpp:1571` | a change of visibility takes away the badges of everything cloned since the last load | `:1561` "Preserve localPath" |
| `ui/RepositoryDetailWidget.cpp:343` | the languages bar of the repository shown before stays | `RepositoryDetailWidget.h:3` "the right-hand panel showing one repo" |
| `ui/RepositoryDetailWidget.cpp:394` | the absence of a README is cached as an empty README | `:393` "Cache the absence too" |
| `ui/MainWindow.cpp:1420` | status and branches of another clone are shown | `RepositoryDetailWidget.h:3` |
| `ui/MainWindow.cpp:1423` | after each listing the box shows the default branch, not the one checked out | `RepositoryDetailWidget.cpp:573` "Reflect current branch" |
| `ui/MainWindow.cpp:1358` | after a pull the hidden page is refreshed instead of the panel | `:1357` "Refresh whichever view is showing this path" |
| `workspace/LocalWorkspaceController.cpp:393` | an unmerged branch is never offered for forced deletion: the message it looks for is worded otherwise | `:390`, `tests/test_GitHandler.cpp:321` |
| `workspace/LocalWorkspaceController.cpp:290` | a stage that fails leaves all controls disabled | `LocalRepositoryWidget.h:116` "Disable destructive controls while an operation is in flight" |
| `workspace/LocalWorkspaceController.cpp:280` | a refresh enables the controls while a commit or push runs | likewise |
| `ui/MainWindow.cpp:2230` | a folder removed while an operation runs in it leaves the progress bar on | `:970` |
| `ui/LocalRepositoryWidget.cpp:748` | the branch menu of a folder offers the branches of the one before | `LocalRepositoryWidget.h:64` "clear stale state" |
| `git/GitHandler.cpp:2775` | with merges, later pages leave out commits of parallel lines | `CHANGELOG.md:2146` "the actual end of history" |
| `git/GitWorker.cpp:632` | a page that could not be read is the end of the history | `GitWorker.h:183` |
| `ui/LocalRepositoryWidget.cpp:958` | a refresh lets a page be asked for and appended twice | `GitHandler.h:720` |
| `ui/LocalRepositoryWidget.cpp:1302` | a folder opened with the History tab in front shows no history | `:1299` "Lazy-load on first activation" |
| `git/GitHandler.cpp:280` | an accepted host key is not written: `GIT_CERT_SSH_RAW` is an enumerator, not a macro | `HostKeyApprover.h:29` "we append a line to ~/.ssh/known_hosts" |
| `ui/TlsCertApprover.cpp:69` | a dialog stays open about a certificate approved meanwhile | `CHANGELOG.md:1184` |
| `ui/StashListDialog.cpp:118` | selecting a row enables the buttons during an operation | `StashListDialog.h:31` "disabled to prevent double-fire" |
| `ui/MainWindow.cpp:1955` | a stash is named by a position that may have moved: by a second pop, by a save, or while the list is read again behind the question | `StashListDialog.cpp:49` "Discard this stash" |
| `git/GitHandler.cpp:1341` | a save between the halves of a pop makes it drop a stash it did not apply | `StashListDialog.cpp:46` |
| `git/GitHandler.cpp:1088` | an undo beside a commit undoes two | `GitHandler.h:410` "Undo the last commit" |
| `git/GitHandler.cpp:2631` | a signed commit overwrites what HEAD was moved to during the signing | `GitHandler.h:675` |
| `git/GitHandler.cpp:1128` | the reflog is listed oldest first and cut off at the newest | `tests/test_GitHandler.cpp:637` "Newest first" |
| `ui/MainWindow.cpp:2333` | opening another folder during a restore leaves the dialog disabled | `ReflogDialog.h:42` |
| `ui/MainWindow.cpp:2327` | a commit listed for one folder is restored in another | `:2303` |
| `ui/LocalRepositoryWidget.cpp:1686` | an older diff of the same file replaces the newer one | `:1683` "Filter stale results" |
| `ui/LocalRepositoryWidget.cpp:1437` | of more than two rows with the focus on the one that offers more, nothing is asked for and the view says "Loading" for ever | `:1436` "Treat it as if" one commit were selected |
| `ui/LocalRepositoryWidget.cpp:1408` | with the row that offers more among two picked, the files of what was picked before stay | `:1414` "Files changed are listed on the right" |
| `ui/MainWindow.cpp:2057` | a tag whose result finds another folder open leaves the dialog disabled | as with the reflog above |
| `git/GitHandler.cpp:1970` | an addition that failed and is completed by Init & Update never has its gitlink staged | `:1967` "User can retry with Init & Update" |

These were met while reading, in the same files, and are not the subject of a run:

| Where | What the code does | What is said |
|---|---|---|
| `git/GitHandler.cpp:1465` | with SSH signing, a lightweight tag is refused | `ui/MainWindow.cpp:2027` lightweight tags "silently drop the signing config" |
| `ui/LocalRepositoryWidget.cpp:2283` | "Update all" starts every update at once, on as many threads as the pool has | the same line, "MainWindow serialises them on the worker" |
| `ui/TagsDialog.cpp:178` | a name is compared with the list when it is typed, not when the list is read again | the error shown says that the tag exists |
| `git/SignatureVerifier.cpp:100` | an expired signature that gpg reports as EXPSIG and VALIDSIG is Signed or Verified | the same line and `SignatureVerifier.h:38`: expired is Invalid |
| `ui/MainWindow.cpp:735` | several gpg processes run at once | the same line, "one at a time" |
| `ui/LocalRepositoryWidget.cpp:1084` | a verdict is kept as long as the window, although keys are imported, trusted and expire | |
| `ui/LocalRepositoryWidget.cpp:995` | a page appended below a filter is not filtered, and a list that is enlarged has no row verified until it is scrolled | |
| `ui/LocalRepositoryWidget.h:424` | edits in place, in subdirectories, of refs, and the first index are not noticed, and an event under way when the folder is read is dropped | the same lines, external edits are watched |
| `git/GitHandler.cpp:449` | a pull compares GitHub with the branch HEAD has after the fetch and moves the one it had before: a switch between lets it reset a branch that has diverged | `:454-456` "Cannot fast-forward: branches have diverged" |
| `git/GitHandler.cpp:774` | a switch that fails, or is crossed by a commit, after its checkout leaves the files of one branch on the other; a deletion or renaming of its target leaves HEAD without a branch | |
| `git/GitHandler.cpp:939` | a branch is deleted because HEAD has its commits; by then HEAD may have moved on, and the branch it was on may be deleted for the like reason | `:930` "ensure the branch is fully reachable from HEAD" |
| `git/GitHandler.cpp:2631` | a signed commit that a switch crosses is put on the other branch | |
| `tests/test_GitHandler.cpp:106` | a commit without staged changes is made | the test is called `commit_failsWithoutStagedChanges` |
| `ui/PublishToGitHubDialog.cpp:231` | the warning that a name is taken does not disable the button before the dialog is shown: an untouched suggestion can be accepted | the warning: "GitHub will reject this name" |
| `ui/PublishToGitHubDialog.cpp:377` | a search leaves the button enabled with no repository chosen; `onAccept` then does nothing | |
| `ui/RepoNameSuggester.h:28` | letters of any alphabet stay, and are then refused; a blank before a hyphen gives two | `:5` "only ASCII letters", `:6` "collapse runs of hyphens" |
| `ui/BranchNameValidator.h:45` | "a//b", "/a", "a.lock" and "a/.b" are accepted; a no-break space, which git takes, is not | `:5` "mirrors what `git check-ref-format` would reject" (a subset of it) |
| `git/GitWorker.cpp:667` | a verification that could not be attempted is remembered as an unsigned commit | `:664` "decide whether to show an error icon vs nothing" |

(Paths are below `src/src/`, but for `CHANGELOG.md` and `tests/`, which are below
`src/`.)

## What is not modelled

* **Details of what is modelled**: the key remembered for a submodule, the rows by which
  a file's diff is laid out, untracked files and edits that are not staged (in `Branches`),
  a detached HEAD (there), and keys that change while a badge is kept.
* **Parsers and validators** (`LinkHeaderParser.h`, `AddRemoteParser.h`,
  `BranchNameValidator.h`, `SshUrlConverter.h`, `SshKeyInfo.h`): functions of one text,
  character by character, without state, with unit tests under `tests/`.  A model
  would be a second copy of each.  `RepoNameSuggester.h` is modelled because the dialog
  acts on what it returns, `OAuthResponseParser.h` by its classification.
* **Settings** is a set of independent keys, each read and written whole; the ones
  other components depend on are variables of their modules.
* **Input dialogs**, but for the one of Publish, are choices of their inputs in the actions that open them.
* **Presentation** (translation, time formatting, rendering, searching, support and
  changelog dialogs) has no state another component reads; the files under
  `translations/` are tables of texts.
* **libgit2, Qt and GitHub** are modelled by how the code uses them.

## Plan

1. *(done)* `Publish` with `PublishPromise`; `Session`, `SignIn`; `Conflict`; `Clones`;
   their proofs.
2. *(done)* `CloneView`, `Preview`, `Workspace`, `History`, `Approval`, `Stash`, `Reflog`.
3. *(done)* Freshness of details and diffs: `Changes`, `CommitDetails`.
4. *(done)* `Tags`, `Submodules`.
5. *(done)* `Badges`, `Watch`, `Branches`, `PublishDialog`.
6. *(done)* Proofs of every invariant of the runs of `MCBackground`, `MCPanels`, `MCLocal`
   and `MCDialogs`, of their action properties, and of `InputsAreUsable`.
7. Keys remembered for submodules, in `Submodules`; edits that are not staged, in
   `Branches`; a detached HEAD, in `Branches` and `Reflog`.
