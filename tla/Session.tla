------------------------------ MODULE Session ------------------------------
(***************************************************************************)
(* Who is signed in: SessionController, the keyring and settings it keeps  *)
(* across restarts, and the slots of MainWindow that show the session.     *)
(*                                                                         *)
(* A token is named by the account it authenticates.  Validation and the   *)
(* repository list are REST requests, answered at any time or never; the   *)
(* list comes in pages and each page is requested with the token the       *)
(* client holds at that moment.  Two more requests end in the sidebar: a   *)
(* change of visibility and the creation of a repository that is           *)
(* published.  Dialogs run nested event loops, so replies are handled      *)
(* while one is open.  The process may stop between any two handlers.      *)
(***************************************************************************)
EXTENDS Integers, FiniteSets

CONSTANTS
    Users,       \* GitHub accounts
    NoUser,      \* the empty username, the empty token
    MaxPages,    \* pages of a repository list
    MaxRequests, \* bound on lists, changes and creations requested
    MaxLaunches  \* bound on starts of the process

ASSUME NoUserAssumption  == NoUser \notin Users
ASSUME SessionAssumption == /\ MaxPages \in Nat \ {0}
                            /\ MaxRequests \in Nat /\ MaxLaunches \in Nat

VARIABLES
    running,     \* the process is alive
    token,       \* SessionController::token_
    username,    \* SessionController::username_
    tokenType,   \* SessionController::tokenType_
    restoring,   \* SessionController::restoring_
    clientToken, \* GitHubClient::token_ of the session's client
    dialog,      \* LoginDialog is open
    menu,        \* the Refresh and Sign out actions are enabled
    shown,       \* accounts whose repositories the sidebar lists
    cache,       \* accounts whose repositories reposCache_ holds
    asking,      \* the question on screen before a request that ends in the sidebar
    validating,  \* token being validated against /user
    lists,       \* requests of list pages in flight
    changes,     \* accounts with a change of visibility in flight, one for each
    creations,   \* repositories being created on GitHub, by account
    creating,    \* PublishController is in its step CreatingRepo
    keyring,     \* account -> type of the token stored for it
    lastUser,    \* Settings::lastUsername
    revoked,     \* tokens GitHub no longer accepts
    requested, launches, \* bounds: such requests and starts so far
    faulted,     \* history: a keyring operation has failed
    stale,       \* history: the cache holds what a former session asked for
    foreign      \* history: the sidebar was filled from such a cache

memory  == <<running, token, username, tokenType, restoring, clientToken>>
ui      == <<dialog, menu, asking>>
sidebar == <<shown, cache, stale, foreign>>
paging  == <<lists, requested>>
others  == <<changes, creations, creating>>
disk    == <<keyring, lastUser>>
vars    == <<memory, ui, sidebar, validating, paging, others, disk, revoked, launches,
             faulted>>

Types    == {"Pat", "Oauth"}
AnyType  == Types \cup {"Unknown"}
Stored   == AnyType \cup {"none"}
NoToken  == {NoUser}

\* One page of a list: which refresh, which page, the token it was asked with,
\* the accounts whose repositories the earlier pages held, and whether the
\* session that asked for the list has ended since.
Page == [id : 1..MaxRequests, page : 1..MaxPages, as : Users, seen : SUBSET Users,
         late : BOOLEAN]

Creation == [as : Users, late : BOOLEAN]

\* A change of visibility to confirm, or the publish dialog with the accounts of
\* the repositories it offers; late as for a page.
Question == [about : {"visibility", "publish"}, known : SUBSET Users, late : BOOLEAN]
NoQuestion == [about |-> "nothing"]

isSignedIn == token # NoUser

Init ==
    /\ running = FALSE
    /\ token = NoUser /\ username = NoUser /\ tokenType = "Unknown"
    /\ restoring = FALSE /\ clientToken = NoUser
    /\ dialog = FALSE /\ menu = FALSE /\ asking = NoQuestion
    /\ shown = {} /\ cache = {} /\ stale = FALSE /\ foreign = FALSE
    /\ validating = NoUser /\ lists = {} /\ requested = 0
    /\ changes = {} /\ creations = {} /\ creating = FALSE
    /\ \/ lastUser = NoUser /\ keyring = [u \in Users |-> "none"]
       \/ /\ lastUser \in Users
          /\ \E s \in Stored :
                keyring = [u \in Users |-> IF u = lastUser THEN s ELSE "none"]
    /\ revoked \in SUBSET Users
    /\ launches = 0 /\ faulted = FALSE
-----------------------------------------------------------------------------
(***************************************************************************)
(* Pieces of the handlers.                                                 *)
(***************************************************************************)

\* SecureStorage::clearToken; the callers ignore its result.
ClearToken(u) ==
    \/ keyring' = [keyring EXCEPT ![u] = "none"] /\ UNCHANGED faulted
    \/ faulted' = TRUE /\ UNCHANGED keyring

\* SecureStorage::saveToken clears the old item, then stores the new one.
SaveToken(u, type) ==
    \/ keyring' = [keyring EXCEPT ![u] = type] /\ UNCHANGED faulted
    \/ faulted' = TRUE /\ keyring' \in {keyring, [keyring EXCEPT ![u] = "none"]}

\* Nobody cancels the requests of a session that ends, or closes its question.
OutliveSession ==
    /\ lists' = {[p EXCEPT !.late = TRUE] : p \in lists}
    /\ creations' = {[c EXCEPT !.late = TRUE] : c \in creations}
    /\ asking' = IF asking = NoQuestion THEN asking ELSE [asking EXCEPT !.late = TRUE]
    /\ stale' = (cache # {})
    /\ UNCHANGED <<requested, changes, creating>>

\* Mutant of ShowSignedOut: the list is left.
ShowSignedOutListed ==
    /\ menu' = FALSE /\ dialog' = TRUE
    /\ UNCHANGED <<shown, cache>> /\ foreign' = FALSE
    /\ OutliveSession

\* onSessionSignedOut: empty the list, but not the cache, and ask for a sign-in.
ShowSignedOut ==
    /\ menu' = FALSE /\ dialog' = TRUE
    /\ shown' = {} /\ UNCHANGED cache /\ foreign' = FALSE
    /\ OutliveSession

\* refreshRepositories with client token t.
RequestList(t) ==
    \/ /\ requested < MaxRequests
       /\ requested' = requested + 1
       /\ lists' = lists \cup {[id |-> requested + 1, page |-> 1, as |-> t, seen |-> {},
                                 late |-> FALSE]}
    \/ requested = MaxRequests /\ UNCHANGED <<requested, lists>>
-----------------------------------------------------------------------------
(***************************************************************************)
(* tryRestoreSession, when the main window first appears.                  *)
(***************************************************************************)
Starting ==
    /\ ~running /\ launches < MaxLaunches
    /\ running' = TRUE /\ launches' = launches + 1

LaunchWithoutToken ==
    /\ Starting
    /\ \/ (lastUser # NoUser => keyring[lastUser] = "none") /\ UNCHANGED faulted
       \/ lastUser # NoUser /\ faulted' = TRUE
    /\ ShowSignedOut
    /\ UNCHANGED <<token, username, tokenType, restoring, clientToken, validating,
                   disk, revoked>>

LaunchWithToken ==
    /\ Starting
    /\ lastUser # NoUser /\ keyring[lastUser] # "none"
    /\ token' = lastUser /\ username' = lastUser /\ clientToken' = lastUser
    /\ tokenType' = keyring[lastUser]
    /\ restoring' = TRUE /\ validating' = lastUser
    /\ UNCHANGED <<ui, sidebar, paging, others, disk, revoked, faulted>>

Validated ==
    /\ running /\ validating # NoUser /\ validating \notin revoked
    /\ validating' = NoUser /\ restoring' = FALSE
    /\ username' = validating /\ lastUser' = validating
    /\ menu' = TRUE
    /\ RequestList(clientToken)
    /\ UNCHANGED <<running, token, tokenType, clientToken, dialog, asking, sidebar,
                   others, keyring, revoked, launches, faulted>>

\* Mutant of ValidationFailed: the token survives.
ValidationFailedKeepsToken ==
    /\ running /\ validating # NoUser
    /\ validating' = NoUser /\ restoring' = FALSE
    /\ ClearToken(username)
    /\ username' = NoUser
    /\ ShowSignedOut
    /\ UNCHANGED <<running, token, tokenType, clientToken, lastUser, revoked,
                   launches>>

\* GitHub rejects the token, or the reply is any other error.
ValidationFailed ==
    /\ running /\ validating # NoUser
    /\ validating' = NoUser /\ restoring' = FALSE
    /\ ClearToken(username)
    /\ token' = NoUser /\ username' = NoUser
    /\ ShowSignedOut
    /\ UNCHANGED <<running, tokenType, clientToken, lastUser, revoked, launches>>
-----------------------------------------------------------------------------
(***************************************************************************)
(* signIn: the login dialog returns, with a token it has just validated or *)
(* without one.                                                            *)
(***************************************************************************)
\* Mutant of SignIn: the settings keep the account of the session before.
SignInForgetsUser(u, type) ==
    /\ running /\ dialog /\ dialog' = FALSE
    /\ token' = u /\ username' = u /\ tokenType' = type /\ clientToken' = u
    /\ SaveToken(u, type)
    /\ menu' = TRUE
    /\ RequestList(u)
    /\ revoked' = revoked \ {u}
    /\ UNCHANGED <<running, restoring, asking, sidebar, validating, others, lastUser,
                   launches>>

SignIn(u, type) ==
    /\ running /\ dialog /\ dialog' = FALSE
    /\ token' = u /\ username' = u /\ tokenType' = type /\ clientToken' = u
    /\ lastUser' = u
    /\ SaveToken(u, type)
    /\ menu' = TRUE
    /\ RequestList(u)
    /\ revoked' = revoked \ {u}
    /\ UNCHANGED <<running, restoring, asking, sidebar, validating, others, launches>>

\* Mutant of SignOut: only the memory is cleared.
SignOutKeepsSaved ==
    /\ running /\ menu /\ ~dialog /\ asking = NoQuestion
    /\ token' = NoUser /\ username' = NoUser /\ tokenType' = "Unknown"
    /\ ShowSignedOut
    /\ UNCHANGED <<running, restoring, clientToken, validating, disk, revoked,
                   launches, faulted>>

\* signOut, after the user has confirmed.
SignOut ==
    /\ running /\ menu /\ ~dialog /\ asking = NoQuestion
    /\ ClearToken(username)
    /\ token' = NoUser /\ username' = NoUser /\ tokenType' = "Unknown"
    /\ ShowSignedOut
    /\ UNCHANGED <<running, restoring, clientToken, validating, lastUser, revoked,
                   launches>>

Refresh ==
    /\ running /\ menu /\ ~dialog /\ asking = NoQuestion
    /\ clientToken # NoUser /\ requested < MaxRequests
    /\ RequestList(clientToken)
    /\ UNCHANGED <<memory, ui, sidebar, validating, others, disk, revoked, launches,
                   faulted>>
-----------------------------------------------------------------------------
(***************************************************************************)
(* GitHubClient::fetchReposPage: a reply holds the repositories of the     *)
(* account it was asked for; the next page is asked for with the token of  *)
(* the moment.                                                             *)
(***************************************************************************)
Unsaid == <<memory, ui, validating, requested, disk, revoked, launches, faulted>>

NextPage(p) ==
    /\ running /\ p.as \notin revoked /\ p.page < MaxPages
    /\ lists' = (lists \ {p}) \cup
                {[p EXCEPT !.page = @ + 1, !.as = clientToken, !.seen = @ \cup {p.as}]}
    /\ UNCHANGED <<sidebar, others, Unsaid>>

\* Mutant of LastPage: the list is added to the cache.
LastPageAdded(p) ==
    /\ running /\ p.as \notin revoked
    /\ lists' = lists \ {p}
    /\ cache' = cache \cup p.seen \cup {p.as} /\ stale' = p.late
    /\ shown' = cache' /\ foreign' = stale'
    /\ UNCHANGED <<others, Unsaid>>

\* onSessionReposLoaded.
LastPage(p) ==
    /\ running /\ p.as \notin revoked
    /\ lists' = lists \ {p}
    /\ cache' = p.seen \cup {p.as} /\ stale' = p.late
    /\ shown' = cache' /\ foreign' = stale'
    /\ UNCHANGED <<others, Unsaid>>

\* A network error of any request fails the publish that creates a repository.
ListFails(p) ==
    /\ running
    /\ lists' = lists \ {p} /\ creating' = FALSE
    /\ UNCHANGED <<sidebar, changes, creations, Unsaid>>
-----------------------------------------------------------------------------
(***************************************************************************)
(* The two other requests that end in the sidebar, with the questions      *)
(* before them.  Both questions are modal; what is behind them may change. *)
(***************************************************************************)
Ask(q) ==
    /\ running /\ isSignedIn /\ ~dialog /\ asking = NoQuestion
    /\ asking' = q
    /\ UNCHANGED <<memory, dialog, menu, sidebar, validating, paging, others, disk,
                   revoked, launches, faulted>>

ChangeVisibilityRequested(u) ==
    u \in shown /\ Ask([about |-> "visibility", known |-> {u}, late |-> foreign])

\* The dialog is given reposCache_ as it is now.
PublishToGitHubRequested ==
    ~creating /\ Ask([about |-> "publish", known |-> cache, late |-> stale])

Answer(about) ==
    /\ running /\ ~dialog /\ asking # NoQuestion /\ asking.about = about
    /\ asking' = NoQuestion
    /\ UNCHANGED <<memory, dialog, menu, validating, lists, disk, revoked, launches,
                   faulted>>

Declined ==
    \E about \in {"visibility", "publish"} :
        Answer(about) /\ UNCHANGED <<sidebar, requested, others>>

\* Within the bound.
Requested == requested < MaxRequests /\ requested' = requested + 1

VisibilityConfirmed ==
    /\ Answer("visibility") /\ Requested /\ changes' = changes \cup asking.known
    /\ UNCHANGED <<sidebar, creations, creating>>

\* PublishController::start of a new repository.
PublishNew ==
    /\ Answer("publish") /\ Requested
    /\ creations' = creations \cup {[as |-> clientToken, late |-> FALSE]}
    /\ creating' = TRUE
    /\ UNCHANGED <<sidebar, changes>>

\* onPublishRepoCreated, of a repository of u that the cache does not hold: it
\* and all that the cache does hold are listed.
Splice(u, late) ==
    /\ cache' = cache \cup {u} /\ stale' = (stale \/ late)
    /\ shown' = cache' /\ foreign' = stale'

\* PublishController::start of one the dialog offered.
PublishExisting(u) ==
    /\ Answer("publish") /\ u \in asking.known
    /\ IF u \in cache THEN UNCHANGED sidebar ELSE Splice(u, asking.late)
    /\ UNCHANGED <<requested, others>>

Replied == <<memory, ui, validating, paging, disk, revoked, launches, faulted>>

\* A list loaded since may hold the new repository.  Without a publish that waits
\* for one the reply is ignored.
RepositoryCreated(c) ==
    /\ running /\ c.as \notin revoked
    /\ creations' = creations \ {c} /\ creating' = FALSE
    /\ \/ (creating => c.as \in cache) /\ UNCHANGED sidebar
       \/ creating /\ Splice(c.as, c.late)
    /\ UNCHANGED <<changes, Replied>>

CreationFails(c) ==
    /\ running /\ creations' = creations \ {c} /\ creating' = FALSE
    /\ UNCHANGED <<sidebar, changes, Replied>>

PublishTimesOut ==
    /\ running /\ creating /\ creating' = FALSE
    /\ UNCHANGED <<sidebar, changes, creations, Replied>>

\* The sidebar is given the cache, if the repository is in it still.
VisibilityChanged(u) ==
    /\ running /\ changes' = changes \ {u}
    /\ \/ UNCHANGED sidebar
       \/ /\ u \in cache /\ shown' = cache /\ foreign' = stale
          /\ UNCHANGED <<cache, stale>>
    /\ UNCHANGED <<creations, creating, Replied>>

VisibilityFails(u) ==
    /\ running /\ changes' = changes \ {u} /\ creating' = FALSE
    /\ UNCHANGED <<sidebar, creations, Replied>>
-----------------------------------------------------------------------------
Ends ==
    /\ running /\ running' = FALSE
    /\ token' = NoUser /\ username' = NoUser /\ tokenType' = "Unknown"
    /\ restoring' = FALSE /\ clientToken' = NoUser
    /\ dialog' = FALSE /\ menu' = FALSE /\ asking' = NoQuestion
    /\ shown' = {} /\ cache' = {} /\ stale' = FALSE /\ foreign' = FALSE
    /\ validating' = NoUser /\ lists' = {}
    /\ changes' = {} /\ creations' = {} /\ creating' = FALSE
    /\ UNCHANGED <<requested, launches, faulted>>

\* The process ends: the window is closed, the login dialog is dismissed (then
\* onSessionSignedOut closes the window), or a crash.
Stop == Ends /\ UNCHANGED <<disk, revoked>>

\* A crash in signIn, when the settings name the account and the keyring does not
\* have its token yet.
CrashInSignIn(u) ==
    /\ Ends /\ dialog
    /\ lastUser' = u /\ keyring' \in {keyring, [keyring EXCEPT ![u] = "none"]}
    /\ revoked' = revoked \ {u}

\* On github.com the user revokes a token, or it expires.
Revoke(u) ==
    /\ u \notin revoked /\ revoked' = revoked \cup {u}
    /\ UNCHANGED <<sidebar, lists, others, memory, ui, validating, requested, disk,
                   launches, faulted>>

Next ==
    \/ LaunchWithoutToken \/ LaunchWithToken
    \/ Validated \/ ValidationFailed
    \/ \E u \in Users : CrashInSignIn(u) \/ \E type \in Types : SignIn(u, type)
    \/ SignOut \/ Refresh \/ Stop
    \/ \E p \in lists : NextPage(p) \/ LastPage(p) \/ ListFails(p)
    \/ PublishToGitHubRequested \/ PublishNew \/ PublishTimesOut
    \/ VisibilityConfirmed \/ Declined
    \/ \E u \in Users : ChangeVisibilityRequested(u) \/ PublishExisting(u) \/ Revoke(u)
    \/ \E c \in creations : RepositoryCreated(c) \/ CreationFails(c)
    \/ \E u \in changes : VisibilityChanged(u) \/ VisibilityFails(u)

Spec == Init /\ [][Next]_vars
-----------------------------------------------------------------------------
(***************************************************************************)
(* Properties.                                                             *)
(***************************************************************************)

\* Every variable stays in its range.
TypeOK ==
    /\ {running, restoring, faulted, creating, stale, foreign} \subseteq BOOLEAN
    /\ {token, username, clientToken, validating, lastUser} \subseteq Users \cup NoToken
    /\ tokenType \in AnyType
    /\ dialog \in BOOLEAN /\ menu \in BOOLEAN
    /\ shown \subseteq Users /\ cache \subseteq Users
    /\ asking \in Question \cup {NoQuestion}
    /\ lists \subseteq Page /\ requested \in 0..MaxRequests
    /\ changes \subseteq Users /\ creations \subseteq Creation
    /\ keyring \in [Users -> Stored]
    /\ revoked \subseteq Users /\ launches \in 0..MaxLaunches

\* A running process is never stranded between two sessions: it has a token,
\* whose account it names and whose list its client can ask for, or it asks
\* for one; and it offers Sign out exactly when there is a validated session.
NeverStranded ==
    /\ running => (dialog <=> ~isSignedIn)
    /\ token = username
    /\ isSignedIn => clientToken = token
    /\ restoring <=> validating # NoUser
    /\ menu <=> isSignedIn /\ ~restoring

\* If the process stops now, the next start finds the session it had: the
\* settings name the account and the keyring holds its token with its type.
SessionSurvivesRestart ==
    isSignedIn /\ ~faulted => lastUser = username /\ keyring[username] = tokenType

\* Signing out, or failing to validate, leaves no token behind on disk; nor does
\* a sign-in or a crash in it leave one of an account the settings have forgotten,
\* which no later sign-out would remove.
NoTokenLeftBehind ==
    ~faulted => \A u \in Users : keyring[u] # "none" => u = lastUser /\ ~dialog

(***************************************************************************)
(* The sidebar lists no repository that is not of the account signed in,   *)
(* and none when nobody is, whatever the requests, questions and replies   *)
(* of this session and of former ones do.  Excluded, because it fails      *)
(* there: a sidebar last filled with what a former session asked for, be   *)
(* it the list or creation that arrives after its end, or reposCache_,     *)
(* which sign-out keeps until this session's own list replaces it          *)
(* (onSessionSignedOut, fetchReposPage, onVisibilityChanged,               *)
(* onPublishRepoCreated).  A list of this session's own ends the exception.*)
(***************************************************************************)
SidebarIsOfSession == shown \subseteq {username} \/ foreign
-----------------------------------------------------------------------------
(***************************************************************************)
(* What the comments of the code say, and the code does not do.            *)
(***************************************************************************)

\* authError "means the saved token was revoked, expired, or never valid".
AuthErrorMeansRejected ==
    [][ValidationFailed => validating \in revoked]_vars
=============================================================================
