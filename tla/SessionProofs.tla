--------------------------- MODULE SessionProofs ---------------------------
(***************************************************************************)
(* Theorems about Session, for every set of accounts and every bound.  The *)
(* invariants of the runs are not inductive alone: that a validated        *)
(* account is the one signed in needs the reply to be about the current    *)
(* token, and that the sidebar lists that account needs to know whom every *)
(* request in flight, question on screen and cached row is of.             *)
(***************************************************************************)
EXTENDS Session, TLAPS

\* The validation in flight is of the session's own token.
ValidatesOwnToken == restoring => token = validating /\ lastUser = validating

\* A stopped process has no memory.
StoppedIsEmpty == ~running => ~dialog /\ ~menu /\ ~isSignedIn /\ ~restoring

\* A list is only ever requested with a token, which the client then keeps.
ListsHaveToken == lists # {} => clientToken # NoUser

IInv == /\ TypeOK /\ NeverStranded /\ SessionSurvivesRestart /\ NoTokenLeftBehind
        /\ ValidatesOwnToken /\ StoppedIsEmpty /\ ListsHaveToken

\* The part of IInv about one process, and the part about the disk.
MemoryInv == NeverStranded /\ ValidatesOwnToken /\ StoppedIsEmpty /\ ListsHaveToken
DiskInv   == SessionSurvivesRestart /\ NoTokenLeftBehind

USE NoUserAssumption, SessionAssumption

THEOREM InitInv == Init => IInv
  <1> SUFFICES ASSUME Init PROVE IInv
    OBVIOUS
  <1>1. TypeOK
    <2>1. keyring \in [Users -> Stored] /\ lastUser \in Users \cup NoToken
      BY DEF Init, Stored, AnyType, NoToken
    <2>2. {token, username, clientToken, validating} \subseteq Users \cup NoToken
      BY DEF Init, NoToken
    <2>3. tokenType \in AnyType
      BY DEF Init, AnyType
    <2>4. requested \in 0..MaxRequests /\ launches \in 0..MaxLaunches
      BY DEF Init
    <2> QED
      BY <2>1, <2>2, <2>3, <2>4 DEF Init, TypeOK
  <1>2. MemoryInv
    BY DEF Init, MemoryInv, NeverStranded, ValidatesOwnToken, StoppedIsEmpty,
           ListsHaveToken, isSignedIn
  <1>3. DiskInv
    BY DEF Init, DiskInv, SessionSurvivesRestart, NoTokenLeftBehind,
           isSignedIn
  <1> QED
    BY <1>1, <1>2, <1>3 DEF IInv, MemoryInv, DiskInv

LEMMA RequestListType ==
    ASSUME TypeOK, NEW t \in Users, RequestList(t)
    PROVE  lists' \subseteq Page /\ requested' \in 0..MaxRequests
  <1> DEFINE q == [id |-> requested + 1, page |-> 1, as |-> t, seen |-> {},
                   late |-> FALSE]
  <1>1. CASE requested = MaxRequests /\ UNCHANGED <<requested, lists>>
    BY <1>1 DEF TypeOK
  <1>2. CASE requested < MaxRequests /\ requested' = requested + 1
             /\ lists' = lists \cup {q}
    <2>1. requested + 1 \in 1..MaxRequests /\ 1 \in 1..MaxPages
      BY <1>2 DEF TypeOK
    <2>2. q \in Page
      BY <2>1 DEF Page
    <2>3. requested' \in 0..MaxRequests
      BY <1>2, <2>1
    <2> QED
      BY <1>2, <2>2, <2>3 DEF TypeOK
  <1> QED
    BY <1>1, <1>2 DEF RequestList

LEMMA NextPageType ==
    ASSUME TypeOK, NEW p \in lists, clientToken \in Users, NextPage(p)
    PROVE  lists' \subseteq Page
  <1>1. p \in Page /\ p.page + 1 \in 1..MaxPages
    BY DEF TypeOK, NextPage, Page
  <1>2. [p EXCEPT !.page = @ + 1, !.as = clientToken, !.seen = @ \cup {p.as}] \in Page
    BY <1>1 DEF Page
  <1> QED
    BY <1>2 DEF NextPage, TypeOK

\* What outlives a session keeps its type.
LEMMA OutliveType ==
    ASSUME TypeOK, ShowSignedOut
    PROVE  /\ lists' \subseteq Page /\ creations' \subseteq Creation
           /\ asking' \in Question \cup {NoQuestion} /\ stale' \in BOOLEAN
           /\ requested' \in 0..MaxRequests /\ changes' \subseteq Users
           /\ creating' \in BOOLEAN /\ foreign' \in BOOLEAN
           /\ shown' \subseteq Users /\ cache' \subseteq Users
           /\ dialog' = TRUE /\ menu' = FALSE
           /\ lists' # {} => lists # {}
  <1> USE DEF ShowSignedOut, OutliveSession
  <1>1. \A p \in Page : [p EXCEPT !.late = TRUE] \in Page
    BY DEF Page
  <1>2. \A c \in Creation : [c EXCEPT !.late = TRUE] \in Creation
    BY DEF Creation
  <1>3. \A q \in Question : [q EXCEPT !.late = TRUE] \in Question
    BY DEF Question
  <1>4. lists' \subseteq Page /\ creations' \subseteq Creation
    BY <1>1, <1>2 DEF TypeOK
  <1>5. asking' \in Question \cup {NoQuestion}
    BY <1>3 DEF TypeOK
  <1> QED
    BY <1>4, <1>5 DEF TypeOK

LEMMA KeyringType ==
    ASSUME TypeOK, NEW u \in Users
    PROVE  /\ ClearToken(u) => keyring' \in [Users -> Stored] /\ faulted' \in BOOLEAN
           /\ \A type \in Types :
                 SaveToken(u, type) => keyring' \in [Users -> Stored] /\ faulted' \in BOOLEAN
  BY DEF TypeOK, ClearToken, SaveToken, Stored, AnyType

\* An action that leaves the session alone needs only the types of what it changes.
LEMMA Untouched ==
    ASSUME IInv, UNCHANGED <<memory, dialog, menu, validating, disk, faulted>>, TypeOK',
           lists' # {} => clientToken # NoUser
    PROVE  IInv'
  BY DEF IInv, NeverStranded, SessionSurvivesRestart, NoTokenLeftBehind,
         ValidatesOwnToken, StoppedIsEmpty, ListsHaveToken, memory, disk, isSignedIn

LEMMA Combine ==
    ASSUME TypeOK', MemoryInv', DiskInv' PROVE IInv'
  BY DEF IInv, MemoryInv, DiskInv

LEMMA LaunchStep == ASSUME IInv, LaunchWithoutToken \/ LaunchWithToken PROVE IInv'
  <1> USE DEF IInv, Starting
  <1>0. launches' \in 0..MaxLaunches
    BY DEF LaunchWithoutToken, LaunchWithToken, TypeOK
  <1>1. ASSUME LaunchWithoutToken PROVE IInv'
    <2> USE <1>1 DEF LaunchWithoutToken
    <2>0. running' = TRUE /\ dialog' = TRUE /\ menu' = FALSE /\ (lists' # {} => lists # {})
      BY OutliveType
    <2>1. TypeOK'
      BY <1>0, OutliveType DEF TypeOK, disk
    <2>2. MemoryInv'
      BY <2>0 DEF MemoryInv, NeverStranded, ValidatesOwnToken, StoppedIsEmpty,
             ListsHaveToken, disk, isSignedIn
    <2>3. DiskInv'
      BY <2>0 DEF DiskInv, SessionSurvivesRestart, NoTokenLeftBehind,
             StoppedIsEmpty, disk, isSignedIn, TypeOK
    <2> QED
      BY <2>1, <2>2, <2>3, Combine
  <1>2. ASSUME LaunchWithToken PROVE IInv'
    <2> USE <1>2 DEF LaunchWithToken
    <2>1. lastUser \in Users /\ keyring[lastUser] \in AnyType
      BY DEF TypeOK, NoToken, Stored
    <2>2. TypeOK'
      BY <1>0, <2>1 DEF TypeOK, ui, sidebar, paging, others, disk
    <2>3. MemoryInv'
      BY <2>1 DEF MemoryInv, NeverStranded, ValidatesOwnToken, StoppedIsEmpty,
         ListsHaveToken, ui, paging, disk, isSignedIn
    <2>4. DiskInv'
      BY DEF DiskInv, SessionSurvivesRestart, NoTokenLeftBehind,
             ui, disk, isSignedIn
    <2> QED
      BY <2>2, <2>3, <2>4, Combine
  <1> QED
    BY <1>1, <1>2

LEMMA ValidationStep == ASSUME IInv, Validated \/ ValidationFailed PROVE IInv'
  <1> USE DEF IInv
  <1>0. restoring /\ validating \in Users /\ token = validating /\ username = validating
        /\ lastUser = validating /\ clientToken = validating
    BY DEF Validated, ValidationFailed, NeverStranded, ValidatesOwnToken, TypeOK,
           NoToken, isSignedIn
  <1>1. ASSUME Validated PROVE IInv'
    <2> USE <1>1 DEF Validated
    <2>1. lists' \subseteq Page /\ requested' \in 0..MaxRequests
      BY <1>0, RequestListType
    <2>2. TypeOK'
      BY <1>0, <2>1 DEF TypeOK, NoToken, sidebar, others
    <2>3. MemoryInv'
      BY <1>0 DEF MemoryInv, NeverStranded, ValidatesOwnToken, StoppedIsEmpty,
         ListsHaveToken, isSignedIn
    <2>4. DiskInv'
      BY <1>0 DEF DiskInv, SessionSurvivesRestart, NoTokenLeftBehind, isSignedIn
    <2> QED
      BY <2>2, <2>3, <2>4, Combine
  <1>2. ASSUME ValidationFailed PROVE IInv'
    <2> USE <1>2 DEF ValidationFailed
    <2>0. dialog' = TRUE /\ menu' = FALSE /\ (lists' # {} => lists # {})
      BY OutliveType
    <2>1. keyring' \in [Users -> Stored] /\ faulted' \in BOOLEAN
      BY <1>0, KeyringType
    <2>2. TypeOK'
      BY <2>1, OutliveType DEF TypeOK, NoToken
    <2>3. MemoryInv'
      BY <1>0, <2>0 DEF MemoryInv, NeverStranded, ValidatesOwnToken, StoppedIsEmpty,
         ListsHaveToken, isSignedIn
    <2>4. DiskInv'
      BY <1>0, <2>0 DEF DiskInv, SessionSurvivesRestart, NoTokenLeftBehind, isSignedIn,
         ClearToken, TypeOK
    <2> QED
      BY <2>2, <2>3, <2>4, Combine
  <1> QED
    BY <1>1, <1>2

LEMMA SignInStep ==
    ASSUME IInv, NEW u \in Users, NEW type \in Types, SignIn(u, type) PROVE IInv'
  <1> USE DEF IInv, SignIn
  <1>1. lists' \subseteq Page /\ requested' \in 0..MaxRequests
    BY RequestListType
  <1>2. keyring' \in [Users -> Stored] /\ faulted' \in BOOLEAN
    BY KeyringType
  <1>3. TypeOK'
    BY <1>1, <1>2 DEF TypeOK, AnyType, sidebar, others
  <1>4. ~restoring /\ ~isSignedIn
    BY DEF NeverStranded, ValidatesOwnToken, isSignedIn, TypeOK
  <1>5. MemoryInv'
    BY <1>4 DEF MemoryInv, NeverStranded, ValidatesOwnToken, StoppedIsEmpty,
       ListsHaveToken, isSignedIn
  <1>6. DiskInv'
    <2>1. ~faulted' => keyring' = [keyring EXCEPT ![u] = type] /\ ~faulted
      BY DEF SaveToken
    <2>2. ~faulted' => \A v \in Users : keyring'[v] = IF v = u THEN type ELSE "none"
      BY <2>1 DEF NoTokenLeftBehind, TypeOK
    <2> QED
      BY <2>2 DEF DiskInv, SessionSurvivesRestart, NoTokenLeftBehind, isSignedIn
  <1> QED
    BY <1>3, <1>5, <1>6, Combine

LEMMA SignOutStep == ASSUME IInv, SignOut PROVE IInv'
  <1> USE DEF IInv, SignOut
  <1>0. dialog' = TRUE /\ menu' = FALSE /\ (lists' # {} => lists # {})
    BY OutliveType
  <1>1. isSignedIn /\ ~restoring /\ username \in Users /\ validating = NoUser
    BY DEF NeverStranded, TypeOK, NoToken, isSignedIn
  <1>2. keyring' \in [Users -> Stored] /\ faulted' \in BOOLEAN
    BY <1>1, KeyringType
  <1>3. TypeOK'
    BY <1>2, OutliveType DEF TypeOK, NoToken, AnyType
  <1>4. MemoryInv'
    BY <1>0, <1>1 DEF MemoryInv, NeverStranded, ValidatesOwnToken, StoppedIsEmpty,
       ListsHaveToken, isSignedIn
  <1>5. DiskInv'
    BY <1>0, <1>1 DEF DiskInv, SessionSurvivesRestart, NoTokenLeftBehind,
       isSignedIn, ClearToken, TypeOK
  <1> QED
    BY <1>3, <1>4, <1>5, Combine

LEMMA ListStep ==
    ASSUME IInv,
           \/ Refresh
           \/ \E p \in lists : NextPage(p) \/ LastPage(p) \/ ListFails(p)
           \/ \E u \in Users : Revoke(u)
    PROVE  IInv'
  <1> USE DEF IInv
  <1>1. ASSUME Refresh PROVE IInv'
    <2>1. clientToken \in Users
      BY <1>1 DEF Refresh, TypeOK, NoToken
    <2>2. lists' \subseteq Page /\ requested' \in 0..MaxRequests
      BY <1>1, <2>1, RequestListType DEF Refresh
    <2>3. TypeOK'
      BY <1>1, <2>2 DEF Refresh, TypeOK, memory, ui, sidebar, others, disk
    <2> QED
      BY <1>1, <2>1, <2>3, Untouched DEF Refresh, ui, memory
  <1>2. ASSUME NEW p \in lists, NextPage(p) PROVE IInv'
    <2>1. clientToken \in Users
      BY DEF ListsHaveToken, TypeOK, NoToken
    <2>2. lists' \subseteq Page
      BY <1>2, <2>1, NextPageType
    <2>3. TypeOK'
      BY <1>2, <2>2 DEF NextPage, Unsaid, TypeOK, memory, ui, sidebar, others, disk
    <2> QED
      BY <1>2, <2>1, <2>3, Untouched DEF NextPage, Unsaid, ui
  <1>3. ASSUME NEW p \in lists, LastPage(p) \/ ListFails(p) PROVE IInv'
    <2>1. p.as \in Users /\ p.seen \subseteq Users /\ p.late \in BOOLEAN
          /\ clientToken # NoUser
      BY DEF ListsHaveToken, TypeOK, Page
    <2>2. TypeOK'
      BY <1>3, <2>1 DEF LastPage, ListFails, Unsaid, TypeOK, memory, ui, sidebar, others,
                        disk
    <2> QED
      BY <1>3, <2>1, <2>2, Untouched DEF LastPage, ListFails, Unsaid, ui
  <1>4. ASSUME NEW u \in Users, Revoke(u) PROVE IInv'
    <2>1. TypeOK'
      BY <1>4 DEF Revoke, TypeOK, memory, ui, sidebar, others, disk
    <2> QED
      BY <1>4, <2>1, Untouched DEF Revoke, ui, ListsHaveToken
  <1> QED
    BY <1>1, <1>2, <1>3, <1>4

\* The questions before the requests of a row or a folder, and their answers.
QuestionAction ==
    \/ PublishToGitHubRequested \/ PublishNew \/ VisibilityConfirmed \/ Declined
    \/ \E u \in Users : ChangeVisibilityRequested(u) \/ PublishExisting(u)

ReplyAction ==
    \/ PublishTimesOut
    \/ \E c \in creations : RepositoryCreated(c) \/ CreationFails(c)
    \/ \E u \in changes : VisibilityChanged(u) \/ VisibilityFails(u)

LEMMA AskStep ==
    ASSUME IInv, NEW q \in Question, Ask(q) PROVE IInv'
  <1>1. TypeOK'
    BY DEF Ask, IInv, TypeOK, memory, sidebar, paging, others, disk
  <1> QED
    BY <1>1, Untouched DEF Ask, paging, IInv, ListsHaveToken

LEMMA SpliceType ==
    ASSUME TypeOK, NEW u \in Users, NEW late \in BOOLEAN, Splice(u, late)
    PROVE  /\ cache' \subseteq Users /\ shown' \subseteq Users
           /\ stale' \in BOOLEAN /\ foreign' \in BOOLEAN
  BY DEF Splice, TypeOK

\* A question on screen is about accounts; a session is on when it is answered.
LEMMA AnswerType ==
    ASSUME IInv, NEW about \in {"visibility", "publish"}, Answer(about)
    PROVE  /\ asking \in Question /\ asking.known \subseteq Users /\ asking.late \in BOOLEAN
           /\ clientToken \in Users /\ clientToken = username
  <1>1. asking \in Question
    BY DEF Answer, IInv, TypeOK
  <1>2. asking.known \subseteq Users /\ asking.late \in BOOLEAN
    BY <1>1 DEF Question
  <1>3. isSignedIn /\ clientToken = token /\ token = username
    BY DEF Answer, IInv, NeverStranded
  <1> QED
    BY <1>1, <1>2, <1>3 DEF IInv, TypeOK, NoToken, isSignedIn

LEMMA QuestionStep == ASSUME IInv, QuestionAction PROVE IInv'
  <1>1. ASSUME NEW u \in Users, ChangeVisibilityRequested(u) PROVE IInv'
    <2>1. [about |-> "visibility", known |-> {u}, late |-> foreign] \in Question
      BY DEF IInv, TypeOK, Question
    <2> QED
      BY <1>1, <2>1, AskStep DEF ChangeVisibilityRequested
  <1>2. CASE PublishToGitHubRequested
    <2>1. [about |-> "publish", known |-> cache, late |-> stale] \in Question
      BY DEF IInv, TypeOK, Question
    <2> QED
      BY <1>2, <2>1, AskStep DEF PublishToGitHubRequested
  <1>3. ASSUME NEW about \in {"visibility", "publish"}, Answer(about), TypeOK' PROVE IInv'
    BY <1>3, Untouched DEF Answer, IInv, ListsHaveToken
  <1>4. CASE Declined
    <2>1. PICK about \in {"visibility", "publish"} :
              Answer(about) /\ UNCHANGED <<sidebar, requested, others>>
      BY <1>4 DEF Declined
    <2>2. TypeOK'
      BY <2>1 DEF Answer, IInv, TypeOK, memory, sidebar, others, disk
    <2> QED
      BY <1>3, <2>1, <2>2
  <1>5. CASE VisibilityConfirmed
    <2>1. asking.known \subseteq Users /\ requested' \in 0..MaxRequests
      BY <1>5, AnswerType DEF VisibilityConfirmed, Requested, IInv, TypeOK
    <2>2. TypeOK'
      BY <1>5, <2>1 DEF VisibilityConfirmed, Answer, IInv, TypeOK, memory, sidebar, disk
    <2> QED
      BY <1>3, <1>5, <2>2 DEF VisibilityConfirmed
  <1>6. CASE PublishNew
    <2>1. clientToken \in Users /\ requested' \in 0..MaxRequests
      BY <1>6, AnswerType DEF PublishNew, Requested, IInv, TypeOK
    <2>2. [as |-> clientToken, late |-> FALSE] \in Creation
      BY <2>1 DEF Creation
    <2>3. TypeOK'
      BY <1>6, <2>1, <2>2 DEF PublishNew, Answer, IInv, TypeOK, memory, sidebar, disk
    <2> QED
      BY <1>3, <1>6, <2>3 DEF PublishNew
  <1>7. ASSUME NEW u \in Users, PublishExisting(u) PROVE IInv'
    <2>1. asking.late \in BOOLEAN
      BY <1>7, AnswerType DEF PublishExisting
    <2>2. /\ cache' \subseteq Users /\ shown' \subseteq Users
          /\ stale' \in BOOLEAN /\ foreign' \in BOOLEAN
      BY <1>7, <2>1, SpliceType DEF PublishExisting, sidebar, IInv, TypeOK
    <2>3. TypeOK'
      BY <1>7, <2>2 DEF PublishExisting, Answer, IInv, TypeOK, memory, others, disk
    <2> QED
      BY <1>3, <1>7, <2>3 DEF PublishExisting
  <1> QED
    BY <1>1, <1>2, <1>4, <1>5, <1>6, <1>7 DEF QuestionAction

LEMMA ReplyStep == ASSUME IInv, ReplyAction PROVE IInv'
  <1>0. ASSUME UNCHANGED Replied,
               creations' \subseteq Creation, changes' \subseteq Users, creating' \in BOOLEAN,
               cache' \subseteq Users, shown' \subseteq Users,
               stale' \in BOOLEAN, foreign' \in BOOLEAN
        PROVE  IInv'
    <2>1. TypeOK'
      BY <1>0 DEF Replied, IInv, TypeOK, memory, ui, paging, disk
    <2> QED
      BY <1>0, <2>1, Untouched DEF Replied, ui, paging, IInv, ListsHaveToken
  <1> USE DEF IInv, TypeOK
  <1>1. CASE PublishTimesOut
    BY <1>0, <1>1 DEF PublishTimesOut, sidebar
  <1>2. ASSUME NEW c \in creations, RepositoryCreated(c) PROVE IInv'
    <2>1. c.as \in Users /\ c.late \in BOOLEAN
      BY DEF Creation
    <2>2. /\ cache' \subseteq Users /\ shown' \subseteq Users
          /\ stale' \in BOOLEAN /\ foreign' \in BOOLEAN
      BY <1>2, <2>1, SpliceType DEF RepositoryCreated, sidebar
    <2> QED
      BY <1>0, <1>2, <2>2 DEF RepositoryCreated
  <1>3. ASSUME NEW c \in creations, CreationFails(c) PROVE IInv'
    BY <1>0, <1>3 DEF CreationFails, sidebar
  <1>4. ASSUME NEW u \in changes, VisibilityChanged(u) PROVE IInv'
    BY <1>0, <1>4 DEF VisibilityChanged, sidebar
  <1>5. ASSUME NEW u \in changes, VisibilityFails(u) PROVE IInv'
    BY <1>0, <1>5 DEF VisibilityFails, sidebar
  <1> QED
    BY <1>1, <1>2, <1>3, <1>4, <1>5 DEF ReplyAction

LEMMA EndStep ==
    ASSUME IInv, Stop \/ \E u \in Users : CrashInSignIn(u) PROVE IInv'
  <1> USE DEF IInv
  <1>1. /\ keyring' \in [Users -> Stored] /\ lastUser' \in Users \cup NoToken
        /\ revoked' \subseteq Users
    BY KeyringType DEF Stop, CrashInSignIn, TypeOK, disk, Stored
  <1>2. Ends
    BY DEF Stop, CrashInSignIn
  <1>3. TypeOK'
    BY <1>1, <1>2 DEF Ends, TypeOK, NoToken, AnyType
  <1>4. MemoryInv'
    BY <1>2 DEF Ends, MemoryInv, NeverStranded, ValidatesOwnToken, StoppedIsEmpty,
       ListsHaveToken, isSignedIn
  <1>5. ~faulted' => \A u \in Users : keyring'[u] # "none" => u = lastUser'
    BY <1>2 DEF Ends, Stop, CrashInSignIn, NoTokenLeftBehind, disk, TypeOK
  <1>6. DiskInv'
    BY <1>2, <1>5 DEF Ends, DiskInv, SessionSurvivesRestart, NoTokenLeftBehind, isSignedIn
  <1> QED
    BY <1>3, <1>4, <1>6, Combine

LEMMA NextInv == ASSUME IInv, [Next]_vars PROVE IInv'
  <1>1. CASE UNCHANGED vars
    BY <1>1 DEF vars, memory, ui, sidebar, paging, others, disk, IInv, TypeOK,
       NeverStranded, SessionSurvivesRestart, NoTokenLeftBehind, ValidatesOwnToken,
       StoppedIsEmpty, ListsHaveToken, isSignedIn
  <1>2. CASE QuestionAction \/ ReplyAction
    BY <1>2, QuestionStep, ReplyStep
  <1> QED
    BY <1>1, <1>2, LaunchStep, ValidationStep, SignInStep, SignOutStep, ListStep, EndStep
       DEF Next, QuestionAction, ReplyAction

LEMMA InductiveInvariant == Spec => []IInv
  BY InitInv, NextInv, PTL DEF Spec

\* A running process always has a session or asks for one.
THEOREM SessionNeverStranded == Spec => []NeverStranded
  <1>1. IInv => NeverStranded
    BY DEF IInv
  <1> QED
    BY <1>1, InductiveInvariant, PTL

\* A stop at any moment loses no session, while the keyring works.
THEOREM SessionIsDurable == Spec => []SessionSurvivesRestart
  <1>1. IInv => SessionSurvivesRestart
    BY DEF IInv
  <1> QED
    BY <1>1, InductiveInvariant, PTL

\* A session that has ended leaves no token on disk, while the keyring works.
THEOREM SignOutIsFinal == Spec => []NoTokenLeftBehind
  <1>1. IInv => NoTokenLeftBehind
    BY DEF IInv
  <1> QED
    BY <1>1, InductiveInvariant, PTL
-----------------------------------------------------------------------------
(***************************************************************************)
(* The sidebar.  What it and the cache behind it hold is right because     *)
(* every request in flight, and the question on screen, is of the account  *)
(* signed in, but for what an earlier session left behind, which late,     *)
(* stale and foreign record.                                               *)
(***************************************************************************)
OwnRows ==
    /\ ~stale   => cache \subseteq {username}
    /\ ~foreign => shown \subseteq {username}

OwnRequests ==
    /\ \A p \in lists : ~p.late => p.as = username /\ p.seen \subseteq {username}
    /\ \A c \in creations : ~c.late => c.as = username
    /\ asking # NoQuestion /\ ~asking.late => asking.known \subseteq {username}

Own == OwnRows /\ OwnRequests

\* Without a session there is nothing of its own.
LEMMA NothingOwn ==
    ASSUME IInv, Own, username = NoUser, NEW u \in Users
    PROVE  /\ ~stale => cache \subseteq {u}
           /\ ~foreign => shown \subseteq {u}
           /\ \A p \in lists : ~p.late => p.as = u /\ p.seen \subseteq {u}
           /\ \A c \in creations : ~c.late => c.as = u
           /\ asking # NoQuestion /\ ~asking.late => asking.known \subseteq {u}
  <1>1. /\ \A p \in lists : p.as \in Users /\ p.seen \subseteq Users
        /\ \A c \in creations : c.as \in Users
    BY DEF IInv, TypeOK, Page, Creation
  <1>2. asking # NoQuestion => asking \in Question
    BY DEF IInv, TypeOK
  <1>3. asking # NoQuestion => asking.known \subseteq Users
    BY <1>2 DEF Question
  <1> QED
    BY <1>1, <1>3 DEF Own, OwnRows, OwnRequests, IInv, TypeOK

\* Whoever ends a session empties the sidebar; what is left is marked.
LEMMA SignedOutIsOwn ==
    ASSUME IInv, ShowSignedOut PROVE Own'
  <1> USE DEF ShowSignedOut, OutliveSession
  <1>1. \A p \in Page : [p EXCEPT !.late = TRUE].late = TRUE
    BY DEF Page
  <1>2. \A c \in Creation : [c EXCEPT !.late = TRUE].late = TRUE
    BY DEF Creation
  <1>3. \A q \in Question : [q EXCEPT !.late = TRUE].late = TRUE
    BY DEF Question
  <1>4. (\A p \in lists' : p.late) /\ (\A c \in creations' : c.late)
    BY <1>1, <1>2 DEF IInv, TypeOK
  <1>5. asking' # NoQuestion => asking'.late
    BY <1>3 DEF IInv, TypeOK
  <1>6. OwnRequests'
    BY <1>4, <1>5 DEF OwnRequests
  <1>7. OwnRows'
    BY DEF OwnRows, IInv, TypeOK
  <1> QED
    BY <1>6, <1>7 DEF Own

LEMMA RequestIsOwn ==
    ASSUME RequestList(username'),
           \A p \in lists : ~p.late => p.as = username' /\ p.seen \subseteq {username'}
    PROVE  \A p \in lists' : ~p.late => p.as = username' /\ p.seen \subseteq {username'}
  <1> DEFINE q == [id |-> requested + 1, page |-> 1, as |-> username', seen |-> {},
                   late |-> FALSE]
  <1>1. q.as = username' /\ q.seen = {}
    OBVIOUS
  <1>2. lists' = lists \/ lists' = lists \cup {q}
    BY DEF RequestList
  <1> HIDE DEF q
  <1> QED
    BY <1>1, <1>2

LEMMA NextPageIsOwn ==
    ASSUME IInv, Own, NEW p \in lists, NextPage(p)
    PROVE  Own'
  <1> DEFINE q == [p EXCEPT !.page = @ + 1, !.as = clientToken, !.seen = @ \cup {p.as}]
  <1>1. p \in Page
    BY DEF IInv, TypeOK
  <1>2. q.late = p.late /\ q.as = clientToken /\ q.seen = p.seen \cup {p.as}
    BY <1>1 DEF Page
  <1>3. ~p.late => p.as = username /\ p.seen \subseteq {username}
    BY DEF Own, OwnRequests
  <1>4. ~p.late => clientToken = username
    BY <1>1, <1>3 DEF Page, IInv, NeverStranded, TypeOK, isSignedIn
  <1>5. lists' = (lists \ {p}) \cup {q}
    BY DEF NextPage
  <1>6. UNCHANGED <<username, asking, creations, shown, cache, stale, foreign>>
    BY DEF NextPage, Unsaid, memory, ui, sidebar, others
  <1> HIDE DEF q
  <1> QED
    BY <1>2, <1>3, <1>4, <1>5, <1>6 DEF Own, OwnRows, OwnRequests

LEMMA ListReplyIsOwn ==
    ASSUME IInv, Own, NEW p \in lists, LastPage(p) \/ ListFails(p)
    PROVE  Own'
  <1>1. ~p.late => p.as = username /\ p.seen \subseteq {username}
    BY DEF Own, OwnRequests
  <1>2. lists' \subseteq lists /\ UNCHANGED <<username, asking, creations>>
    BY DEF LastPage, ListFails, Unsaid, memory, ui, others
  <1>3. OwnRequests'
    BY <1>2 DEF Own, OwnRequests
  <1>4. OwnRows'
    BY <1>1, <1>2 DEF LastPage, ListFails, Own, OwnRows, sidebar
  <1> QED
    BY <1>3, <1>4 DEF Own

LEMMA SpliceIsOwn ==
    ASSUME Own, NEW u, NEW late, Splice(u, late), ~late => u = username,
           UNCHANGED username
    PROVE  OwnRows'
  BY DEF Splice, Own, OwnRows

LEMMA AskIsOwn ==
    ASSUME Own, NEW q \in Question, Ask(q), ~q.late => q.known \subseteq {username}
    PROVE  Own'
  BY DEF Ask, Own, OwnRows, OwnRequests, memory, sidebar, paging, others

LEMMA QuestionIsOwn == ASSUME IInv, Own, QuestionAction PROVE Own'
  <1>1. ASSUME NEW u \in Users, ChangeVisibilityRequested(u) PROVE Own'
    <2> DEFINE q == [about |-> "visibility", known |-> {u}, late |-> foreign]
    <2>1. q \in Question
      BY DEF IInv, TypeOK, Question
    <2>2. u \in shown /\ Ask(q)
      BY <1>1 DEF ChangeVisibilityRequested
    <2>3. ~q.late => q.known \subseteq {username}
      BY <2>2 DEF Own, OwnRows
    <2> HIDE DEF q
    <2> QED
      BY <2>1, <2>2, <2>3, AskIsOwn
  <1>2. CASE PublishToGitHubRequested
    <2> DEFINE q == [about |-> "publish", known |-> cache, late |-> stale]
    <2>1. q \in Question
      BY DEF IInv, TypeOK, Question
    <2>2. Ask(q)
      BY <1>2 DEF PublishToGitHubRequested
    <2>3. ~q.late => q.known \subseteq {username}
      BY DEF Own, OwnRows
    <2> HIDE DEF q
    <2> QED
      BY <2>1, <2>2, <2>3, AskIsOwn
  <1>3. ASSUME NEW about \in {"visibility", "publish"}, Answer(about)
        PROVE  asking' = NoQuestion /\ UNCHANGED <<username, lists>>
    BY <1>3 DEF Answer, memory
  <1>4. CASE Declined \/ VisibilityConfirmed
    BY <1>3, <1>4 DEF Declined, VisibilityConfirmed, Own, OwnRows, OwnRequests, sidebar,
                      others
  <1>5. CASE PublishNew
    <2> DEFINE c == [as |-> clientToken, late |-> FALSE]
    <2>1. c.as = username
      BY <1>5, AnswerType DEF PublishNew
    <2>2. creations' = creations \cup {c} /\ UNCHANGED sidebar
      BY <1>5 DEF PublishNew
    <2> HIDE DEF c
    <2> QED
      BY <1>3, <1>5, <2>1, <2>2 DEF PublishNew, Own, OwnRows, OwnRequests, sidebar
  <1>6. ASSUME NEW u \in Users, PublishExisting(u) PROVE Own'
    <2>1. /\ asking' = NoQuestion /\ UNCHANGED <<username, lists, creations>>
          /\ asking # NoQuestion
      BY <1>3, <1>6 DEF PublishExisting, others, Answer
    <2>2. OwnRequests'
      BY <2>1 DEF Own, OwnRequests
    <2>3. ~asking.late => u = username
      BY <1>6, <2>1 DEF PublishExisting, Own, OwnRequests
    <2>4. ASSUME Splice(u, asking.late) PROVE OwnRows'
      BY <2>1, <2>3, <2>4, SpliceIsOwn
    <2>5. ASSUME UNCHANGED sidebar PROVE OwnRows'
      BY <2>1, <2>5 DEF Own, OwnRows, sidebar
    <2> QED
      BY <1>6, <2>2, <2>4, <2>5 DEF PublishExisting, Own
  <1> QED
    BY <1>1, <1>2, <1>4, <1>5, <1>6 DEF QuestionAction

LEMMA ReplyIsOwn == ASSUME IInv, Own, ReplyAction PROVE Own'
  <1>1. /\ creations' \subseteq creations /\ UNCHANGED <<username, lists, asking>>
    BY DEF ReplyAction, PublishTimesOut, RepositoryCreated, CreationFails,
           VisibilityChanged, VisibilityFails, Replied, memory, ui, paging
  <1>2. OwnRequests'
    BY <1>1 DEF Own, OwnRequests
  <1>3. ASSUME NEW c \in creations, Splice(c.as, c.late) PROVE OwnRows'
    BY <1>1, <1>3, SpliceIsOwn DEF Own, OwnRequests
  <1>4. ASSUME shown' = cache, foreign' = stale, UNCHANGED <<cache, stale>> PROVE OwnRows'
    BY <1>1, <1>4 DEF Own, OwnRows
  <1>5. ASSUME UNCHANGED sidebar PROVE OwnRows'
    BY <1>1, <1>5 DEF Own, OwnRows, sidebar
  <1> QED
    BY <1>2, <1>3, <1>4, <1>5
       DEF ReplyAction, PublishTimesOut, RepositoryCreated, CreationFails,
           VisibilityChanged, VisibilityFails, Own

LEMMA NextOwn == ASSUME IInv, Own, [Next]_vars PROVE Own'
  <1>1. CASE LaunchWithoutToken \/ ValidationFailed \/ SignOut
    BY <1>1, SignedOutIsOwn DEF LaunchWithoutToken, ValidationFailed, SignOut
  <1>2. CASE LaunchWithToken
    <2>1. username = NoUser /\ username' \in Users
      BY <1>2 DEF LaunchWithToken, Starting, IInv, StoppedIsEmpty, NeverStranded,
                  isSignedIn, TypeOK, NoToken
    <2>2. UNCHANGED <<lists, creations, asking, shown, cache, stale, foreign>>
      BY <1>2 DEF LaunchWithToken, ui, sidebar, paging, others
    <2> QED
      BY <2>1, <2>2, NothingOwn DEF Own, OwnRows, OwnRequests
  <1>3. CASE Validated
    <2>1. username' = username /\ clientToken = username
      BY <1>3 DEF Validated, IInv, NeverStranded, ValidatesOwnToken, isSignedIn, TypeOK,
                  NoToken
    <2>2. RequestList(username')
      BY <1>3, <2>1 DEF Validated
    <2>3. UNCHANGED <<creations, asking, shown, cache, stale, foreign>>
      BY <1>3 DEF Validated, sidebar, others
    <2>4. \A p \in lists' : ~p.late => p.as = username' /\ p.seen \subseteq {username'}
      BY <2>1, <2>2, RequestIsOwn DEF Own, OwnRequests
    <2> QED
      BY <2>1, <2>3, <2>4 DEF Own, OwnRows, OwnRequests
  <1>4. ASSUME NEW u \in Users, NEW type \in Types, SignIn(u, type) PROVE Own'
    <2>1. username = NoUser /\ username' = u
      BY <1>4 DEF SignIn, IInv, NeverStranded, isSignedIn
    <2>2. RequestList(username')
      BY <1>4, <2>1 DEF SignIn
    <2>3. UNCHANGED <<creations, asking, shown, cache, stale, foreign>>
      BY <1>4 DEF SignIn, sidebar, others
    <2>4. /\ ~stale => cache \subseteq {username'}
          /\ ~foreign => shown \subseteq {username'}
          /\ \A p \in lists : ~p.late => p.as = username' /\ p.seen \subseteq {username'}
          /\ \A c \in creations : ~c.late => c.as = username'
          /\ asking # NoQuestion /\ ~asking.late => asking.known \subseteq {username'}
      BY <2>1, NothingOwn
    <2>5. \A p \in lists' : ~p.late => p.as = username' /\ p.seen \subseteq {username'}
      BY <2>2, <2>4, RequestIsOwn
    <2> QED
      BY <2>3, <2>4, <2>5 DEF Own, OwnRows, OwnRequests
  <1>5. CASE Refresh
    <2>1. clientToken = username /\ username' = username
      BY <1>5 DEF Refresh, IInv, NeverStranded, memory
    <2>2. RequestList(username')
      BY <1>5, <2>1 DEF Refresh
    <2>3. UNCHANGED <<creations, asking, shown, cache, stale, foreign>>
      BY <1>5 DEF Refresh, ui, sidebar, others
    <2>4. \A p \in lists' : ~p.late => p.as = username' /\ p.seen \subseteq {username'}
      BY <2>1, <2>2, RequestIsOwn DEF Own, OwnRequests
    <2> QED
      BY <2>1, <2>3, <2>4 DEF Own, OwnRows, OwnRequests
  <1>6. CASE Stop \/ \E u \in Users : CrashInSignIn(u)
    BY <1>6 DEF Stop, CrashInSignIn, Ends, Own, OwnRows, OwnRequests
  <1>7. CASE UNCHANGED <<username, lists, creations, asking, sidebar>>
    BY <1>7 DEF Own, OwnRows, OwnRequests, sidebar
  <1>8. ASSUME NEW u \in Users, Revoke(u) PROVE Own'
    BY <1>7, <1>8 DEF Revoke, memory, ui, others
  <1>9. CASE UNCHANGED vars
    BY <1>7, <1>9 DEF vars, memory, ui, paging, others
  <1>10. CASE QuestionAction \/ ReplyAction
    BY <1>10, QuestionIsOwn, ReplyIsOwn
  <1>11. ASSUME NEW p \in lists, NextPage(p) \/ LastPage(p) \/ ListFails(p) PROVE Own'
    BY <1>11, NextPageIsOwn, ListReplyIsOwn
  <1> QED
    BY <1>1, <1>2, <1>3, <1>4, <1>5, <1>6, <1>8, <1>9, <1>10, <1>11
       DEF Next, QuestionAction, ReplyAction

\* However requests, replies, sign-ins and restarts fall, the sidebar lists the
\* account signed in and no other, unless what filled it last was asked for by an
\* earlier session or cached by one.
THEOREM SidebarMatchesSession == Spec => []SidebarIsOfSession
  <1>1. Init => Own
    BY DEF Init, Own, OwnRows, OwnRequests
  <1>2. Own => SidebarIsOfSession
    BY DEF Own, OwnRows, SidebarIsOfSession
  <1> QED
    BY <1>1, <1>2, NextOwn, InductiveInvariant, PTL DEF Spec
=============================================================================
