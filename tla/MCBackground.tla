---------------------------- MODULE MCBackground -----------------------------
(***************************************************************************)
(* Small instances of what goes on without the user, under fairness:       *)
(* SignIn (the login dialog and its two timers), Approval (questions about *)
(* servers, and the end of the program), Watch (changes made by others)    *)
(* and Publish (the flow with its watchdog).  Their variables are          *)
(* disjoint, so as in MCPanels one moves and the others stand still, in a  *)
(* state where nothing of theirs is due.                                   *)
(*                                                                         *)
(* SignIn: two flows, for the answers to one to reach the other, and one   *)
(* typed token, since all are treated alike.  Approval: an operation over  *)
(* SSH, and an operation and a request over TLS to one server, for two     *)
(* dialogs to nest and be about one certificate.  Publish: as in MCPublish *)
(* but for one repository, since whose result a step is given makes no     *)
(* difference to its end.                                                  *)
(***************************************************************************)
EXTENDS SignIn, Sequences

CONSTANTS
    Certs, None, RawKey,   \* of Approval
    MaxVersion, MaxReads   \* of Watch

VARIABLES
    moving,
    aGui, aPhase, aCert, aTrusted, aKnown, aDialogs, aMisuse,
    wDisk, wExists, wWatched, wQueued, wTimer, wReads, wView, wKnown, wMissed,
    pFlow, pWatchdog, pRequests, pQuery, pGithub, pPool, pOrigin, pHead, pPushed,
    pActive, pBusy, pView, pPathOf, pStarted, pAttempts, pUserOps

approvalVars == <<aGui, aPhase, aCert, aTrusted, aKnown, aDialogs, aMisuse>>
watchVars == <<wDisk, wExists, wWatched, wQueued, wTimer, wReads, wView, wKnown,
               wMissed>>
publishVars == <<pFlow, pWatchdog, pRequests, pQuery, pGithub, pPool, pOrigin, pHead,
                 pPushed, pActive, pBusy, pView, pPathOf, pStarted, pAttempts,
                 pUserOps>>

Servers == INSTANCE ApprovalProofs WITH
    Jobs <- {"j1", "j2"}, Requests <- {"r1"}, Hosts <- {"ssh", "tls"},
    TlsHosts <- {"tls"},
    Host <- [actor \in {"j1", "j2", "r1"} |-> IF actor = "j1" THEN "ssh" ELSE "tls"],
    gui <- aGui, phase <- aPhase, cert <- aCert, trusted <- aTrusted, known <- aKnown,
    dialogs <- aDialogs, misuse <- aMisuse

Watcher == INSTANCE Watch WITH
    disk <- wDisk, exists <- wExists, watched <- wWatched, queued <- wQueued,
    timer <- wTimer, reads <- wReads, view <- wView, known <- wKnown, missed <- wMissed

Flows == INSTANCE Publish WITH
    Folders <- {"folder"}, Repos <- {"repo"}, NoFolder <- "none", NoRepo <- "none",
    MaxStarts <- 2, MaxUserOps <- 1, MaxJobs <- 2,
    flow <- pFlow, watchdog <- pWatchdog, requests <- pRequests, query <- pQuery,
    github <- pGithub, pool <- pPool, origin <- pOrigin, head <- pHead,
    pushed <- pPushed, active <- pActive, busy <- pBusy, view <- pView,
    localPathOf <- pPathOf, started <- pStarted, attempts <- pAttempts,
    userOps <- pUserOps

ASSUME ServersAssumption == Servers!ApprovalAssumption
ASSUME WatcherAssumption == Watcher!WatchAssumption

BackgroundInit ==
    /\ moving \in {"signIn", "approval", "watch", "publish"}
    /\ Init /\ Servers!Init /\ Watcher!Init /\ Flows!Init
    \* Who stands still does so in one state.
    /\ moving # "approval" => aTrusted["tls"] = None /\ aKnown = {}
    /\ moving # "watch" => wExists = {"root"}
    /\ moving # "publish" => pGithub = {} /\ pHead["folder"] = "unborn"

BackgroundNext ==
    /\ UNCHANGED moving
    /\ moving # "signIn" => UNCHANGED vars
    /\ moving # "approval" => UNCHANGED approvalVars
    /\ moving # "watch" => UNCHANGED watchVars
    /\ moving # "publish" => UNCHANGED publishVars
    /\ \/ moving = "signIn" /\ Next
       \/ moving = "approval" /\ Servers!Next
       \/ moving = "watch" /\ Watcher!Next
       \/ moving = "publish" /\ Flows!Next

BackgroundSpec ==
    BackgroundInit
    /\ [][BackgroundNext]_<<moving, vars, approvalVars, watchVars, publishVars>>

FairSpec ==
    BackgroundSpec
    /\ Fairness /\ Servers!Fairness /\ Watcher!Fairness /\ Flows!Fairness
-----------------------------------------------------------------------------
\* The variables of all components stay in their ranges.
AllTypesOK == TypeOK /\ Servers!TypeOK /\ Watcher!TypeOK

\* Approval: a thread that waits has somebody who will answer it.
BlockedIsHeard == Servers!BlockedIsHeard

\* Approval: nothing goes on with a server that was not approved.
ProceedsIfApproved == Servers!ProceedsIfApproved

\* Approval: closing the window ends the program.
ClosingEnds == Servers!ClosingEnds

\* Watch: what others change is shown in the end.
ChangesAreSeen == Watcher!ChangesAreSeen

\* Publish: with no help but the watchdog's, every flow ends.
EveryFlowEnds == Flows!EveryFlowEnds

\* Approval: what HostKeyApprover.h says of closing, and the code does not do.
WorkerIsJoinedFirst == Servers!WorkerIsJoinedFirst
=============================================================================
