------------------------------ MODULE Approval ------------------------------
(***************************************************************************)
(* Approving the key or certificate of a server, and closing the window.   *)
(*                                                                         *)
(* A git operation runs on a pool thread.  When libgit2 does not know the  *)
(* server, certificateCheckCb blocks that thread until a modal dialog,     *)
(* run by an approver on the GUI thread, is answered.  A dialog runs an    *)
(* event loop of its own, so dialogs nest and only the topmost can be      *)
(* answered.  Requests to the REST API ask for TLS certificates on the GUI *)
(* thread itself.  Closing the window destroys the worker, then the two    *)
(* approvers, and last QApplication waits for the pool.                    *)
(***************************************************************************)
EXTENDS SequencesExt

CONSTANTS
    Jobs,      \* git operations on the pool
    Requests,  \* requests to the REST API
    Hosts,     \* servers
    TlsHosts,  \* those spoken to over TLS; the others over SSH
    Host,      \* server of each operation and request
    Certs,     \* keys or certificates a server may show
    None,      \* none of them
    RawKey     \* whether the key of an SSH server reaches the approver: only where
               \* GIT_CERT_SSH_RAW is a macro, and in libgit2 it is an enumerator

Actors == Jobs \cup Requests

\* Assumed by the modules that instantiate this one.
ApprovalAssumption ==
    /\ TlsHosts \subseteq Hosts /\ Host \in [Actors -> Hosts]
    /\ Jobs \cap Requests = {} /\ \A r \in Requests : Host[r] \in TlsHosts
    /\ None \notin Certs /\ RawKey \in BOOLEAN

VARIABLES
    gui,     \* how far the window has been closed
    phase,   \* of each operation and request
    cert,    \* what the server showed it
    trusted, \* trustedTlsFingerprints of Settings
    known,   \* pairs of server and key in known_hosts
    dialogs, \* who asks, the topmost dialog last
    misuse   \* history: what was used after it was destroyed

vars == <<gui, phase, cert, trusted, known, dialogs, misuse>>

\* "closed" and after: the event loop has ended; "worker": GitWorker has been
\* destroyed and libgit2 shut down; "hostKey": and HostKeyApprover; "gone": and
\* TlsCertApprover; "exited": the pool is done.
Gui   == {"open", "closed", "worker", "hostKey", "gone", "exited"}
Phase == {"idle", "queued", "connected", "looked", "posted", "asked",
          "approved", "rejected", "ended"}

Init ==
    /\ gui = "open"
    /\ phase = [a \in Actors |-> "idle"] /\ cert = [a \in Actors |-> None]
    /\ trusted \in [TlsHosts -> Certs \cup {None}]
    /\ known \in SUBSET ((Hosts \ TlsHosts) \X Certs)
    /\ dialogs = <<>> /\ misuse = {}
-----------------------------------------------------------------------------
LibUp == gui \in {"open", "closed"}

\* instance() of the approver a server needs is not null.
Alive(h) ==
    gui \in {"open", "closed", "worker"} \/ (h \in TlsHosts /\ gui = "hostKey")

Approved(a) ==
    IF Host[a] \in TlsHosts THEN trusted[Host[a]] = cert[a]
                            ELSE <<Host[a], cert[a]>> \in known

To(a, p) == phase' = [phase EXCEPT ![a] = p]

Running == {j \in Jobs : phase[j] \notin {"idle", "ended"}}

\* A step of an operation inside libgit2.
InLibgit2 == misuse' = misuse \cup (IF LibUp THEN {} ELSE {"libgit2"})
-----------------------------------------------------------------------------
(***************************************************************************)
(* A git operation.                                                        *)
(***************************************************************************)
Submit(j) ==
    /\ gui = "open" /\ dialogs = <<>> /\ phase[j] = "idle" /\ To(j, "queued")
    /\ UNCHANGED <<gui, cert, trusted, known, dialogs, misuse>>

Connect(j) ==
    /\ phase[j] = "queued" /\ To(j, "connected") /\ InLibgit2
    /\ \E c \in Certs : cert' = [cert EXCEPT ![j] = c]
    /\ UNCHANGED <<gui, trusted, known, dialogs>>

\* Mutant of certificateCheckCb: without an approver the server is accepted.
certificateCheckCbTrusting(j) ==
    /\ phase[j] = "connected"
    /\ To(j, IF Approved(j) \/ ~Alive(Host[j]) THEN "approved" ELSE "looked")
    /\ InLibgit2
    /\ UNCHANGED <<gui, cert, trusted, known, dialogs>>

\* certificateCheckCb up to the call.  An SSH server in known_hosts is accepted
\* by libgit2; a fingerprint is compared only when there is an approver.
certificateCheckCb(j) ==
    /\ phase[j] = "connected"
    /\ To(j, IF Host[j] \notin TlsHosts /\ Approved(j) THEN "approved"
             ELSE IF ~Alive(Host[j]) THEN "rejected"
             ELSE IF Approved(j) THEN "approved" ELSE "looked")
    /\ InLibgit2
    /\ UNCHANGED <<gui, cert, trusted, known, dialogs>>

\* invokeMethod posts the question and blocks.
Post(j) ==
    /\ phase[j] = "looked"
    /\ IF Alive(Host[j])
       THEN To(j, "posted") /\ UNCHANGED misuse
       ELSE To(j, "rejected") /\ misuse' = misuse \cup {"approver"}
    /\ UNCHANGED <<gui, cert, trusted, known, dialogs>>

\* The rest of the operation.
Finish(j) ==
    /\ phase[j] \in {"approved", "rejected"} /\ To(j, "ended") /\ InLibgit2
    /\ UNCHANGED <<gui, cert, trusted, known, dialogs>>

Deliver(j) ==
    /\ gui = "open" /\ phase[j] = "ended" /\ To(j, "idle")
    /\ UNCHANGED <<gui, cert, trusted, known, dialogs, misuse>>
-----------------------------------------------------------------------------
(***************************************************************************)
(* The GUI thread: its event loop, or that of the topmost dialog.          *)
(***************************************************************************)
Ask(a) ==
    /\ dialogs' = Append(dialogs, a) /\ To(a, "asked")
    /\ UNCHANGED <<gui, trusted, known, misuse>>

\* requestApproval of either approver; only the one for TLS looks again.
requestApproval(j) ==
    /\ gui = "open" /\ phase[j] = "posted" /\ UNCHANGED cert
    /\ IF Host[j] \in TlsHosts /\ Approved(j)
       THEN To(j, "approved") /\ UNCHANGED <<gui, trusted, known, dialogs, misuse>>
       ELSE Ask(j)

SendRequest(r) ==
    /\ gui = "open" /\ phase[r] = "idle" /\ To(r, "queued")
    /\ UNCHANGED <<gui, cert, trusted, known, dialogs, misuse>>

\* handleSslErrors of GitHubClient.
handleSslErrors(r) ==
    /\ gui = "open" /\ phase[r] = "queued"
    /\ \E c \in Certs :
        /\ cert' = [cert EXCEPT ![r] = c]
        /\ IF trusted[Host[r]] = c
           THEN To(r, "approved") /\ UNCHANGED <<gui, trusted, known, dialogs, misuse>>
           ELSE Ask(r)

Reply(r) ==
    /\ gui = "open" /\ phase[r] \in {"approved", "rejected"} /\ To(r, "idle")
    /\ UNCHANGED <<gui, cert, trusted, known, dialogs, misuse>>

Closing(a) == dialogs # <<>> /\ a = Last(dialogs) /\ dialogs' = Front(dialogs)

Reject(a) ==
    /\ Closing(a) /\ To(a, "rejected")
    /\ UNCHANGED <<gui, cert, trusted, known, misuse>>

\* "Just this once", which only the TLS dialog has.
AcceptOnce(a) ==
    /\ Closing(a) /\ Host[a] \in TlsHosts /\ To(a, "approved")
    /\ UNCHANGED <<gui, cert, trusted, known, misuse>>

\* Mutant of AcceptAlways: known_hosts is written for servers of both kinds.
AcceptAlwaysBoth(a) ==
    /\ Closing(a) /\ To(a, "approved")
    /\ known' = known \cup {<<Host[a], cert[a]>>}
    /\ UNCHANGED <<gui, cert, misuse, trusted>>

\* rememberFingerprint replaces what was remembered of the server;
\* appendKnownHosts writes nothing without the key.
AcceptAlways(a) ==
    /\ Closing(a) /\ To(a, "approved")
    /\ IF Host[a] \in TlsHosts
       THEN trusted' = [trusted EXCEPT ![Host[a]] = cert[a]] /\ UNCHANGED known
       ELSE /\ known' = known \cup (IF RawKey THEN {<<Host[a], cert[a]>>} ELSE {})
            /\ UNCHANGED trusted
    /\ UNCHANGED <<gui, cert, misuse>>

\* onRemoveClicked of TrustedServersDialog.
Forget(h) ==
    /\ gui = "open" /\ dialogs = <<>> /\ trusted[h] # None
    /\ trusted' = [trusted EXCEPT ![h] = None]
    /\ UNCHANGED <<gui, phase, cert, known, dialogs, misuse>>
-----------------------------------------------------------------------------
(***************************************************************************)
(* Closing.  The window cannot be closed under a dialog.                   *)
(***************************************************************************)
CloseWindow ==
    /\ gui = "open" /\ dialogs = <<>> /\ gui' = "closed"
    /\ UNCHANGED <<phase, cert, trusted, known, dialogs, misuse>>

\* Mutant of DestroyWorker: the operations on the pool are waited for.
DestroyWorkerJoined ==
    /\ gui = "closed" /\ Running = {} /\ gui' = "worker"
    /\ phase' = [a \in Actors |-> IF a \in Requests THEN "idle" ELSE phase[a]]
    /\ UNCHANGED <<cert, trusted, known, dialogs, misuse>>

\* ~MainWindow destroys its children as they were made: the session with its
\* requests, and the worker with its GitHandler.
DestroyWorker ==
    /\ gui = "closed" /\ gui' = "worker"
    /\ phase' = [a \in Actors |-> IF a \in Requests THEN "idle" ELSE phase[a]]
    /\ UNCHANGED <<cert, trusted, known, dialogs, misuse>>

\* Destroying an approver frees the threads that wait for it, unanswered.
Release(hosts) ==
    phase' = [a \in Actors |-> IF phase[a] = "posted" /\ Host[a] \in hosts
                               THEN "rejected" ELSE phase[a]]

\* Mutant of DestroyHostKeyApprover: it frees no thread.
DestroyHostKeyApproverQuietly ==
    /\ gui = "worker" /\ gui' = "hostKey"
    /\ UNCHANGED <<phase, cert, trusted, known, dialogs, misuse>>

DestroyHostKeyApprover ==
    /\ gui = "worker" /\ gui' = "hostKey" /\ Release(Hosts \ TlsHosts)
    /\ UNCHANGED <<cert, trusted, known, dialogs, misuse>>

DestroyTlsCertApprover ==
    /\ gui = "hostKey" /\ gui' = "gone" /\ Release(TlsHosts)
    /\ UNCHANGED <<cert, trusted, known, dialogs, misuse>>

\* QApplication waits for the global pool.
Exit ==
    /\ gui = "gone" /\ Running = {} /\ gui' = "exited"
    /\ UNCHANGED <<phase, cert, trusted, known, dialogs, misuse>>
-----------------------------------------------------------------------------
Job(j) ==
    Connect(j) \/ certificateCheckCb(j) \/ Post(j) \/ Finish(j)

Loop(a) ==
    \/ a \in Jobs /\ (requestApproval(a) \/ Deliver(a))
    \/ a \in Requests /\ (handleSslErrors(a) \/ Reply(a))

Answer(a) == Reject(a) \/ AcceptOnce(a) \/ AcceptAlways(a)

Closed ==
    DestroyWorker \/ DestroyHostKeyApprover \/ DestroyTlsCertApprover \/ Exit

Next ==
    \/ \E j \in Jobs : Submit(j) \/ Job(j)
    \/ \E r \in Requests : SendRequest(r)
    \/ \E a \in Actors : Loop(a) \/ Answer(a)
    \/ \E h \in TlsHosts : Forget(h)
    \/ CloseWindow \/ Closed

Spec == Init /\ [][Next]_vars

\* The pool runs what it was given, the GUI thread handles its events, a user
\* answers the dialog in front, and what closing the window began goes on.
Fairness ==
    /\ \A j \in Jobs : WF_vars(Job(j))
    /\ \A a \in Actors : WF_vars(Loop(a)) /\ WF_vars(Answer(a))
    /\ WF_vars(Closed)
-----------------------------------------------------------------------------
\* Every variable stays in its range.
TypeOK ==
    /\ gui \in Gui /\ phase \in [Actors -> Phase]
    /\ cert \in [Actors -> Certs \cup {None}]
    /\ trusted \in [TlsHosts -> Certs \cup {None}]
    /\ known \subseteq (Hosts \ TlsHosts) \X Certs
    /\ dialogs \in Seq(Actors) /\ misuse \subseteq {"libgit2", "approver"}

(***************************************************************************)
(* A pool thread that waits for an answer waits for an approver that still *)
(* exists, or for a dialog that is still open: none is left blocked on an  *)
(* object that was destroyed.                                              *)
(***************************************************************************)
BlockedIsHeard ==
    \A j \in Jobs :
        /\ phase[j] = "posted" => Alive(Host[j])
        /\ phase[j] = "asked"  => gui = "open" /\ j \in ToSet(dialogs)

(***************************************************************************)
(* Nothing goes on with a server unless it is remembered at that moment or *)
(* the user has just accepted it for this operation, whatever else is      *)
(* asked, remembered, forgotten or closed meanwhile.                       *)
(***************************************************************************)
ProceedsIfApproved ==
    [][\A a \in Actors :
          phase'[a] = "approved" /\ phase[a] # "approved" =>
              \/ phase[a] = "asked" /\ dialogs # <<>> /\ a = Last(dialogs)
              \/ Approved(a)'
      ]_vars

(***************************************************************************)
(* The GUI thread never waits for a thread that waits for it               *)
(* (HostKeyApprover.h, "no cyclical wait"): whatever is being asked when   *)
(* the window is closed, the process ends.                                 *)
(***************************************************************************)
ClosingEnds == gui = "closed" ~> gui = "exited"
-----------------------------------------------------------------------------
(***************************************************************************)
(* What a comment says and the code does not do.                           *)
(***************************************************************************)

\* HostKeyApprover.h, instance: the worker is joined first, so no operation is
\* left when what it uses is destroyed.
WorkerIsJoinedFirst == misuse = {}
=============================================================================
