--------------------------- MODULE ApprovalProofs ---------------------------
(***************************************************************************)
(* Theorems about Approval, for every set of operations, requests, servers *)
(* and certificates.  That a thread which waits is heard rests on what the *)
(* stack of dialogs is: it holds exactly those who are asked about, each   *)
(* once, and it is empty when the window is closed (DialogsAreAsked); and  *)
(* on a posted question being freed by the approver it was posted to       *)
(* (PostedIsHeard).                                                        *)
(***************************************************************************)
EXTENDS Approval, SequenceTheorems, TLAPS

Typed ==
    /\ phase \in [Actors -> Phase] /\ cert \in [Actors -> Certs \cup {None}]
    /\ dialogs \in Seq(Actors)

DialogsAreAsked ==
    /\ \A i \in 1..Len(dialogs) : phase[dialogs[i]] = "asked"
    /\ \A a \in Actors : phase[a] = "asked" => \E i \in 1..Len(dialogs) : dialogs[i] = a
    /\ \A i, k \in 1..Len(dialogs) : dialogs[i] = dialogs[k] => i = k
    /\ dialogs # <<>> => gui = "open"

PostedIsHeard == \A a \in Actors : phase[a] = "posted" => Alive(Host[a])

IInv == Typed /\ DialogsAreAsked /\ PostedIsHeard

LEMMA InitInv == Init => IInv
  BY DEF Init, IInv, Typed, Phase, DialogsAreAsked, PostedIsHeard
-----------------------------------------------------------------------------
(***************************************************************************)
(* The three things a step does to the dialogs.                            *)
(***************************************************************************)
LEMMA AskKeeps ==
    ASSUME IInv, NEW a \in Actors, phase[a] # "asked", gui = "open", Ask(a)
    PROVE  phase' \in [Actors -> Phase] /\ dialogs' \in Seq(Actors)
           /\ DialogsAreAsked' /\ PostedIsHeard'
  <1> USE DEF IInv, Typed, Ask, To
  <1>1. phase' \in [Actors -> Phase] /\ dialogs' \in Seq(Actors)
    BY DEF Phase
  <1>2. /\ Len(dialogs') = Len(dialogs) + 1 /\ Len(dialogs) \in Nat
        /\ \A i \in 1..Len(dialogs) : dialogs'[i] = dialogs[i] /\ dialogs[i] \in Actors
        /\ dialogs'[Len(dialogs) + 1] = a
    OBVIOUS
  <1>3. \A i \in 1..Len(dialogs) : dialogs[i] # a
    BY DEF DialogsAreAsked
  <1>4. \A b \in Actors : phase'[b] = IF b = a THEN "asked" ELSE phase[b]
    OBVIOUS
  <1>5. DialogsAreAsked'
    <2>1. \A i \in 1..Len(dialogs') : i \in 1..Len(dialogs) \/ i = Len(dialogs) + 1
      BY <1>2
    <2>2. \A i \in 1..Len(dialogs') : phase'[dialogs'[i]] = "asked"
      BY <1>2, <1>4, <2>1 DEF DialogsAreAsked
    <2>3. \A b \in Actors : phase'[b] = "asked" => \E i \in 1..Len(dialogs') : dialogs'[i] = b
      BY <1>2, <1>4 DEF DialogsAreAsked
    <2>4. \A i, k \in 1..Len(dialogs') : dialogs'[i] = dialogs'[k] => i = k
      BY <1>2, <1>3, <2>1 DEF DialogsAreAsked
    <2> QED
      BY <2>2, <2>3, <2>4 DEF DialogsAreAsked
  <1>6. PostedIsHeard'
    BY <1>4 DEF PostedIsHeard, Alive
  <1> QED
    BY <1>1, <1>5, <1>6

LEMMA FrontFacts ==
    ASSUME NEW S, NEW s \in Seq(S), s # <<>>
    PROVE  /\ Len(s) \in Nat \ {0} /\ Len(Front(s)) = Len(s) - 1
           /\ \A i \in 1..(Len(s) - 1) : Front(s)[i] = s[i]
           /\ Front(s) \in Seq(S) /\ Last(s) = s[Len(s)]
  <1>1. Len(s) \in Nat \ {0} /\ Last(s) = s[Len(s)]
    BY DEF Last
  <1> DEFINE n == Len(s) - 1
  <1>2. n \in Nat /\ \A i \in 1..n : s[i] \in S
    BY <1>1
  <1>3. Front(s) = SubSeq(s, 1, n)
    BY DEF Front
  <1> HIDE DEF n
  <1>4. /\ Front(s) \in Seq(S) /\ Len(Front(s)) = IF 1 <= n THEN n - 1 + 1 ELSE 0
        /\ \A i \in 1..(n - 1 + 1) : Front(s)[i] = s[1 + i - 1]
    BY <1>2, <1>3, SubSeqProperties
  <1>5. n - 1 + 1 = n /\ (~(1 <= n) => n = 0) /\ \A i \in 1..n : 1 + i - 1 = i
    BY <1>2
  <1>6. Len(Front(s)) = n
    BY <1>4, <1>5
  <1>7. \A i \in 1..n : Front(s)[i] = s[i]
    BY <1>4, <1>5
  <1> QED
    BY <1>1, <1>4, <1>6, <1>7 DEF n

LEMMA CloseKeeps ==
    ASSUME IInv, NEW a \in Actors, NEW p \in {"approved", "rejected"},
           Closing(a), To(a, p), UNCHANGED <<gui, cert>>
    PROVE  IInv' /\ phase[a] = "asked"
  <1> USE DEF IInv, Typed, Closing, To
  <1>1. /\ Len(dialogs) \in Nat \ {0} /\ Len(dialogs') = Len(dialogs) - 1
        /\ \A i \in 1..(Len(dialogs) - 1) : dialogs'[i] = dialogs[i] /\ i # Len(dialogs)
        /\ dialogs' \in Seq(Actors) /\ a = dialogs[Len(dialogs)]
    BY FrontFacts
  <1>2. phase[a] = "asked" /\ \A i \in 1..Len(dialogs') : dialogs[i] # a
    BY <1>1 DEF DialogsAreAsked
  <1>3. \A b \in Actors : phase'[b] = IF b = a THEN p ELSE phase[b]
    OBVIOUS
  <1>4. Typed'
    BY <1>1 DEF Phase
  <1>5. DialogsAreAsked'
    <2>1. \A i \in 1..Len(dialogs') : i \in 1..Len(dialogs) /\ dialogs[i] \in Actors
      BY <1>1
    <2>2. \A i \in 1..Len(dialogs') : phase'[dialogs'[i]] = "asked"
      BY <1>1, <1>2, <1>3, <2>1 DEF DialogsAreAsked
    <2>3. \A b \in Actors : phase'[b] = "asked" => \E i \in 1..Len(dialogs') : dialogs'[i] = b
      <3> SUFFICES ASSUME NEW b \in Actors, phase'[b] = "asked"
                   PROVE  \E i \in 1..Len(dialogs') : dialogs'[i] = b
        OBVIOUS
      <3>1. b # a /\ phase[b] = "asked"
        BY <1>3
      <3>2. PICK i \in 1..Len(dialogs) : dialogs[i] = b
        BY <3>1 DEF DialogsAreAsked
      <3>3. i \in 1..Len(dialogs')
        BY <1>1, <3>1, <3>2
      <3> QED
        BY <1>1, <3>2, <3>3
    <2>4. \A i, k \in 1..Len(dialogs') : dialogs'[i] = dialogs'[k] => i = k
      BY <1>1, <2>1 DEF DialogsAreAsked
    <2>5. gui' = "open"
      BY DEF DialogsAreAsked
    <2> QED
      BY <2>2, <2>3, <2>4, <2>5 DEF DialogsAreAsked
  <1>6. PostedIsHeard'
    BY <1>3 DEF PostedIsHeard, Alive
  <1> QED
    BY <1>2, <1>4, <1>5, <1>6

LEMMA ToKeeps ==
    ASSUME IInv, NEW a \in Actors, NEW p \in Phase, phase[a] # "asked", p # "asked",
           To(a, p), UNCHANGED <<gui, dialogs>>, p = "posted" => Alive(Host[a]),
           cert' \in [Actors -> Certs \cup {None}]
    PROVE  IInv'
  <1> USE DEF IInv, Typed, To
  <1>1. \A b \in Actors : phase'[b] = IF b = a THEN p ELSE phase[b]
    OBVIOUS
  <1>2. Typed'
    OBVIOUS
  <1>3. DialogsAreAsked'
    BY <1>1 DEF DialogsAreAsked
  <1>4. PostedIsHeard'
    BY <1>1 DEF PostedIsHeard, Alive
  <1> QED
    BY <1>2, <1>3, <1>4
-----------------------------------------------------------------------------
(***************************************************************************)
(* One lemma for each party.                                               *)
(***************************************************************************)
LEMMA JobStep == ASSUME IInv, NEW j \in Jobs, Submit(j) \/ Job(j) PROVE IInv'
  <1> USE DEF IInv, Typed
  <1>1. j \in Actors
    BY DEF Actors
  <1>2. PICK p \in Phase \ {"asked"} :
            phase[j] # "asked" /\ To(j, p) /\ (p = "posted" => Alive(Host[j]))
    BY DEF Submit, Job, Connect, certificateCheckCb, Post, Finish, Phase
  <1>3. UNCHANGED <<gui, dialogs>> /\ cert' \in [Actors -> Certs \cup {None}]
    BY DEF Submit, Job, Connect, certificateCheckCb, Post, Finish
  <1> QED
    BY <1>1, <1>2, <1>3, ToKeeps

LEMMA LoopStep ==
    ASSUME IInv, NEW a \in Actors, Loop(a) \/ (a \in Requests /\ SendRequest(a))
    PROVE  IInv'
  <1> USE DEF IInv, Typed
  <1>1. cert' \in [Actors -> Certs \cup {None}]
    BY DEF Loop, requestApproval, Deliver, handleSslErrors, Reply, SendRequest
  <1>2. CASE Ask(a) /\ phase[a] # "asked" /\ gui = "open"
    BY <1>1, <1>2, AskKeeps
  <1>3. CASE /\ phase[a] # "asked" /\ UNCHANGED <<gui, dialogs>>
             /\ \E p \in {"idle", "queued", "approved"} : To(a, p)
    BY <1>1, <1>3, ToKeeps DEF Phase
  <1> QED
    BY <1>2, <1>3 DEF Loop, requestApproval, Deliver, handleSslErrors, Reply, SendRequest

LEMMA AnswerStep ==
    ASSUME IInv, NEW a \in Actors, Answer(a) PROVE IInv' /\ phase[a] = "asked"
  <1>1. Closing(a) /\ UNCHANGED <<gui, cert>>
        /\ \E p \in {"approved", "rejected"} : To(a, p)
    BY DEF Answer, Reject, AcceptOnce, AcceptAlways
  <1> QED
    BY <1>1, CloseKeeps

\* Closing the window, and what it leads to.
LEMMA ClosingStep ==
    ASSUME ApprovalAssumption, IInv, CloseWindow \/ Closed PROVE IInv'
  <1> USE DEF IInv, Typed
  <1>1. dialogs = <<>> /\ \A a \in Actors : phase[a] # "asked"
    BY DEF DialogsAreAsked, CloseWindow, Closed, DestroyWorker, DestroyHostKeyApprover,
           DestroyTlsCertApprover, Exit
  <1>2. UNCHANGED <<cert, dialogs>>
    BY DEF CloseWindow, Closed, DestroyWorker, DestroyHostKeyApprover,
           DestroyTlsCertApprover, Exit
  <1>3. \A a \in Actors : Host[a] \in Hosts
    BY DEF ApprovalAssumption
  <1>4. phase' \in [Actors -> Phase]
        /\ \A a \in Actors : phase'[a] \in {phase[a], "idle", "rejected"}
    BY DEF CloseWindow, Closed, DestroyWorker, DestroyHostKeyApprover,
           DestroyTlsCertApprover, Exit, Release, Phase
  <1>5. DialogsAreAsked'
    BY <1>1, <1>2, <1>4 DEF DialogsAreAsked
  <1>6. PostedIsHeard'
    <2> SUFFICES ASSUME NEW a \in Actors, phase'[a] = "posted" PROVE Alive(Host[a])'
      BY DEF PostedIsHeard
    <2>1. phase[a] = "posted" /\ Alive(Host[a])
      BY <1>4 DEF PostedIsHeard
    <2>2. CASE CloseWindow \/ DestroyWorker
      BY <2>2 DEF CloseWindow, DestroyWorker, Alive
    <2>3. CASE DestroyHostKeyApprover
      BY <1>3, <2>1, <2>3 DEF DestroyHostKeyApprover, Release, Alive
    <2>4. CASE DestroyTlsCertApprover
      BY <1>3, <2>1, <2>4 DEF DestroyTlsCertApprover, Release, Alive
    <2>5. CASE Exit
      BY <2>1, <2>5 DEF Exit, Alive
    <2> QED
      BY <2>2, <2>3, <2>4, <2>5 DEF Closed
  <1> QED
    BY <1>2, <1>4, <1>5, <1>6

LEMMA NextInv == ASSUME ApprovalAssumption, IInv, [Next]_vars PROVE IInv'
  <1>1. CASE UNCHANGED <<gui, phase, cert, dialogs>>
    BY <1>1 DEF IInv, Typed, DialogsAreAsked, PostedIsHeard, Alive
  <1>2. ASSUME NEW r \in Requests, SendRequest(r) PROVE IInv'
    BY <1>2, LoopStep DEF Actors
  <1>3. ASSUME NEW h \in TlsHosts, Forget(h) PROVE IInv'
    BY <1>1, <1>3 DEF Forget
  <1> QED
    BY <1>1, <1>2, <1>3, JobStep, LoopStep, AnswerStep, ClosingStep DEF Next, vars

\* Whatever is being asked, and however far the program is in ending, no thread
\* waits for an approver that is gone or for a dialog that nobody can answer.
THEOREM WaitingIsHeard == ASSUME ApprovalAssumption PROVE Spec => []BlockedIsHeard
  <1>1. IInv => BlockedIsHeard
    BY DEF IInv, Typed, DialogsAreAsked, PostedIsHeard, BlockedIsHeard, Actors, ToSet
  <1>2. IInv /\ [Next]_vars => IInv'
    BY NextInv
  <1> QED
    BY <1>1, <1>2, InitInv, PTL DEF Spec
-----------------------------------------------------------------------------
LEMMA NextProceeds ==
    ASSUME ApprovalAssumption, IInv, [Next]_vars, NEW a \in Actors,
           phase'[a] = "approved", phase[a] # "approved"
    PROVE  \/ phase[a] = "asked" /\ dialogs # <<>> /\ a = Last(dialogs)
           \/ Approved(a)'
  <1> USE DEF IInv, Typed
  <1>1. ASSUME NEW b \in Actors, NEW p, To(b, p), a # b PROVE FALSE
    BY <1>1 DEF To
  <1>2. ASSUME NEW j \in Jobs, Submit(j) \/ Job(j) PROVE Approved(a)'
    <2>1. a = j
      BY <1>1, <1>2 DEF Submit, Job, Connect, certificateCheckCb, Post, Finish, Actors
    <2>2. certificateCheckCb(a)
      BY <1>2, <2>1 DEF Submit, Job, Connect, Post, Finish, To
    <2> QED
      BY <2>2 DEF certificateCheckCb, To, Approved
  <1>3. ASSUME NEW b \in Actors, Loop(b) PROVE Approved(a)'
    <2>1. a = b
      BY <1>1, <1>3 DEF Loop, requestApproval, Deliver, handleSslErrors, Reply, Ask
    <2>2. CASE requestApproval(a)
      BY <2>2 DEF requestApproval, Ask, To, Approved
    <2>3. CASE a \in Requests /\ handleSslErrors(a)
      <3>1. Host[a] \in TlsHosts
        BY <2>3 DEF ApprovalAssumption
      <3> QED
        BY <2>3, <3>1 DEF handleSslErrors, Ask, To, Approved
    <2> QED
      BY <1>3, <2>1, <2>2, <2>3 DEF Loop, Deliver, Reply, To
  <1>4. ASSUME NEW b \in Actors, Answer(b)
        PROVE  phase[a] = "asked" /\ dialogs # <<>> /\ a = Last(dialogs)
    <2>1. a = b
      BY <1>1, <1>4 DEF Answer, Reject, AcceptOnce, AcceptAlways
    <2> QED
      BY <1>4, <2>1, AnswerStep DEF Answer, Reject, AcceptOnce, AcceptAlways, Closing
  <1>5. ASSUME NEW r \in Requests, SendRequest(r) PROVE FALSE
    BY <1>5 DEF SendRequest, To, Actors
  <1>6. CASE CloseWindow \/ Closed
    BY <1>6 DEF CloseWindow, Closed, DestroyWorker, DestroyHostKeyApprover,
       DestroyTlsCertApprover, Exit, Release
  <1>7. CASE UNCHANGED phase
    BY <1>7
  <1> QED
    BY <1>2, <1>3, <1>4, <1>5, <1>6, <1>7 DEF Next, Forget, vars

\* No operation and no request goes on with a server that is not remembered,
\* and that the user has not accepted in the dialog about it.
THEOREM OnlyApprovedProceed ==
    ASSUME ApprovalAssumption PROVE Spec => ProceedsIfApproved
  <1>1. IInv /\ [Next]_vars => IInv'
    BY NextInv
  <1>2. IInv /\ [Next]_vars =>
           [\A a \in Actors :
               phase'[a] = "approved" /\ phase[a] # "approved" =>
                   \/ phase[a] = "asked" /\ dialogs # <<>> /\ a = Last(dialogs)
                   \/ Approved(a)']_vars
    BY NextProceeds
  <1> QED
    BY <1>1, <1>2, InitInv, PTL DEF Spec, ProceedsIfApproved
-----------------------------------------------------------------------------
(***************************************************************************)
(* The types.  What is remembered of an SSH server is a key it has shown.  *)
(***************************************************************************)
HasShown == \A a \in Actors : phase[a] \notin {"idle", "queued"} => cert[a] \in Certs

LEMMA CertificateStep ==
    ASSUME ApprovalAssumption, IInv, HasShown, [Next]_vars PROVE HasShown'
  <1> USE DEF IInv, Typed, HasShown
  <1>1. CASE UNCHANGED <<phase, cert>>
    BY <1>1
  <1>2. ASSUME NEW a \in Actors, NEW c \in Certs, NEW p \in Phase,
               cert' = [cert EXCEPT ![a] = c], To(a, p)
        PROVE  HasShown'
    BY <1>2 DEF To
  <1>3. ASSUME NEW a \in Actors, NEW p \in Phase, UNCHANGED cert, To(a, p),
               p \in {"idle", "queued"} \/ phase[a] \notin {"idle", "queued"}
        PROVE  HasShown'
    BY <1>3 DEF To
  <1>4. ASSUME NEW j \in Jobs, Submit(j) \/ Job(j) PROVE HasShown'
    <2>1. j \in Actors
      BY DEF Actors
    <2>2. CASE Connect(j)
      BY <1>2, <2>1, <2>2 DEF Connect, Phase
    <2>3. CASE certificateCheckCb(j)
      BY <1>3, <2>1, <2>3 DEF certificateCheckCb, Phase
    <2>4. CASE Submit(j) \/ Post(j) \/ Finish(j)
      BY <1>3, <2>1, <2>4 DEF Submit, Post, Finish, Phase
    <2> QED
      BY <1>4, <2>2, <2>3, <2>4 DEF Job
  <1>5. ASSUME NEW r \in Requests, SendRequest(r) PROVE HasShown'
    BY <1>3, <1>5 DEF SendRequest, Actors, Phase
  <1>6. ASSUME NEW a \in Actors, Loop(a) PROVE HasShown'
    <2>1. CASE handleSslErrors(a)
      BY <1>2, <2>1 DEF handleSslErrors, Ask, Phase
    <2>2. CASE requestApproval(a) \/ Deliver(a) \/ Reply(a)
      BY <1>3, <2>2 DEF requestApproval, Ask, Deliver, Reply, Phase
    <2> QED
      BY <1>6, <2>1, <2>2 DEF Loop
  <1>7. ASSUME NEW a \in Actors, Answer(a) PROVE HasShown'
    <2>1. phase[a] = "asked"
      BY <1>7, AnswerStep
    <2> QED
      BY <1>3, <1>7, <2>1 DEF Answer, Reject, AcceptOnce, AcceptAlways, Phase
  <1>8. CASE DestroyWorker \/ DestroyHostKeyApprover \/ DestroyTlsCertApprover
    BY <1>8 DEF DestroyWorker, DestroyHostKeyApprover, DestroyTlsCertApprover, Release
  <1>9. CASE CloseWindow \/ Exit
    BY <1>1, <1>9 DEF CloseWindow, Exit
  <1>10. ASSUME NEW h \in TlsHosts, Forget(h) PROVE HasShown'
    BY <1>1, <1>10 DEF Forget
  <1>11. CASE UNCHANGED vars
    BY <1>1, <1>11 DEF vars
  <1> QED
    BY <1>4, <1>5, <1>6, <1>7, <1>8, <1>9, <1>10, <1>11 DEF Next, Closed

LEMMA TypeStep ==
    ASSUME ApprovalAssumption, IInv, HasShown, TypeOK, [Next]_vars PROVE TypeOK'
  <1>1. Typed'
    BY NextInv DEF IInv
  <1>2. /\ gui \in Gui /\ trusted \in [TlsHosts -> Certs \cup {None}]
        /\ known \subseteq (Hosts \ TlsHosts) \X Certs /\ misuse \subseteq {"libgit2", "approver"}
    BY DEF TypeOK
  <1>3. gui' \in Gui /\ misuse' \subseteq {"libgit2", "approver"}
    BY <1>2
    DEF Next, vars, Submit, Job, Connect, certificateCheckCb, Post, Finish, InLibgit2,
        SendRequest, Loop, requestApproval, Deliver, handleSslErrors, Reply, Ask,
        Answer, Reject, AcceptOnce, AcceptAlways, Forget, CloseWindow, Closed,
        DestroyWorker, DestroyHostKeyApprover, DestroyTlsCertApprover, Exit, Gui
  <1>4. /\ trusted' \in [TlsHosts -> Certs \cup {None}]
        /\ known' \subseteq (Hosts \ TlsHosts) \X Certs
    <2>1. CASE UNCHANGED <<trusted, known>>
      BY <1>2, <2>1
    <2>3. ASSUME NEW a \in Actors, AcceptAlways(a)
          PROVE  /\ trusted' \in [TlsHosts -> Certs \cup {None}]
                 /\ known' \subseteq (Hosts \ TlsHosts) \X Certs
      <3>1. phase[a] = "asked" /\ cert[a] \in Certs /\ Host[a] \in Hosts
        BY <2>3, AnswerStep DEF Answer, HasShown, ApprovalAssumption
      <3> QED
        BY <1>2, <2>3, <3>1 DEF AcceptAlways
    <2>4. ASSUME NEW h \in TlsHosts, Forget(h)
          PROVE  /\ trusted' \in [TlsHosts -> Certs \cup {None}]
                 /\ known' \subseteq (Hosts \ TlsHosts) \X Certs
      BY <1>2, <2>4 DEF Forget
    <2> QED
      BY <2>1, <2>3, <2>4
      DEF Next, vars, Submit, Job, Connect, certificateCheckCb, Post, Finish,
          SendRequest, Loop, requestApproval, Deliver, handleSslErrors, Reply, Ask,
          Answer, Reject, AcceptOnce, CloseWindow, Closed,
          DestroyWorker, DestroyHostKeyApprover, DestroyTlsCertApprover, Exit
  <1> QED
    BY <1>1, <1>3, <1>4 DEF Typed, TypeOK

\* Every variable stays in its range; what known_hosts gains is a key that the
\* server has shown.
THEOREM TypesHold == ASSUME ApprovalAssumption PROVE Spec => []TypeOK
  <1>1. Init => IInv /\ HasShown /\ TypeOK
    BY InitInv DEF Init, HasShown, TypeOK, Gui, Phase
  <1>2. IInv /\ HasShown /\ TypeOK /\ [Next]_vars => (IInv /\ HasShown /\ TypeOK)'
    BY NextInv, CertificateStep, TypeStep
  <1> QED
    BY <1>1, <1>2, PTL DEF Spec
=============================================================================
