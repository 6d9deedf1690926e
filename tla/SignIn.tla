------------------------------- MODULE SignIn -------------------------------
(***************************************************************************)
(* The login dialog: a personal access token typed in, or GitHub's device  *)
(* flow driven by OAuthFlowController and shown by OAuthLoginDialog.  Both *)
(* end in a validation of the token against /user.                         *)
(*                                                                         *)
(* Every request of the dialog's GitHubClient is answered in any order or  *)
(* never, and a poll may be sent before the answer to the one before it.   *)
(* Answers name no flow: after a cancel and a second attempt, the answers  *)
(* to the first one still arrive.  The field by of a request (0: none)     *)
(* records the flow that sent it, which the program does not know.         *)
(***************************************************************************)
EXTENDS Integers

CONSTANTS
    Pats,        \* personal access tokens the user may type
    NoToken,     \* the empty token
    MaxFlows,    \* bound on device flows of one login dialog
    MaxRequests  \* bound on requests of one login dialog

ASSUME NoTokenAssumption == NoToken \notin Pats /\ NoToken \notin Nat /\ Pats \cap Nat = {}
ASSUME SignInAssumption  == MaxFlows \in Nat /\ MaxRequests \in Nat

VARIABLES
    state,       \* OAuthFlowController::state_
    deviceCode,  \* OAuthFlowController::deviceCode_ (0: empty)
    expired,     \* expiryTimer_ has passed expiresInMs_
    flows,       \* flows started; the flow that runs is the newest one
    requests,    \* requests in flight, answered or not
    sent,        \* requests so far
    github,      \* device code -> what GitHub knows of it
    token, tokenIsOAuth, \* LoginDialog::token_, tokenIsOAuth_
    verified,    \* history: the token GitHub confirmed last
    busy,        \* LoginDialog is busy: its buttons are disabled
    shown,       \* code shown by OAuthLoginDialog (0: none yet)
    waiting,     \* OAuthLoginDialog is visible
    login        \* LoginDialog: open, or its result

flowVars == <<state, deviceCode, expired>>
netVars  == <<requests, sent>>
uiVars   == <<busy, shown, waiting, login>>
tokVars  == <<token, tokenIsOAuth, verified>>
vars     == <<flowVars, flows, netVars, github, uiVars, tokVars>>
-----------------------------------------------------------------------------
States  == {"Idle", "FetchingDeviceCode", "WaitingForUser"}
Codes   == 1..MaxFlows
\* The OAuth token granted for a device code is named by the code.
Tokens  == Pats \cup Codes
CodeIs  == {"unknown", "pending", "authorized", "denied", "granted", "expired"}

Replies == {"sent", "ok", "pending", "slowDown", "error"}

\* Requests of a flow name a device code, validations a token.
FlowRequest == [id : 1..MaxRequests, kind : {"code", "poll"}, by : Codes,
                code : Codes, token : {NoToken}, res : Replies]
UserRequest == [id : 1..MaxRequests, kind : {"user"}, by : {0},
                code : {0}, token : Tokens, res : {"sent", "ok", "error"}]
Request == FlowRequest \cup UserRequest

Init ==
    /\ state = "Idle" /\ deviceCode = 0 /\ expired = FALSE /\ flows = 0
    /\ requests = {} /\ sent = 0
    /\ github = [c \in Codes |-> "unknown"]
    /\ token = NoToken /\ tokenIsOAuth = FALSE /\ verified = NoToken
    /\ busy = FALSE /\ shown = 0 /\ waiting = FALSE /\ login = "open"
-----------------------------------------------------------------------------
(***************************************************************************)
(* Pieces of the handlers.                                                 *)
(***************************************************************************)
NewRequest(kind, by, code, t) ==
    [id |-> sent + 1, kind |-> kind, by |-> by, code |-> code, token |-> t, res |-> "sent"]

\* rest: the requests still in flight beside the new one.
Send(rest, kind, by, code, t) ==
    /\ sent < MaxRequests /\ sent' = sent + 1
    /\ requests' = rest \cup {NewRequest(kind, by, code, t)}

Take(q) == requests' = requests \ {q} /\ UNCHANGED sent

\* OAuthFlowController::reset().
ResetFlow == state' = "Idle" /\ deviceCode' = 0 /\ UNCHANGED expired

\* fail(), and LoginDialog::onOAuthFailed.
FailFlow == ResetFlow /\ waiting' = FALSE /\ busy' = FALSE

Validate(rest, t, isOAuth) ==
    /\ token' = t /\ tokenIsOAuth' = isOAuth
    /\ Send(rest, "user", 0, 0, t)
    /\ UNCHANGED verified
-----------------------------------------------------------------------------
(***************************************************************************)
(* The user.  The dialog of the device flow is modal over the login dialog.*)
(***************************************************************************)
\* onSignIn
SignInWithToken(p) ==
    /\ login = "open" /\ ~waiting /\ ~busy
    /\ Validate(requests, p, FALSE)
    /\ busy' = TRUE
    /\ UNCHANGED <<flowVars, flows, github, shown, waiting, login>>

\* onSignInWithOAuth and OAuthFlowController::start, which refuses a second flow.
SignInWithOAuth ==
    /\ login = "open" /\ ~waiting /\ ~busy
    /\ state = "Idle" /\ flows < MaxFlows
    /\ flows' = flows + 1
    /\ state' = "FetchingDeviceCode" /\ deviceCode' = 0
    /\ Send(requests, "code", flows + 1, flows + 1, NoToken)
    /\ busy' = TRUE /\ waiting' = TRUE
    /\ UNCHANGED <<expired, github, shown, login, tokVars>>

\* The Cancel button: onOAuthCancelled.
Cancel ==
    /\ login = "open" /\ waiting
    /\ ResetFlow
    /\ waiting' = FALSE /\ busy' = FALSE
    /\ UNCHANGED <<flows, netVars, github, shown, login, tokVars>>

\* Escape or the window manager closes the device-flow dialog.
CloseOAuthDialog ==
    /\ login = "open" /\ waiting /\ waiting' = FALSE
    /\ UNCHANGED <<flowVars, flows, netVars, github, busy, shown, login, tokVars>>

\* Escape works even while the buttons are disabled.  The dialog's client goes
\* with it, and with the client every answer.
CloseLogin ==
    /\ login = "open" /\ ~waiting /\ login' = "rejected"
    /\ UNCHANGED <<flowVars, flows, netVars, github, busy, shown, waiting, tokVars>>

\* In the browser: the code on display is entered, or refused.
UserDecides(c) ==
    /\ login = "open" /\ c = shown /\ github[c] = "pending"
    /\ \E d \in {"authorized", "denied"} : github' = [github EXCEPT ![c] = d]
    /\ UNCHANGED <<flowVars, flows, netVars, uiVars, tokVars>>
-----------------------------------------------------------------------------
(***************************************************************************)
(* GitHub and the network.                                                 *)
(***************************************************************************)
Answer(q, res) ==
    /\ requests' = (requests \ {q}) \cup {[q EXCEPT !.res = res]}
    /\ UNCHANGED sent

Lost(q) ==
    /\ login = "open" /\ q.res = "sent"
    /\ Answer(q, "error")
    /\ UNCHANGED <<flowVars, flows, github, uiVars, tokVars>>

IssueCode(q) ==
    /\ login = "open" /\ q.res = "sent" /\ q.kind = "code"
    /\ github' = [github EXCEPT ![q.code] = "pending"]
    /\ Answer(q, "ok")
    /\ UNCHANGED <<flowVars, flows, uiVars, tokVars>>

\* A code is exchanged for a token once; polling it again is an error.
AnswerPoll(q) ==
    /\ login = "open" /\ q.res = "sent" /\ q.kind = "poll"
    /\ \/ /\ github[q.code] = "pending"
          /\ \E res \in {"pending", "slowDown"} : Answer(q, res)
          /\ UNCHANGED github
       \/ /\ github[q.code] = "authorized"
          /\ github' = [github EXCEPT ![q.code] = "granted"]
          /\ Answer(q, "ok")
       \/ /\ github[q.code] \in {"denied", "granted", "expired"}
          /\ Answer(q, "error") /\ UNCHANGED github
    /\ UNCHANGED <<flowVars, flows, uiVars, tokVars>>

AnswerUser(q) ==
    /\ login = "open" /\ q.res = "sent" /\ q.kind = "user"
    /\ Answer(q, "ok")
    /\ UNCHANGED <<flowVars, flows, github, uiVars, tokVars>>

CodeExpires(c) ==
    /\ login = "open" /\ github[c] = "pending"
    /\ github' = [github EXCEPT ![c] = "expired"]
    /\ UNCHANGED <<flowVars, flows, netVars, uiVars, tokVars>>
-----------------------------------------------------------------------------
(***************************************************************************)
(* Replies and timers on the GUI thread.                                   *)
(***************************************************************************)
DeviceCodeReceived(q) ==
    /\ login = "open" /\ q.kind = "code" /\ q.res = "ok"
    /\ Take(q)
    /\ \/ /\ state = "FetchingDeviceCode"
          /\ state' = "WaitingForUser" /\ deviceCode' = q.code /\ expired' = FALSE
          /\ shown' = q.code
       \/ state # "FetchingDeviceCode" /\ UNCHANGED <<flowVars, shown>>
    /\ UNCHANGED <<flows, github, busy, waiting, login, tokVars>>

\* Mutant of AccessTokenReceived: the dialog is enabled too early.
AccessTokenReceivedNotBusy(q) ==
    /\ login = "open" /\ q.kind = "poll" /\ q.res = "ok"
    /\ state = "WaitingForUser" /\ ResetFlow
    /\ Validate(requests \ {q}, q.code, TRUE)
    /\ waiting' = FALSE /\ busy' = FALSE
    /\ UNCHANGED <<flows, github, shown, login>>

\* onAccessTokenReceived and onOAuthSignedIn: validate the token like a typed one.
AccessTokenReceived(q) ==
    /\ login = "open" /\ q.kind = "poll" /\ q.res = "ok"
    /\ \/ /\ state = "WaitingForUser" /\ ResetFlow
          /\ Validate(requests \ {q}, q.code, TRUE)
          /\ waiting' = FALSE
       \/ state # "WaitingForUser" /\ Take(q) /\ UNCHANGED <<flowVars, tokVars, waiting>>
    /\ UNCHANGED <<flows, github, busy, shown, login>>

\* pollPending and pollSlowDown leave the flow polling.
PollAgain(q) ==
    /\ login = "open" /\ q.kind = "poll" /\ q.res \in {"pending", "slowDown"}
    /\ Take(q)
    /\ UNCHANGED <<flowVars, flows, github, uiVars, tokVars>>

OauthError(q) ==
    /\ login = "open" /\ q.kind \in {"code", "poll"} /\ q.res = "error"
    /\ Take(q)
    /\ \/ state # "Idle" /\ FailFlow
       \/ state = "Idle" /\ UNCHANGED <<flowVars, waiting, busy>>
    /\ UNCHANGED <<flows, github, shown, login, tokVars>>

\* Mutant of Tick: the code's lifetime is left to GitHub.
TickNeverExpires ==
    /\ login = "open" /\ state = "WaitingForUser"
    /\ Send(requests, "poll", flows, deviceCode, NoToken)
    /\ UNCHANGED <<flowVars, waiting, busy, flows, github, shown, login, tokVars>>

\* onTick: give up when the code is too old, poll otherwise.
Tick ==
    /\ login = "open" /\ state = "WaitingForUser"
    /\ \/ expired /\ FailFlow /\ UNCHANGED netVars
       \/ /\ ~expired
          /\ Send(requests, "poll", flows, deviceCode, NoToken)
          /\ UNCHANGED <<flowVars, waiting, busy>>
    /\ UNCHANGED <<flows, github, shown, login, tokVars>>

TimePasses ==
    /\ login = "open" /\ state = "WaitingForUser" /\ ~expired /\ expired' = TRUE
    /\ UNCHANGED <<state, deviceCode, flows, netVars, github, uiVars, tokVars>>

\* Mutant of Authenticated: the kind of token is forgotten.
AuthenticatedAsPat(q) ==
    /\ login = "open" /\ q.kind = "user" /\ q.res = "ok"
    /\ Take(q)
    /\ verified' = q.token /\ busy' = FALSE /\ login' = "accepted"
    /\ tokenIsOAuth' = FALSE
    /\ UNCHANGED <<flowVars, flows, github, shown, waiting, token>>

\* onAuthenticated
Authenticated(q) ==
    /\ login = "open" /\ q.kind = "user" /\ q.res = "ok"
    /\ Take(q)
    /\ verified' = q.token /\ busy' = FALSE /\ login' = "accepted"
    /\ UNCHANGED <<flowVars, flows, github, shown, waiting, token, tokenIsOAuth>>

\* onAuthFailed
AuthFailed(q) ==
    /\ login = "open" /\ q.kind = "user" /\ q.res = "error"
    /\ Take(q)
    /\ token' = NoToken /\ tokenIsOAuth' = FALSE /\ busy' = FALSE
    /\ UNCHANGED <<flowVars, flows, github, shown, waiting, login, verified>>
-----------------------------------------------------------------------------
User    == \/ \E p \in Pats : SignInWithToken(p)
           \/ SignInWithOAuth \/ Cancel \/ CloseOAuthDialog \/ CloseLogin
           \/ \E c \in Codes : UserDecides(c)
Network == \/ \E q \in requests : Lost(q) \/ IssueCode(q) \/ AnswerPoll(q) \/ AnswerUser(q)
           \/ \E c \in Codes : CodeExpires(c)
Reply   == \E q \in requests :
              \/ DeviceCodeReceived(q) \/ AccessTokenReceived(q) \/ PollAgain(q)
              \/ OauthError(q) \/ Authenticated(q) \/ AuthFailed(q)

Next == User \/ Network \/ Reply \/ Tick \/ TimePasses

Spec == Init /\ [][Next]_vars

\* The two timers of a flow run; nothing else is sure to happen.
Fairness == WF_vars(Tick) /\ WF_vars(TimePasses)
-----------------------------------------------------------------------------
(***************************************************************************)
(* Properties.                                                             *)
(***************************************************************************)

\* Every variable stays in its range; a poll always names a device code, and a
\* validation a token.
TypeOK ==
    /\ state \in States /\ deviceCode \in 0..MaxFlows /\ expired \in BOOLEAN
    /\ flows \in 0..MaxFlows
    /\ requests \subseteq Request /\ sent \in 0..MaxRequests
    /\ github \in [Codes -> CodeIs]
    /\ token \in Tokens \cup {NoToken} /\ tokenIsOAuth \in BOOLEAN
    /\ verified \in Tokens \cup {NoToken}
    /\ busy \in BOOLEAN /\ shown \in 0..MaxFlows /\ waiting \in BOOLEAN
    /\ login \in {"open", "accepted", "rejected"}

Validations == {q \in requests : q.kind = "user"}

\* The buttons of the login dialog are disabled exactly while one sign-in is
\* under way, and there is never more than one: a device flow and a validation
\* do not overlap, nor do two validations.
OneSignInAtATime ==
    login = "open" =>
        /\ busy <=> (state # "Idle" \/ Validations # {})
        /\ state # "Idle" => Validations = {}
        /\ \A q, r \in Validations : q = r

\* The dialog returns the very token GitHub has confirmed, and says of which
\* kind it is; the keyring stores both.
ReturnsVerifiedToken ==
    login = "accepted" => token = verified /\ token # NoToken
                          /\ (tokenIsOAuth <=> token \in Codes)

\* The code the user is asked to enter is the one being polled.
ShownCodeIsPolled ==
    state = "WaitingForUser" => deviceCode = shown /\ deviceCode \in Codes

\* The expiry timer ends every wait for the user, whatever GitHub answers.
WaitingEnds == state = "WaitingForUser" /\ login = "open"
                  ~> state # "WaitingForUser" \/ login # "open"
=============================================================================
