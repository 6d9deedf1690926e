-------------------------- MODULE BackgroundProofs --------------------------
(***************************************************************************)
(* Theorems about SignIn and Watch, for every set of tokens and every      *)
(* bound, and about what MCBackground composes of them and Approval.       *)
(***************************************************************************)
EXTENDS MCBackground, TLAPS

(***************************************************************************)
(* SignIn.  Beside the invariants of the runs the induction needs three    *)
(* facts: a validation in flight is of the token the dialog holds, a flow  *)
(* under way has been started, and its dialog shows nothing else.          *)
(***************************************************************************)
\* The answer to a validation is about the token in hand, and its kind is known.
ValidatesHeldToken ==
    login = "open" => \A q \in Validations :
        q.token = token /\ token # NoToken /\ (tokenIsOAuth <=> token \in Codes)

FlowStarted == state # "Idle" => flows \in Codes

\* The device-flow dialog is there for a flow only.
WaitingIsFlow == waiting /\ login = "open" => state # "Idle"

\* What holds beyond the types.
Safe == /\ OneSignInAtATime /\ ShownCodeIsPolled /\ ReturnsVerifiedToken
        /\ ValidatesHeldToken /\ FlowStarted /\ WaitingIsFlow

IInv == TypeOK /\ Safe

USE NoTokenAssumption, SignInAssumption

\* No token is of both kinds, and the empty token is of neither.
LEMMA TokenKinds ==
    /\ \A p \in Pats : p \notin Codes /\ p # NoToken
    /\ \A c \in Codes : c # NoToken
  BY DEF Codes

\* A request that is answered stays a well-formed request of the same kind.
LEMMA AnswerType ==
    ASSUME TypeOK, NEW q \in requests, NEW res \in Replies,
           q.kind = "user" => res \in {"sent", "ok", "error"}, Answer(q, res)
    PROVE  /\ requests' \subseteq Request /\ sent' \in 0..MaxRequests
           /\ LET r == [q EXCEPT !.res = res]
              IN  /\ requests' = (requests \ {q}) \cup {r}
                  /\ r.kind = q.kind /\ r.token = q.token
  <1> DEFINE r == [q EXCEPT !.res = res]
  <1>1. q \in Request
    BY DEF TypeOK
  <1>2. r \in Request
    <2>1. CASE q \in FlowRequest
      BY <2>1 DEF FlowRequest, Request
    <2>2. CASE q \in UserRequest
      BY <2>2 DEF UserRequest, Request
    <2> QED
      BY <1>1, <2>1, <2>2 DEF Request
  <1>3. r.kind = q.kind /\ r.token = q.token
    BY <1>1 DEF Request, FlowRequest, UserRequest
  <1> QED
    BY <1>2, <1>3 DEF TypeOK, Answer

\* An answer on the network leaves the dialog's invariants alone.
LEMMA AnswerSafe ==
    ASSUME TypeOK, Safe, NEW q \in requests, NEW res \in Replies,
           q.kind = "user" => res \in {"sent", "ok", "error"}, Answer(q, res),
           UNCHANGED <<flowVars, flows, uiVars, tokVars>>
    PROVE  Safe'
  <1> DEFINE r == [q EXCEPT !.res = res]
  <1>1. requests' = (requests \ {q}) \cup {r} /\ r.kind = q.kind /\ r.token = q.token
    BY AnswerType
  <1>2. /\ Validations' = {} <=> Validations = {}
        /\ (\A x, y \in Validations : x = y) => \A x, y \in Validations' : x = y
    <2>1. CASE q.kind = "user"
      BY <1>1, <2>1 DEF Validations
    <2>2. CASE q.kind # "user"
      BY <1>1, <2>2 DEF Validations
    <2> QED
      BY <2>1, <2>2
  <1>3. \A x \in Validations' : \E y \in Validations : x.token = y.token
    BY <1>1 DEF Validations
  <1>4. UNCHANGED <<login, state, busy, token, tokenIsOAuth, verified, deviceCode, shown,
                    flows, waiting>>
    BY DEF flowVars, uiVars, tokVars
  <1> HIDE DEF Validations
  <1>5. OneSignInAtATime'
    BY <1>2, <1>4 DEF Safe, OneSignInAtATime
  <1>6. ShownCodeIsPolled' /\ ReturnsVerifiedToken'
    BY <1>4 DEF Safe, ShownCodeIsPolled, ReturnsVerifiedToken, Codes
  <1>7. ValidatesHeldToken' /\ FlowStarted' /\ WaitingIsFlow'
    BY <1>3, <1>4 DEF Safe, ValidatesHeldToken, FlowStarted, WaitingIsFlow, Codes
  <1> QED
    BY <1>5, <1>6, <1>7 DEF Safe

\* A new request is well formed.
LEMMA SendType ==
    ASSUME TypeOK, NEW rest \in SUBSET requests,
           NEW kind, NEW by, NEW code, NEW t, Send(rest, kind, by, code, t),
           \/ kind \in {"code", "poll"} /\ by \in Codes /\ code \in Codes /\ t = NoToken
           \/ kind = "user" /\ by = 0 /\ code = 0 /\ t \in Tokens
    PROVE  /\ requests' \subseteq Request /\ sent' \in 0..MaxRequests
           /\ requests' = rest \cup {NewRequest(kind, by, code, t)}
  <1>1. sent + 1 \in 1..MaxRequests /\ sent' = sent + 1
    BY DEF TypeOK, Send
  <1>2. NewRequest(kind, by, code, t) \in Request
    BY <1>1 DEF NewRequest, Request, FlowRequest, UserRequest, Replies
  <1> QED
    BY <1>1, <1>2 DEF Send, TypeOK

THEOREM InitInv == Init => IInv
  <1> SUFFICES ASSUME Init PROVE IInv
    OBVIOUS
  <1>1. TypeOK
    <2>1. github \in [Codes -> CodeIs]
      BY DEF Init, CodeIs
    <2>2. requests \subseteq Request /\ sent \in 0..MaxRequests /\ flows \in 0..MaxFlows
      BY DEF Init
    <2>3. deviceCode \in 0..MaxFlows /\ shown \in 0..MaxFlows
      BY DEF Init
    <2> QED
      BY <2>1, <2>2, <2>3 DEF Init, TypeOK, States
  <1>2. Safe
    BY DEF Init, Safe, OneSignInAtATime, ShownCodeIsPolled, ReturnsVerifiedToken,
           ValidatesHeldToken, Validations, FlowStarted, WaitingIsFlow
  <1> QED
    BY <1>1, <1>2 DEF IInv

-----------------------------------------------------------------------------
(***************************************************************************)
(* Every step preserves the types.  One lemma per group of actions.        *)
(***************************************************************************)
LEMMA UserType == ASSUME TypeOK, User PROVE TypeOK'
  <1>1. CASE \E p \in Pats : SignInWithToken(p)
    <2> PICK p \in Pats : SignInWithToken(p)
      BY <1>1
    <2>1. requests' \subseteq Request /\ sent' \in 0..MaxRequests
      BY SendType DEF SignInWithToken, Validate, Tokens
    <2> QED
      BY <2>1 DEF SignInWithToken, Validate, TypeOK, Tokens, flowVars
  <1>2. CASE SignInWithOAuth
    <2>1. flows + 1 \in Codes
      BY <1>2 DEF SignInWithOAuth, TypeOK, Codes
    <2>2. requests' \subseteq Request /\ sent' \in 0..MaxRequests
      BY <1>2, <2>1, SendType DEF SignInWithOAuth
    <2>3. state' \in States /\ deviceCode' \in 0..MaxFlows /\ flows' \in 0..MaxFlows
      BY <1>2, <2>1 DEF SignInWithOAuth, States, Codes
    <2> QED
      BY <1>2, <2>2, <2>3 DEF SignInWithOAuth, TypeOK, tokVars
  <1>3. CASE Cancel
    <2>1. state' \in States /\ deviceCode' \in 0..MaxFlows
      BY <1>3 DEF Cancel, ResetFlow, States
    <2> QED
      BY <1>3, <2>1 DEF Cancel, ResetFlow, TypeOK, netVars, tokVars
  <1>4. CASE CloseOAuthDialog
    BY <1>4 DEF CloseOAuthDialog, TypeOK, flowVars, netVars, tokVars
  <1>5. CASE CloseLogin
    BY <1>5 DEF CloseLogin, TypeOK, flowVars, netVars, tokVars
  <1>6. CASE \E c \in Codes : UserDecides(c)
    <2>1. github' \in [Codes -> CodeIs]
      BY <1>6 DEF UserDecides, TypeOK, CodeIs
    <2> QED
      BY <1>6, <2>1 DEF UserDecides, TypeOK, flowVars, netVars, uiVars, tokVars
  <1> QED
    BY <1>1, <1>2, <1>3, <1>4, <1>5, <1>6 DEF User

LEMMA NetworkType == ASSUME TypeOK, Network PROVE TypeOK'
  <1>1. CASE \E c \in Codes : CodeExpires(c)
    <2>1. github' \in [Codes -> CodeIs]
      BY <1>1 DEF CodeExpires, TypeOK, CodeIs
    <2> QED
      BY <1>1, <2>1 DEF CodeExpires, TypeOK, flowVars, netVars, uiVars, tokVars
  <1>2. ASSUME NEW q \in requests, Lost(q) \/ IssueCode(q) \/ AnswerPoll(q) \/ AnswerUser(q)
        PROVE  TypeOK'
    <2>1. q \in Request
      BY DEF TypeOK
    <2>2. requests' \subseteq Request /\ sent' \in 0..MaxRequests
      BY <1>2, AnswerType DEF Lost, IssueCode, AnswerPoll, AnswerUser, Replies
    <2>3. github' \in [Codes -> CodeIs]
      BY <1>2 DEF Lost, IssueCode, AnswerPoll, AnswerUser, TypeOK, CodeIs
    <2>4. UNCHANGED <<flowVars, flows, uiVars, tokVars>>
      BY <1>2 DEF Lost, IssueCode, AnswerPoll, AnswerUser
    <2> QED
      BY <2>2, <2>3, <2>4 DEF TypeOK, flowVars, uiVars, tokVars
  <1> QED
    BY <1>1, <1>2 DEF Network

LEMMA ResetType == ASSUME TypeOK, ResetFlow
                   PROVE  state' \in States /\ deviceCode' \in 0..MaxFlows /\ expired' \in BOOLEAN
  BY DEF ResetFlow, TypeOK, States

LEMMA TakeType == ASSUME TypeOK, NEW q \in requests, Take(q)
                  PROVE  requests' \subseteq Request /\ sent' \in 0..MaxRequests
  BY DEF Take, TypeOK

LEMMA ReplyType == ASSUME TypeOK, Reply PROVE TypeOK'
  <1> PICK q \in requests :
          \/ DeviceCodeReceived(q) \/ AccessTokenReceived(q) \/ PollAgain(q)
          \/ OauthError(q) \/ Authenticated(q) \/ AuthFailed(q)
    BY DEF Reply
  <1>1. q \in Request
    BY DEF TypeOK
  <1>2. CASE DeviceCodeReceived(q)
    <2>1. q.code \in Codes
      BY <1>1, <1>2 DEF DeviceCodeReceived, Request, FlowRequest, UserRequest
    <2>2. /\ state' \in States /\ deviceCode' \in 0..MaxFlows /\ expired' \in BOOLEAN
          /\ shown' \in 0..MaxFlows
      <3>1. CASE UNCHANGED <<flowVars, shown>>
        BY <3>1 DEF TypeOK, flowVars
      <3>2. CASE state' = "WaitingForUser" /\ deviceCode' = q.code /\ expired' = FALSE
                 /\ shown' = q.code
        <4>1. q.code \in 0..MaxFlows
          BY <2>1 DEF Codes
        <4>2. state' \in States /\ expired' \in BOOLEAN
          BY <3>2 DEF States
        <4> QED
          BY <3>2, <4>1, <4>2
      <3> QED
        BY <1>2, <3>1, <3>2 DEF DeviceCodeReceived
    <2> QED
      BY <1>2, <2>2, TakeType DEF DeviceCodeReceived, TypeOK, tokVars
  <1>3. CASE AccessTokenReceived(q)
    <2>1. q.code \in Codes
      BY <1>1, <1>3 DEF AccessTokenReceived, Request, FlowRequest, UserRequest
    <2>2. CASE state = "WaitingForUser"
      <3>1. requests' \subseteq Request /\ sent' \in 0..MaxRequests
        BY <1>3, <2>1, <2>2, SendType DEF AccessTokenReceived, Validate, Tokens
      <3>2. /\ state' \in States /\ deviceCode' \in 0..MaxFlows
            /\ expired' \in BOOLEAN /\ waiting' \in BOOLEAN
        BY <1>3, <2>2, ResetType DEF AccessTokenReceived
      <3> QED
        BY <1>3, <2>1, <2>2, <3>1, <3>2 DEF AccessTokenReceived, Validate, TypeOK, Tokens
    <2>3. CASE state # "WaitingForUser"
      BY <1>3, <2>3, TakeType DEF AccessTokenReceived, TypeOK, flowVars, tokVars
    <2> QED
      BY <2>2, <2>3
  <1>4. CASE PollAgain(q)
    BY <1>4, TakeType DEF PollAgain, TypeOK, flowVars, uiVars, tokVars
  <1>5. CASE OauthError(q)
    <2>1. /\ state' \in States /\ deviceCode' \in 0..MaxFlows /\ expired' \in BOOLEAN
          /\ waiting' \in BOOLEAN /\ busy' \in BOOLEAN
      BY <1>5, ResetType DEF OauthError, FailFlow, TypeOK, flowVars
    <2> QED
      BY <1>5, <2>1, TakeType DEF OauthError, TypeOK, tokVars
  <1>6. CASE Authenticated(q)
    <2>1. q.token \in Tokens
      BY <1>1, <1>6 DEF Authenticated, Request, FlowRequest, UserRequest
    <2> QED
      BY <1>6, <2>1, TakeType DEF Authenticated, TypeOK, flowVars
  <1>7. CASE AuthFailed(q)
    BY <1>7, TakeType DEF AuthFailed, TypeOK, flowVars
  <1> QED
    BY <1>2, <1>3, <1>4, <1>5, <1>6, <1>7

LEMMA TimerType == ASSUME TypeOK, Safe, Tick \/ TimePasses PROVE TypeOK'
  <1>1. CASE Tick
    <2>1. CASE expired
      <3>1. /\ state' \in States /\ deviceCode' \in 0..MaxFlows /\ expired' \in BOOLEAN
            /\ waiting' \in BOOLEAN /\ busy' \in BOOLEAN
        BY <1>1, <2>1, ResetType DEF Tick, FailFlow
      <3> QED
        BY <1>1, <2>1, <3>1 DEF Tick, TypeOK, netVars, tokVars
    <2>2. CASE ~expired
      <3>1. flows \in Codes /\ deviceCode \in Codes
        BY <1>1 DEF Tick, Safe, FlowStarted, ShownCodeIsPolled
      <3>2. requests' \subseteq Request /\ sent' \in 0..MaxRequests
        BY <1>1, <2>2, <3>1, SendType DEF Tick
      <3> QED
        BY <1>1, <2>2, <3>2 DEF Tick, TypeOK, flowVars, tokVars
    <2> QED
      BY <2>1, <2>2
  <1>2. CASE TimePasses
    BY <1>2 DEF TimePasses, TypeOK, netVars, uiVars, tokVars
  <1> QED
    BY <1>1, <1>2
-----------------------------------------------------------------------------
(***************************************************************************)
(* Every step preserves the rest.  What a handler does to the validations  *)
(* in flight is stated first.                                              *)
(***************************************************************************)
\* Taking a reply that is no validation leaves the validations alone; taking the
\* only validation leaves none.
LEMMA TakeValidations ==
    ASSUME NEW q \in requests, Take(q)
    PROVE  /\ q.kind # "user" => Validations' = Validations
           /\ (\A x, y \in Validations : x = y) /\ q.kind = "user" => Validations' = {}
  BY DEF Take, Validations

\* A new validation is the only one when there was none.
LEMMA SendValidation ==
    ASSUME TypeOK, NEW rest \in SUBSET requests, NEW t \in Tokens,
           Send(rest, "user", 0, 0, t), Validations = {}
    PROVE  /\ Validations' # {} /\ \A x, y \in Validations' : x = y
           /\ \A x \in Validations' : x.token = t
  <1> DEFINE n == NewRequest("user", 0, 0, t)
  <1>1. requests' = rest \cup {n}
    BY DEF Send
  <1>2. n.kind = "user" /\ n.token = t
    BY DEF NewRequest
  <1> HIDE DEF n
  <1>3. Validations' = {n}
    BY <1>1, <1>2 DEF Validations
  <1> QED
    BY <1>2, <1>3

\* A request of another kind changes no validation.
LEMMA SendOther ==
    ASSUME NEW by, NEW code, NEW kind \in {"code", "poll"},
           Send(requests, kind, by, code, NoToken)
    PROVE  Validations' = Validations
  <1>1. NewRequest(kind, by, code, NoToken).kind = kind
    BY DEF NewRequest
  <1> QED
    BY <1>1 DEF Send, Validations

LEMMA UserSafe == ASSUME TypeOK, Safe, User PROVE Safe'
  <1> USE DEF Safe
  <1>1. CASE \E p \in Pats : SignInWithToken(p)
    <2> PICK p \in Pats : SignInWithToken(p)
      BY <1>1
    <2>1. Validations = {} /\ state = "Idle" /\ login = "open"
      BY DEF SignInWithToken, OneSignInAtATime
    <2>2. /\ Validations' # {} /\ \A x, y \in Validations' : x = y
          /\ \A x \in Validations' : x.token = p
      BY <2>1, SendValidation DEF SignInWithToken, Validate, Tokens
    <2>3. /\ UNCHANGED <<state, login, deviceCode, shown, flows, waiting>>
          /\ busy' = TRUE /\ token' = p /\ tokenIsOAuth' = FALSE
      BY DEF SignInWithToken, Validate, flowVars
    <2>4. p \notin Codes' /\ p # NoToken
      BY TokenKinds DEF Codes
    <2> QED
      BY <2>1, <2>2, <2>3, <2>4
         DEF OneSignInAtATime, ShownCodeIsPolled, ReturnsVerifiedToken,
             ValidatesHeldToken, FlowStarted, WaitingIsFlow
  <1>2. CASE SignInWithOAuth
    <2>1. Validations = {} /\ Validations' = Validations /\ login = "open"
      BY <1>2, SendOther DEF SignInWithOAuth, OneSignInAtATime
    <2>2. /\ state' = "FetchingDeviceCode" /\ busy' = TRUE /\ login' = login
          /\ flows' \in Codes'
      BY <1>2 DEF SignInWithOAuth, Codes, TypeOK
    <2> QED
      BY <2>1, <2>2
         DEF OneSignInAtATime, ShownCodeIsPolled, ReturnsVerifiedToken,
             ValidatesHeldToken, FlowStarted, WaitingIsFlow
  <1>3. CASE Cancel
    <2>1. Validations' = Validations
      BY <1>3 DEF Cancel, netVars, Validations
    <2>2. /\ state' = "Idle" /\ busy' = FALSE /\ waiting' = FALSE
          /\ UNCHANGED <<login, token, tokenIsOAuth>>
          /\ login = "open"
      BY <1>3 DEF Cancel, ResetFlow, tokVars
    <2>3. Validations = {}
      BY <1>3 DEF Cancel, WaitingIsFlow, Safe, OneSignInAtATime
    <2> QED
      BY <2>1, <2>2, <2>3
         DEF OneSignInAtATime, ShownCodeIsPolled, ReturnsVerifiedToken,
             ValidatesHeldToken, FlowStarted, WaitingIsFlow
  <1>4. CASE CloseOAuthDialog
    <2>1. /\ Validations' = Validations
          /\ UNCHANGED <<login, state, busy, token, tokenIsOAuth, verified, deviceCode,
                         shown, flows>>
          /\ waiting' = FALSE
      BY <1>4 DEF CloseOAuthDialog, flowVars, netVars, tokVars, Validations
    <2> QED
      BY <2>1
         DEF OneSignInAtATime, ShownCodeIsPolled, ReturnsVerifiedToken,
             ValidatesHeldToken, FlowStarted, WaitingIsFlow, Codes
  <1>5. CASE CloseLogin
    <2>1. /\ login' = "rejected"
          /\ UNCHANGED <<state, deviceCode, shown, flows>>
      BY <1>5 DEF CloseLogin, flowVars
    <2> QED
      BY <2>1
         DEF OneSignInAtATime, ShownCodeIsPolled, ReturnsVerifiedToken,
             ValidatesHeldToken, FlowStarted, WaitingIsFlow, Codes
  <1>6. CASE \E c \in Codes : UserDecides(c)
    <2>1. /\ Validations' = Validations
          /\ UNCHANGED <<login, state, busy, token, tokenIsOAuth, verified, deviceCode,
                         shown, flows, waiting>>
      BY <1>6 DEF UserDecides, flowVars, netVars, uiVars, tokVars, Validations
    <2> QED
      BY <2>1
         DEF OneSignInAtATime, ShownCodeIsPolled, ReturnsVerifiedToken,
             ValidatesHeldToken, FlowStarted, WaitingIsFlow, Codes
  <1> QED
    BY <1>1, <1>2, <1>3, <1>4, <1>5, <1>6 DEF User

LEMMA NetworkSafe == ASSUME TypeOK, Safe, Network PROVE Safe'
  <1>1. CASE \E c \in Codes : CodeExpires(c)
    <2>1. /\ Validations' = Validations
          /\ UNCHANGED <<login, state, busy, token, tokenIsOAuth, verified, deviceCode,
                         shown, flows, waiting>>
      BY <1>1 DEF CodeExpires, flowVars, netVars, uiVars, tokVars, Validations
    <2> QED
      BY <2>1
         DEF Safe, OneSignInAtATime, ShownCodeIsPolled, ReturnsVerifiedToken,
             ValidatesHeldToken, FlowStarted, WaitingIsFlow, Codes
  <1>2. ASSUME NEW q \in requests, Lost(q) \/ IssueCode(q) \/ AnswerPoll(q) \/ AnswerUser(q)
        PROVE  Safe'
    <2>1. UNCHANGED <<flowVars, flows, uiVars, tokVars>>
      BY <1>2 DEF Lost, IssueCode, AnswerPoll, AnswerUser
    <2>2. PICK res \in Replies :
              (q.kind = "user" => res \in {"sent", "ok", "error"}) /\ Answer(q, res)
      BY <1>2 DEF Lost, IssueCode, AnswerPoll, AnswerUser, Replies
    <2> QED
      BY <2>1, <2>2, AnswerSafe
  <1> QED
    BY <1>1, <1>2 DEF Network

LEMMA ReplySafe == ASSUME TypeOK, Safe, Reply PROVE Safe'
  <1> USE DEF Safe
  <1> PICK q \in requests :
          \/ DeviceCodeReceived(q) \/ AccessTokenReceived(q) \/ PollAgain(q)
          \/ OauthError(q) \/ Authenticated(q) \/ AuthFailed(q)
    BY DEF Reply
  <1>1. q \in Request
    BY DEF TypeOK
  <1>2. CASE DeviceCodeReceived(q)
    <2>1. q.code \in Codes
      BY <1>1, <1>2 DEF DeviceCodeReceived, Request, FlowRequest, UserRequest
    <2>2. Validations' = Validations /\ login = "open"
      BY <1>2, TakeValidations DEF DeviceCodeReceived
    <2>3. UNCHANGED <<login, busy, token, tokenIsOAuth, flows, waiting>>
      BY <1>2 DEF DeviceCodeReceived, tokVars
    <2>4. CASE state = "FetchingDeviceCode"
      <3>1. state' = "WaitingForUser" /\ deviceCode' = q.code /\ shown' = q.code
        BY <1>2, <2>4 DEF DeviceCodeReceived
      <3> QED
        BY <2>1, <2>2, <2>3, <2>4, <3>1
           DEF OneSignInAtATime, ShownCodeIsPolled, ReturnsVerifiedToken,
               ValidatesHeldToken, FlowStarted, WaitingIsFlow, Codes
    <2>5. CASE state # "FetchingDeviceCode"
      <3>1. UNCHANGED <<state, deviceCode, shown>>
        BY <1>2, <2>5 DEF DeviceCodeReceived, flowVars
      <3> QED
        BY <2>2, <2>3, <3>1
           DEF OneSignInAtATime, ShownCodeIsPolled, ReturnsVerifiedToken,
               ValidatesHeldToken, FlowStarted, WaitingIsFlow, Codes
    <2> QED
      BY <2>4, <2>5
  <1>3. CASE AccessTokenReceived(q)
    <2>1. q.code \in Codes /\ q.code # NoToken /\ q.code \in Codes'
      BY <1>1, <1>3, TokenKinds
         DEF AccessTokenReceived, Request, FlowRequest, UserRequest, Codes
    <2>2. CASE state = "WaitingForUser"
      <3>1. Validations = {} /\ busy = TRUE /\ login = "open"
        BY <1>3, <2>2 DEF AccessTokenReceived, OneSignInAtATime, TypeOK
      <3>2. /\ Validations' # {} /\ \A x, y \in Validations' : x = y
            /\ \A x \in Validations' : x.token = q.code
        BY <1>3, <2>1, <2>2, <3>1, SendValidation DEF AccessTokenReceived, Validate, Tokens
      <3>3. /\ state' = "Idle" /\ waiting' = FALSE /\ UNCHANGED <<busy, login>>
            /\ token' = q.code /\ tokenIsOAuth' = TRUE
        BY <1>3, <2>2 DEF AccessTokenReceived, ResetFlow, Validate
      <3> QED
        BY <2>1, <3>1, <3>2, <3>3
           DEF OneSignInAtATime, ShownCodeIsPolled, ReturnsVerifiedToken,
               ValidatesHeldToken, FlowStarted, WaitingIsFlow
    <2>3. CASE state # "WaitingForUser"
      <3>1. Validations' = Validations
        BY <1>3, <2>3, TakeValidations DEF AccessTokenReceived
      <3>2. UNCHANGED <<login, state, busy, token, tokenIsOAuth, verified, deviceCode,
                        shown, flows, waiting>>
        BY <1>3, <2>3 DEF AccessTokenReceived, flowVars, tokVars
      <3> QED
        BY <3>1, <3>2
           DEF OneSignInAtATime, ShownCodeIsPolled, ReturnsVerifiedToken,
               ValidatesHeldToken, FlowStarted, WaitingIsFlow, Codes
    <2> QED
      BY <2>2, <2>3
  <1>4. CASE PollAgain(q)
    <2>1. Validations' = Validations
      BY <1>4, TakeValidations DEF PollAgain
    <2>2. UNCHANGED <<login, state, busy, token, tokenIsOAuth, verified, deviceCode,
                      shown, flows, waiting>>
      BY <1>4 DEF PollAgain, flowVars, uiVars, tokVars
    <2> QED
      BY <2>1, <2>2
         DEF OneSignInAtATime, ShownCodeIsPolled, ReturnsVerifiedToken,
             ValidatesHeldToken, FlowStarted, WaitingIsFlow, Codes
  <1>5. CASE OauthError(q)
    <2>1. Validations' = Validations /\ login = "open"
      BY <1>5, TakeValidations DEF OauthError
    <2>2. UNCHANGED <<login, token, tokenIsOAuth, verified, shown, flows>>
      BY <1>5 DEF OauthError, tokVars
    <2>3. CASE state # "Idle"
      <3>1. Validations = {} /\ state' = "Idle" /\ busy' = FALSE /\ waiting' = FALSE
        BY <1>5, <2>1, <2>3 DEF OauthError, FailFlow, ResetFlow, OneSignInAtATime
      <3> QED
        BY <2>1, <2>2, <3>1
           DEF OneSignInAtATime, ShownCodeIsPolled, ReturnsVerifiedToken,
               ValidatesHeldToken, FlowStarted, WaitingIsFlow
    <2>4. CASE state = "Idle"
      <3>1. UNCHANGED <<state, deviceCode, busy, waiting>>
        BY <1>5, <2>4 DEF OauthError, flowVars
      <3> QED
        BY <2>1, <2>2, <3>1
           DEF OneSignInAtATime, ShownCodeIsPolled, ReturnsVerifiedToken,
               ValidatesHeldToken, FlowStarted, WaitingIsFlow, Codes
    <2> QED
      BY <2>3, <2>4
  <1>6. CASE Authenticated(q)
    <2>1. q \in Validations /\ login = "open"
      BY <1>6 DEF Authenticated, Validations
    <2>2. q.token = token /\ token # NoToken /\ (tokenIsOAuth <=> token \in Codes)
      BY <2>1 DEF ValidatesHeldToken
    <2>3. state = "Idle"
      BY <2>1 DEF OneSignInAtATime
    <2>4. /\ UNCHANGED <<state, token, tokenIsOAuth, flows, waiting>>
          /\ verified' = q.token /\ login' = "accepted"
      BY <1>6 DEF Authenticated, flowVars
    <2> QED
      BY <2>2, <2>3, <2>4
         DEF OneSignInAtATime, ShownCodeIsPolled, ReturnsVerifiedToken,
             ValidatesHeldToken, FlowStarted, WaitingIsFlow, Codes
  <1>7. CASE AuthFailed(q)
    <2>1. q \in Validations /\ login = "open" /\ q.kind = "user"
      BY <1>7 DEF AuthFailed, Validations
    <2>2. state = "Idle" /\ Validations' = {}
      BY <1>7, <2>1, TakeValidations DEF OneSignInAtATime, AuthFailed
    <2>3. UNCHANGED <<state, login, flows, waiting>> /\ busy' = FALSE
      BY <1>7 DEF AuthFailed, flowVars
    <2> QED
      BY <2>1, <2>2, <2>3
         DEF OneSignInAtATime, ShownCodeIsPolled, ReturnsVerifiedToken,
             ValidatesHeldToken, FlowStarted, WaitingIsFlow
  <1> QED
    BY <1>2, <1>3, <1>4, <1>5, <1>6, <1>7

LEMMA TimerSafe == ASSUME TypeOK, Safe, Tick \/ TimePasses PROVE Safe'
  <1> USE DEF Safe
  <1>1. CASE Tick /\ expired
    <2>1. Validations' = Validations /\ Validations = {} /\ login = "open"
      BY <1>1 DEF Tick, netVars, Validations, OneSignInAtATime
    <2>2. state' = "Idle" /\ busy' = FALSE /\ waiting' = FALSE /\ UNCHANGED <<login, flows>>
      BY <1>1 DEF Tick, FailFlow, ResetFlow
    <2> QED
      BY <2>1, <2>2
         DEF OneSignInAtATime, ShownCodeIsPolled, ReturnsVerifiedToken,
             ValidatesHeldToken, FlowStarted, WaitingIsFlow
  <1>2. CASE Tick /\ ~expired
    <2>1. Validations' = Validations
      BY <1>2, SendOther DEF Tick
    <2>2. UNCHANGED <<login, state, busy, token, tokenIsOAuth, verified, deviceCode,
                      shown, flows, waiting>>
      BY <1>2 DEF Tick, flowVars, tokVars
    <2> QED
      BY <2>1, <2>2
         DEF OneSignInAtATime, ShownCodeIsPolled, ReturnsVerifiedToken,
             ValidatesHeldToken, FlowStarted, WaitingIsFlow, Codes
  <1>3. CASE TimePasses
    <2>1. /\ Validations' = Validations
          /\ UNCHANGED <<login, state, busy, token, tokenIsOAuth, verified, deviceCode,
                         shown, flows, waiting>>
      BY <1>3 DEF TimePasses, netVars, uiVars, tokVars, Validations
    <2> QED
      BY <2>1
         DEF OneSignInAtATime, ShownCodeIsPolled, ReturnsVerifiedToken,
             ValidatesHeldToken, FlowStarted, WaitingIsFlow, Codes
  <1> QED
    BY <1>1, <1>2, <1>3

LEMMA StutterInv == ASSUME IInv, UNCHANGED vars PROVE IInv'
  BY DEF IInv, Safe, TypeOK, OneSignInAtATime, ShownCodeIsPolled, ReturnsVerifiedToken,
         ValidatesHeldToken, FlowStarted, WaitingIsFlow, Validations, Codes, Request,
         vars, flowVars, netVars, uiVars, tokVars

LEMMA InductiveInvariant == Spec => []IInv
  <1>1. IInv /\ [Next]_vars => IInv'
    <2> SUFFICES ASSUME IInv, [Next]_vars PROVE IInv'
      OBVIOUS
    <2>1. CASE User
      BY <2>1, UserType, UserSafe DEF IInv
    <2>2. CASE Network
      BY <2>2, NetworkType, NetworkSafe DEF IInv
    <2>3. CASE Reply
      BY <2>3, ReplyType, ReplySafe DEF IInv
    <2>4. CASE Tick \/ TimePasses
      BY <2>4, TimerType, TimerSafe DEF IInv
    <2>5. CASE UNCHANGED vars
      BY <2>5, StutterInv
    <2> QED
      BY <2>1, <2>2, <2>3, <2>4, <2>5 DEF Next
  <1> QED
    BY <1>1, InitInv, PTL DEF Spec
-----------------------------------------------------------------------------
\* The login dialog is busy exactly while one sign-in is under way, and a device
\* flow and the validation of a token never overlap.
THEOREM SignInsDoNotOverlap == Spec => []OneSignInAtATime
  <1>1. IInv => OneSignInAtATime
    BY DEF IInv, Safe
  <1> QED
    BY <1>1, InductiveInvariant, PTL

\* A dialog that ends in a sign-in returns the token GitHub confirmed, with its
\* kind.
THEOREM OnlyVerifiedTokens == Spec => []ReturnsVerifiedToken
  <1>1. IInv => ReturnsVerifiedToken
    BY DEF IInv, Safe
  <1> QED
    BY <1>1, InductiveInvariant, PTL

\* While the flow waits for the user, the code on display is the one polled.
THEOREM PolledCodeIsShown == Spec => []ShownCodeIsPolled
  <1>1. IInv => ShownCodeIsPolled
    BY DEF IInv, Safe
  <1> QED
    BY <1>1, InductiveInvariant, PTL
-----------------------------------------------------------------------------
(***************************************************************************)
(* Watch.                                                                  *)
(***************************************************************************)
LEMMA WatchAsks ==
    ASSUME Watcher!WatchAssumption, NEW s \in Seq(Watcher!Reading)
    PROVE  Append(s, Watcher!Asked) \in Seq(Watcher!Reading)
  <1>1. 0 \in 0..MaxVersion
    BY DEF Watcher!WatchAssumption
  <1>2. Watcher!Asked \in Watcher!Reading
    BY <1>1 DEF Watcher!Asked, Watcher!Reading
  <1> QED
    BY <1>2

LEMMA WatchInit == ASSUME Watcher!WatchAssumption, Watcher!Init PROVE Watcher!TypeOK
  <1>1. wDisk \in 1..MaxVersion /\ wView \in 0..MaxVersion
    BY DEF Watcher!Init, Watcher!WatchAssumption
  <1>2. wReads \in Seq(Watcher!Reading)
    BY DEF Watcher!Init
  <1>3. wExists \subseteq Watcher!Spots /\ wWatched \subseteq wExists /\ wKnown \subseteq wExists
    BY DEF Watcher!Init, Watcher!Spots, Watcher!Root, Watcher!Files
  <1>4. wQueued \in BOOLEAN /\ wTimer \in BOOLEAN /\ wMissed \in BOOLEAN
    BY DEF Watcher!Init
  <1> QED
    BY <1>1, <1>2, <1>3, <1>4 DEF Watcher!TypeOK

LEMMA WatchNext ==
    ASSUME Watcher!WatchAssumption, Watcher!TypeOK, [Watcher!Next]_Watcher!vars
    PROVE  Watcher!TypeOK'
  <1> USE DEF Watcher!TypeOK
  <1>1. Append(wReads, Watcher!Asked) \in Seq(Watcher!Reading)
    BY WatchAsks
  <1>2. 0 \in 0..MaxVersion
    BY DEF Watcher!WatchAssumption
  <1>3. CASE UNCHANGED Watcher!vars
    BY <1>3 DEF Watcher!vars
  <1>4. ASSUME NEW change \in {"entry", "init", "add", "switch", "inside"}, Watcher!Change(change)
        PROVE  Watcher!TypeOK'
    <2>1. Watcher!Touches(change) \subseteq Watcher!Spots
      BY DEF Watcher!Touches, Watcher!Spots, Watcher!Root, Watcher!Files
    <2>2. wDisk' \in 1..MaxVersion
      BY <1>4 DEF Watcher!Change, Watcher!WatchAssumption
    <2>3. wQueued' \in BOOLEAN /\ wMissed' \in BOOLEAN
      BY <1>4 DEF Watcher!Change
    <2> QED
      BY <1>4, <2>1, <2>2, <2>3 DEF Watcher!Change
  <1>5. CASE Watcher!onWatchedPathChanged
    BY <1>5 DEF Watcher!onWatchedPathChanged
  <1>6. CASE Watcher!onAutoRefreshTimeout
    BY <1>1, <1>6 DEF Watcher!onAutoRefreshTimeout, Watcher!setupWatcher
  <1>7. CASE Watcher!onRefreshRequested
    BY <1>1, <1>7 DEF Watcher!onRefreshRequested
  <1>8. CASE Watcher!Open
    BY <1>1, <1>8, <1>2 DEF Watcher!Open, Watcher!setupWatcher
  <1>9. CASE Watcher!Read
    <2>1. [ver |-> wDisk, repo |-> Watcher!IsRepository] \in Watcher!Reading
      BY DEF Watcher!Reading, Watcher!IsRepository
    <2>2. wReads' \in Seq(Watcher!Reading)
      BY <1>9, <2>1 DEF Watcher!Read
    <2> QED
      BY <1>9, <2>2 DEF Watcher!Read
  <1>10. CASE Watcher!setLocalState
    <2>1. PICK i \in DOMAIN wReads :
             /\ wReads' = Watcher!RemoveAt(wReads, i) /\ wView' = wReads[i].ver
             /\ IF wReads[i].repo THEN Watcher!setupWatcher ELSE UNCHANGED <<wWatched, wKnown, wQueued>>
             /\ wMissed' = (wMissed \/ (wReads[i].repo /\ wQueued) \/ wReads[i].ver < wView)
             /\ UNCHANGED <<wDisk, wExists, wTimer>>
      BY <1>10 DEF Watcher!setLocalState
    <2>2. i \in 1..Len(wReads) /\ wReads[i] \in Watcher!Reading
      OBVIOUS
    <2>3. wView' \in 0..MaxVersion
      BY <2>1, <2>2 DEF Watcher!Reading
    <2>4. wReads' \in Seq(Watcher!Reading)
      <3>1. /\ SubSeq(wReads, 1, i - 1) \in Seq(Watcher!Reading)
            /\ SubSeq(wReads, i + 1, Len(wReads)) \in Seq(Watcher!Reading)
        BY <2>2
      <3> QED
        BY <2>1, <3>1 DEF Watcher!RemoveAt
    <2>5. wMissed' \in BOOLEAN
      BY <2>1
    <2>6. wQueued' \in BOOLEAN /\ wWatched' \subseteq wExists' /\ wKnown' \subseteq wExists'
      BY <2>1 DEF Watcher!setupWatcher
    <2> QED
      BY <2>1, <2>3, <2>4, <2>5, <2>6
  <1> QED
    BY <1>3, <1>4, <1>5, <1>6, <1>7, <1>8, <1>9, <1>10 DEF Watcher!Next
-----------------------------------------------------------------------------
(***************************************************************************)
(* All of them.  Each moves as its specification says, or stands still.    *)
(***************************************************************************)
backgroundVars == <<moving, vars, approvalVars, watchVars, publishVars>>

LEMMA BackgroundMoves ==
    ASSUME [BackgroundNext]_backgroundVars
    PROVE  [Next]_vars /\ [Servers!Next]_Servers!vars /\ [Watcher!Next]_Watcher!vars
  <1>1. approvalVars' = approvalVars => Servers!vars' = Servers!vars
    BY DEF approvalVars, Servers!vars
  <1>2. watchVars' = watchVars => Watcher!vars' = Watcher!vars
    BY DEF watchVars, Watcher!vars
  <1>3. CASE UNCHANGED backgroundVars
    BY <1>1, <1>2, <1>3 DEF backgroundVars
  <1>4. CASE BackgroundNext
    BY <1>1, <1>2, <1>4 DEF BackgroundNext
  <1> QED
    BY <1>3, <1>4

LEMMA BackgroundSpecs ==
    BackgroundSpec => Spec /\ Servers!Spec /\ []Watcher!TypeOK
  <1>1. BackgroundInit => Init /\ Servers!Init /\ Watcher!TypeOK
    BY WatchInit, WatcherAssumption DEF BackgroundInit
  <1>2. [BackgroundNext]_backgroundVars => [Next]_vars /\ [Servers!Next]_Servers!vars
    BY BackgroundMoves
  <1>3. Watcher!TypeOK /\ [BackgroundNext]_backgroundVars => Watcher!TypeOK'
    BY BackgroundMoves, WatchNext, WatcherAssumption
  <1> QED
    BY <1>1, <1>2, <1>3, PTL DEF BackgroundSpec, backgroundVars, Spec, Servers!Spec

\* The variables of SignIn, Approval and Watch stay in their ranges; the watcher
\* never has a path that does not exist.
THEOREM BackgroundTypes == BackgroundSpec => []AllTypesOK
  <1>1. Spec => []TypeOK
    <2>1. IInv => TypeOK
      BY DEF IInv
    <2> QED
      BY <2>1, InductiveInvariant, PTL
  <1>2. Servers!Spec => []Servers!TypeOK
    BY ServersAssumption, Servers!TypesHold
  <1>3. TypeOK /\ Servers!TypeOK /\ Watcher!TypeOK => AllTypesOK
    BY DEF AllTypesOK
  <1> QED
    BY <1>1, <1>2, <1>3, BackgroundSpecs, PTL

\* A thread that waits for an answer about a server has somebody who will give it.
THEOREM BackgroundWaits == BackgroundSpec => []BlockedIsHeard
  <1>1. Servers!Spec => []Servers!BlockedIsHeard
    BY ServersAssumption, Servers!WaitingIsHeard
  <1>2. Servers!BlockedIsHeard => BlockedIsHeard
    BY DEF BlockedIsHeard
  <1> QED
    BY <1>1, <1>2, BackgroundSpecs, PTL

\* No operation and no request goes on with a server nobody approved.
THEOREM BackgroundProceeds == BackgroundSpec => ProceedsIfApproved
  <1>1. Servers!Spec => Servers!ProceedsIfApproved
    BY ServersAssumption, Servers!OnlyApprovedProceed
  <1> QED
    BY <1>1, BackgroundSpecs, PTL DEF ProceedsIfApproved
=============================================================================
