SPECIFICATION FairSpec
CONSTANTS
    Pats = {p1}
    NoToken = NoToken
    MaxFlows = 2
    MaxRequests = 4
    Certs = {k1, k2}
    None = None
    RawKey = FALSE
    MaxVersion = 4
    MaxReads = 2
INVARIANTS AllTypesOK OneSignInAtATime ReturnsVerifiedToken BlockedIsHeard
PROPERTIES WaitingEnds ProceedsIfApproved ClosingEnds ChangesAreSeen EveryFlowEnds
\* The login dialog closes, the process ends, and what bounds the publishes and
\* the user's operations besides is used up.
CHECK_DEADLOCK FALSE
