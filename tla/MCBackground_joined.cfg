SPECIFICATION BackgroundSpec
CONSTANTS
    Pats = {p1}
    NoToken = NoToken
    MaxFlows = 2
    MaxRequests = 4
    Certs = {k1}
    None = None
    RawKey = FALSE
    MaxVersion = 4
    MaxReads = 2
INVARIANT WorkerIsJoinedFirst
\* The login dialog closes, and the process ends.
CHECK_DEADLOCK FALSE
