SPECIFICATION Spec
CONSTANTS
    Users = {alice, bob}
    NoUser = NoUser
    MaxPages = 2
    MaxRequests = 1
    MaxLaunches = 1
SYMMETRY UserSymmetry
PROPERTIES AuthErrorMeansRejected
\* The bounds on starts and list requests are used up.
CHECK_DEADLOCK FALSE
