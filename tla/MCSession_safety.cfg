SPECIFICATION Spec
CONSTANTS
    Users = {alice, bob}
    NoUser = NoUser
    MaxPages = 2
    MaxRequests = 3
    MaxLaunches = 2
SYMMETRY UserSymmetry
INVARIANTS NeverStranded SessionSurvivesRestart NoTokenLeftBehind SidebarIsOfSession
\* The bounds on starts and list requests are used up.
CHECK_DEADLOCK FALSE
