SPECIFICATION PanelsSpec
CONSTANTS
    Repos = {r1, r2}
    Paths = {p1, p2}
    None = None
    Branches = {main, dev}
    MaxMoves = 1
    Previewed = {q1, q2}
    NoReadme = {q2}
    EmptyReadme = {}
    Opened = {here, there}
    here = here
    MaxRequests = 2
    Files = {x, y}
    MaxEdits = 1
    MaxRows = 2
SYMMETRY RowSymmetry
INVARIANTS AllTypesOK ControllerOwnsClone RememberedIsReal  LoadingIsAwaited
PROPERTY SwitchIsRead
