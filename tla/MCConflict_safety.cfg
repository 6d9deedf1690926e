SPECIFICATION Spec
CONSTANTS
    Folders = {f1, f2}
    NoFolder = NoFolder
    NFiles = 2
    MaxJobs = 3
    MaxLoads = 2
    MaxMerges = 1
SYMMETRY FolderSymmetry
INVARIANTS OneOpAtATime PanesMatchSelection FirstUseIsClean
PROPERTY UndisturbedAllResolvedIsTrue
\* The bound on jobs is used up.
CHECK_DEADLOCK FALSE
