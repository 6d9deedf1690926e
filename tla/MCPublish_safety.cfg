SPECIFICATION PublishSpec
CONSTANTS
    Folders = {f1}
    Repos = {r1, r2}
    NoFolder = NoFolder
    NoRepo = NoRepo
    MaxStarts = 2
    MaxUserOps = 2
    MaxJobs = 2
    MaxFolder = 4
INVARIANTS FlowConsistent NoPushWithoutConsent CleanSuccessIsTrue InputsAreUsable
SYMMETRY RepoSymmetry
PROPERTIES DeadFlowsSubmitNothing KeepsPromise
\* The bounds on starts and user operations are used up, and the dialog
\* closes.
CHECK_DEADLOCK FALSE
