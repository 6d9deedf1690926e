SPECIFICATION PublishSpec
CONSTANTS
    Folders = {f1}
    Repos = {r1, r2}
    NoFolder = NoFolder
    NoRepo = NoRepo
    MaxStarts = 2
    MaxUserOps = 2
    MaxJobs = 2
    MaxFolder = 3
INVARIANTS TemplateIsOffered
CHECK_DEADLOCK FALSE
