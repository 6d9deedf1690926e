SPECIFICATION LocalSpec
CONSTANTS
    Paths = {p1, p2}
    None = None
    Ops = {"stage", "commit", "branch", "delete", "switch", "remote", "push", "fetch", "stash", "reset"}
    MaxVersion = 2
    MaxJobs = 3
    Opened = {here, there}
    here = here
    there = there
    Commits <- MCCommits
    Parents <- MCParents
    Folder <- MCFolder
    Listed <- MCListed
    LogOf <- MCLogOf
    Worlds <- MCWorlds
    Filters <- MCFilters
    PageSize = 2
    MaxLoads = 2
    Tall = 2
    MaxChecks = 2
SYMMETRY PathSymmetry
INVARIANTS AllTypesOK ShownIsOfFolder ChangesAreShown QuietIsIdle RowsAreAwaited RowsAreTrue
