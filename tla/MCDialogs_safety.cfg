SPECIFICATION DialogsSpec
CONSTANTS
    Folders = {f1, f2}
    Stashes = {s1, s2}
    None = None
    MaxJobs = 2
    Clones = {g1}
    Commits = {c0, c1, c2}
    Root = c0
    MaxCount = 2
    MaxLog = 3
    Trees = {t1, t2}
    Names = {v1}
    MaxTagged = 2
    Subs = {s}
    Heads = {main, dev}
    Main = main
    Edits = {x}
    Theirs = {y}
    MaxLength = 2
SYMMETRY Symmetry
INVARIANTS AllTypesOK ListsAreRead SuccessIsWhole HeadStands
PROPERTY NothingLostUnchosen
\* Of Branches: nothing is asked for after jobs crossed.
CHECK_DEADLOCK FALSE
