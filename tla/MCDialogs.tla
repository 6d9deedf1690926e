----------------------------- MODULE MCDialogs ------------------------------
(***************************************************************************)
(* Small instances of what acts on a list read from the repository: Stash, *)
(* Reflog, Tags, Submodules, and Branches with HEAD and the index.  Their  *)
(* variables are disjoint, so as in MCPanels one moves and the others      *)
(* stand still.                                                            *)
(***************************************************************************)
EXTENDS Stash, TLC

CONSTANTS
    Clones, Commits, Root, MaxCount, MaxLog,           \* of Reflog
    Trees, Names, MaxTagged,                           \* of Tags
    Subs,                                              \* of Submodules
    Heads, Main, Edits, Theirs, MaxLength              \* of Branches

VARIABLES
    moving,
    rFolder, rHead, rLog, rObjects, rParent, rJobs, rShown, rRows, rRow, rUsable,
    rRestore, rAsking, rChosen,
    tFolder, tHead, tTags, tJobs, tOpen, tList, tCurrent, tTyped, tError,
    tCanCreate, tBusy, tAsking, tWarnings, tLapsed, tDeserted,
    mFolder, mHas, mJobs, mRows, mWarnings, mLapsed,
    bBranch, bHead, bIndex, bGithub, bJobs, bCrossed, bStaged, bPulled

reflogVars == <<rFolder, rHead, rLog, rObjects, rParent, rJobs, rShown, rRows, rRow,
                rUsable, rRestore, rAsking, rChosen>>
tagsVars == <<tFolder, tHead, tTags, tJobs, tOpen, tList, tCurrent, tTyped, tError,
              tCanCreate, tBusy, tAsking, tWarnings, tLapsed, tDeserted>>
modulesVars == <<mFolder, mHas, mJobs, mRows, mWarnings, mLapsed>>
branchesVars == <<bBranch, bHead, bIndex, bGithub, bJobs, bCrossed, bStaged, bPulled>>

Moves == INSTANCE Reflog WITH
    Folders <- Clones, folder <- rFolder, head <- rHead, log <- rLog,
    objects <- rObjects, parent <- rParent, jobs <- rJobs, shown <- rShown,
    rows <- rRows, row <- rRow, usable <- rUsable, restore <- rRestore,
    asking <- rAsking, chosen <- rChosen

Labels == INSTANCE Tags WITH
    Folders <- Trees, MaxCommits <- MaxTagged, folder <- tFolder, head <- tHead,
    tags <- tTags, jobs <- tJobs, open <- tOpen, list <- tList,
    current <- tCurrent, typed <- tTyped, error <- tError,
    canCreate <- tCanCreate, busy <- tBusy, asking <- tAsking,
    warnings <- tWarnings, lapsed <- tLapsed, deserted <- tDeserted

Nested == INSTANCE Submodules WITH
    Folders <- Clones, folder <- mFolder, has <- mHas, jobs <- mJobs,
    rows <- mRows, warnings <- mWarnings, lapsed <- mLapsed

Refs == INSTANCE Branches WITH
    Names <- Heads, branch <- bBranch, head <- bHead, index <- bIndex,
    github <- bGithub, jobs <- bJobs, crossed <- bCrossed, staged <- bStaged,
    pulled <- bPulled

ASSUME MovesAssumption == Moves!ReflogAssumption
ASSUME LabelsAssumption == Labels!TagsAssumption
ASSUME NestedAssumption == Nested!SubmodulesAssumption
ASSUME RefsAssumption == Refs!BranchesAssumption

DialogsInit ==
    /\ moving \in {"stash", "reflog", "tags", "submodules", "branches"}
    /\ Init /\ Moves!Init /\ Labels!Init /\ Nested!Init /\ Refs!Init
    /\ moving # "submodules" => \A f \in Clones, s \in Subs : mHas[f][s] = {}
    /\ moving # "branches" => bBranch[Main] # <<>>

DialogsNext ==
    /\ UNCHANGED moving
    /\ moving # "stash" => UNCHANGED vars
    /\ moving # "reflog" => UNCHANGED reflogVars
    /\ moving # "tags" => UNCHANGED tagsVars
    /\ moving # "submodules" => UNCHANGED modulesVars
    /\ moving # "branches" => UNCHANGED branchesVars
    /\ \/ moving = "stash" /\ Next
       \/ moving = "reflog" /\ Moves!Next
       \/ moving = "tags" /\ Labels!Next
       \/ moving = "submodules" /\ Nested!Next
       \/ moving = "branches" /\ Refs!Next

DialogsSpec ==
    DialogsInit
    /\ [][DialogsNext]_<<moving, vars, reflogVars, tagsVars, modulesVars, branchesVars>>

Symmetry == Permutations(Stashes) \cup Permutations(Folders) \cup Permutations(Clones)
            \cup Permutations(Commits \ {Root}) \cup Permutations(Trees)
-----------------------------------------------------------------------------
\* The variables of all components stay in their ranges.
AllTypesOK == TypeOK /\ Moves!TypeOK /\ Labels!TypeOK /\ Nested!TypeOK /\ Refs!TypeOK

(***************************************************************************)
(* Stash, Tags, Submodules: the list the user is left with is the one in   *)
(* the repository, unless its last reading failed or was overtaken; and    *)
(* the tags dialog is busy while one creation or deletion runs, and no     *)
(* longer (onStashesReady, onTagsReady, setSubmodules).                    *)
(***************************************************************************)
ListsAreRead ==
    ListIsStack /\ Labels!ListIsRead /\ Labels!BusyIsRunning /\ Nested!RowsAreRead

\* Submodules: an operation that reports success left the submodule whole.
SuccessIsWhole == Nested!SuccessIsWhole

(***************************************************************************)
(* Stash, Reflog, Tags, Branches: a stash that goes and a commit that is   *)
(* restored are those the user chose, a commit that is not signed follows  *)
(* what is HEAD when it is made, no tag is moved to another commit, and no *)
(* commit is taken off the branches (onStashDropRequested,                 *)
(* onReflogRestoreRequested, commit, createTag, deleteBranch).             *)
(***************************************************************************)
NothingLostUnchosen ==
    /\ GoneWasChosen /\ Moves!RestoredWasChosen /\ Moves!CommitFollowsHead
    /\ Labels!TagsStay /\ Refs!CommitsKept

\* Branches: HEAD is on a branch, and the index holds its tree and what was staged.
HeadStands == Refs!HeadStands

\* Branches: what the README says of a pull, and the code does not do.
PulledIsCheckedOut == Refs!PulledIsCheckedOut
=============================================================================
