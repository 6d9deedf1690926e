------------------------------ MODULE MCPanels ------------------------------
(***************************************************************************)
(* Small instances of the sidebar and of the panels beside it that show    *)
(* answers to requests: Clones (the sidebar and the clones), CloneView     *)
(* (the clone controls of a repository on GitHub), Preview (its tabs),     *)
(* Changes (the changed files of a local folder) and CommitDetails (what   *)
(* its commits changed).  Their variables are disjoint, so a behaviour of  *)
(* all is a shuffle of one of each, and what is said of one holds of every *)
(* shuffle if it holds while the others stand still: moving says which of  *)
(* them moves.                                                             *)
(***************************************************************************)
EXTENDS Clones, TLC

CONSTANTS
    Branches, MaxMoves,   \* of CloneView
    Previewed, NoReadme, EmptyReadme,   \* of Preview
    Opened, here, MaxRequests,          \* of Changes and CommitDetails
    Files, MaxEdits,                    \* of Changes
    MaxRows                             \* of CommitDetails

VARIABLES
    moving,
    vCloned, vRow, vRepo, vLocal, vPage, vActive, vHead, vCombo, vStatus, vJobs, vMixed,
    pRepo, pReadme, pFiles, pLanguages, pCache, pAsked, pLost,
    cFolder, cEdition, cIsRepository, cList, cListEdition, cSelected, cPath, cView,
    cJobs,
    dFolder, dRows, dOffer, dLoading, dPicked, dFocus, dSha, dFiles, dView, dJobs

View == INSTANCE CloneView WITH
    cloned <- vCloned, row <- vRow, repo <- vRepo, local <- vLocal, page <- vPage,
    active <- vActive, head <- vHead, combo <- vCombo, status <- vStatus,
    jobs <- vJobs, mixed <- vMixed

Tabs == INSTANCE Preview WITH
    Repos <- Previewed, repo <- pRepo, readme <- pReadme, files <- pFiles,
    languages <- pLanguages, cache <- pCache, asked <- pAsked, lost <- pLost

Diffs == INSTANCE Changes WITH
    Folders <- Opened, MaxJobs <- MaxRequests, folder <- cFolder,
    edition <- cEdition, isRepository <- cIsRepository, list <- cList,
    listEdition <- cListEdition, selected <- cSelected,
    currentDiffPath <- cPath, view <- cView, jobs <- cJobs

Details == INSTANCE CommitDetails WITH
    Folders <- Opened, MaxJobs <- MaxRequests, folder <- dFolder, rows <- dRows,
    offer <- dOffer, isLoadingMore <- dLoading, picked <- dPicked, focus <- dFocus,
    currentCommitSha <- dSha, files <- dFiles, view <- dView, jobs <- dJobs

ASSUME ViewAssumption == View!ViewAssumption
ASSUME TabsAssumption == Tabs!TabsAssumption
ASSUME DiffsAssumption == Diffs!ChangesAssumption
ASSUME DetailsAssumption == Details!CommitDetailsAssumption
ASSUME OpenedAssumption == here \in Opened

viewVars == <<vCloned, vRow, vRepo, vLocal, vPage, vActive, vHead, vCombo, vStatus,
              vJobs, vMixed>>
tabsVars == <<pRepo, pReadme, pFiles, pLanguages, pCache, pAsked, pLost>>
changesVars == <<cFolder, cEdition, cIsRepository, cList, cListEdition, cSelected,
                 cPath, cView, cJobs>>
detailsVars == <<dFolder, dRows, dOffer, dLoading, dPicked, dFocus, dSha, dFiles,
                 dView, dJobs>>

Still(m) ==
    /\ moving = m /\ moving' = m
    /\ m # "clones"  => UNCHANGED vars
    /\ m # "view"    => UNCHANGED viewVars
    /\ m # "tabs"    => UNCHANGED tabsVars
    /\ m # "changes" => UNCHANGED changesVars
    /\ m # "details" => UNCHANGED detailsVars

PanelsInit ==
    /\ moving \in {"clones", "view", "tabs", "changes", "details"}
    /\ Init /\ View!Init /\ Tabs!Init /\ Diffs!Init /\ Details!Init
    \* Who stands still does so in one state, and who starts here might there.
    /\ moving # "clones" => hosted = {} /\ disk = [p \in Paths |-> "absent"]
    /\ moving # "view" => vCloned = {} /\ \E b \in Branches : vHead = [r \in Repos |-> b]
    /\ cFolder = here /\ dFolder = here

PanelsNext ==
    \/ Still("clones") /\ Next
    \/ Still("view") /\ View!Next
    \/ Still("tabs") /\ Tabs!Next
    \/ Still("changes") /\ Diffs!Next
    \/ Still("details") /\ Details!Next

PanelsSpec ==
    PanelsInit
    /\ [][PanelsNext]_<<moving, vars, viewVars, tabsVars, changesVars, detailsVars>>

RowSymmetry == Permutations(Repos) \cup Permutations(Paths) \cup Permutations(Branches)
-----------------------------------------------------------------------------
\* The variables of all components stay in their ranges.
AllTypesOK ==
    TypeOK /\ View!TypeOK /\ Tabs!TypeOK /\ Diffs!TypeOK /\ Details!TypeOK

(***************************************************************************)
(* CloneView: a switch of branches is followed by a reading of the clone   *)
(* (onBranchSwitched).                                                     *)
(***************************************************************************)
SwitchIsRead == View!SwitchIsRead

(***************************************************************************)
(* All but Clones: whatever the user opens and selects while answers are   *)
(* under way, the README and the files shown are those of the repository   *)
(* selected, a diff is that of the file selected and no older than the     *)
(* list above it, and the files of a commit are those of the commits       *)
(* picked; and once no job is in flight the controls of a clone are those  *)
(* of the one selected (setReadme, setFileDiff, setCommitDiff, applyMode). *)
(***************************************************************************)
ShownIsSelected ==
    /\ View!PanelIsOfRow /\ View!QuietPanelIsRight
    /\ Tabs!PreviewOfShown
    /\ Diffs!DiffIsOfSelected /\ Diffs!DiffKeepsUp
    /\ Details!FilesOfPicked

(***************************************************************************)
(* Preview, Changes, CommitDetails: what says "Loading" has its answer     *)
(* under way, with the exceptions stated in these modules (showRepository, *)
(* requestDiffForSelection, onHistorySelectionChanged).                    *)
(***************************************************************************)
LoadingIsAwaited ==
    /\ Tabs!LoadingIsAwaited
    /\ Diffs!LoadingIsAwaited
    /\ Details!LoadingIsAwaited
=============================================================================
