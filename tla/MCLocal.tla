------------------------------ MODULE MCLocal ------------------------------
(***************************************************************************)
(* Small instances of the panel of a local folder: Workspace (its state),  *)
(* History (its list of commits) and Badges (their signatures).  History   *)
(* has a line of four commits in one folder, which two pages of two just   *)
(* exhaust, and one commit in another; Badges three commits in pages of    *)
(* two, the oldest of which a second folder shares.  Their variables are   *)
(* disjoint, so as in MCPanels one moves and the others stand still.       *)
(***************************************************************************)
EXTENDS Workspace, TLC

CONSTANTS
    Opened,                                          \* of History and Badges
    Commits, Parents, Folder, PageSize, MaxLoads,    \* of History
    Listed, LogOf, Worlds, Filters, Tall, MaxChecks, \* of Badges
    here, there                                      \* of the small instances

MCCommits == 1..5
MCParents == [c \in MCCommits |-> IF c \in {1, 5} THEN {} ELSE {c - 1}]
MCFolder  == [c \in MCCommits |-> IF c = 5 THEN there ELSE here]

MCListed  == 1..3
MCLogOf   == [f \in {here, there} |-> IF f = here THEN <<1, 2, 3>> ELSE <<3>>]
MCKeys    == {"absent", "untrusted", "trusted", "outdated"}
MCWorlds  == ({<<"gpg", "none", "ssh">>} \X MCKeys)
             \cup {<<<<"gpgAltered", "none", "sshAltered">>, "trusted">>}
MCFilters == {1..3, 2..3}

VARIABLES
    moving,
    hHead, hShown, hPath, hRepo, hTab, hLoaded, hRows, hMore, hOldest, hLoading,
    hJobs, hCrossed, hLost,
    bPath, bRows, bFilter, bTop, bHeight, bDebounce, bCache, bJobs, bSignature,
    bKeys, bUnsure, bGrown

historyVars == <<hHead, hShown, hPath, hRepo, hTab, hLoaded, hRows, hMore, hOldest,
                 hLoading, hJobs, hCrossed, hLost>>
badgesVars == <<bPath, bRows, bFilter, bTop, bHeight, bDebounce, bCache, bJobs,
                bSignature, bKeys, bUnsure, bGrown>>

Pages == INSTANCE History WITH
    Paths <- Opened, MaxJobs <- MaxLoads, head <- hHead, shown <- hShown, path <- hPath, repo <- hRepo,
    tab <- hTab, loaded <- hLoaded, rows <- hRows, more <- hMore, oldest <- hOldest,
    loading <- hLoading, jobs <- hJobs, crossed <- hCrossed, lost <- hLost

Signatures == INSTANCE Badges WITH
    Folders <- Opened, Commits <- Listed, Log <- LogOf, MaxJobs <- MaxChecks, path <- bPath, rows <- bRows,
    filter <- bFilter, top <- bTop, height <- bHeight, debounce <- bDebounce,
    cache <- bCache, jobs <- bJobs, signature <- bSignature, keys <- bKeys,
    unsure <- bUnsure, grown <- bGrown

ASSUME PagesAssumption == Pages!HistoryAssumption
ASSUME SignaturesAssumption == Signatures!BadgesAssumption

LocalInit ==
    /\ moving \in {"workspace", "history", "badges"}
    /\ Init /\ Pages!Init /\ Signatures!Init
    /\ moving # "history" => hHead = [p \in Opened |-> None]
    /\ moving # "badges" => bPath = here /\ bKeys = "absent"

LocalNext ==
    /\ UNCHANGED moving
    /\ \/ moving = "workspace" /\ Next /\ UNCHANGED <<historyVars, badgesVars>>
       \/ moving = "history" /\ Pages!Next /\ UNCHANGED <<vars, badgesVars>>
       \/ moving = "badges" /\ Signatures!Next /\ UNCHANGED <<vars, historyVars>>

LocalSpec == LocalInit /\ [][LocalNext]_<<moving, vars, historyVars, badgesVars>>

PathSymmetry == Permutations(Paths)
-----------------------------------------------------------------------------
\* The variables of all components stay in their ranges.
AllTypesOK == TypeOK /\ Pages!TypeOK /\ Signatures!TypeOK

\* Workspace, History: the state and the commits shown are those of the folder
\* on screen, however late those of another arrive.
ShownIsOfFolder == ViewOfShown /\ Pages!RowsOfFolder

(***************************************************************************)
(* History, Badges: what the list promises is on its way: behind a last    *)
(* row that was clicked a page, behind a badge still pending in the        *)
(* viewport a verification; and a last row that offers more is heard       *)
(* (appendLoadMoreSentinel, dispatchVerifyForVisibleRows).                 *)
(***************************************************************************)
RowsAreAwaited == Pages!LastRowWorks /\ Signatures!PendingIsAwaited

(***************************************************************************)
(* History, Badges: pages follow one another without a gap, to the end of  *)
(* the history, and each row's badge is what its signature and the key     *)
(* deserve (appendHistory, setSignatureVerifyResult).                      *)
(***************************************************************************)
RowsAreTrue == Pages!PagesJoin /\ Signatures!BadgeIsTrue
=============================================================================
