---------------------------- MODULE PanelsProofs ----------------------------
(***************************************************************************)
(* What MCPanels composes, for all sets of repositories, folders,          *)
(* branches and files and any number of commits and jobs: each component   *)
(* has an inductive invariant, and they hold together because only one     *)
(* component moves.                                                        *)
(***************************************************************************)
EXTENDS MCPanels, Integers, Sequences, FiniteSetTheorems, SequenceTheorems, TLAPS

(***************************************************************************)
(* Clones.  The invariant says how a stage of the clone and the folder it  *)
(* writes go together.                                                     *)
(***************************************************************************)
USE DEF Path, Folder, Stage, Clone, Nothing, NoRows, isBusy

\* A clone that runs is alone in its folder, one that succeeded left a
\* repository there.
StageMatchesDisk ==
    \A c \in clones : /\ c.stage = "running" => disk[c.path] = "partial"
                      /\ c.stage = "ok" => disk[c.path] = "git"

IInv == TypeOK /\ ControllerOwnsClone /\ PanelShowsSelection /\ RememberedIsReal
        /\ StageMatchesDisk

-----------------------------------------------------------------------------
(***************************************************************************)
(* Rows are the functions from repositories to paths.                      *)
(***************************************************************************)
LEMMA RowsMember ==
    ASSUME NEW R \in SUBSET Repos, NEW f \in [R -> Path]
    PROVE  f \in Rows
BY DEF Rows

LEMMA RowsFunction ==
    ASSUME NEW f \in Rows
    PROVE  DOMAIN f \subseteq Repos /\ f \in [DOMAIN f -> Path]
BY DEF Rows

LEMMA NoRowsAreRows == NoRows \in Rows
<1>1. NoRows \in [{} -> Path]
  OBVIOUS
<1> QED BY <1>1, RowsMember

\* Rebuilding the rows keeps the types, and leaves the panel on the selection.
LEMMA RebuildKeeps ==
    ASSUME sel \in DOMAIN list \cup {None}, list \in Rows,
           detail \in [repo : Repos, path : Path] \cup {Nothing},
           NEW rows \in Rows, Rebuild(rows)
    PROVE  /\ list' \in Rows
           /\ sel' \in DOMAIN list' \cup {None}
           /\ detail' \in [repo : Repos, path : Path] \cup {Nothing}
           /\ PanelShowsSelection'
<1>1. DOMAIN rows \subseteq Repos /\ rows \in [DOMAIN rows -> Path]
  BY RowsFunction
<1>2. CASE sel \in DOMAIN rows
  BY <1>1, <1>2 DEF Rebuild, PanelShowsSelection
<1>3. CASE sel \notin DOMAIN rows
  BY <1>3 DEF Rebuild, PanelShowsSelection
<1> QED BY <1>2, <1>3

LEMMA WithPathRows ==
    ASSUME list \in Rows, NEW r, NEW p \in Paths
    PROVE  WithPath(r, p) \in Rows /\ DOMAIN WithPath(r, p) = DOMAIN list
<1>1. DOMAIN list \subseteq Repos /\ list \in [DOMAIN list -> Path]
  BY RowsFunction
<1>2. WithPath(r, p) \in [DOMAIN list -> Path]
  BY <1>1 DEF WithPath
<1> QED BY <1>1, <1>2, RowsMember DEF WithPath

\* Rolling a path back forgets it and nothing else.
LEMMA RollBackKeeps ==
    ASSUME map \in [Repos -> Path], NEW r \in Repos, NEW p \in Paths, RollBack(r, p)
    PROVE  /\ map' \in [Repos -> Path]
           /\ map'[r] # p
           /\ \A x \in Repos : map'[x] # None => map'[x] = map[x]
BY NoneAssumption DEF RollBack
-----------------------------------------------------------------------------
LEMMA InitInv == Init => IInv
<1> SUFFICES ASSUME Init PROVE IInv
  OBVIOUS
<1>1. TypeOK
  BY NoRowsAreRows DEF Init, TypeOK
<1> QED BY <1>1 DEF Init, IInv, ControllerOwnsClone, PanelShowsSelection,
               RememberedIsReal, StageMatchesDisk

(***************************************************************************)
(* The steps of the worker.                                                *)
(***************************************************************************)
LEMMA BeginCloneInv == ASSUME IInv, NEW c \in clones, BeginClone(c) PROVE IInv'
<1> USE DEF IInv, TypeOK
<1>1. clones = {c} /\ c.path = inFlight.path /\ inFlight # Nothing
  BY DEF ControllerOwnsClone
<1>2. inFlight \in Clone /\ c \in [path : Paths, stage : Stage]
  BY <1>1
<1>3. PanelShowsSelection'
  BY DEF BeginClone, window, PanelShowsSelection
<1>4. CASE disk[c.path] = "absent"
  <2> DEFINE d == [path |-> c.path, stage |-> "running"]
  <2>1. clones' = {d} /\ d \in [path : Paths, stage : Stage] /\ d.path = c.path
        /\ d.stage = "running"
    BY <1>1, <1>2, <1>4 DEF BeginClone, Stages
  <2>2. disk' = [disk EXCEPT ![c.path] = "partial"] /\ UNCHANGED inFlight
    BY <1>4 DEF BeginClone
  <2>3. TypeOK'
    BY <1>2, <2>1, <2>2 DEF BeginClone, window
  <2>4. ControllerOwnsClone'
    BY <1>1, <2>1, <2>2 DEF ControllerOwnsClone
  <2>5. StageMatchesDisk'
    BY <1>2, <2>1, <2>2 DEF StageMatchesDisk
  <2>6. RememberedIsReal'
    BY <1>2, <1>4, <2>2 DEF BeginClone, window, RememberedIsReal
  <2> QED BY <1>3, <2>3, <2>4, <2>5, <2>6
<1>5. CASE disk[c.path] # "absent"
  <2> DEFINE d == [path |-> c.path, stage |-> "failed"]
  <2>1. clones' = {d} /\ d \in [path : Paths, stage : Stage] /\ d.path = c.path
        /\ d.stage = "failed"
    BY <1>1, <1>2, <1>5 DEF BeginClone, Stages
  <2>2. UNCHANGED <<disk, inFlight>>
    BY <1>5 DEF BeginClone
  <2>3. TypeOK'
    BY <1>2, <2>1, <2>2 DEF BeginClone, window
  <2>4. ControllerOwnsClone'
    BY <1>1, <2>1, <2>2 DEF ControllerOwnsClone
  <2>5. StageMatchesDisk'
    BY <1>2, <2>1, <2>2 DEF StageMatchesDisk
  <2>6. RememberedIsReal'
    BY <2>2 DEF BeginClone, window, RememberedIsReal
  <2> QED BY <1>3, <2>3, <2>4, <2>5, <2>6
<1> QED BY <1>4, <1>5

LEMMA EndCloneInv == ASSUME IInv, NEW c \in clones, EndClone(c) PROVE IInv'
<1> USE DEF IInv, TypeOK
<1>1. clones = {c} /\ c.path = inFlight.path /\ inFlight # Nothing
  BY DEF ControllerOwnsClone
<1>2. inFlight \in Clone /\ c \in [path : Paths, stage : Stage]
  BY <1>1
<1>3. disk[c.path] = "partial"
  BY DEF EndClone, StageMatchesDisk
<1>4. PICK s \in {"ok", "failed"} :
        /\ clones' = Stages(c, s)
        /\ disk' = [disk EXCEPT ![c.path] = IF s = "ok" THEN "git" ELSE "absent"]
  BY DEF EndClone
<1> DEFINE d == [path |-> c.path, stage |-> s]
<1>5. clones' = {d} /\ d \in [path : Paths, stage : Stage] /\ d.path = c.path
      /\ d.stage = s
  BY <1>1, <1>2, <1>4 DEF Stages
<1>6. UNCHANGED <<inFlight, map, list, sel, detail, shared>>
  BY DEF EndClone, window
<1>7. TypeOK'
  BY <1>2, <1>4, <1>5, <1>6 DEF EndClone, window
<1>8. ControllerOwnsClone'
  BY <1>1, <1>5, <1>6 DEF ControllerOwnsClone
<1>9. PanelShowsSelection'
  BY <1>6 DEF PanelShowsSelection
<1>10. StageMatchesDisk'
  BY <1>2, <1>4, <1>5 DEF StageMatchesDisk
<1>11. RememberedIsReal'
  BY <1>2, <1>3, <1>4, <1>6 DEF RememberedIsReal
<1> QED BY <1>7, <1>8, <1>9, <1>10, <1>11

LEMMA CloneFinishedInv == ASSUME IInv, NEW c \in clones, CloneFinished(c) PROVE IInv'
<1> USE DEF IInv, TypeOK
<1>1. clones = {c} /\ c.path = inFlight.path /\ inFlight # Nothing
  BY DEF ControllerOwnsClone
<1>2. inFlight \in Clone /\ inFlight = [repo |-> inFlight.repo, path |-> c.path]
      /\ c.path \in Paths /\ inFlight.repo \in Repos
  BY <1>1
<1>3. clones' = {} /\ inFlight' = Nothing /\ UNCHANGED <<disk, shared>>
  BY <1>1 DEF CloneFinished
<1>4. ControllerOwnsClone' /\ StageMatchesDisk'
  BY <1>3 DEF ControllerOwnsClone, StageMatchesDisk
<1>5. CASE c.stage = "ok"
  <2>1. Rebuild(WithPath(inFlight.repo, c.path)) /\ UNCHANGED <<map, cache>>
    BY <1>1, <1>5 DEF CloneFinished
  <2>2. WithPath(inFlight.repo, c.path) \in Rows
    BY <1>2, WithPathRows
  <2>3. /\ list' \in Rows /\ sel' \in DOMAIN list' \cup {None}
        /\ detail' \in [repo : Repos, path : Path] \cup {Nothing}
        /\ PanelShowsSelection'
    BY <2>1, <2>2, RebuildKeeps
  <2>4. TypeOK'
    BY <1>3, <2>1, <2>3 DEF CloneFinished
  <2>5. disk[c.path] = "git"
    BY <1>5 DEF StageMatchesDisk
  <2>6. RememberedIsReal'
    BY <1>2, <1>3, <2>1, <2>5 DEF RememberedIsReal
  <2> QED BY <1>4, <2>3, <2>4, <2>6
<1>6. CASE c.stage # "ok"
  <2>1. RollBack(inFlight.repo, c.path) /\ UNCHANGED <<cache, list, sel, detail>>
    BY <1>1, <1>6 DEF CloneFinished
  <2>2. /\ map' \in [Repos -> Path] /\ map'[inFlight.repo] # c.path
        /\ \A x \in Repos : map'[x] # None => map'[x] = map[x]
    BY <1>2, <2>1, RollBackKeeps
  <2>3. TypeOK'
    BY <1>3, <2>1, <2>2 DEF CloneFinished
  <2>4. PanelShowsSelection'
    BY <2>1 DEF PanelShowsSelection
  <2>5. RememberedIsReal'
    BY <1>2, <1>3, <2>2 DEF RememberedIsReal
  <2> QED BY <1>4, <2>3, <2>4, <2>5
<1> QED BY <1>5, <1>6
-----------------------------------------------------------------------------
(***************************************************************************)
(* The steps of the user, of the network and of other programs.            *)
(***************************************************************************)

\* Steps that leave the clone, the map and the disk alone.
LEMMA ShowInv ==
    ASSUME IInv, TypeOK', PanelShowsSelection',
           UNCHANGED <<map, inFlight, clones, disk, shared>>
    PROVE  IInv'
BY DEF IInv, ControllerOwnsClone, RememberedIsReal, StageMatchesDisk

LEMMA SignOutInv == ASSUME IInv, SignIn \/ SignOut PROVE IInv'
<1>1. TypeOK'
  BY NoRowsAreRows DEF IInv, TypeOK, SignIn, SignOut, window, worker
<1>2. PanelShowsSelection'
  BY DEF IInv, PanelShowsSelection, SignIn, SignOut, window
<1> QED BY <1>1, <1>2, ShowInv DEF SignIn, SignOut, window, worker

LEMMA ReposLoadedInv == ASSUME IInv, ReposLoaded PROVE IInv'
<1> USE DEF IInv, TypeOK
<1> DEFINE annotated == [r \in hosted |-> map[r]]
<1>1. annotated \in Rows
  BY RowsMember
<1>2. cache' = annotated /\ Rebuild(annotated)
  BY DEF ReposLoaded
<1>3. /\ list' \in Rows /\ sel' \in DOMAIN list' \cup {None}
      /\ detail' \in [repo : Repos, path : Path] \cup {Nothing}
      /\ PanelShowsSelection'
  BY <1>1, <1>2, RebuildKeeps
<1>4. TypeOK'
  BY <1>1, <1>2, <1>3 DEF ReposLoaded, worker
<1> QED BY <1>3, <1>4, ShowInv DEF ReposLoaded, worker

LEMMA SelectInv ==
    ASSUME IInv, NEW r \in Repos, Select(r) \/ ChangeVisibility(r)
    PROVE  IInv'
<1>1. DOMAIN list \subseteq Repos /\ list \in [DOMAIN list -> Path]
  BY RowsFunction DEF IInv, TypeOK
<1>2. TypeOK'
  BY <1>1 DEF IInv, TypeOK, Select, ChangeVisibility, window, worker
<1>3. PanelShowsSelection'
  BY DEF IInv, PanelShowsSelection, Select, ChangeVisibility, window
<1> QED BY <1>2, <1>3, ShowInv DEF Select, ChangeVisibility, window, worker

LEMMA VisibilityInv ==
    ASSUME IInv, NEW r \in Repos, VisibilityChanged(r) \/ VisibilityFails(r)
    PROVE  IInv'
<1> USE DEF IInv, TypeOK
<1>1. CASE VisibilityChanged(r) /\ r \in DOMAIN cache
  <2>1. Rebuild(cache)
    BY <1>1 DEF VisibilityChanged
  <2>2. /\ list' \in Rows /\ sel' \in DOMAIN list' \cup {None}
        /\ detail' \in [repo : Repos, path : Path] \cup {Nothing}
        /\ PanelShowsSelection'
    BY <2>1, RebuildKeeps
  <2>3. TypeOK'
    BY <1>1, <2>2 DEF VisibilityChanged, worker
  <2> QED BY <1>1, <2>2, <2>3, ShowInv DEF VisibilityChanged, worker
<1>2. CASE UNCHANGED <<list, sel, detail>>
  <2>1. TypeOK'
    BY <1>2 DEF VisibilityChanged, VisibilityFails, window, worker
  <2>2. PanelShowsSelection'
    BY <1>2 DEF PanelShowsSelection
  <2> QED BY <2>1, <2>2, ShowInv DEF VisibilityChanged, VisibilityFails, window, worker
<1> QED BY <1>1, <1>2 DEF VisibilityChanged, VisibilityFails, window

LEMMA RepoCreatedInv ==
    ASSUME IInv, NEW r \in Repos, NEW p \in Paths, RepoCreated(r, p)
    PROVE  IInv'
<1> USE DEF IInv, TypeOK
<1>1. cache' \in Rows /\ \E rows \in Rows : Rebuild(rows)
  <2>1. CASE r \in DOMAIN cache
    BY <2>1, WithPathRows DEF RepoCreated
  <2>2. CASE r \notin DOMAIN cache
    <3>1. DOMAIN cache \subseteq Repos /\ cache \in [DOMAIN cache -> Path]
      BY RowsFunction
    <3>2. cache' \in [DOMAIN cache \cup {r} -> Path] /\ Rebuild(cache')
      BY <2>2, <3>1 DEF RepoCreated
    <3>3. cache' \in Rows
      BY <3>1, <3>2, RowsMember
    <3> QED BY <3>2, <3>3
  <2> QED BY <2>1, <2>2
<1>2. /\ list' \in Rows /\ sel' \in DOMAIN list' \cup {None}
      /\ detail' \in [repo : Repos, path : Path] \cup {Nothing}
      /\ PanelShowsSelection'
  BY <1>1, RebuildKeeps
<1>3. /\ map' = [map EXCEPT ![r] = p] /\ disk[p] = "git" /\ hosted' = hosted \cup {r}
      /\ UNCHANGED <<signedIn, asking, inFlight, clones, disk, shared>>
  BY DEF RepoCreated, worker
<1>4. TypeOK'
  BY <1>1, <1>2, <1>3
<1>5. RememberedIsReal'
  BY <1>3 DEF RememberedIsReal
<1>6. ControllerOwnsClone' /\ StageMatchesDisk'
  BY <1>3 DEF ControllerOwnsClone, StageMatchesDisk
<1> QED BY <1>2, <1>4, <1>5, <1>6

LEMMA StartCloneInv ==
    ASSUME IInv, NEW r \in Repos, NEW p \in Paths, StartClone(r, p)
    PROVE  IInv'
<1> USE DEF IInv, TypeOK
<1> DEFINE c == [path |-> p, stage |-> "queued"]
<1>1. inFlight = Nothing /\ clones = {}
  BY DEF StartClone, ControllerOwnsClone
<1>2. /\ inFlight' = [repo |-> r, path |-> p] /\ clones' = {c}
      /\ map' = [map EXCEPT ![r] = p]
      /\ UNCHANGED <<hosted, signedIn, cache, list, sel, detail, asking, disk, shared>>
  BY <1>1 DEF StartClone
<1>3. TypeOK'
  BY <1>2
<1>4. PanelShowsSelection'
  BY <1>2 DEF PanelShowsSelection
<1>5. ControllerOwnsClone'
  BY <1>2, NoneAssumption DEF ControllerOwnsClone
<1>6. StageMatchesDisk'
  BY <1>2 DEF StageMatchesDisk
<1>7. \A x \in Repos : map[x] # None => inFlight # [repo |-> x, path |-> map[x]]
  BY <1>1, NoneAssumption
<1>8. RememberedIsReal'
  BY <1>2, <1>7 DEF RememberedIsReal
<1> QED BY <1>3, <1>4, <1>5, <1>6, <1>8

LEMMA OpenInv ==
    ASSUME IInv, NEW r \in Repos, NEW p \in Paths, openExisting(r, p)
    PROVE  IInv'
<1> USE DEF IInv, TypeOK
<1>1. list' \in Rows /\ DOMAIN list' = DOMAIN list
  BY WithPathRows DEF openExisting
<1>2. /\ map' = [map EXCEPT ![r] = p] /\ detail' = [repo |-> r, path |-> p]
      /\ shared \subseteq shared' /\ shared' \subseteq Paths
      /\ disk[p] = "git" \/ p \in shared'
      /\ UNCHANGED <<hosted, signedIn, cache, sel, asking, inFlight, clones, disk>>
  BY DEF openExisting, worker
<1>3. TypeOK'
  BY <1>1, <1>2
<1>4. sel # None => sel = r
  BY NoneAssumption DEF openExisting, Offered, PanelShowsSelection
<1>5. sel # None => list'[sel] = p
  BY <1>4 DEF openExisting, WithPath
<1>6. PanelShowsSelection'
  BY <1>2, <1>4, <1>5 DEF PanelShowsSelection
<1>7. RememberedIsReal'
  BY <1>2 DEF RememberedIsReal
<1>8. ControllerOwnsClone' /\ StageMatchesDisk'
  BY <1>2 DEF ControllerOwnsClone, StageMatchesDisk
<1> QED BY <1>3, <1>6, <1>7, <1>8

LEMMA RefusedInv ==
    ASSUME IInv, NEW r \in Repos, NEW p \in Paths,
           CloneRefused(r, p) \/ OpenRefused(r, p)
    PROVE  IInv'
<1> USE DEF IInv, TypeOK
<1>1. /\ RollBack(r, p)
      /\ UNCHANGED <<hosted, signedIn, cache, list, sel, detail, asking, inFlight,
                     clones, disk, shared>>
  BY DEF CloneRefused, OpenRefused, worker
<1>2. /\ map' \in [Repos -> Path]
      /\ \A x \in Repos : map'[x] # None => map'[x] = map[x]
  BY <1>1, RollBackKeeps
<1>3. TypeOK'
  BY <1>1, <1>2
<1>4. RememberedIsReal'
  BY <1>1, <1>2 DEF RememberedIsReal
<1>5. ControllerOwnsClone' /\ StageMatchesDisk' /\ PanelShowsSelection'
  BY <1>1 DEF ControllerOwnsClone, StageMatchesDisk, PanelShowsSelection
<1> QED BY <1>3, <1>4, <1>5

LEMMA FolderAppearsInv == ASSUME IInv, NEW p \in Paths, FolderAppears(p) PROVE IInv'
<1> USE DEF IInv, TypeOK
<1>1. PICK f \in {"plain", "git"} : disk' = [disk EXCEPT ![p] = f]
  BY DEF FolderAppears
<1>2. /\ disk[p] = "absent"
      /\ UNCHANGED <<hosted, signedIn, map, cache, list, sel, detail, asking,
                     inFlight, clones, shared>>
  BY DEF FolderAppears, window
<1>3. TypeOK'
  BY <1>1, <1>2
<1>4. RememberedIsReal'
  BY <1>1, <1>2 DEF RememberedIsReal
<1>5. StageMatchesDisk'
  BY <1>1, <1>2 DEF StageMatchesDisk
<1>6. ControllerOwnsClone' /\ PanelShowsSelection'
  BY <1>2 DEF ControllerOwnsClone, PanelShowsSelection
<1> QED BY <1>3, <1>4, <1>5, <1>6
-----------------------------------------------------------------------------
LEMMA NextInv == IInv /\ [Next]_vars => IInv'
<1> SUFFICES ASSUME IInv, [Next]_vars PROVE IInv'
  OBVIOUS
<1>1. CASE Worker
  BY <1>1, BeginCloneInv, EndCloneInv DEF Worker
<1>2. CASE Deliver
  BY <1>2, CloneFinishedInv DEF Deliver
<1>3. CASE User
  <2>1. CASE SignIn \/ SignOut
    BY <2>1, SignOutInv
  <2>2. CASE \E r \in Repos : Select(r) \/ ChangeVisibility(r)
    BY <2>2, SelectInv
  <2>3. CASE FilterOut
    <3>1. TypeOK' /\ PanelShowsSelection'
      BY <2>3 DEF FilterOut, IInv, TypeOK, PanelShowsSelection, worker
    <3> QED BY <2>3, <3>1, ShowInv DEF FilterOut, worker
  <2>4. CASE \E r \in Repos, p \in Paths : StartClone(r, p) \/ openExisting(r, p)
    BY <2>4, StartCloneInv, OpenInv
  <2>5. CASE \E r \in Repos, p \in Paths : CloneRefused(r, p) \/ OpenRefused(r, p)
    BY <2>5, RefusedInv
  <2> QED BY <1>3, <2>1, <2>2, <2>3, <2>4, <2>5 DEF User
<1>4. CASE Network
  BY <1>4, ReposLoadedInv, VisibilityInv, RepoCreatedInv DEF Network
<1>5. CASE \E p \in Paths : FolderAppears(p)
  BY <1>5, FolderAppearsInv
<1>6. CASE UNCHANGED vars
  BY <1>6 DEF vars, window, worker, IInv, TypeOK, ControllerOwnsClone,
              PanelShowsSelection, RememberedIsReal, StageMatchesDisk
<1> QED BY <1>1, <1>2, <1>3, <1>4, <1>5, <1>6 DEF Next

LEMMA Invariance == Spec => []IInv
BY InitInv, NextInv, PTL DEF Spec

(***************************************************************************)
(* The worker and the controller agree on the one clone there is, for any  *)
(* number of repositories and folders (startClone, onCloneFinished).       *)
(***************************************************************************)
THEOREM OneClone == Spec => []ControllerOwnsClone
<1>1. IInv => ControllerOwnsClone
  BY DEF IInv
<1> QED BY <1>1, Invariance, PTL

(***************************************************************************)
(* Every remembered path leads to a repository, to the clone in flight, or *)
(* to a folder that was opened while it was written (onCloneFailed).       *)
(***************************************************************************)
THEOREM RememberedPathsAreReal == Spec => []RememberedIsReal
<1>1. IInv => RememberedIsReal
  BY DEF IInv
<1> QED BY <1>1, Invariance, PTL

(***************************************************************************)
(* The panel and the selected row never disagree (rebuildGithubItems,      *)
(* onCloneSucceeded, onOpenSucceeded).                                     *)
(***************************************************************************)
THEOREM PanelIsOfSelection == Spec => []PanelShowsSelection
<1>1. IInv => PanelShowsSelection
  BY DEF IInv
<1> QED BY <1>1, Invariance, PTL

-----------------------------------------------------------------------------
(***************************************************************************)
(* CloneView.  The invariant says that what the panel lacks of its clone   *)
(* is on its way, as long as no answer about another clone was due.        *)
(***************************************************************************)
HIDE DEF Path, Folder, Stage, Clone, Nothing, NoRows, isBusy

\* Unless an answer about something else was due, all that is due is about the
\* clone the panel shows.
ViewNear ==
    ~vMixed => \A k \in View!Kind, x \in Repos : View!InFlight(k, x) => vLocal /\ x = vRepo

\* What the panel lacks of the clone it shows is on its way.
ViewComes ==
    ~vMixed =>
        IF vLocal
        THEN /\ vStatus = vRepo \/ View!InFlight("status", vRepo)
             /\ vCombo = {vRepo} \X Branches \/ View!InFlight("branches", vRepo)
        ELSE vStatus = None /\ vCombo = {}

ViewInv ==
    /\ View!TypeOK /\ View!PanelIsOfRow
    /\ vLocal => vRepo \in Repos
    /\ ViewNear /\ ViewComes

\* A switch ended in this step is read.
SwitchRead ==
    \A r \in Repos, b \in Branches : <<b, r>> \in vJobs /\ <<b, r>> \notin vJobs' =>
        vActive = r \/ View!Read \X {r} \subseteq vJobs'

LEMMA ViewKinds ==
    /\ {"status", "branches"} \subseteq View!Kind /\ {"status", "branches"} = View!Read
    /\ Branches \subseteq View!Kind /\ View!Read \subseteq View!Kind
    /\ View!Move \subseteq View!Kind \ View!Read /\ Branches \cap (View!Read \cup View!Move) = {}
  BY ViewAssumption DEF View!Kind, View!Read, View!Move, View!ViewAssumption

\* Jobs that are only added end no switch.
LEMMA JobsGrow == ASSUME vJobs \subseteq vJobs' PROVE SwitchRead
  BY DEF SwitchRead

\* Kinds of job asked for about one clone.
LEMMA MoreJobs ==
    ASSUME NEW now, NEW next, NEW more, NEW r, next = now \cup (more \X {r})
    PROVE  \A k, x : <<k, x>> \in next <=> <<k, x>> \in now \/ (k \in more /\ x = r)
  OBVIOUS

\* Whoever is shown, with a clone or without.
LEMMA ShowStep ==
    ASSUME ViewInv, NEW r \in Repos \cup {None}, NEW isLocal \in BOOLEAN,
           isLocal => r \in Repos, View!Show(r, isLocal),
           vCloned' \subseteq Repos, vRow' \in Repos \cup {None},
           vRow' # None => vRow' = r /\ (isLocal <=> r \in vCloned'),
           vPage' \in {"panel", "folder"}, UNCHANGED <<vActive, vHead>>
    PROVE  ViewInv' /\ SwitchRead
  <1>1. View!TypeOK
    BY DEF ViewInv
  <1>2. vRepo' = r /\ vLocal' = isLocal /\ (vMixed' <=> View!Foreign(r, isLocal))
        /\ vMixed' \in BOOLEAN
    BY DEF View!Show, View!Foreign
  <1>3. View!PanelIsOfRow' /\ (vLocal' => vRepo' \in Repos)
    BY <1>2 DEF View!PanelIsOfRow
  <1>4. CASE isLocal
    <2>1. vJobs' = vJobs \cup (View!Read \X {r}) /\ UNCHANGED <<vCombo, vStatus>> /\ r \in Repos
      BY <1>4 DEF View!Show, View!ApplyMode, View!ReadClone, View!panel
    <2>2. \A k, x : <<k, x>> \in vJobs' <=> <<k, x>> \in vJobs \/ (k \in View!Read /\ x = r)
      BY <2>1, MoreJobs
    <2>3. View!TypeOK'
      BY <1>1, <1>2, <2>1, ViewKinds DEF View!TypeOK
    <2>4. ViewNear'
      BY <1>2, <1>4, <2>2 DEF ViewNear, View!Foreign, View!InFlight
    <2>5. ViewComes'
      BY <1>2, <1>4, <2>2, ViewKinds DEF ViewComes, View!InFlight
    <2> QED
      BY <1>3, <2>1, <2>3, <2>4, <2>5, JobsGrow DEF ViewInv
  <1>5. CASE ~isLocal
    <2>1. vJobs' = vJobs /\ vCombo' = {} /\ vStatus' = None
      BY <1>5 DEF View!Show, View!ApplyMode, View!ClearStatus
    <2>2. View!TypeOK'
      BY <1>1, <1>2, <2>1 DEF View!TypeOK
    <2>3. ViewNear'
      BY <1>2, <1>5, <2>1 DEF ViewNear, View!Foreign, View!InFlight
    <2>4. ViewComes'
      BY <1>2, <1>5, <2>1 DEF ViewComes
    <2> QED
      BY <1>3, <2>1, <2>2, <2>3, <2>4, JobsGrow DEF ViewInv
  <1> QED
    BY <1>4, <1>5

\* What happens beside the panel.
LEMMA BesideStep ==
    ASSUME ViewInv, View!TypeOK', View!PanelIsOfRow',
           UNCHANGED <<vRepo, vLocal, vCombo, vStatus, vJobs, vMixed>>
    PROVE  ViewInv' /\ SwitchRead
  <1>1. ViewNear' /\ ViewComes'
    BY DEF ViewInv, ViewNear, ViewComes, View!InFlight
  <1> QED
    BY <1>1, JobsGrow DEF ViewInv

\* The selected row, if there is one, is shown again.
LEMMA RebuildStep ==
    ASSUME ViewInv, NEW known \in SUBSET Repos, View!Rebuild(known),
           UNCHANGED <<vRow, vActive, vHead>>
    PROVE  ViewInv' /\ SwitchRead
  <1>1. View!TypeOK /\ vCloned' = known /\ None \notin Repos
    BY ViewAssumption DEF ViewInv, View!Rebuild, View!ViewAssumption
  <1>2. CASE vRow = None
    <2>1. UNCHANGED <<vRepo, vLocal, vPage, vCombo, vStatus, vJobs, vMixed>>
      BY <1>2 DEF View!Rebuild, View!Kept, View!panel
    <2>2. View!TypeOK' /\ View!PanelIsOfRow'
      BY <1>1, <1>2, <2>1 DEF View!TypeOK, View!PanelIsOfRow
    <2> QED
      BY <2>1, <2>2, BesideStep
  <1>3. CASE vRow # None
    <2>1. PICK isLocal \in BOOLEAN : isLocal = (vRow \in known)
      BY (vRow \in known) \in BOOLEAN
    <2>2. View!Show(vRow, isLocal) /\ vPage' = "panel" /\ vRow \in Repos
      BY <1>1, <1>3, <2>1 DEF View!Rebuild, View!TypeOK
    <2> QED
      BY <1>1, <2>1, <2>2, ShowStep
  <1> QED
    BY <1>2, <1>3

\* What is asked of the clone shown is about it.
LEMMA AskStep ==
    ASSUME ViewInv, NEW kinds \in SUBSET View!Kind, View!Ask(kinds)
    PROVE  ViewInv' /\ SwitchRead
  <1>1. View!TypeOK /\ vLocal /\ vRepo \in Repos
        /\ UNCHANGED <<vCloned, vRow, vRepo, vLocal, vPage, vActive, vHead, vCombo, vStatus,
                       vMixed>>
        /\ vJobs' = vJobs \cup (kinds \X {vRepo})
    BY DEF ViewInv, View!Ask
  <1>2. \A k, x : <<k, x>> \in vJobs' <=> <<k, x>> \in vJobs \/ (k \in kinds /\ x = vRepo)
    BY <1>1, MoreJobs
  <1>3. View!TypeOK' /\ View!PanelIsOfRow'
    BY <1>1 DEF ViewInv, View!TypeOK, View!PanelIsOfRow
  <1>4. ViewNear' /\ ViewComes'
    BY <1>1, <1>2 DEF ViewInv, ViewNear, ViewComes, View!InFlight
  <1> QED
    BY <1>1, <1>3, <1>4, JobsGrow DEF ViewInv

\* Which jobs an answer leaves, and which follow it.
LEMMA AnswerFacts ==
    ASSUME NEW k0, NEW r, NEW more, View!Answers(k0, r, more)
    PROVE  \A k, x :
              /\ <<k, x>> \in vJobs' => <<k, x>> \in vJobs \/ (k \in more /\ x = r)
              /\ <<k, x>> \in vJobs /\ (k # k0 \/ x # r) => <<k, x>> \in vJobs'
              /\ k \in more /\ x = r => <<k, x>> \in vJobs'
  <1>1. PICK left \in {vJobs, vJobs \ {<<k0, r>>}} : vJobs' = left \cup (more \X {r})
    BY DEF View!Answers
  <1>2. \A k, x : <<k, x>> \in vJobs' <=> <<k, x>> \in left \/ (k \in more /\ x = r)
    BY <1>1, MoreJobs
  <1>3. \A k, x : /\ <<k, x>> \in left => <<k, x>> \in vJobs
                  /\ <<k, x>> \in vJobs /\ (k # k0 \/ x # r) => <<k, x>> \in left
    BY <1>1
  <1> QED
    BY <1>2, <1>3

\* An answer, and what is asked for because of it, is about the clone shown.
LEMMA AnswerStep ==
    ASSUME ViewInv, NEW k0 \in View!Kind, NEW r \in Repos, NEW more \in SUBSET View!Read,
           View!Answers(k0, r, more),
           UNCHANGED <<vCloned, vRow, vRepo, vLocal, vPage, vActive, vMixed>>
    PROVE  /\ vJobs' \subseteq View!Kind \X Repos
           /\ View!PanelIsOfRow' /\ ViewNear'
           /\ ~vMixed => vLocal /\ vRepo = r
           /\ k0 \notin Branches => SwitchRead
  <1>1. View!TypeOK /\ View!PanelIsOfRow /\ ViewNear /\ View!InFlight(k0, r)
    BY DEF ViewInv, View!Answers
  <1>2. \A k, x :
              /\ <<k, x>> \in vJobs' => <<k, x>> \in vJobs \/ (k \in more /\ x = r)
              /\ <<k, x>> \in vJobs /\ (k # k0 \/ x # r) => <<k, x>> \in vJobs'
    BY AnswerFacts
  <1>3. vJobs' \subseteq View!Kind \X Repos
    <2>1. PICK left \in {vJobs, vJobs \ {<<k0, r>>}} : vJobs' = left \cup (more \X {r})
      BY DEF View!Answers
    <2> QED
      BY <1>1, <2>1, ViewKinds DEF View!TypeOK
  <1>4. ~vMixed => vLocal /\ vRepo = r
    BY <1>1 DEF ViewNear
  <1>5. ViewNear'
    BY <1>1, <1>2, <1>4 DEF ViewNear, View!InFlight
  <1>6. View!PanelIsOfRow'
    BY <1>1 DEF View!PanelIsOfRow
  <1>7. k0 \notin Branches => SwitchRead
    BY <1>2 DEF SwitchRead
  <1> QED
    BY <1>3, <1>4, <1>5, <1>6, <1>7

LEMMA BranchesReadyStep ==
    ASSUME ViewInv, NEW r \in Repos, View!BranchesReady(r) PROVE ViewInv' /\ SwitchRead
  <1>1. PICK none : none = {}
    OBVIOUS
  <1>2. View!Answers("branches", r, none) /\ vCombo' = {r} \X Branches /\ none \in SUBSET View!Read
        /\ UNCHANGED <<vCloned, vRow, vRepo, vLocal, vPage, vActive, vHead, vStatus, vMixed>>
    BY <1>1 DEF View!BranchesReady
  <1>3. /\ vJobs' \subseteq View!Kind \X Repos
        /\ View!PanelIsOfRow' /\ ViewNear' /\ SwitchRead
        /\ ~vMixed => vLocal /\ vRepo = r
    BY <1>2, AnswerStep, ViewKinds
  <1>4. <<"status", r>> \in vJobs => <<"status", r>> \in vJobs'
    BY <1>2, AnswerFacts
  <1>5. View!TypeOK'
    BY <1>2, <1>3 DEF ViewInv, View!TypeOK
  <1>6. ViewComes'
    BY <1>2, <1>3, <1>4 DEF ViewInv, ViewComes, View!InFlight
  <1> QED
    BY <1>2, <1>3, <1>5, <1>6 DEF ViewInv

LEMMA StatusReadyStep ==
    ASSUME ViewInv, NEW r \in Repos, View!StatusReady(r) PROVE ViewInv' /\ SwitchRead
  <1>1. PICK none : none = {}
    OBVIOUS
  <1>2. View!Answers("status", r, none) /\ vStatus' = r /\ none \in SUBSET View!Read
        /\ UNCHANGED <<vCloned, vRow, vRepo, vLocal, vPage, vActive, vHead, vMixed>>
    BY <1>1 DEF View!StatusReady
  <1>3. /\ vJobs' \subseteq View!Kind \X Repos
        /\ View!PanelIsOfRow' /\ ViewNear' /\ SwitchRead
        /\ ~vMixed => vLocal /\ vRepo = r
    BY <1>2, AnswerStep, ViewKinds
  <1>4. <<"branches", r>> \in vJobs => <<"branches", r>> \in vJobs'
    BY <1>2, AnswerFacts
  <1>5. vHead[r] \in Branches
    BY DEF ViewInv, View!TypeOK
  <1>6. vCombo' \subseteq Repos \X Branches
        /\ (vCombo = {r} \X Branches => vCombo' = vCombo)
    <2>1. vCombo \subseteq Repos \X Branches /\ <<r, vHead[r]>> \in Repos \X Branches
      BY <1>5 DEF ViewInv, View!TypeOK
    <2>2. vCombo' = IF View!Offers(vHead[r]) THEN vCombo ELSE vCombo \cup {<<r, vHead[r]>>}
      BY DEF View!StatusReady
    <2>3. vCombo = {r} \X Branches => View!Offers(vHead[r])
      BY <1>5 DEF View!Offers
    <2> QED
      BY <2>1, <2>2, <2>3
  <1>7. View!TypeOK'
    BY <1>2, <1>3, <1>6 DEF ViewInv, View!TypeOK
  <1>8. ViewComes'
    BY <1>2, <1>3, <1>4, <1>6 DEF ViewInv, ViewComes, View!InFlight
  <1> QED
    BY <1>2, <1>3, <1>7, <1>8 DEF ViewInv

\* A transfer or a switch has ended, and reads what it says it does.
LEMMA FinishedStep ==
    ASSUME ViewInv, NEW k0 \in View!Kind \ View!Read, NEW r \in Repos,
           NEW reads \in SUBSET View!Read, k0 \in Branches => reads = View!Read,
           View!Finished(k0, r, reads), vHead' \in [Repos -> Branches]
    PROVE  ViewInv' /\ SwitchRead
  <1>1. PICK more : more = IF vActive = r THEN {} ELSE reads
    OBVIOUS
  <1>2. View!Answers(k0, r, more) /\ more \in SUBSET View!Read
        /\ UNCHANGED <<vCloned, vRow, vRepo, vLocal, vPage, vActive, vCombo, vStatus, vMixed>>
    BY <1>1 DEF View!Finished, View!panel
  <1>3. /\ vJobs' \subseteq View!Kind \X Repos
        /\ View!PanelIsOfRow' /\ ViewNear'
        /\ ~vMixed => vLocal /\ vRepo = r
    BY <1>2, AnswerStep
  <1>4. /\ <<"branches", r>> \in vJobs => <<"branches", r>> \in vJobs'
        /\ <<"status", r>> \in vJobs => <<"status", r>> \in vJobs'
    BY <1>2, AnswerFacts, ViewKinds
  <1>5. View!TypeOK'
    BY <1>2, <1>3 DEF ViewInv, View!TypeOK
  <1>6. ViewComes'
    BY <1>2, <1>3, <1>4 DEF ViewInv, ViewComes, View!InFlight
  <1>7. SwitchRead
    <2>1. SUFFICES ASSUME NEW x \in Repos, NEW b \in Branches, vActive # x,
                          <<b, x>> \in vJobs, <<b, x>> \notin vJobs'
                   PROVE  View!Read \X {x} \subseteq vJobs'
      BY DEF SwitchRead
    <2>2. b = k0 /\ x = r
      BY <1>2, <2>1, AnswerFacts
    <2>3. more = View!Read
      BY <1>1, <2>1, <2>2
    <2>4. \A k \in View!Read : <<k, r>> \in vJobs'
      BY <1>2, <2>3, AnswerFacts
    <2> QED
      BY <2>2, <2>4
  <1> QED
    BY <1>2, <1>3, <1>5, <1>6, <1>7 DEF ViewInv

LEMMA ViewStands == ASSUME ViewInv, UNCHANGED viewVars PROVE ViewInv' /\ SwitchRead
  <1>1. UNCHANGED <<vCloned, vRow, vRepo, vLocal, vPage, vActive, vHead, vCombo, vStatus,
                    vJobs, vMixed>>
    BY DEF viewVars
  <1>2. View!TypeOK' /\ View!PanelIsOfRow'
    BY <1>1 DEF ViewInv, View!TypeOK, View!PanelIsOfRow
  <1> QED
    BY <1>1, <1>2, BesideStep

LEMMA ViewInit == View!Init => ViewInv
  <1> SUFFICES ASSUME View!Init PROVE ViewInv
    OBVIOUS
  <1>1. View!TypeOK
    BY DEF View!Init, View!TypeOK
  <1> QED
    BY <1>1 DEF ViewInv, ViewNear, ViewComes, View!InFlight, View!PanelIsOfRow, View!Init

LEMMA ViewUserStep == ASSUME ViewInv, View!User PROVE ViewInv' /\ SwitchRead
  <1>1. View!TypeOK /\ View!PanelIsOfRow /\ None \notin Repos
    BY ViewAssumption DEF ViewInv, View!ViewAssumption
  <1>2. CASE View!SignOut
    <2>1. View!Show(None, FALSE) /\ vRow' = None /\ UNCHANGED <<vCloned, vPage, vActive, vHead>>
      BY <1>2 DEF View!SignOut
    <2> QED
      BY <1>1, <2>1, ShowStep DEF View!TypeOK
  <1>3. CASE View!FilterOut
    <2>1. vRow' = None /\ UNCHANGED <<vCloned, vRepo, vLocal, vPage, vActive, vHead, vCombo,
                                       vStatus, vJobs, vMixed>>
      BY <1>3 DEF View!FilterOut, View!Kept, View!panel
    <2>2. View!TypeOK' /\ View!PanelIsOfRow'
      BY <1>1, <2>1 DEF View!TypeOK, View!PanelIsOfRow
    <2> QED
      BY <2>1, <2>2, BesideStep
  <1>4. CASE View!Refresh
    BY <1>4, AskStep, ViewKinds DEF View!Refresh
  <1>5. CASE View!RemoveFolder
    <2>1. vActive' = None /\ vPage' = "panel"
          /\ UNCHANGED <<vCloned, vRow, vRepo, vLocal, vHead, vCombo, vStatus, vJobs, vMixed>>
      BY <1>5 DEF View!RemoveFolder, View!panel
    <2>2. View!TypeOK' /\ View!PanelIsOfRow'
      BY <1>1, <2>1 DEF View!TypeOK, View!PanelIsOfRow
    <2> QED
      BY <2>1, <2>2, BesideStep
  <1>6. CASE \E b \in Branches : View!SwitchBranch(b)
    <2>1. PICK b \in Branches : View!SwitchBranch(b)
      BY <1>6
    <2> QED
      BY <2>1, AskStep, ViewKinds DEF View!SwitchBranch
  <1>7. CASE \E r \in Repos : View!Activate(r)
    <2>1. PICK r \in Repos : View!Activate(r)
      BY <1>7
    <2>2. PICK isLocal \in BOOLEAN : isLocal = (r \in vCloned)
      BY (r \in vCloned) \in BOOLEAN
    <2>3. View!Show(r, isLocal) /\ vRow' = r /\ vPage' = "panel"
          /\ UNCHANGED <<vCloned, vActive, vHead>>
      BY <2>1, <2>2 DEF View!Activate
    <2> QED
      BY <1>1, <2>2, <2>3, ShowStep DEF View!TypeOK
  <1>8. CASE \E r \in Repos : View!OpenSucceeded(r)
    <2>1. PICK r \in Repos : View!OpenSucceeded(r)
      BY <1>8
    <2>2. View!Show(r, TRUE) /\ vCloned' = vCloned \cup {r} /\ vRepo = r
          /\ UNCHANGED <<vRow, vPage, vActive, vHead>>
      BY <2>1 DEF View!OpenSucceeded
    <2>3. vRow' # None => vRow' = r
      BY <1>1, <2>2 DEF View!PanelIsOfRow
    <2> QED
      BY <1>1, <2>2, <2>3, ShowStep DEF View!TypeOK
  <1>9. CASE \E r \in Repos \cup {None} : View!OpenFolder(r)
    <2>1. vRow' = None /\ vPage' = "folder" /\ vActive' \in Repos \cup {None}
          /\ UNCHANGED <<vCloned, vRepo, vLocal, vHead, vCombo, vStatus, vJobs, vMixed>>
      BY <1>9 DEF View!OpenFolder, View!panel
    <2>2. View!TypeOK' /\ View!PanelIsOfRow'
      BY <1>1, <2>1 DEF View!TypeOK, View!PanelIsOfRow
    <2> QED
      BY <2>1, <2>2, BesideStep
  <1>10. CASE \E k \in View!Move : View!Transfer(k)
    <2>1. PICK k \in View!Move : View!Transfer(k)
      BY <1>10
    <2> QED
      BY <2>1, AskStep, ViewKinds DEF View!Transfer
  <1> QED
    BY <1>2, <1>3, <1>4, <1>5, <1>6, <1>7, <1>8, <1>9, <1>10 DEF View!User

LEMMA ViewWorkerStep == ASSUME ViewInv, View!Worker PROVE ViewInv' /\ SwitchRead
  <1>1. View!TypeOK
    BY DEF ViewInv
  <1>2. PICK r \in Repos :
            \/ View!CloneSucceeded(r)
            \/ View!BranchesReady(r) \/ View!StatusReady(r)
            \/ View!PullFinished(r) \/ View!PushFinished(r)
            \/ \E b \in Branches : View!BranchSwitched(r, b)
    BY DEF View!Worker
  <1>3. CASE View!CloneSucceeded(r)
    <2>1. PICK known : known = vCloned \cup {r}
      OBVIOUS
    <2>2. View!Rebuild(known) /\ UNCHANGED <<vRow, vActive, vHead>> /\ known \in SUBSET Repos
      BY <1>1, <1>3, <2>1 DEF View!CloneSucceeded, View!TypeOK
    <2> QED
      BY <2>2, RebuildStep
  <1>4. CASE View!BranchesReady(r) \/ View!StatusReady(r)
    BY <1>4, BranchesReadyStep, StatusReadyStep
  <1>5. CASE View!PullFinished(r) \/ View!PushFinished(r)
    <2>1. vHead' \in [Repos -> Branches] /\ {"status"} \in SUBSET View!Read
          /\ {"pull", "push"} \subseteq View!Kind \ (View!Read \cup Branches)
      BY <1>1, <1>5, ViewAssumption
      DEF View!PullFinished, View!PushFinished, View!TypeOK, View!Kind, View!Read, View!Move,
          View!ViewAssumption
    <2> QED
      BY <1>5, <2>1, FinishedStep DEF View!PullFinished, View!PushFinished
  <1>6. CASE \E b \in Branches : View!BranchSwitched(r, b)
    <2>1. PICK b \in Branches : View!BranchSwitched(r, b)
      BY <1>6
    <2>2. vHead' \in [Repos -> Branches] /\ b \in View!Kind \ View!Read
      BY <1>1, <2>1, ViewKinds DEF View!BranchSwitched, View!TypeOK
    <2> QED
      BY <2>1, <2>2, FinishedStep DEF View!BranchSwitched
  <1> QED
    BY <1>2, <1>3, <1>4, <1>5, <1>6

LEMMA ViewNext == ASSUME ViewInv, View!Next PROVE ViewInv' /\ SwitchRead
  <1>1. ASSUME NEW known \in SUBSET Repos, View!Relisted(known) PROVE ViewInv' /\ SwitchRead
    BY <1>1, RebuildStep DEF View!Relisted
  <1> QED
    BY <1>1, ViewUserStep, ViewWorkerStep DEF View!Next

LEMMA ViewQuiet == ViewInv => View!PanelIsOfRow /\ View!QuietPanelIsRight
  BY DEF ViewInv, ViewComes, View!InFlight, View!QuietPanelIsRight

-----------------------------------------------------------------------------
(***************************************************************************)
(* Preview.  The invariant is what the run checks.                         *)
(***************************************************************************)
TabsInv == Tabs!TypeOK /\ Tabs!PreviewOfShown /\ Tabs!LoadingIsAwaited

LEMMA TabsInit == Tabs!Init => TabsInv
  BY TabsAssumption DEF TabsInv, Tabs!TabsAssumption, Tabs!Init, Tabs!TypeOK,
     Tabs!PreviewOfShown, Tabs!LoadingIsAwaited

LEMMA TabsStand == ASSUME TabsInv, UNCHANGED tabsVars PROVE TabsInv'
  BY DEF TabsInv, tabsVars, Tabs!TypeOK, Tabs!PreviewOfShown, Tabs!LoadingIsAwaited,
     Tabs!Awaited

LEMMA ShowRepositoryStep ==
    ASSUME TabsInv, NEW r \in Previewed, Tabs!showRepository(r) PROVE TabsInv'
  <1>1. /\ Tabs!TypeOK /\ pRepo' = r /\ pCache' = pCache /\ r # None
        /\ r \notin {"select", "loading", "absent", "empty"}
        /\ pAsked' = pAsked \cup Tabs!Missing(r) /\ pLost' = pLost \ Tabs!Missing(r)
        /\ pReadme' = IF Tabs!Cached("readme", r) THEN Tabs!ReadmeFromCache(r) ELSE "loading"
        /\ pFiles' = IF Tabs!Cached("contents", r) THEN r ELSE "loading"
        /\ pLanguages' = IF Tabs!Cached("languages", r) THEN r ELSE pLanguages
    BY TabsAssumption DEF TabsInv, Tabs!TabsAssumption, Tabs!showRepository, Tabs!RequestDetail
  <1>2. Tabs!ReadmeFromCache(r) \in {"empty", r}
    BY DEF Tabs!ReadmeFromCache
  <1>3. Tabs!TypeOK'
    BY <1>1, <1>2 DEF Tabs!TypeOK, Tabs!Missing
  <1>4. Tabs!PreviewOfShown'
    BY <1>1, <1>2, TabsAssumption DEF Tabs!PreviewOfShown, Tabs!TabsAssumption
  <1>5. ASSUME NEW part \in Tabs!Part, ~Tabs!Cached(part, r)
        PROVE  \E a \in pAsked' \cup pLost' : a.part = part /\ a.repo = pRepo'
    <2>1. [part |-> part, repo |-> r] \in Tabs!Missing(r)
      BY <1>5 DEF Tabs!Missing, Tabs!Ask, Tabs!Cached
    <2> QED
      BY <1>1, <2>1
  <1>6. Tabs!LoadingIsAwaited'
    <2>1. "readme" \in Tabs!Part /\ "contents" \in Tabs!Part
      BY DEF Tabs!Part
    <2>2. pReadme' = "loading" => Tabs!Awaited("readme")'
      BY <1>1, <1>2, <1>5, <2>1 DEF Tabs!Awaited
    <2>3. pFiles' = "loading" => Tabs!Awaited("contents")'
      BY <1>1, <1>5, <2>1 DEF Tabs!Awaited
    <2> QED
      BY <2>2, <2>3 DEF Tabs!LoadingIsAwaited
  <1> QED
    BY <1>3, <1>4, <1>6 DEF TabsInv

\* What is left of the requests after one of them was answered.
LEMMA AnsweredFacts ==
    ASSUME Tabs!TypeOK, NEW part \in Tabs!Part, NEW r \in Previewed, Tabs!Answered(part, r)
    PROVE  /\ pAsked' \subseteq Tabs!Ask /\ pCache' \subseteq Tabs!Ask
           /\ \A a \in pAsked : a.part # part \/ a.repo # r => a \in pAsked'
  <1> DEFINE one == [part |-> part, repo |-> r]
  <1>1. pAsked' = pAsked \ {one} /\ pCache' = pCache \cup {one} /\ one \in Tabs!Ask
    BY DEF Tabs!Answered, Tabs!Ask
  <1>2. one.part = part /\ one.repo = r
    OBVIOUS
  <1> QED
    BY <1>1, <1>2 DEF Tabs!TypeOK

LEMMA ReadmeStep ==
    ASSUME TabsInv, NEW r \in Previewed, Tabs!setReadme(r) \/ Tabs!setReadmeUnavailable(r)
    PROVE  TabsInv'
  <1>1. Tabs!TypeOK /\ Tabs!Answered("readme", r)
        /\ UNCHANGED <<pRepo, pFiles, pLanguages, pLost>>
        /\ pReadme' \in (IF pRepo = r THEN {"empty", "absent", r} ELSE {pReadme})
    BY DEF TabsInv, Tabs!setReadme, Tabs!setReadmeUnavailable, Tabs!ReadmeFromCache
  <1>2. /\ pAsked' \subseteq Tabs!Ask /\ pCache' \subseteq Tabs!Ask
        /\ \A a \in pAsked : a.part # "readme" \/ a.repo # r => a \in pAsked'
    BY <1>1, AnsweredFacts DEF Tabs!Part
  <1>3. r # None /\ r \notin {"select", "loading", "absent", "empty"}
        /\ {"select", "loading", "absent", "empty"} \cap Previewed = {}
    BY TabsAssumption DEF Tabs!TabsAssumption
  <1>4. Tabs!TypeOK'
    BY <1>1, <1>2 DEF Tabs!TypeOK
  <1>5. Tabs!PreviewOfShown'
    BY <1>1, <1>3 DEF TabsInv, Tabs!PreviewOfShown
  <1>6. Tabs!LoadingIsAwaited'
    <2>1. pReadme' = "loading" => pReadme = "loading" /\ pRepo # r
      BY <1>1, <1>3
    <2>2. pReadme' = "loading" => Tabs!Awaited("readme")'
      BY <1>1, <1>2, <2>1 DEF TabsInv, Tabs!LoadingIsAwaited, Tabs!Awaited
    <2>3. pFiles' = "loading" => Tabs!Awaited("contents")'
      BY <1>1, <1>2 DEF TabsInv, Tabs!LoadingIsAwaited, Tabs!Awaited
    <2> QED
      BY <2>2, <2>3 DEF Tabs!LoadingIsAwaited
  <1> QED
    BY <1>4, <1>5, <1>6 DEF TabsInv

LEMMA ContentsStep ==
    ASSUME TabsInv, NEW r \in Previewed, Tabs!setRemoteContents(r) PROVE TabsInv'
  <1>1. Tabs!TypeOK /\ Tabs!Answered("contents", r)
        /\ UNCHANGED <<pRepo, pReadme, pLanguages, pLost>>
        /\ pFiles' = IF pRepo = r THEN r ELSE pFiles
    BY DEF TabsInv, Tabs!setRemoteContents
  <1>2. /\ pAsked' \subseteq Tabs!Ask /\ pCache' \subseteq Tabs!Ask
        /\ \A a \in pAsked : a.part # "contents" \/ a.repo # r => a \in pAsked'
    BY <1>1, AnsweredFacts DEF Tabs!Part
  <1>3. r # None /\ r \notin {"select", "loading", "absent", "empty"}
    BY TabsAssumption DEF Tabs!TabsAssumption
  <1>4. Tabs!TypeOK'
    BY <1>1, <1>2 DEF Tabs!TypeOK
  <1>5. Tabs!PreviewOfShown'
    BY <1>1, <1>3 DEF TabsInv, Tabs!PreviewOfShown
  <1>6. Tabs!LoadingIsAwaited'
    <2>1. pFiles' = "loading" => pFiles = "loading" /\ pRepo # r
      BY <1>1, <1>3
    <2>2. pReadme' = "loading" => Tabs!Awaited("readme")'
      BY <1>1, <1>2 DEF TabsInv, Tabs!LoadingIsAwaited, Tabs!Awaited
    <2>3. pFiles' = "loading" => Tabs!Awaited("contents")'
      BY <1>1, <1>2, <2>1 DEF TabsInv, Tabs!LoadingIsAwaited, Tabs!Awaited
    <2> QED
      BY <2>2, <2>3 DEF Tabs!LoadingIsAwaited
  <1> QED
    BY <1>4, <1>5, <1>6 DEF TabsInv

LEMMA LanguagesStep ==
    ASSUME TabsInv, NEW r \in Previewed, Tabs!setLanguages(r) PROVE TabsInv'
  <1>1. Tabs!TypeOK /\ Tabs!Answered("languages", r)
        /\ UNCHANGED <<pRepo, pReadme, pFiles, pLost>>
        /\ pLanguages' = IF pRepo = r THEN r ELSE pLanguages
    BY DEF TabsInv, Tabs!setLanguages
  <1>2. /\ pAsked' \subseteq Tabs!Ask /\ pCache' \subseteq Tabs!Ask
        /\ \A a \in pAsked : a.part # "languages" \/ a.repo # r => a \in pAsked'
    BY <1>1, AnsweredFacts DEF Tabs!Part
  <1>3. r # None
    BY TabsAssumption DEF Tabs!TabsAssumption
  <1>4. Tabs!TypeOK'
    BY <1>1, <1>2 DEF Tabs!TypeOK
  <1>5. Tabs!PreviewOfShown'
    BY <1>1, <1>3 DEF TabsInv, Tabs!PreviewOfShown
  <1>6. Tabs!LoadingIsAwaited'
    BY <1>1, <1>2 DEF TabsInv, Tabs!LoadingIsAwaited, Tabs!Awaited
  <1> QED
    BY <1>4, <1>5, <1>6 DEF TabsInv

LEMMA TabsNext == ASSUME TabsInv, Tabs!Next PROVE TabsInv'
  <1>1. CASE Tabs!SignOut
    BY <1>1, TabsAssumption DEF Tabs!TabsAssumption, Tabs!SignOut, TabsInv, Tabs!TypeOK, Tabs!PreviewOfShown,
       Tabs!LoadingIsAwaited
  <1>2. ASSUME NEW a \in pAsked, Tabs!RequestFails(a) PROVE TabsInv'
    <2>1. /\ UNCHANGED <<pRepo, pReadme, pFiles, pLanguages, pCache>>
          /\ pAsked' \cup pLost' = pAsked \cup pLost
          /\ pAsked' = pAsked \ {a} /\ pLost' = pLost \cup {a}
      BY <1>2 DEF Tabs!RequestFails, Tabs!tabs
    <2>2. Tabs!TypeOK' /\ Tabs!PreviewOfShown'
      BY <2>1 DEF TabsInv, Tabs!TypeOK, Tabs!PreviewOfShown
    <2>3. Tabs!LoadingIsAwaited'
      BY <2>1 DEF TabsInv, Tabs!LoadingIsAwaited, Tabs!Awaited
    <2> QED
      BY <2>2, <2>3 DEF TabsInv
  <1> QED
    BY <1>1, <1>2, ShowRepositoryStep, ReadmeStep, ContentsStep, LanguagesStep
       DEF Tabs!Next, Tabs!User, Tabs!Network

-----------------------------------------------------------------------------
(***************************************************************************)
(* Sequences.                                                              *)
(***************************************************************************)
Without(s, i) == SubSeq(s, 1, i - 1) \o SubSeq(s, i + 1, Len(s))

LEMMA WithoutFacts ==
    ASSUME NEW S, NEW s \in Seq(S), NEW i \in 1..Len(s)
    PROVE  /\ Without(s, i) \in Seq(S)
           /\ Len(s) - 1 \in Nat /\ Len(Without(s, i)) = Len(s) - 1
           /\ \A k \in 1..(Len(s) - 1) :
                 Without(s, i)[k] = IF k < i THEN s[k] ELSE s[k + 1]
  <1> DEFINE a == SubSeq(s, 1, i - 1)
             b == SubSeq(s, i + 1, Len(s))
  <1>1. Len(s) \in Nat /\ i \in Nat /\ 1 <= i /\ i <= Len(s)
    OBVIOUS
  <1>2. a \in Seq(S) /\ Len(a) = i - 1 /\ \A k \in 1..(i - 1) : a[k] = s[k]
    BY <1>1
  <1>3. b \in Seq(S) /\ Len(b) = Len(s) - i /\ \A k \in 1..(Len(s) - i) : b[k] = s[i + k]
    BY <1>1
  <1>4. Without(s, i) = a \o b
    BY DEF Without
  <1> HIDE DEF a, b
  <1>5. /\ a \o b \in Seq(S) /\ Len(a \o b) = Len(s) - 1
        /\ \A k \in 1..(Len(s) - 1) : (a \o b)[k] = IF k <= i - 1 THEN a[k] ELSE b[k - (i - 1)]
    BY <1>1, <1>2, <1>3
  <1>6. ASSUME NEW k \in 1..(Len(s) - 1)
        PROVE  (a \o b)[k] = IF k < i THEN s[k] ELSE s[k + 1]
    <2>1. CASE k < i
      BY <1>1, <1>2, <1>5, <2>1
    <2>2. CASE ~(k < i)
      <3>1. k - (i - 1) \in 1..(Len(s) - i) /\ i + (k - (i - 1)) = k + 1
        BY <1>1, <2>2
      <3> QED
        BY <1>1, <1>3, <1>5, <2>2, <3>1
    <2> QED
      BY <2>1, <2>2
  <1> QED
    BY <1>1, <1>4, <1>5, <1>6

LEMMA RestFacts ==
    ASSUME NEW S, NEW s \in Seq(S), NEW i \in 1..Len(s)
    PROVE  /\ Without(s, i) \in Seq(S) /\ Len(Without(s, i)) = Len(s) - 1
           /\ \A k \in 1..Len(Without(s, i)) :
                 \E l \in 1..Len(s) : l # i /\ Without(s, i)[k] = s[l]
           /\ \A l \in 1..Len(s) : l # i =>
                 \E k \in 1..Len(Without(s, i)) : Without(s, i)[k] = s[l]
  <1> DEFINE r == Without(s, i)
  <1>1. /\ r \in Seq(S) /\ Len(s) \in Nat /\ Len(r) = Len(s) - 1
        /\ \A k \in 1..Len(r) : r[k] = IF k < i THEN s[k] ELSE s[k + 1]
    BY WithoutFacts
  <1> HIDE DEF r
  <1>2. ASSUME NEW k \in 1..Len(r) PROVE \E l \in 1..Len(s) : l # i /\ r[k] = s[l]
    <2>1. k \in 1..Len(s) /\ k + 1 \in 1..Len(s)
      BY <1>1
    <2> QED
      BY <1>1, <2>1
  <1>3. ASSUME NEW l \in 1..Len(s), l # i PROVE \E k \in 1..Len(r) : r[k] = s[l]
    <2>1. CASE l < i
      BY <1>1, <2>1
    <2>2. CASE ~(l < i)
      <3>1. l - 1 \in 1..Len(r) /\ ~(l - 1 < i) /\ l - 1 + 1 = l
        BY <1>1, <1>3, <2>2
      <3> QED
        BY <1>1, <3>1
    <2> QED
      BY <2>1, <2>2
  <1>4. /\ r \in Seq(S) /\ Len(r) = Len(s) - 1
        /\ \A k \in 1..Len(r) : \E l \in 1..Len(s) : l # i /\ r[k] = s[l]
        /\ \A l \in 1..Len(s) : l # i => \E k \in 1..Len(r) : r[k] = s[l]
    BY <1>1, <1>2, <1>3
  <1> QED
    BY <1>4 DEF r

LEMMA AppendFacts ==
    ASSUME NEW S, NEW s \in Seq(S), NEW x \in S
    PROVE  /\ Append(s, x) \in Seq(S) /\ Len(Append(s, x)) = Len(s) + 1
           /\ Append(s, x)[Len(s) + 1] = x /\ Len(s) + 1 \in 1..Len(Append(s, x))
           /\ \A k \in 1..Len(s) : k \in 1..Len(Append(s, x)) /\ Append(s, x)[k] = s[k]
           /\ \A k \in 1..Len(Append(s, x)) :
                 Append(s, x)[k] = x \/ (k \in 1..Len(s) /\ Append(s, x)[k] = s[k])
  OBVIOUS

LEMMA ChangeFacts ==
    ASSUME NEW S, NEW s \in Seq(S), NEW i \in 1..Len(s), NEW x \in S
    PROVE  /\ [s EXCEPT ![i] = x] \in Seq(S) /\ Len([s EXCEPT ![i] = x]) = Len(s)
           /\ \A k \in 1..Len(s) : [s EXCEPT ![i] = x][k] = IF k = i THEN x ELSE s[k]
  OBVIOUS

-----------------------------------------------------------------------------
(***************************************************************************)
(* Changes.  The invariant says that the last diff on its way is as new    *)
(* as the list.                                                            *)
(***************************************************************************)
LEMMA DiffsSets ==
    /\ \A S : Diffs!Cardinality(S) = Cardinality(S)
    /\ \A S : Diffs!IsFiniteSet(S) <=> IsFiniteSet(S)
  <1>1. ASSUME NEW S PROVE Diffs!Cardinality(S) = Cardinality(S)
    BY DEF Diffs!Cardinality, Cardinality
  <1>2. ASSUME NEW S PROVE Diffs!IsFiniteSet(S) <=> IsFiniteSet(S)
    BY DEF Diffs!IsFiniteSet, IsFiniteSet
  <1> QED
    BY <1>1, <1>2

\* A job about file f of the folder at.
About(j, at, f) == j.file = f /\ j.at = at

LastAbout(q, i, at, f) ==
    About(q[i], at, f) /\ \A k \in 1..Len(q) : k > i => ~About(q[k], at, f)

\* The last diff asked for of the file shown is no older than the list, unless
\* the answer to a later request came before.
Fresh(q, at, f, e) ==
    f # None => \A i \in 1..Len(q) :
        LastAbout(q, i, at, f) /\ ~q[i].passed /\ q[i].state = "done" => q[i].edition >= e

DiffComes == \E i \in 1..Len(cJobs) : About(cJobs[i], cFolder, cPath) /\ cPath # None

DiffsInv ==
    /\ Diffs!TypeOK
    /\ cListEdition <= cEdition
    /\ \A i \in 1..Len(cJobs) : cJobs[i].edition <= cEdition
    /\ cPath # None => cSelected = {cPath}
    /\ cView.state = "diff" => cView.at = cFolder /\ cView.file = cPath /\ cPath # None
    /\ cView.state = "loading" => DiffComes
    /\ cView.state = "diff" /\ ~DiffComes /\ ~cView.passed => cView.edition >= cListEdition
    /\ Fresh(cJobs, cFolder, cPath, cListEdition)

LEMMA DiffsTask ==
    ASSUME NEW f \in Files \cup {None}, NEW at \in Opened
    PROVE  /\ Diffs!Task(f, at) \in Diffs!Job
           /\ Diffs!Task(f, at).file = f /\ Diffs!Task(f, at).at = at
           /\ Diffs!Task(f, at).state = "waits" /\ Diffs!Task(f, at).edition = 0
  BY DEF Diffs!Task, Diffs!Job

LEMMA DiffsViews ==
    /\ Diffs!Empty \in Diffs!View /\ Diffs!Empty.state = "empty"
    /\ \A f \in Files : Diffs!Loading(f) \in Diffs!View /\ Diffs!Loading(f).state = "loading"
    /\ [Diffs!Empty EXCEPT !.state = "failed"] \in Diffs!View
    /\ [Diffs!Empty EXCEPT !.state = "failed"].state = "failed"
  BY DEF Diffs!Empty, Diffs!View, Diffs!Loading

LEMMA DiffsInit == Diffs!Init => DiffsInv
  <1> SUFFICES ASSUME Diffs!Init PROVE DiffsInv
    OBVIOUS
  <1>1. PICK j : j = Diffs!Task(None, cFolder)
    OBVIOUS
  <1>2. /\ cFolder \in Opened /\ cEdition = 0 /\ cIsRepository = FALSE /\ cList = {}
        /\ cListEdition = 0 /\ cSelected = {} /\ cPath = None /\ cView = Diffs!Empty
        /\ cJobs = <<j>>
    BY <1>1 DEF Diffs!Init
  <1>3. PICK at \in Opened : at = cFolder
    BY <1>2
  <1>4. j \in Diffs!Job /\ j.edition = 0
    BY <1>1, <1>3, DiffsTask
  <1>5. cJobs \in Seq(Diffs!Job) /\ Len(cJobs) = 1 /\ cJobs[1] = j
    BY <1>2, <1>4
  <1>6. Diffs!TypeOK
    BY <1>2, <1>5, DiffsViews DEF Diffs!TypeOK
  <1>7. \A i \in 1..Len(cJobs) : cJobs[i].edition <= cEdition
    BY <1>2, <1>4, <1>5
  <1> QED
    BY <1>2, <1>6, <1>7, DiffsViews DEF DiffsInv, Fresh

\* A job added in front of which nothing changes.
LEMMA FreshAppend ==
    ASSUME NEW q \in Seq(Diffs!Job), NEW j \in Diffs!Job, j.state = "waits",
           NEW at, NEW f, NEW e, Fresh(q, at, f, e)
    PROVE  Fresh(Append(q, j), at, f, e)
  <1>1. PICK r : r = Append(q, j)
    OBVIOUS
  <1>2. /\ r \in Seq(Diffs!Job) /\ Len(r) = Len(q) + 1 /\ Len(q) \in Nat
        /\ r[Len(q) + 1] = j
        /\ \A k \in 1..Len(q) : k \in 1..Len(r) /\ r[k] = q[k]
    BY <1>1
  <1>3. ASSUME f # None, NEW i \in 1..Len(r), LastAbout(r, i, at, f), ~r[i].passed,
               r[i].state = "done"
        PROVE  r[i].edition >= e
    <2>1. i \in 1..Len(q) /\ r[i] = q[i]
      BY <1>2, <1>3
    <2>2. LastAbout(q, i, at, f)
      BY <1>2, <1>3, <2>1 DEF LastAbout
    <2> QED
      BY <1>3, <2>1, <2>2 DEF Fresh
  <1> QED
    BY <1>1, <1>3 DEF Fresh

\* The last job of the file shown is new.
LEMMA FreshNew ==
    ASSUME NEW q \in Seq(Diffs!Job), NEW j \in Diffs!Job, j.state = "waits",
           NEW at, NEW f, NEW e, About(j, at, f)
    PROVE  Fresh(Append(q, j), at, f, e)
  <1>1. PICK r : r = Append(q, j)
    OBVIOUS
  <1>2. /\ r \in Seq(Diffs!Job) /\ Len(r) = Len(q) + 1 /\ Len(q) \in Nat
        /\ r[Len(q) + 1] = j
    BY <1>1
  <1>3. ASSUME NEW i \in 1..Len(r), LastAbout(r, i, at, f) PROVE r[i].state = "waits"
    <2>1. ~(Len(q) + 1 > i)
      BY <1>2, <1>3 DEF LastAbout
    <2> QED
      BY <1>2, <2>1
  <1> QED
    BY <1>1, <1>3 DEF Fresh

\* requestDiffForSelection, whatever has changed the list or the selection.
LEMMA DiffRequest ==
    ASSUME Diffs!TypeOK, cListEdition' <= cEdition, NEW rest \in Seq(Diffs!Job),
           \A i \in 1..Len(rest) : rest[i].edition <= cEdition,
           UNCHANGED <<cFolder, cEdition>>, cListEdition' \in Nat,
           cIsRepository' \in BOOLEAN, cList' \subseteq Files, cSelected' \subseteq cList',
           Diffs!requestDiffForSelection(rest)
    PROVE  DiffsInv'
  <1>1. cFolder \in Opened /\ cEdition \in Nat
    BY DEF Diffs!TypeOK
  <1>2. CASE cIsRepository' /\ Diffs!Cardinality(cSelected') = 1
    <2>1. IsFiniteSet(cSelected') /\ Cardinality(cSelected') = 1 /\ None \notin Files
      <3>1. PICK S : S = cSelected'
        OBVIOUS
      <3>2. S \in SUBSET Files
        BY <3>1
      <3>3. IsFiniteSet(Files) /\ None \notin Files
        BY DiffsAssumption, DiffsSets DEF Diffs!ChangesAssumption
      <3>4. IsFiniteSet(S)
        BY <3>2, <3>3, FS_Subset
      <3>5. Cardinality(S) = 1
        BY <1>2, <3>1, DiffsSets
      <3> QED
        BY <3>1, <3>3, <3>4, <3>5
    <2>2. PICK f : cSelected' = {f}
      <3>1. PICK S : S = cSelected'
        OBVIOUS
      <3> QED
        BY <2>1, <3>1, FS_Singleton
    <2>3. f \in Files /\ f # None
      BY <2>1, <2>2
    <2>4. PICK at : at = cFolder /\ at \in Opened
      BY <1>1
    <2>5. PICK j : j = Diffs!Task(f, at)
      OBVIOUS
    <2>6. j \in Diffs!Job /\ About(j, at, f) /\ j.state = "waits" /\ j.edition = 0
      BY <2>3, <2>4, <2>5, DiffsTask DEF About
    <2>7. (CHOOSE x \in cSelected' : TRUE) = f
      BY <2>2
    <2>8. cPath' = f /\ cView' = Diffs!Loading(f) /\ cJobs' = Append(rest, j) /\ cFolder' = at
      <3>1. LET g == CHOOSE x \in cSelected' : TRUE
            IN  /\ cPath' = g /\ cView' = Diffs!Loading(g)
                /\ cJobs' = Append(rest, Diffs!Task(g, cFolder'))
        BY <1>2 DEF Diffs!requestDiffForSelection
      <3> QED
        BY <2>4, <2>5, <2>7, <3>1
    <2>9. Fresh(Append(rest, j), at, f, cListEdition')
      BY <2>6, FreshNew
    <2>10. Fresh(cJobs, cFolder, cPath, cListEdition)'
      BY <2>8, <2>9 DEF Fresh, LastAbout, About
    <2>11. /\ cJobs' \in Seq(Diffs!Job) /\ Len(rest) + 1 \in 1..Len(cJobs')
           /\ cJobs'[Len(rest) + 1] = j
           /\ \A i \in 1..Len(cJobs') : cJobs'[i] = j \/ (i \in 1..Len(rest) /\ cJobs'[i] = rest[i])
      BY <2>6, <2>8, AppendFacts
    <2>12. \A i \in 1..Len(cJobs') : cJobs'[i].edition <= cEdition'
      BY <1>1, <2>6, <2>11
    <2>13. cView' \in Diffs!View /\ cView'.state = "loading"
      BY <2>3, <2>8, DiffsViews
    <2>14. Diffs!TypeOK'
      BY <1>1, <2>3, <2>8, <2>11, <2>13 DEF Diffs!TypeOK
    <2>15. DiffComes'
      BY <2>3, <2>6, <2>8, <2>11 DEF DiffComes, About
    <2> QED
      BY <2>2, <2>8, <2>10, <2>12, <2>13, <2>14, <2>15 DEF DiffsInv
  <1>3. CASE ~(cIsRepository' /\ Diffs!Cardinality(cSelected') = 1)
    <2>1. cPath' = None /\ cView' = Diffs!Empty /\ cJobs' = rest
      BY <1>3 DEF Diffs!requestDiffForSelection
    <2>2. Diffs!TypeOK'
      BY <1>1, <2>1, DiffsViews DEF Diffs!TypeOK
    <2> QED
      BY <2>1, <2>2, DiffsViews DEF DiffsInv, Fresh
  <1> QED
    BY <1>2, <1>3

LEMMA DiffsOpenStep == ASSUME DiffsInv, NEW p \in Opened, Diffs!OpenFolder(p) PROVE DiffsInv'
  <1>1. PICK j : j = Diffs!Task(None, p)
    OBVIOUS
  <1>2. j \in Diffs!Job /\ j.edition = 0
    BY <1>1, DiffsTask
  <1>3. /\ cFolder' = p /\ cIsRepository' = FALSE /\ cList' = {} /\ cListEdition' = 0
        /\ cSelected' = {} /\ cPath' = None /\ cView' = Diffs!Empty /\ cEdition' = cEdition
        /\ cJobs' = Append(cJobs, j)
    BY <1>1 DEF Diffs!OpenFolder
  <1>4. cJobs \in Seq(Diffs!Job) /\ cEdition \in Nat
        /\ \A i \in 1..Len(cJobs) : cJobs[i].edition <= cEdition
    BY DEF DiffsInv, Diffs!TypeOK
  <1>5. cJobs' \in Seq(Diffs!Job) /\ \A i \in 1..Len(cJobs') : cJobs'[i].edition <= cEdition
    BY <1>2, <1>3, <1>4, AppendFacts
  <1>6. Diffs!TypeOK'
    BY <1>3, <1>4, <1>5, DiffsViews DEF Diffs!TypeOK
  <1> QED
    BY <1>3, <1>4, <1>5, <1>6, DiffsViews DEF DiffsInv, Fresh

LEMMA DiffsRefreshStep == ASSUME DiffsInv, Diffs!RefreshRequested PROVE DiffsInv'
  <1>1. /\ UNCHANGED <<cFolder, cEdition, cIsRepository, cList, cListEdition, cSelected,
                       cPath, cView>>
        /\ cFolder \in Opened /\ cEdition \in Nat /\ cJobs \in Seq(Diffs!Job)
        /\ \A i \in 1..Len(cJobs) : cJobs[i].edition <= cEdition
    BY DEF Diffs!RefreshRequested, Diffs!panel, DiffsInv, Diffs!TypeOK
  <1>2. PICK at \in Opened : at = cFolder
    BY <1>1
  <1>3. PICK j : j = Diffs!Task(None, at)
    OBVIOUS
  <1>4. j \in Diffs!Job /\ j.edition = 0 /\ j.state = "waits" /\ j.file = None
    BY <1>3, DiffsTask
  <1>5. cJobs' = Append(cJobs, j)
    BY <1>2, <1>3 DEF Diffs!RefreshRequested
  <1>6. /\ cJobs' \in Seq(Diffs!Job)
        /\ \A k \in 1..Len(cJobs) : k \in 1..Len(cJobs') /\ cJobs'[k] = cJobs[k]
        /\ \A k \in 1..Len(cJobs') : cJobs'[k] = j \/ (k \in 1..Len(cJobs) /\ cJobs'[k] = cJobs[k])
    BY <1>1, <1>4, <1>5, AppendFacts
  <1>7. \A k \in 1..Len(cJobs') : cJobs'[k].edition <= cEdition'
    BY <1>1, <1>4, <1>6
  <1>8. Diffs!TypeOK'
    BY <1>1, <1>6 DEF DiffsInv, Diffs!TypeOK
  <1>9. DiffComes' <=> DiffComes
    BY <1>1, <1>4, <1>6 DEF DiffComes, About
  <1>10. Fresh(cJobs, cFolder, cPath, cListEdition)'
    <2>1. PICK f, e : f = cPath /\ e = cListEdition
      OBVIOUS
    <2>2. PICK q : q = cJobs
      OBVIOUS
    <2>3. Fresh(q, at, f, e) /\ q \in Seq(Diffs!Job)
      BY <1>1, <1>2, <2>1, <2>2 DEF DiffsInv
    <2>4. Fresh(Append(q, j), at, f, e)
      BY <1>4, <2>3, FreshAppend
    <2> QED
      BY <1>1, <1>2, <1>5, <2>1, <2>2, <2>4 DEF Fresh, LastAbout, About
  <1> QED
    BY <1>1, <1>7, <1>8, <1>9, <1>10 DEF DiffsInv

LEMMA DiffsEditStep == ASSUME DiffsInv, Diffs!Edit PROVE DiffsInv'
  <1>1. /\ UNCHANGED <<cFolder, cIsRepository, cList, cListEdition, cSelected, cPath, cView, cJobs>>
        /\ cEdition' = cEdition + 1 /\ cEdition \in Nat /\ cListEdition \in Nat
        /\ cJobs \in Seq(Diffs!Job)
    BY DEF Diffs!Edit, Diffs!panel, DiffsInv, Diffs!TypeOK
  <1>2. Diffs!TypeOK'
    BY <1>1 DEF DiffsInv, Diffs!TypeOK
  <1>3. ASSUME NEW i \in 1..Len(cJobs) PROVE cJobs[i].edition \in Nat
    <2>1. cJobs[i] \in Diffs!Job
      BY <1>1
    <2> QED
      BY <2>1 DEF Diffs!Job
  <1>4. \A i \in 1..Len(cJobs') : cJobs'[i].edition <= cEdition'
    BY <1>1, <1>3 DEF DiffsInv
  <1>5. (DiffComes' <=> DiffComes) /\ Fresh(cJobs, cFolder, cPath, cListEdition)'
    BY <1>1 DEF DiffComes, DiffsInv, Fresh, LastAbout, About
  <1> QED
    BY <1>1, <1>2, <1>4, <1>5 DEF DiffsInv

\* A job that has run is about what it was about.
LEMMA FreshRan ==
    ASSUME NEW q \in Seq(Diffs!Job), NEW i \in 1..Len(q), NEW x \in Diffs!Job,
           x.file = q[i].file, x.at = q[i].at,
           NEW at, NEW f, NEW e, x.state = "done" => x.file = None \/ x.edition >= e,
           Fresh(q, at, f, e)
    PROVE  Fresh([q EXCEPT ![i] = x], at, f, e)
  <1>1. PICK r : r = [q EXCEPT ![i] = x]
    OBVIOUS
  <1>2. Len(r) = Len(q) /\ \A k \in 1..Len(q) : r[k] = IF k = i THEN x ELSE q[k]
    BY <1>1
  <1>3. \A k \in 1..Len(q) : LastAbout(r, k, at, f) => LastAbout(q, k, at, f)
    BY <1>2 DEF LastAbout, About
  <1>4. ASSUME f # None, NEW k \in 1..Len(r), LastAbout(r, k, at, f), ~r[k].passed,
               r[k].state = "done"
        PROVE  r[k].edition >= e
    <2>1. CASE k = i
      BY <1>2, <1>4, <2>1 DEF LastAbout, About
    <2>2. CASE k # i
      BY <1>2, <1>3, <1>4, <2>2 DEF Fresh
    <2> QED
      BY <2>1, <2>2
  <1> QED
    BY <1>1, <1>4 DEF Fresh

LEMMA DiffsRunStep ==
    ASSUME DiffsInv, NEW i \in 1..Len(cJobs), Diffs!Run(i) PROVE DiffsInv'
  <1>1. /\ UNCHANGED <<cFolder, cEdition, cIsRepository, cList, cListEdition, cSelected,
                       cPath, cView>>
        /\ cEdition \in Nat /\ cJobs \in Seq(Diffs!Job) /\ cListEdition \in Nat
        /\ cListEdition <= cEdition
        /\ \A k \in 1..Len(cJobs) : cJobs[k].edition <= cEdition
        /\ Diffs!readState(i) \/ Diffs!fileDiff(i)
    BY DEF Diffs!Run, Diffs!panel, DiffsInv, Diffs!TypeOK
  <1>2. PICK q : q = cJobs
    OBVIOUS
  <1>3. PICK e, now : e = cListEdition /\ now = cEdition
    OBVIOUS
  <1>4. PICK old : old = q[i]
    OBVIOUS
  <1>5. q \in Seq(Diffs!Job) /\ i \in 1..Len(q) /\ old \in Diffs!Job /\ e \in Nat
        /\ now \in Nat /\ e <= now
    BY <1>1, <1>2, <1>3, <1>4
  <1>6. PICK x \in Diffs!Job :
            /\ cJobs' = [q EXCEPT ![i] = x] /\ x.file = old.file /\ x.at = old.at
            /\ x.edition <= now /\ (x.state = "done" => x.file = None \/ x.edition >= e)
    <2>1. CASE Diffs!readState(i)
      <3>1. PICK r \in BOOLEAN, s \in SUBSET Files :
                cJobs' = [cJobs EXCEPT ![i] = [@ EXCEPT
                    !.state = "done", !.edition = cEdition, !.repo = r,
                    !.read = IF r THEN s ELSE {}]]
        BY <2>1 DEF Diffs!readState
      <3>2. PICK x : x = [old EXCEPT !.state = "done", !.edition = now, !.repo = r,
                                     !.read = IF r THEN s ELSE {}]
        OBVIOUS
      <3>3. x \in Diffs!Job /\ x.file = old.file /\ x.at = old.at /\ x.edition = now
        BY <1>5, <3>2 DEF Diffs!Job
      <3>4. cJobs' = [q EXCEPT ![i] = x]
        BY <1>2, <1>3, <1>4, <1>5, <3>1, <3>2
      <3>5. x.file = None
        BY <1>2, <1>4, <2>1, <3>3 DEF Diffs!readState
      <3>6. /\ cJobs' = [q EXCEPT ![i] = x] /\ x.file = old.file /\ x.at = old.at
            /\ x.edition <= now /\ (x.state = "done" => x.file = None \/ x.edition >= e)
        BY <1>5, <3>3, <3>4, <3>5
      <3> QED
        BY <3>3, <3>6, Zenon
    <2>2. CASE Diffs!fileDiff(i)
      <3>1. PICK x : /\ x \in {[old EXCEPT !.state = "done", !.edition = now],
                               [old EXCEPT !.state = "failed"]}
                     /\ cJobs' = [q EXCEPT ![i] = x]
        <4>1. CASE cJobs' = [cJobs EXCEPT ![i].state = "done", ![i].edition = cEdition]
          <5>1. cJobs' = [q EXCEPT ![i] = [old EXCEPT !.state = "done", !.edition = now]]
            BY <1>2, <1>3, <1>4, <1>5, <4>1
          <5> QED
            BY <5>1
        <4>2. CASE cJobs' = [cJobs EXCEPT ![i].state = "failed"]
          <5>1. cJobs' = [q EXCEPT ![i] = [old EXCEPT !.state = "failed"]]
            BY <1>2, <1>4, <1>5, <4>2
          <5> QED
            BY <5>1
        <4> QED
          BY <2>2, <4>1, <4>2 DEF Diffs!fileDiff
      <3>2. x \in Diffs!Job /\ x.file = old.file /\ x.at = old.at
            /\ (x.edition = now \/ (x.edition = old.edition /\ x.state = "failed"))
        BY <1>5, <3>1 DEF Diffs!Job
      <3>3. old.edition <= now
        BY <1>1, <1>2, <1>3, <1>4
      <3>4. x.state = "done" => x.edition = now
        BY <3>2
      <3>5. /\ cJobs' = [q EXCEPT ![i] = x] /\ x.file = old.file /\ x.at = old.at
            /\ x.edition <= now /\ (x.state = "done" => x.file = None \/ x.edition >= e)
        BY <1>5, <3>1, <3>2, <3>3, <3>4
      <3> QED
        BY <3>2, <3>5, Zenon
    <2> QED
      BY <1>1, <2>1, <2>2
  <1>7. /\ cJobs' \in Seq(Diffs!Job) /\ Len(cJobs') = Len(cJobs)
        /\ \A k \in 1..Len(cJobs) : cJobs'[k] = IF k = i THEN x ELSE cJobs[k]
    BY <1>2, <1>5, <1>6, ChangeFacts
  <1>8. Diffs!TypeOK'
    BY <1>1, <1>7 DEF DiffsInv, Diffs!TypeOK
  <1>9. \A k \in 1..Len(cJobs') : cJobs'[k].edition <= cEdition'
    BY <1>1, <1>3, <1>6, <1>7
  <1>10. DiffComes' <=> DiffComes
    BY <1>1, <1>2, <1>4, <1>6, <1>7 DEF DiffComes, About
  <1>11. Fresh(cJobs, cFolder, cPath, cListEdition)'
    <2>1. PICK at, f : at = cFolder /\ f = cPath
      OBVIOUS
    <2>2. Fresh(q, at, f, e)
      BY <1>2, <1>3, <2>1 DEF DiffsInv
    <2>3. Fresh([q EXCEPT ![i] = x], at, f, e)
      BY <1>4, <1>5, <1>6, <2>2, FreshRan
    <2> QED
      BY <1>1, <1>3, <1>6, <2>1, <2>3 DEF Fresh, LastAbout, About
  <1> QED
    BY <1>1, <1>8, <1>9, <1>10, <1>11 DEF DiffsInv

\* The job at i has been taken out, and those before it about the same file
\* are marked.
Marked(q, m, i) ==
    /\ Len(m) = Len(q)
    /\ \A k \in 1..Len(q) :
          /\ m[k].file = q[k].file /\ m[k].at = q[k].at /\ m[k].state = q[k].state
          /\ m[k].edition = q[k].edition
          /\ ~m[k].passed => ~q[k].passed /\ ~(k < i /\ About(q[k], q[i].at, q[i].file))

LEMMA FreshTaken ==
    ASSUME NEW q \in Seq(Diffs!Job), NEW m \in Seq(Diffs!Job), NEW i \in 1..Len(q),
           Marked(q, m, i), NEW at, NEW f, NEW e, Fresh(q, at, f, e)
    PROVE  Fresh(Without(m, i), at, f, e)
  <1>1. PICK r : r = Without(m, i)
    OBVIOUS
  <1>2. Len(q) \in Nat /\ Len(m) = Len(q)
    BY DEF Marked
  <1>3. /\ Len(r) = Len(q) - 1
        /\ \A k \in 1..(Len(q) - 1) : r[k] = IF k < i THEN m[k] ELSE m[k + 1]
    BY <1>1, <1>2, WithoutFacts
  <1>4. ASSUME f # None, NEW a \in 1..Len(r), LastAbout(r, a, at, f), ~r[a].passed,
               r[a].state = "done"
        PROVE  r[a].edition >= e
    <2>1. PICK b \in 1..Len(q) : b = IF a < i THEN a ELSE a + 1
      BY <1>2, <1>3
    <2>2. b # i /\ r[a] = m[b]
      BY <1>2, <1>3, <2>1
    <2>3. About(q[b], at, f) /\ ~q[b].passed /\ q[b].state = "done" /\ q[b].edition = r[a].edition
      BY <1>4, <2>2 DEF Marked, LastAbout, About
    <2>4. ASSUME NEW c \in 1..Len(q), c > b, About(q[c], at, f) PROVE FALSE
      <3>1. CASE c = i
        <4>1. b < i /\ About(q[b], q[i].at, q[i].file)
          BY <2>3, <2>4, <3>1 DEF About
        <4> QED
          BY <1>4, <2>2, <4>1 DEF Marked
      <3>2. CASE c # i
        <4>1. PICK d \in 1..Len(r) : d = IF c < i THEN c ELSE c - 1
          BY <1>2, <1>3, <3>2
        <4>2. d > a /\ r[d] = m[c]
          BY <1>2, <1>3, <2>1, <2>4, <3>2, <4>1
        <4>3. About(r[d], at, f)
          BY <2>4, <4>2 DEF Marked, About
        <4> QED
          BY <1>4, <4>2, <4>3 DEF LastAbout
      <3> QED
        BY <3>1, <3>2
    <2>5. LastAbout(q, b, at, f)
      BY <2>3, <2>4 DEF LastAbout
    <2> QED
      BY <1>4, <2>3, <2>5 DEF Fresh
  <1> QED
    BY <1>1, <1>4 DEF Fresh

LEMMA FileDiffReadyStep ==
    ASSUME DiffsInv, NEW i \in 1..Len(cJobs), Diffs!FileDiffReady(i) PROVE DiffsInv'
  <1>1. /\ UNCHANGED <<cFolder, cEdition, cIsRepository, cList, cListEdition, cSelected, cPath>>
        /\ cEdition \in Nat /\ cJobs \in Seq(Diffs!Job) /\ cListEdition \in Nat
        /\ cJobs[i].state # "waits" /\ cJobs[i].file # None
    BY DEF Diffs!FileDiffReady, Diffs!Back, DiffsInv, Diffs!TypeOK
  <1>2. PICK q : q = cJobs
    OBVIOUS
  <1>3. PICK j : j = q[i]
    OBVIOUS
  <1>4. q \in Seq(Diffs!Job) /\ j \in Diffs!Job /\ i \in 1..Len(q) /\ Len(q) \in Nat
    BY <1>1, <1>2, <1>3
  <1> DEFINE Earlier(k) == k < i /\ q[k].file = j.file /\ q[k].at = j.at
  <1>5. PICK m : m = [k \in 1..Len(q) |-> [q[k] EXCEPT !.passed = @ \/ Earlier(k)]]
    OBVIOUS
  <1>6. m \in Seq(Diffs!Job) /\ Marked(q, m, i)
    <2>1. ASSUME NEW k \in 1..Len(q)
          PROVE  /\ m[k] \in Diffs!Job /\ m[k].file = q[k].file /\ m[k].at = q[k].at
                 /\ m[k].state = q[k].state /\ m[k].edition = q[k].edition
                 /\ ~m[k].passed => ~q[k].passed /\ ~Earlier(k)
      <3>1. PICK o \in Diffs!Job : o = q[k]
        BY <1>4
      <3>2. PICK n : n = (o.passed \/ Earlier(k))
        OBVIOUS
      <3>3. n \in BOOLEAN /\ (n <=> o.passed \/ Earlier(k))
        BY <3>2
      <3>4. m[k] = [o EXCEPT !.passed = n]
        BY <1>5, <3>1, <3>2
      <3>5. /\ m[k] \in Diffs!Job /\ m[k].file = o.file /\ m[k].at = o.at
            /\ m[k].state = o.state /\ m[k].edition = o.edition /\ m[k].passed = n
        BY <3>3, <3>4 DEF Diffs!Job
      <3> QED
        BY <3>1, <3>3, <3>5
    <2>2. DOMAIN m = 1..Len(q)
      BY <1>5
    <2>3. m \in Seq(Diffs!Job) /\ Len(m) = Len(q)
      <3>1. m \in [1..Len(q) -> Diffs!Job]
        BY <1>5, <2>1
      <3> QED
        BY <1>4, <3>1
    <2> QED
      BY <1>3, <2>1, <2>3 DEF Marked, About
  <1>7. cJobs' = Without(m, i)
    <2>1. cJobs' = Diffs!RemoveAt([k \in DOMAIN cJobs |->
              [cJobs[k] EXCEPT !.passed = @ \/ (/\ k < i /\ cJobs[k].file = cJobs[i].file
                                                /\ cJobs[k].at = cJobs[i].at)]], i)
      BY DEF Diffs!FileDiffReady
    <2>2. DOMAIN q = 1..Len(q)
      BY <1>4
    <2>3. cJobs' = Diffs!RemoveAt(m, i)
      BY <1>2, <1>3, <1>5, <2>1, <2>2
    <2> QED
      BY <2>3 DEF Diffs!RemoveAt, Without
  <1>8. PICK r : r = cJobs'
    OBVIOUS
  <1>9. /\ r \in Seq(Diffs!Job) /\ Len(r) = Len(q) - 1
        /\ \A k \in 1..Len(r) : \E l \in 1..Len(q) : l # i /\ r[k] = m[l]
        /\ \A l \in 1..Len(q) : l # i => \E k \in 1..Len(r) : r[k] = m[l]
    <2>1. Len(m) = Len(q) /\ r = Without(m, i)
      BY <1>6, <1>7, <1>8 DEF Marked
    <2>2. m \in Seq(Diffs!Job) /\ i \in 1..Len(m)
      BY <1>4, <1>6, <2>1
    <2>3. /\ Without(m, i) \in Seq(Diffs!Job) /\ Len(Without(m, i)) = Len(m) - 1
          /\ \A k \in 1..Len(Without(m, i)) :
                \E l \in 1..Len(m) : l # i /\ Without(m, i)[k] = m[l]
          /\ \A l \in 1..Len(m) : l # i =>
                \E k \in 1..Len(Without(m, i)) : Without(m, i)[k] = m[l]
      BY <2>2, RestFacts, Zenon
    <2> QED
      BY <2>1, <2>3
  <1>10. PICK view : view = cView'
    OBVIOUS
  <1>11. /\ view = IF ~Diffs!Expected(j) THEN cView
                   ELSE IF j.state = "failed" THEN [Diffs!Empty EXCEPT !.state = "failed"]
                   ELSE [state |-> "diff", file |-> j.file, at |-> j.at,
                         edition |-> j.edition, passed |-> j.passed]
         /\ (Diffs!Expected(j) <=> About(j, cFolder, cPath))
    BY <1>2, <1>3, <1>10 DEF Diffs!FileDiffReady, Diffs!Expected, About
  <1>12. view \in Diffs!View
    BY <1>4, <1>11, DiffsViews DEF DiffsInv, Diffs!TypeOK, Diffs!View, Diffs!Job
  <1>13. Diffs!TypeOK'
    BY <1>1, <1>8, <1>9, <1>10, <1>12 DEF DiffsInv, Diffs!TypeOK
  <1>14. ASSUME NEW k \in 1..Len(r) PROVE r[k].edition <= cEdition
    <2>1. PICK l \in 1..Len(q) : r[k] = m[l]
      BY <1>9
    <2>2. q[l].edition <= cEdition /\ m[l].edition = q[l].edition
      BY <1>2, <1>6 DEF DiffsInv, Marked
    <2> QED
      BY <2>1, <2>2
  <1>15. Fresh(cJobs, cFolder, cPath, cListEdition)'
    <2>1. PICK at, f, e : at = cFolder /\ f = cPath /\ e = cListEdition
      OBVIOUS
    <2>2. Fresh(q, at, f, e)
      BY <1>2, <2>1 DEF DiffsInv
    <2>3. Fresh(Without(m, i), at, f, e)
      BY <1>4, <1>6, <2>2, FreshTaken
    <2> QED
      BY <1>1, <1>7, <2>1, <2>3 DEF Fresh, LastAbout, About
  <1>16. DiffComes' <=> \E k \in 1..Len(r) : About(r[k], cFolder, cPath) /\ cPath # None
    BY <1>1, <1>8 DEF DiffComes, About
  <1>17. DiffComes /\ ~About(j, cFolder, cPath) => DiffComes'
    <2>1. ASSUME NEW l \in 1..Len(q), About(q[l], cFolder, cPath), cPath # None, l # i
          PROVE  DiffComes'
      <3>1. PICK k \in 1..Len(r) : r[k] = m[l]
        BY <1>9, <2>1
      <3>2. About(r[k], cFolder, cPath)
        BY <1>6, <2>1, <3>1 DEF Marked, About
      <3> QED
        BY <1>16, <2>1, <3>2
    <2> QED
      BY <1>2, <1>3, <2>1 DEF DiffComes
  <1>18. DiffComes' => DiffComes
    <2>1. ASSUME NEW k \in 1..Len(r), About(r[k], cFolder, cPath), cPath # None
          PROVE  DiffComes
      <3>1. PICK l \in 1..Len(q) : r[k] = m[l]
        BY <1>9
      <3>2. About(q[l], cFolder, cPath)
        BY <1>6, <2>1, <3>1 DEF Marked, About
      <3> QED
        BY <1>2, <2>1, <3>2 DEF DiffComes
    <2> QED
      BY <1>16, <2>1
  <1>19. ASSUME About(j, cFolder, cPath), j.state = "done", ~DiffComes', ~j.passed
         PROVE  j.edition >= cListEdition
    <2>1. cPath # None
      BY <1>1, <1>2, <1>3, <1>19 DEF About
    <2>2. ASSUME NEW l \in 1..Len(q), l > i, About(q[l], cFolder, cPath) PROVE FALSE
      <3>1. PICK k \in 1..Len(r) : r[k] = m[l]
        BY <1>9, <2>2
      <3>2. About(r[k], cFolder, cPath)
        BY <1>6, <2>2, <3>1 DEF Marked, About
      <3> QED
        BY <1>16, <1>19, <2>1, <3>2
    <2>3. LastAbout(q, i, cFolder, cPath)
      BY <1>3, <1>19, <2>2 DEF LastAbout
    <2>4. Fresh(q, cFolder, cPath, cListEdition)
      BY <1>2 DEF DiffsInv
    <2> QED
      BY <1>3, <1>4, <1>19, <2>1, <2>3, <2>4 DEF Fresh
  <1>20. j.state \in {"done", "failed"}
    BY <1>1, <1>2, <1>3, <1>4 DEF Diffs!Job
  <1>21. CASE ~About(j, cFolder, cPath)
    <2>1. cView' = cView
      BY <1>10, <1>11, <1>21
    <2> QED
      BY <1>1, <1>8, <1>13, <1>14, <1>15, <1>17, <1>18, <1>21, <2>1 DEF DiffsInv
  <1>22. CASE About(j, cFolder, cPath) /\ j.state = "failed"
    <2>1. view.state = "failed"
      BY <1>11, <1>22, DiffsViews
    <2> QED
      BY <1>1, <1>8, <1>10, <1>13, <1>14, <1>15, <2>1 DEF DiffsInv
  <1>23. CASE About(j, cFolder, cPath) /\ j.state = "done"
    <2>1. /\ view.state = "diff" /\ view.file = cPath /\ view.at = cFolder /\ cPath # None
          /\ view.edition = j.edition /\ view.passed = j.passed
      BY <1>1, <1>2, <1>3, <1>11, <1>23 DEF About
    <2>2. ~DiffComes' /\ ~view.passed => view.edition >= cListEdition
      BY <1>19, <1>23, <2>1
    <2> QED
      BY <1>1, <1>8, <1>10, <1>13, <1>14, <1>15, <2>1, <2>2 DEF DiffsInv
  <1> QED
    BY <1>20, <1>21, <1>22, <1>23

LEMMA DiffsStateStep ==
    ASSUME DiffsInv, NEW i \in 1..Len(cJobs), Diffs!LocalStateReady(i) PROVE DiffsInv'
  <1>1. /\ UNCHANGED <<cFolder, cEdition>> /\ Diffs!TypeOK
        /\ cEdition \in Nat /\ cJobs \in Seq(Diffs!Job) /\ cListEdition \in Nat
        /\ cJobs[i].file = None /\ cJobs[i].edition <= cEdition
    BY DEF Diffs!LocalStateReady, DiffsInv, Diffs!TypeOK
  <1>2. PICK q : q = cJobs
    OBVIOUS
  <1>3. PICK j : j = q[i]
    OBVIOUS
  <1>4. q \in Seq(Diffs!Job) /\ j \in Diffs!Job /\ i \in 1..Len(q) /\ j.file = None
        /\ Len(q) \in Nat /\ j.edition <= cEdition
    BY <1>1, <1>2, <1>3
  <1>5. PICK rest : rest = Without(q, i)
    OBVIOUS
  <1>6. /\ rest \in Seq(Diffs!Job) /\ Len(rest) = Len(q) - 1
        /\ \A k \in 1..Len(rest) : \E l \in 1..Len(q) : l # i /\ rest[k] = q[l]
        /\ \A l \in 1..Len(q) : l # i => \E k \in 1..Len(rest) : rest[k] = q[l]
    <2>1. /\ Without(q, i) \in Seq(Diffs!Job) /\ Len(Without(q, i)) = Len(q) - 1
          /\ \A k \in 1..Len(Without(q, i)) :
                \E l \in 1..Len(q) : l # i /\ Without(q, i)[k] = q[l]
          /\ \A l \in 1..Len(q) : l # i =>
                \E k \in 1..Len(Without(q, i)) : Without(q, i)[k] = q[l]
      BY <1>4, RestFacts, Zenon
    <2> QED
      BY <1>5, <2>1
  <1>7. Diffs!RemoveAt(cJobs, i) = rest
    BY <1>2, <1>5 DEF Diffs!RemoveAt, Without
  <1>8. \A k \in 1..Len(rest) : rest[k].edition <= cEdition
    BY <1>2, <1>6 DEF DiffsInv
  <1>9. CASE cJobs[i].at = cFolder /\ cJobs[i].repo
    <2>1. /\ cIsRepository' = j.repo /\ cList' = j.read /\ cListEdition' = j.edition
          /\ cSelected' \subseteq cList'
          /\ Diffs!requestDiffForSelection(rest)
      BY <1>2, <1>3, <1>7, <1>9 DEF Diffs!LocalStateReady
    <2>2. j.repo \in BOOLEAN /\ j.read \subseteq Files /\ j.edition \in Nat
      BY <1>4 DEF Diffs!Job
    <2> QED
      BY <1>1, <1>4, <1>6, <1>8, <2>1, <2>2, DiffRequest
  <1>10. CASE ~(cJobs[i].at = cFolder /\ cJobs[i].repo)
    <2>1. /\ cJobs' = rest /\ cIsRepository' \in {cIsRepository, j.repo}
          /\ UNCHANGED <<cList, cListEdition, cSelected, cPath, cView>>
      BY <1>2, <1>3, <1>7, <1>10 DEF Diffs!LocalStateReady
    <2>2. j.repo \in BOOLEAN
      BY <1>4 DEF Diffs!Job
    <2>3. Diffs!TypeOK'
      BY <1>1, <1>6, <2>1, <2>2 DEF Diffs!TypeOK
    <2>4. DiffComes' <=> \E k \in 1..Len(rest) : About(rest[k], cFolder, cPath) /\ cPath # None
      BY <1>1, <2>1 DEF DiffComes, About
    <2>5. DiffComes => DiffComes'
      <3>1. ASSUME NEW l \in 1..Len(q), About(q[l], cFolder, cPath), cPath # None
            PROVE  DiffComes'
        <4>1. l # i
          BY <1>3, <1>4, <3>1 DEF About
        <4>2. PICK k \in 1..Len(rest) : rest[k] = q[l]
          BY <1>6, <4>1
        <4> QED
          BY <2>4, <3>1, <4>2
      <3> QED
        BY <1>2, <3>1 DEF DiffComes
    <2>6. DiffComes' => DiffComes
      <3>1. ASSUME NEW k \in 1..Len(rest), About(rest[k], cFolder, cPath), cPath # None
            PROVE  DiffComes
        <4>1. PICK l \in 1..Len(q) : rest[k] = q[l]
          BY <1>6
        <4> QED
          BY <1>2, <3>1, <4>1 DEF DiffComes
      <3> QED
        BY <2>4, <3>1
    <2>7. Fresh(cJobs, cFolder, cPath, cListEdition)'
      <3>1. PICK at, f, e : at = cFolder /\ f = cPath /\ e = cListEdition
        OBVIOUS
      <3>2. Fresh(q, at, f, e)
        BY <1>2, <3>1 DEF DiffsInv
      <3>3. CASE f = None
        BY <1>1, <2>1, <3>1, <3>3 DEF Fresh
      <3>4. CASE f # None
        <4>2. Fresh(rest, at, f, e)
          <5>1. Len(rest) = Len(q) - 1
                /\ \A k \in 1..(Len(q) - 1) : rest[k] = IF k < i THEN q[k] ELSE q[k + 1]
            BY <1>4, <1>5, WithoutFacts
          <5>2. ASSUME NEW a \in 1..Len(rest), LastAbout(rest, a, at, f), ~rest[a].passed,
                       rest[a].state = "done"
                PROVE  rest[a].edition >= e
            <6>1. PICK b \in 1..Len(q) : b = IF a < i THEN a ELSE a + 1
              BY <1>4, <5>1
            <6>2. rest[a] = q[b]
              BY <1>4, <5>1, <6>1
            <6>3. ASSUME NEW c \in 1..Len(q), c > b, About(q[c], at, f) PROVE FALSE
              <7>1. c # i
                BY <1>3, <1>4, <3>4, <6>3 DEF About
              <7>2. PICK d \in 1..Len(rest) : d = IF c < i THEN c ELSE c - 1
                BY <1>4, <5>1, <7>1
              <7>3. d > a /\ rest[d] = q[c]
                BY <1>4, <5>1, <6>1, <6>3, <7>1, <7>2
              <7> QED
                BY <5>2, <6>3, <7>3 DEF LastAbout
            <6>4. LastAbout(q, b, at, f)
              BY <5>2, <6>2, <6>3 DEF LastAbout
            <6> QED
              BY <3>2, <3>4, <5>2, <6>2, <6>4 DEF Fresh
          <5> QED
            BY <5>2 DEF Fresh
        <4> QED
          BY <1>1, <2>1, <3>1, <4>2 DEF Fresh, LastAbout, About
      <3> QED
        BY <3>3, <3>4
    <2> QED
      BY <1>1, <1>8, <2>1, <2>3, <2>5, <2>6, <2>7 DEF DiffsInv
  <1> QED
    BY <1>9, <1>10

LEMMA DiffsSelectStep ==
    ASSUME DiffsInv, NEW s \in SUBSET cList, Diffs!ChangesSelectionChanged(s)
    PROVE  DiffsInv'
  <1>1. /\ UNCHANGED <<cFolder, cEdition, cIsRepository, cList, cListEdition>>
        /\ Diffs!TypeOK /\ cSelected' = s /\ cListEdition <= cEdition
        /\ \A k \in 1..Len(cJobs) : cJobs[k].edition <= cEdition
    BY DEF Diffs!ChangesSelectionChanged, DiffsInv
  <1>2. PICK rest : rest = cJobs
    OBVIOUS
  <1>3. Diffs!requestDiffForSelection(rest)
    BY <1>2 DEF Diffs!ChangesSelectionChanged
  <1>4. rest \in Seq(Diffs!Job) /\ \A k \in 1..Len(rest) : rest[k].edition <= cEdition
    BY <1>1, <1>2 DEF Diffs!TypeOK
  <1>5. cListEdition' \in Nat /\ cIsRepository' \in BOOLEAN /\ cList' \subseteq Files
        /\ cSelected' \subseteq cList' /\ cListEdition' <= cEdition
    BY <1>1 DEF Diffs!TypeOK
  <1> QED
    BY <1>1, <1>3, <1>4, <1>5, DiffRequest

LEMMA DiffsStand == ASSUME DiffsInv, UNCHANGED changesVars PROVE DiffsInv'
  <1>1. UNCHANGED <<cFolder, cEdition, cIsRepository, cList, cListEdition, cSelected,
                    cPath, cView, cJobs>>
    BY DEF changesVars
  <1>2. Diffs!TypeOK'
    BY <1>1 DEF DiffsInv, Diffs!TypeOK
  <1>3. (DiffComes' <=> DiffComes) /\ Fresh(cJobs, cFolder, cPath, cListEdition)'
    BY <1>1 DEF DiffComes, DiffsInv, Fresh, LastAbout, About
  <1> QED
    BY <1>1, <1>2, <1>3 DEF DiffsInv

LEMMA DiffsNext == ASSUME DiffsInv, Diffs!Next PROVE DiffsInv'
  <1>1. DOMAIN cJobs = 1..Len(cJobs)
    BY DEF DiffsInv, Diffs!TypeOK
  <1> QED
    BY <1>1, DiffsOpenStep, DiffsRefreshStep, DiffsEditStep, DiffsSelectStep,
       DiffsRunStep, DiffsStateStep, FileDiffReadyStep DEF Diffs!Next

\* What the run checks of the diffs.
LEMMA DiffsHold ==
    DiffsInv => Diffs!TypeOK /\ Diffs!DiffIsOfSelected /\ Diffs!DiffKeepsUp
                /\ Diffs!LoadingIsAwaited
  <1> SUFFICES ASSUME DiffsInv
               PROVE  Diffs!TypeOK /\ Diffs!DiffIsOfSelected /\ Diffs!DiffKeepsUp
                      /\ Diffs!LoadingIsAwaited
    OBVIOUS
  <1>1. DOMAIN cJobs = 1..Len(cJobs)
    BY DEF DiffsInv, Diffs!TypeOK
  <1>2. DiffComes <=> Diffs!Awaited
    BY <1>1 DEF DiffComes, Diffs!Awaited, Diffs!Expected, About
  <1>3. Diffs!DiffIsOfSelected
    BY DEF DiffsInv, Diffs!DiffIsOfSelected
  <1>4. Diffs!DiffKeepsUp
    BY <1>2 DEF DiffsInv, Diffs!DiffKeepsUp
  <1>5. Diffs!LoadingIsAwaited
    BY <1>2 DEF DiffsInv, Diffs!LoadingIsAwaited
  <1> QED
    BY <1>3, <1>4, <1>5 DEF DiffsInv

-----------------------------------------------------------------------------
(***************************************************************************)
(* CommitDetails.  The invariant says that what is asked for is what is    *)
(* picked, and on its way while nothing is shown.                          *)
(***************************************************************************)
\* What is asked for when p is picked and o is the row that offers more.
Told(sha, p, o) ==
    /\ Cardinality(p) = 1 => sha = <<Details!Min(p)>>
    /\ Cardinality(p) = 2 /\ o \notin p => sha = <<Details!Max(p), Details!Min(p)>>

DetailComes == \E i \in 1..Len(dJobs) : dJobs[i].at = dFolder /\ dJobs[i].sha = dSha

\* The lower half shows, or waits for, what was asked for last.
DetailsShown ==
    /\ dSha \in Details!Shas /\ dFiles \in Details!About \cup {Details!Nothing}
    /\ dView \in {"empty", "loading", "diff", "failed"} /\ dJobs \in Seq(Details!Job)
    /\ dFiles # Details!Nothing => dFiles = [at |-> dFolder, sha |-> dSha]
    /\ dView = "diff" => dFiles # Details!Nothing
    /\ dView = "loading" /\ dSha # <<>> => DetailComes

DetailsInv ==
    /\ Details!TypeOK /\ DetailsShown
    /\ dOffer => dRows > 0
    /\ dPicked # {} => dFocus # 0
    /\ Told(dSha, dPicked, Details!Offer)

LEMMA DetailsSets ==
    /\ \A S : Details!Cardinality(S) = Cardinality(S)
    /\ \A S : Details!IsFiniteSet(S) <=> IsFiniteSet(S)
  <1>1. ASSUME NEW S PROVE Details!Cardinality(S) = Cardinality(S)
    BY DEF Details!Cardinality, Cardinality
  <1>2. ASSUME NEW S PROVE Details!IsFiniteSet(S) <=> IsFiniteSet(S)
    BY DEF Details!IsFiniteSet, IsFiniteSet
  <1> QED
    BY <1>1, <1>2

LEMMA NoneTold == ASSUME NEW sha, NEW o PROVE Told(sha, {}, o)
  <1>1. Cardinality({}) = 0
    BY FS_EmptySet
  <1> QED
    BY <1>1 DEF Told

LEMMA PickedSizes ==
    ASSUME NEW p \in SUBSET Nat, IsFiniteSet(p)
    PROVE  /\ Cardinality(p) = 1 => p = {Details!Min(p)} /\ Details!Min(p) \in p
           /\ Cardinality(p) = 2 => Details!Max(p) \in p /\ Details!Min(p) \in p
  <1>1. ASSUME Cardinality(p) = 1
        PROVE  p = {Details!Min(p)} /\ Details!Min(p) \in p
    <2>1. PICK x : p = {x}
      BY <1>1, FS_Singleton
    <2>2. Details!Min(p) = x
      BY <2>1 DEF Details!Min
    <2> QED
      BY <2>1, <2>2
  <1>2. ASSUME Cardinality(p) = 2
        PROVE  Details!Max(p) \in p /\ Details!Min(p) \in p
    <2>1. PICK x : x \in p
      BY <1>2, FS_EmptySet
    <2>2. IsFiniteSet(p \ {x}) /\ Cardinality(p \ {x}) = 1
      BY <1>2, <2>1, FS_RemoveElement
    <2>3. PICK y : p \ {x} = {y}
      BY <2>2, FS_Singleton
    <2>4. p = {x, y} /\ x \in Nat /\ y \in Nat
      BY <2>1, <2>3
    <2>5. (\E b \in p : \A c \in p : b >= c) /\ (\E b \in p : \A c \in p : b <= c)
      BY <2>4
    <2> QED
      BY <2>5 DEF Details!Max, Details!Min
  <1> QED
    BY <1>1, <1>2

\* The rows are finitely many, and but for the last each is a commit.
LEMMA RowsFacts ==
    ASSUME Details!TypeOK, dOffer => dRows > 0
    PROVE  /\ dRows \in Nat /\ dRows <= MaxRows /\ MaxRows \in Nat
           /\ Details!Rows \in SUBSET Nat /\ IsFiniteSet(Details!Rows)
           /\ \A r \in Details!Rows : r # Details!Offer => r \in Details!Commits /\ r <= dRows
           /\ \A r \in Details!Rows : r > 0
           /\ 1..dRows \subseteq Details!Commits /\ Details!Offer = dRows + 1
           /\ dRows > 0 => dRows \in Details!Rows
  <1>1. dRows \in Nat /\ dRows <= MaxRows /\ MaxRows \in Nat
    BY DetailsAssumption DEF Details!TypeOK, Details!CommitDetailsAssumption
  <1>2. Details!Rows \subseteq 1..(dRows + 1) /\ Details!Rows \in SUBSET Nat
    BY <1>1 DEF Details!Rows, Details!Offer
  <1>3. IsFiniteSet(Details!Rows)
    <2>1. PICK n \in Nat : n = dRows + 1
      BY <1>1
    <2>2. IsFiniteSet(1..n)
      BY FS_Interval
    <2>3. PICK R : R = Details!Rows
      OBVIOUS
    <2>4. R \in SUBSET (1..n)
      BY <1>2, <2>1, <2>3
    <2>5. IsFiniteSet(R)
      BY <2>2, <2>4, FS_Subset
    <2> QED
      BY <2>3, <2>5
  <1> QED
    BY <1>1, <1>2, <1>3 DEF Details!Rows, Details!Offer, Details!Commits

LEMMA PairOf == ASSUME NEW S, NEW x \in S, NEW y \in S PROVE <<x>> \o <<y>> = <<x, y>>
  <1>1. <<x>> \in Seq(S) /\ <<y>> \in Seq(S) /\ <<x, y>> \in Seq(S)
    OBVIOUS
  <1>2. PICK a, b, c : a = <<x>> /\ b = <<y>> /\ c = <<x, y>>
    OBVIOUS
  <1>3. /\ a \in Seq(S) /\ b \in Seq(S) /\ c \in Seq(S)
        /\ Len(a) = 1 /\ Len(b) = 1 /\ Len(c) = 2
        /\ a[1] = x /\ b[1] = y /\ c[1] = x /\ c[2] = y
    BY <1>2
  <1>4. a \o b \in Seq(S) /\ Len(a \o b) = 2 /\ (a \o b)[1] = x /\ (a \o b)[2] = y
    BY <1>3
  <1>5. a \o b = c
    BY <1>3, <1>4, SeqEqual
  <1> QED
    BY <1>2, <1>5

LEMMA ShaFacts ==
    ASSUME Details!TypeOK, dOffer => dRows > 0,
           NEW p \in SUBSET Details!Rows, NEW f \in Details!Rows,
           p \notin {{}, {Details!Offer}},
           ~(Cardinality(p) = 2 /\ Details!Offer \in p)
    PROVE  Details!Sha(p, f) \in Details!Shas /\ Told(Details!Sha(p, f), p, Details!Offer)
  <1>1. PICK o : o = Details!Offer
    OBVIOUS
  <1>2. PICK R : R = Details!Rows
    OBVIOUS
  <1>3. R \in SUBSET Nat /\ IsFiniteSet(R) /\ \A r \in R : r # o => r \in Details!Commits
    BY <1>1, <1>2, RowsFacts
  <1>4. p \in SUBSET Nat /\ IsFiniteSet(p)
    BY <1>2, <1>3, FS_Subset
  <1> DEFINE Id(r) == IF r = o THEN <<>> ELSE <<r>>
  <1>5. Details!Sha(p, f) =
            CASE Cardinality(p) = 2 -> Id(Details!Max(p)) \o Id(Details!Min(p))
              [] Cardinality(p) = 1 -> Id(Details!Min(p))
              [] OTHER -> Id(f)
    BY <1>1, DetailsSets DEF Details!Sha
  <1>6. CASE Cardinality(p) = 2
    <2>1. PICK x, y : x = Details!Max(p) /\ y = Details!Min(p)
      OBVIOUS
    <2>2. x \in p /\ y \in p /\ x # o /\ y # o
      BY <1>1, <1>4, <1>6, <2>1, PickedSizes
    <2>3. x \in Details!Commits /\ y \in Details!Commits
      BY <1>2, <1>3, <2>2
    <2>4. Details!Sha(p, f) = <<x>> \o <<y>>
      BY <1>5, <1>6, <2>1, <2>2
    <2>5. <<x>> \o <<y>> = <<x, y>>
      BY <2>3, PairOf
    <2> QED
      BY <1>1, <1>6, <2>1, <2>3, <2>4, <2>5 DEF Told, Details!Shas
  <1>7. CASE Cardinality(p) = 1
    <2>1. PICK y : y = Details!Min(p)
      OBVIOUS
    <2>2. p = {y}
      BY <1>4, <1>7, <2>1, PickedSizes
    <2>3. y # o /\ y \in Details!Commits
      BY <1>1, <1>2, <1>3, <2>2
    <2>4. Details!Sha(p, f) = <<y>>
      BY <1>5, <1>7, <2>1, <2>3
    <2> QED
      BY <1>7, <2>1, <2>3, <2>4 DEF Told, Details!Shas
  <1>8. CASE Cardinality(p) # 1 /\ Cardinality(p) # 2
    <2>1. Details!Sha(p, f) = IF f = o THEN <<>> ELSE <<f>>
      BY <1>5, <1>8
    <2>2. f = o \/ f \in Details!Commits
      BY <1>2, <1>3
    <2> QED
      BY <1>8, <2>1, <2>2 DEF Told, Details!Shas
  <1> QED
    BY <1>6, <1>7, <1>8

LEMMA DetailsAskStep ==
    ASSUME DetailsShown, dFolder \in Opened, dFolder' = dFolder,
           NEW sha \in Details!Shas, Details!Ask(sha)
    PROVE  DetailsShown' /\ dSha' = sha
  <1>1. CASE sha = dSha
    <2>1. UNCHANGED <<dSha, dFiles, dView, dJobs>>
      BY <1>1 DEF Details!Ask, Details!details
    <2> QED
      BY <1>1, <2>1 DEF DetailsShown, DetailComes
  <1>2. CASE sha # dSha
    <2>1. /\ dSha' = sha /\ dFiles' = Details!Nothing /\ dView' = "loading"
          /\ IF sha = <<>> THEN UNCHANGED dJobs
             ELSE dJobs' = Append(dJobs, [at |-> dFolder, sha |-> sha, state |-> "waits"])
      BY <1>2 DEF Details!Ask
    <2>2. dJobs \in Seq(Details!Job)
      BY DEF DetailsShown
    <2>3. CASE sha = <<>>
      BY <2>1, <2>2, <2>3 DEF DetailsShown
    <2>4. CASE sha # <<>>
      <3>1. PICK j : j = [at |-> dFolder, sha |-> sha, state |-> "waits"]
        OBVIOUS
      <3>2. j \in Details!Job /\ j.at = dFolder /\ j.sha = sha
        BY <3>1 DEF Details!Job
      <3>3. dJobs' = Append(dJobs, j)
        BY <2>1, <2>4, <3>1
      <3>4. /\ dJobs' \in Seq(Details!Job) /\ Len(dJobs) + 1 \in 1..Len(dJobs')
            /\ dJobs'[Len(dJobs) + 1] = j
        BY <2>2, <3>2, <3>3, AppendFacts
      <3>5. DetailComes'
        BY <2>1, <3>2, <3>4 DEF DetailComes
      <3> QED
        BY <2>1, <3>4, <3>5 DEF DetailsShown
    <2> QED
      BY <2>1, <2>3, <2>4
  <1> QED
    BY <1>1, <1>2

LEMMA ClearStep ==
    ASSUME DetailsShown, Details!Cleared, UNCHANGED dJobs PROVE DetailsShown'
  <1>1. dSha' = <<>> /\ dFiles' = Details!Nothing /\ dView' = "empty"
    BY DEF Details!Cleared
  <1> QED
    BY <1>1 DEF DetailsShown, Details!Shas

LEMMA SelectStep ==
    ASSUME DetailsInv, NEW p \in SUBSET Details!Rows, NEW f, p # {} => f \in Details!Rows,
           Details!SelectionChanged(p, f), dFolder' = dFolder
    PROVE  /\ DetailsShown' /\ dFocus' = f
           /\ dPicked' = IF p \in {{}, {Details!Offer}} THEN {} ELSE p
           /\ Told(dSha', dPicked', Details!Offer)
  <1>1. Details!TypeOK /\ DetailsShown /\ (dOffer => dRows > 0) /\ dFolder \in Opened
    BY DEF DetailsInv, Details!TypeOK
  <1>2. CASE p \in {{}, {Details!Offer}}
    <2>1. dPicked' = {} /\ Details!Cleared /\ UNCHANGED dJobs /\ dFocus' = f
      BY <1>2 DEF Details!SelectionChanged
    <2>2. DetailsShown'
      BY <1>1, <2>1, ClearStep
    <2> QED
      BY <1>2, <2>1, <2>2, NoneTold
  <1>3. CASE p \notin {{}, {Details!Offer}}
    <2>1. /\ dPicked' = p /\ dFocus' = f
          /\ IF Details!Cardinality(p) = 2 /\ Details!Offer \in p
             THEN UNCHANGED <<dSha, dFiles, dView, dJobs>>
             ELSE Details!Ask(Details!Sha(p, f))
      BY <1>3 DEF Details!SelectionChanged, Details!details
    <2>2. Details!Cardinality(p) = Cardinality(p)
      BY DetailsSets
    <2>3. CASE Cardinality(p) = 2 /\ Details!Offer \in p
      <3>1. UNCHANGED <<dSha, dFiles, dView, dJobs>>
        BY <2>1, <2>2, <2>3
      <3>2. DetailsShown'
        BY <1>1, <3>1 DEF DetailsShown, DetailComes
      <3> QED
        BY <1>3, <2>1, <2>3, <3>2 DEF Told
    <2>4. CASE ~(Cardinality(p) = 2 /\ Details!Offer \in p)
      <3>1. PICK sha : sha = Details!Sha(p, f)
        OBVIOUS
      <3>2. sha \in Details!Shas /\ Told(sha, p, Details!Offer)
        BY <1>1, <1>3, <2>4, <3>1, ShaFacts
      <3>3. Details!Ask(sha)
        BY <2>1, <2>2, <2>4, <3>1
      <3>4. DetailsShown' /\ dSha' = sha
        BY <1>1, <3>2, <3>3, DetailsAskStep
      <3> QED
        BY <1>3, <2>1, <3>2, <3>4
    <2> QED
      BY <2>3, <2>4
  <1> QED
    BY <1>2, <1>3

LEMMA PickStep == ASSUME DetailsInv, NEW r \in Details!Rows, Details!Pick(r) PROVE DetailsInv'
  <1>1. PICK p : /\ p \in {{r}, Details!SymDiff(dPicked, {r}),
                           {x \in Details!Rows : \/ dFocus <= x /\ x <= r
                                                 \/ r <= x /\ x <= dFocus}}
                 /\ Details!SelectionChanged(p, r)
                 /\ dLoading' = (dLoading \/ p = {Details!Offer})
    BY DEF Details!Pick
  <1>2. /\ UNCHANGED <<dFolder, dRows, dOffer>> /\ Details!TypeOK
        /\ dPicked \subseteq Details!Rows /\ (dOffer => dRows > 0)
    BY DEF Details!Pick, DetailsInv, Details!TypeOK
  <1>3. p \in SUBSET Details!Rows
    BY <1>1, <1>2 DEF Details!SymDiff
  <1>4. /\ DetailsShown' /\ dFocus' = r
        /\ dPicked' = IF p \in {{}, {Details!Offer}} THEN {} ELSE p
        /\ Told(dSha', dPicked', Details!Offer)
    BY <1>1, <1>2, <1>3, SelectStep
  <1>5. Details!Rows' = Details!Rows /\ Details!Offer' = Details!Offer
    BY <1>2 DEF Details!Rows, Details!Offer
  <1>6. r # 0
    BY <1>2, RowsFacts
  <1>7. dLoading' \in BOOLEAN
    BY <1>1
  <1>8. /\ dFolder' \in Opened /\ dRows' \in 0..MaxRows /\ dPicked' \subseteq Details!Rows'
        /\ dFocus' \in Details!Rows' \cup {0}
    BY <1>2, <1>3, <1>4, <1>5 DEF Details!TypeOK
  <1>9. dOffer' \in BOOLEAN
    BY <1>2 DEF Details!TypeOK
  <1>10. {dOffer', dLoading'} \subseteq BOOLEAN
    BY <1>7, <1>9, Zenon
  <1>11. Details!TypeOK'
    <2>1. /\ dSha' \in Details!Shas /\ dFiles' \in Details!About \cup {Details!Nothing}
          /\ dView' \in {"empty", "loading", "diff", "failed"} /\ dJobs' \in Seq(Details!Job)
      BY <1>4 DEF DetailsShown
    <2> QED
      BY <1>8, <1>10, <2>1, Zenon DEF Details!TypeOK
  <1> QED
    BY <1>2, <1>4, <1>5, <1>6, <1>11 DEF DetailsInv

LEMMA DetailsOpenStep ==
    ASSUME DetailsInv, NEW p \in Opened, Details!OpenFolder(p) PROVE DetailsInv'
  <1>1. /\ dFolder' = p /\ dRows' = 0 /\ dOffer' = FALSE /\ dPicked' = {} /\ dFocus' = 0
        /\ Details!Cleared /\ UNCHANGED <<dLoading, dJobs>> /\ DetailsShown
        /\ Details!TypeOK /\ MaxRows \in Nat
    BY DetailsAssumption DEF Details!OpenFolder, DetailsInv, Details!CommitDetailsAssumption
  <1>2. DetailsShown'
    BY <1>1, ClearStep
  <1>3. Details!TypeOK'
    <2>1. /\ dSha' \in Details!Shas /\ dFiles' \in Details!About \cup {Details!Nothing}
          /\ dView' \in {"empty", "loading", "diff", "failed"} /\ dJobs' \in Seq(Details!Job)
      BY <1>2 DEF DetailsShown
    <2>2. {dOffer', dLoading'} \subseteq BOOLEAN
      BY <1>1, Zenon DEF Details!TypeOK
    <2>3. /\ dFolder' \in Opened /\ dRows' \in 0..MaxRows /\ dPicked' \subseteq Details!Rows'
          /\ dFocus' \in Details!Rows' \cup {0}
      BY <1>1 DEF Details!TypeOK
    <2> QED
      BY <2>1, <2>2, <2>3, Zenon DEF Details!TypeOK
  <1>4. Told(dSha, dPicked, Details!Offer)'
    <2>1. PICK s, o : s = dSha' /\ o = Details!Offer'
      OBVIOUS
    <2>2. Told(s, {}, o)
      BY NoneTold
    <2> QED
      BY <1>1, <2>1, <2>2 DEF Told
  <1> QED
    BY <1>1, <1>2, <1>3, <1>4 DEF DetailsInv

LEMMA SetHistoryStep ==
    ASSUME DetailsInv, NEW n \in 0..MaxRows, NEW more \in BOOLEAN, n > 0 \/ ~more,
           Details!setHistory(n, more)
    PROVE  DetailsInv'
  <1>1. /\ dRows' = n /\ dOffer' = more /\ dLoading' = FALSE /\ dPicked' = {}
        /\ dFocus' = 0 /\ Details!Cleared /\ UNCHANGED <<dFolder, dJobs>> /\ DetailsShown
        /\ Details!TypeOK
    BY DEF Details!setHistory, DetailsInv
  <1>2. DetailsShown'
    BY <1>1, ClearStep
  <1>3. Details!TypeOK'
    <2>1. /\ dSha' \in Details!Shas /\ dFiles' \in Details!About \cup {Details!Nothing}
          /\ dView' \in {"empty", "loading", "diff", "failed"} /\ dJobs' \in Seq(Details!Job)
      BY <1>2 DEF DetailsShown
    <2>2. {dOffer', dLoading'} \subseteq BOOLEAN
      BY <1>1, Zenon DEF Details!TypeOK
    <2>3. /\ dFolder' \in Opened /\ dRows' \in 0..MaxRows /\ dPicked' \subseteq Details!Rows'
          /\ dFocus' \in Details!Rows' \cup {0}
      BY <1>1 DEF Details!TypeOK
    <2> QED
      BY <2>1, <2>2, <2>3, Zenon DEF Details!TypeOK
  <1>4. Told(dSha, dPicked, Details!Offer)'
    <2>1. PICK s, o : s = dSha' /\ o = Details!Offer'
      OBVIOUS
    <2>2. Told(s, {}, o)
      BY NoneTold
    <2> QED
      BY <1>1, <2>1, <2>2 DEF Told
  <1> QED
    BY <1>1, <1>2, <1>3, <1>4 DEF DetailsInv

LEMMA AppendHistoryStep ==
    ASSUME DetailsInv, NEW n \in 0..MaxRows, NEW more \in BOOLEAN, n > 0 \/ ~more,
           Details!appendHistory(n, more)
    PROVE  DetailsInv'
  <1> DEFINE f == IF dFocus = Details!Offer THEN dRows ELSE dFocus
  <1>1. /\ dLoading' = FALSE /\ n >= dRows /\ dRows' = n /\ dOffer' = more
        /\ dFolder' = dFolder
        /\ IF dOffer /\ Details!Offer \in dPicked
           THEN Details!SelectionChanged(dPicked \ {Details!Offer}, f)
           ELSE dFocus' = f /\ UNCHANGED <<dPicked, dSha, dFiles, dView, dJobs>>
    BY DEF Details!appendHistory, Details!details
  <1>2. /\ Details!TypeOK /\ DetailsShown /\ (dOffer => dRows > 0)
        /\ (dPicked # {} => dFocus # 0) /\ Told(dSha, dPicked, Details!Offer)
        /\ dPicked \subseteq Details!Rows /\ dFocus \in Details!Rows \cup {0}
        /\ dFolder \in Opened /\ dOffer \in BOOLEAN /\ n \in Nat
    BY DEF DetailsInv, Details!TypeOK
  <1>3. /\ dRows \in Nat /\ Details!Offer = dRows + 1
        /\ Details!Rows = 1..dRows \cup (IF dOffer THEN {dRows + 1} ELSE {})
        /\ Details!Rows' = 1..n \cup (IF more THEN {n + 1} ELSE {})
        /\ Details!Offer' = n + 1
    BY <1>1, <1>2, RowsFacts DEF Details!Rows, Details!Offer
  <1>4. f \in (1..dRows) \cup {0} /\ (dPicked # {} => f \in 1..dRows)
    BY <1>2, <1>3
  <1> HIDE DEF f
  <1>5. /\ DetailsShown' /\ dFocus' = f /\ dPicked' \subseteq dPicked /\ dPicked' \subseteq 1..dRows
        /\ Told(dSha', dPicked', Details!Offer)
    <2>1. CASE dOffer /\ Details!Offer \in dPicked
      <3>1. PICK p : p = dPicked \ {Details!Offer}
        OBVIOUS
      <3>2. Details!SelectionChanged(p, f)
        BY <1>1, <2>1, <3>1
      <3>3. p \in SUBSET Details!Rows /\ (p # {} => f \in Details!Rows) /\ p \subseteq dPicked
            /\ p \subseteq 1..dRows
        BY <1>2, <1>3, <1>4, <3>1
      <3>4. /\ DetailsShown' /\ dFocus' = f
            /\ dPicked' = IF p \in {{}, {Details!Offer}} THEN {} ELSE p
            /\ Told(dSha', dPicked', Details!Offer)
        BY <1>1, <3>2, <3>3, SelectStep
      <3> QED
        BY <3>3, <3>4
    <2>2. CASE ~(dOffer /\ Details!Offer \in dPicked)
      <3>1. dFocus' = f /\ UNCHANGED <<dFolder, dPicked, dSha, dFiles, dView, dJobs>>
        BY <1>1, <2>2
      <3>2. DetailsShown'
        BY <1>2, <3>1 DEF DetailsShown, DetailComes
      <3>3. dPicked \subseteq 1..dRows
        BY <1>2, <1>3, <2>2
      <3> QED
        BY <1>2, <3>1, <3>2, <3>3
    <2> QED
      BY <2>1, <2>2
  <1>6. Told(dSha, dPicked, Details!Offer)'
    <2>1. Details!Offer \notin dPicked'
      BY <1>3, <1>5
    <2> QED
      BY <1>5, <2>1 DEF Told
  <1>7. /\ dFolder' \in Opened /\ dRows' \in 0..MaxRows /\ dPicked' \subseteq Details!Rows'
        /\ dFocus' \in Details!Rows' \cup {0} /\ (dPicked' # {} => dFocus' # 0)
        /\ (dOffer' => dRows' > 0)
    BY <1>1, <1>2, <1>3, <1>4, <1>5
  <1>8. {dOffer', dLoading'} \subseteq BOOLEAN
    BY <1>1
  <1>9. Details!TypeOK'
    <2>1. /\ dSha' \in Details!Shas /\ dFiles' \in Details!About \cup {Details!Nothing}
          /\ dView' \in {"empty", "loading", "diff", "failed"} /\ dJobs' \in Seq(Details!Job)
      BY <1>5 DEF DetailsShown
    <2> QED
      BY <1>7, <1>8, <2>1, Zenon DEF Details!TypeOK
  <1> QED
    BY <1>5, <1>6, <1>7, <1>9 DEF DetailsInv

\* A step that leaves the list of commits and what is picked alone.
LEMMA DetailsBelow ==
    ASSUME DetailsInv, UNCHANGED <<dFolder, dRows, dOffer, dLoading, dPicked, dFocus, dSha>>,
           DetailsShown'
    PROVE  DetailsInv'
  <1>1. Details!Rows' = Details!Rows /\ Details!Offer' = Details!Offer
    BY DEF Details!Rows, Details!Offer
  <1>2. Details!TypeOK'
    BY <1>1 DEF DetailsInv, DetailsShown, Details!TypeOK
  <1> QED
    BY <1>1, <1>2 DEF DetailsInv, Told

LEMMA DetailsRunStep ==
    ASSUME DetailsInv, NEW i \in 1..Len(dJobs), Details!Run(i) PROVE DetailsInv'
  <1>1. PICK s \in {"done", "bare", "failed"} : dJobs' = [dJobs EXCEPT ![i].state = s]
    BY DEF Details!Run
  <1>2. UNCHANGED <<dFolder, dRows, dOffer, dLoading, dPicked, dFocus, dSha, dFiles, dView>>
    BY DEF Details!Run, Details!history, Details!details
  <1>3. DetailsShown /\ dJobs \in Seq(Details!Job)
    BY DEF DetailsInv, DetailsShown
  <1>4. PICK j : j = [dJobs[i] EXCEPT !.state = s]
    OBVIOUS
  <1>5. j \in Details!Job /\ j.at = dJobs[i].at /\ j.sha = dJobs[i].sha
    <2>1. PICK b : b = dJobs[i]
      OBVIOUS
    <2>2. b \in Details!Job /\ j = [b EXCEPT !.state = s]
      BY <1>3, <1>4, <2>1
    <2>3. j \in Details!Job /\ j.at = b.at /\ j.sha = b.sha
      BY <2>2 DEF Details!Job
    <2> QED
      BY <2>1, <2>3
  <1>6. dJobs' = [dJobs EXCEPT ![i] = j]
    BY <1>1, <1>3, <1>4
  <1>7. /\ dJobs' \in Seq(Details!Job) /\ Len(dJobs') = Len(dJobs)
        /\ \A k \in 1..Len(dJobs) : dJobs'[k] = IF k = i THEN j ELSE dJobs[k]
    BY <1>3, <1>5, <1>6, ChangeFacts
  <1>8. DetailComes => DetailComes'
    BY <1>2, <1>5, <1>7 DEF DetailComes
  <1>9. DetailsShown'
    BY <1>2, <1>3, <1>7, <1>8 DEF DetailsShown
  <1> QED
    BY <1>2, <1>9, DetailsBelow

LEMMA DetailsReadyStep ==
    ASSUME DetailsInv, NEW i \in 1..Len(dJobs), Details!CommitDiffReady(i) PROVE DetailsInv'
  <1>1. PICK q : q = dJobs
    OBVIOUS
  <1>2. PICK j : j = q[i]
    OBVIOUS
  <1>3. PICK rest : rest = Without(q, i)
    OBVIOUS
  <1>4. Details!RemoveAt(dJobs, i) = rest
    BY <1>1, <1>3 DEF Details!RemoveAt, Without
  <1>5. DetailsShown /\ q \in Seq(Details!Job) /\ i \in 1..Len(q) /\ j \in Details!Job
    BY <1>1, <1>2 DEF DetailsInv, DetailsShown
  <1>6. /\ rest \in Seq(Details!Job)
        /\ \A l \in 1..Len(q) : l # i => \E k \in 1..Len(rest) : rest[k] = q[l]
    <2>1. /\ Without(q, i) \in Seq(Details!Job) /\ Len(Without(q, i)) = Len(q) - 1
          /\ \A k \in 1..Len(Without(q, i)) :
                \E l \in 1..Len(q) : l # i /\ Without(q, i)[k] = q[l]
          /\ \A l \in 1..Len(q) : l # i =>
                \E k \in 1..Len(Without(q, i)) : Without(q, i)[k] = q[l]
      BY <1>5, RestFacts, Zenon
    <2> QED
      BY <1>3, <2>1
  <1> DEFINE ours == j.at = dFolder /\ j.sha = dSha
  <1>7. /\ UNCHANGED <<dFolder, dRows, dOffer, dLoading, dPicked, dFocus, dSha>>
        /\ dJobs' = rest /\ j.state # "waits"
        /\ IF ~ours THEN UNCHANGED <<dFiles, dView>>
           ELSE /\ dFiles' = IF j.state = "done" THEN [at |-> j.at, sha |-> j.sha]
                             ELSE Details!Nothing
                /\ dView' = CASE j.state = "done"   -> "diff"
                              [] j.state = "bare"   -> "empty"
                              [] j.state = "failed" -> "failed"
    BY <1>1, <1>2, <1>4 DEF Details!CommitDiffReady, Details!history, Details!Expected
  <1>8. DetailsShown'
    <2>1. CASE ~ours
      <3>1. DetailComes => DetailComes'
        <4>1. ASSUME NEW l \in 1..Len(q), q[l].at = dFolder, q[l].sha = dSha
              PROVE  DetailComes'
          <5>1. l # i
            BY <1>2, <2>1, <4>1
          <5>2. PICK k \in 1..Len(rest) : rest[k] = q[l]
            BY <1>6, <5>1
          <5> QED
            BY <1>7, <4>1, <5>2 DEF DetailComes
        <4> QED
          BY <1>1, <4>1 DEF DetailComes
      <3> QED
        BY <1>5, <1>6, <1>7, <2>1, <3>1 DEF DetailsShown
    <2>2. CASE ours
      <3>1. /\ j.state \in {"done", "bare", "failed"} /\ j.at \in Opened /\ j.sha \in Details!Shas
            /\ None \notin Opened
        BY <1>5, <1>7, DetailsAssumption DEF Details!Job, Details!CommitDetailsAssumption
      <3>2. PICK a : a = [at |-> j.at, sha |-> j.sha]
        OBVIOUS
      <3>3. a \in Details!About /\ a # Details!Nothing
        BY <3>1, <3>2 DEF Details!About, Details!Nothing
      <3>4. \/ dFiles' = a /\ dView' = "diff"
            \/ dFiles' = Details!Nothing /\ dView' \in {"empty", "failed"}
        BY <1>7, <2>2, <3>1, <3>2
      <3> QED
        BY <1>5, <1>6, <1>7, <2>2, <3>2, <3>3, <3>4 DEF DetailsShown
    <2> QED
      BY <2>1, <2>2
  <1> QED
    BY <1>7, <1>8, DetailsBelow

LEMMA DetailsFileStep ==
    ASSUME DetailsInv, Details!CommitFileSelectionChanged PROVE DetailsInv'
  <1>1. /\ UNCHANGED <<dFolder, dRows, dOffer, dLoading, dPicked, dFocus, dSha, dFiles, dJobs>>
        /\ dFiles # Details!Nothing /\ dView' \in {"diff", "empty"} /\ DetailsShown
    BY DEF Details!CommitFileSelectionChanged, Details!history, DetailsInv
  <1>2. DetailsShown'
    BY <1>1 DEF DetailsShown
  <1> QED
    BY <1>1, <1>2, DetailsBelow

LEMMA DetailsStand == ASSUME DetailsInv, UNCHANGED detailsVars PROVE DetailsInv'
  <1>1. UNCHANGED <<dFolder, dRows, dOffer, dLoading, dPicked, dFocus, dSha, dFiles, dView,
                    dJobs>>
    BY DEF detailsVars
  <1>2. DetailsShown'
    BY <1>1 DEF DetailsInv, DetailsShown, DetailComes
  <1> QED
    BY <1>1, <1>2, DetailsBelow

LEMMA DetailsInit == Details!Init => DetailsInv
  <1> SUFFICES ASSUME Details!Init PROVE DetailsInv
    OBVIOUS
  <1>1. /\ dFolder \in Opened /\ dRows = 0 /\ dOffer = FALSE /\ dLoading = FALSE
        /\ dPicked = {} /\ dFocus = 0 /\ dSha = <<>> /\ dFiles = Details!Nothing
        /\ dView = "empty" /\ dJobs = <<>> /\ MaxRows \in Nat
    BY DetailsAssumption DEF Details!Init, Details!CommitDetailsAssumption
  <1>2. DetailsShown
    BY <1>1 DEF DetailsShown, Details!Shas
  <1>3. Details!TypeOK
    <2>1. /\ dSha \in Details!Shas /\ dFiles \in Details!About \cup {Details!Nothing}
          /\ dView \in {"empty", "loading", "diff", "failed"} /\ dJobs \in Seq(Details!Job)
      BY <1>2 DEF DetailsShown
    <2>2. {dOffer, dLoading} \subseteq BOOLEAN
      BY <1>1, Zenon
    <2>3. /\ dFolder \in Opened /\ dRows \in 0..MaxRows /\ dPicked \subseteq Details!Rows
          /\ dFocus \in Details!Rows \cup {0}
      BY <1>1
    <2> QED
      BY <2>1, <2>2, <2>3, Zenon DEF Details!TypeOK
  <1>4. Told(dSha, dPicked, Details!Offer)
    BY <1>1, NoneTold
  <1> QED
    BY <1>1, <1>2, <1>3, <1>4 DEF DetailsInv

LEMMA DetailsNext == ASSUME DetailsInv, Details!Next PROVE DetailsInv'
  <1>1. DOMAIN dJobs = 1..Len(dJobs)
    BY DEF DetailsInv, Details!TypeOK
  <1> QED
    BY <1>1, DetailsOpenStep, PickStep, SetHistoryStep, AppendHistoryStep, DetailsRunStep,
       DetailsReadyStep, DetailsFileStep DEF Details!Next

\* What the run checks of the details.
LEMMA DetailsHold ==
    DetailsInv => Details!TypeOK /\ Details!FilesOfPicked /\ Details!LoadingIsAwaited
  <1> SUFFICES ASSUME DetailsInv
               PROVE  Details!TypeOK /\ Details!FilesOfPicked /\ Details!LoadingIsAwaited
    OBVIOUS
  <1>1. Details!TypeOK /\ DetailsShown /\ Told(dSha, dPicked, Details!Offer)
        /\ DOMAIN dJobs = 1..Len(dJobs)
    BY DEF DetailsInv, Details!TypeOK
  <1>2. Details!Cardinality(dPicked) = Cardinality(dPicked)
    BY DetailsSets
  <1>3. Details!FilesOfPicked
    BY <1>1, <1>2 DEF Details!FilesOfPicked, DetailsShown, Told
  <1>4. Details!LoadingIsAwaited
    BY <1>1 DEF Details!LoadingIsAwaited, DetailsShown, DetailComes, Details!Expected
  <1> QED
    BY <1>1, <1>3, <1>4

-----------------------------------------------------------------------------
(***************************************************************************)
(* All of them.                                                            *)
(***************************************************************************)
all == <<moving, vars, viewVars, tabsVars, changesVars, detailsVars>>

PanelsInv == IInv /\ ViewInv /\ TabsInv /\ DiffsInv /\ DetailsInv

LEMMA PanelsStart == PanelsInit => PanelsInv
  BY InitInv, ViewInit, TabsInit, DiffsInit, DetailsInit DEF PanelsInit, PanelsInv

\* Who does not move keeps its invariant.
LEMMA PanelsStay == ASSUME PanelsInv, NEW m, Still(m)
                    PROVE  /\ m # "clones" => IInv'
                           /\ m # "view" => ViewInv' /\ SwitchRead
                           /\ m # "tabs" => TabsInv'
                           /\ m # "changes" => DiffsInv'
                           /\ m # "details" => DetailsInv'
  BY NextInv, ViewStands, TabsStand, DiffsStand, DetailsStand DEF PanelsInv, Still

LEMMA PanelsStep == ASSUME PanelsInv, [PanelsNext]_all PROVE PanelsInv' /\ [SwitchRead]_(View!vars)
  <1>1. CASE Still("clones") /\ Next
    <2>1. IInv'
      BY <1>1, NextInv DEF PanelsInv
    <2> QED
      BY <1>1, <2>1, PanelsStay DEF PanelsInv
  <1>2. CASE Still("view") /\ View!Next
    <2>1. ViewInv' /\ SwitchRead
      BY <1>2, ViewNext DEF PanelsInv
    <2> QED
      BY <1>2, <2>1, PanelsStay DEF PanelsInv
  <1>3. CASE Still("tabs") /\ Tabs!Next
    <2>1. TabsInv'
      BY <1>3, TabsNext DEF PanelsInv
    <2> QED
      BY <1>3, <2>1, PanelsStay DEF PanelsInv
  <1>4. CASE Still("changes") /\ Diffs!Next
    <2>1. DiffsInv'
      BY <1>4, DiffsNext DEF PanelsInv
    <2> QED
      BY <1>4, <2>1, PanelsStay DEF PanelsInv
  <1>5. CASE Still("details") /\ Details!Next
    <2>1. DetailsInv'
      BY <1>5, DetailsNext DEF PanelsInv
    <2> QED
      BY <1>5, <2>1, PanelsStay DEF PanelsInv
  <1>6. CASE UNCHANGED all
    <2>1. UNCHANGED vars /\ UNCHANGED viewVars /\ UNCHANGED tabsVars
          /\ UNCHANGED changesVars /\ UNCHANGED detailsVars
      BY <1>6 DEF all
    <2> QED
      BY <2>1, NextInv, ViewStands, TabsStand, DiffsStand, DetailsStand DEF PanelsInv
  <1> QED
    BY <1>1, <1>2, <1>3, <1>4, <1>5, <1>6 DEF PanelsNext

LEMMA PanelsInvariance == PanelsSpec => []PanelsInv
  <1>1. PanelsInv /\ [PanelsNext]_all => PanelsInv'
    BY PanelsStep
  <1> QED
    BY <1>1, PanelsStart, PTL DEF PanelsSpec, all

(***************************************************************************)
(* Of the five that share the window every variable stays in its range,    *)
(* whatever repositories, folders, branches, files and commits there are,  *)
(* and in whatever order answers come.                                     *)
(***************************************************************************)
THEOREM PanelsTypes == PanelsSpec => []AllTypesOK
  <1>1. PanelsInv => AllTypesOK
    BY DiffsHold, DetailsHold DEF PanelsInv, AllTypesOK, IInv, ViewInv, TabsInv
  <1> QED
    BY <1>1, PanelsInvariance, PTL

(***************************************************************************)
(* The sidebar and the clones keep their promises beside the others.       *)
(***************************************************************************)
THEOREM PanelsClones == PanelsSpec => [](ControllerOwnsClone /\ RememberedIsReal)
  <1>1. PanelsInv => ControllerOwnsClone /\ RememberedIsReal
    BY DEF PanelsInv, IInv
  <1> QED
    BY <1>1, PanelsInvariance, PTL

(***************************************************************************)
(* What a panel shows is what is selected in it, whatever the user opens   *)
(* and selects while answers are under way (setReadme, setFileDiff,        *)
(* setCommitDiff, applyMode).                                              *)
(***************************************************************************)
THEOREM PanelsShown == PanelsSpec => []ShownIsSelected
  <1>1. PanelsInv => ShownIsSelected
    BY ViewQuiet, DiffsHold, DetailsHold DEF PanelsInv, ShownIsSelected, TabsInv
  <1> QED
    BY <1>1, PanelsInvariance, PTL

(***************************************************************************)
(* What says "Loading" has its answer under way (showRepository,           *)
(* requestDiffForSelection, onHistorySelectionChanged).                    *)
(***************************************************************************)
THEOREM PanelsAwaited == PanelsSpec => []LoadingIsAwaited
  <1>1. PanelsInv => LoadingIsAwaited
    BY DiffsHold, DetailsHold DEF PanelsInv, LoadingIsAwaited, TabsInv
  <1> QED
    BY <1>1, PanelsInvariance, PTL

(***************************************************************************)
(* A switch of branches is followed by a reading of the clone, unless the  *)
(* panel beside has that clone open (onBranchSwitched).                    *)
(***************************************************************************)
THEOREM PanelsSwitch == PanelsSpec => SwitchIsRead
  <1>1. PanelsInv /\ [PanelsNext]_all => [SwitchRead]_(View!vars)
    BY PanelsStep
  <1>2. PanelsSpec => [][SwitchRead]_(View!vars)
    BY <1>1, PanelsInvariance, PTL DEF PanelsSpec, all
  <1>3. [][SwitchRead]_(View!vars) => SwitchIsRead
    BY DEF SwitchRead, SwitchIsRead, View!SwitchIsRead
  <1> QED
    BY <1>2, <1>3, PTL
=============================================================================
