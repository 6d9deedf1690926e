--------------------------- MODULE ConflictProofs ---------------------------
(***************************************************************************)
(* Theorems about Conflict, for every set of folders, every number of      *)
(* files and every bound.  The invariants are inductive together with the  *)
(* types: that the buttons are disabled before a second operation starts   *)
(* rests on the operation under way being delivered exactly once.          *)
(***************************************************************************)
EXTENDS Conflict, TLAPS

IInv == TypeOK /\ OneOpAtATime /\ PanesMatchSelection

USE NoFolderAssumption, ConflictAssumption

\* The jobs part of TypeOK.
JobsOK == jobs \subseteq Job /\ sent \in 0..MaxJobs

\* A new job is well formed.
LEMMA SubmitType ==
    ASSUME JobsOK, NEW rest \in SUBSET jobs, NEW kind, NEW of \in Folders, NEW file,
           Submit(rest, kind, of, file),
           \/ kind = "resolve" /\ file \in Files
           \/ kind \in {"list", "abort"} /\ file = NoFile
    PROVE  /\ JobsOK' /\ jobs' = rest \cup {NewJob(kind, of, file)}
           /\ NewJob(kind, of, file).kind = kind
  <1>1. sent + 1 \in 1..MaxJobs /\ sent' = sent + 1
    BY DEF JobsOK, Submit
  <1>2. NewJob(kind, of, file) \in Job
    BY <1>1 DEF NewJob, Job, JobOf, Files, Ops
  <1>3. NewJob(kind, of, file).kind = kind
    BY DEF NewJob
  <1> QED
    BY <1>1, <1>2, <1>3 DEF Submit, JobsOK

\* A job that has run keeps its kind and folder.
LEMMA DoneType ==
    ASSUME JobsOK, NEW j \in jobs, NEW ok \in BOOLEAN, NEW got \in SUBSET Files,
           Done(j, ok, got), UNCHANGED sent
    PROVE  /\ JobsOK'
           /\ \E k : jobs' = (jobs \ {j}) \cup {k} /\ k.kind = j.kind
  <1> DEFINE k == [j EXCEPT !.done = TRUE, !.ok = ok, !.got = got]
  <1>1. j \in JobOf({"resolve"}, Files) \cup JobOf({"list", "abort"}, {NoFile})
    BY DEF JobsOK, Job
  <1>2. k \in Job /\ k.kind = j.kind
    <2>1. CASE j \in JobOf({"resolve"}, Files)
      BY <2>1 DEF JobOf, Job
    <2>2. CASE j \in JobOf({"list", "abort"}, {NoFile})
      BY <2>2 DEF JobOf, Job
    <2> QED
      BY <1>1, <2>1, <2>2
  <1> QED
    BY <1>2 DEF Done, JobsOK

\* Operations under way, when one job is replaced by another of its kind.
LEMMA ReplaceOps ==
    ASSUME NEW j \in jobs, NEW k, jobs' = (jobs \ {j}) \cup {k}, k.kind = j.kind
    PROVE  /\ OpsInFlight' # {} => OpsInFlight # {}
           /\ (\A x, y \in OpsInFlight : x = y) => \A x, y \in OpsInFlight' : x = y
  <1>1. CASE j.kind \in Ops
    BY <1>1 DEF OpsInFlight, Ops
  <1>2. CASE j.kind \notin Ops
    BY <1>2 DEF OpsInFlight, Ops
  <1> QED
    BY <1>1, <1>2

\* A new list job is no operation; neither is anything that goes away.
LEMMA FewerOps ==
    ASSUME NEW rest \in SUBSET jobs, NEW k,
           jobs' = rest \/ (jobs' = rest \cup {k} /\ k.kind = "list")
    PROVE  OpsInFlight' \subseteq OpsInFlight
  BY DEF OpsInFlight, Ops

\* Loads stay counted.
LEMMA LoadType ==
    ASSUME loads \in [Folders -> [Files -> 0..MaxLoads]],
           NEW f \in Folders, NEW p \in Paths, NEW q \in Paths, Load(f, p, q)
    PROVE  loads' \in [Folders -> [Files -> 0..MaxLoads]]
  <1> DEFINE row == [x \in Files |-> loads[f][x] + (IF x = p THEN 1 ELSE 0)
                                                 + (IF x = q THEN 1 ELSE 0)]
  <1>1. loads' = [loads EXCEPT ![f] = row]
    BY DEF Load
  <1>2. \A x \in Files : row[x] \in Nat
    BY DEF Files
  <1>3. loads'[f] = row
    BY <1>1
  <1>4. \A x \in Files : row[x] <= MaxLoads
    BY <1>3 DEF Load
  <1>5. row \in [Files -> 0..MaxLoads]
    BY <1>2, <1>4
  <1> HIDE DEF row
  <1> QED
    BY <1>1, <1>5
-----------------------------------------------------------------------------
THEOREM InitInv == Init => IInv
  <1> SUFFICES ASSUME Init PROVE IInv
    OBVIOUS
  <1>1. loads \in [Folders -> [Files -> 0..MaxLoads]]
    BY DEF Init
  <1>2. TypeOK
    <2>1. panes \in Panes /\ selected \in Paths /\ shownPath \in Paths
      BY DEF Init, Panes, Paths
    <2>2. jobs \subseteq Job /\ sent \in 0..MaxJobs /\ merges \in 0..MaxMerges
      BY DEF Init
    <2>3. lastEntries \subseteq Files /\ list \subseteq Files
      BY DEF Init
    <2> QED
      BY <1>1, <2>1, <2>2, <2>3 DEF Init, TypeOK
  <1>3. OneOpAtATime /\ PanesMatchSelection
    BY DEF Init, OneOpAtATime, PanesMatchSelection, OpsInFlight, Blank
  <1> QED
    BY <1>2, <1>3 DEF IInv

LEMMA UserInv == ASSUME IInv, User PROVE IInv'
  <1> USE DEF IInv
  <1>0. JobsOK
    BY DEF TypeOK, JobsOK
  <1>1. CASE Start
    <2>1. JobsOK' /\ OpsInFlight' \subseteq OpsInFlight
      BY <1>0, <1>1, SubmitType, FewerOps DEF Start, TypeOK
    <2>2. TypeOK'
      BY <1>1, <2>1 DEF Start, TypeOK, JobsOK, outside, history
    <2> QED
      BY <1>1, <2>1, <2>2 DEF Start, OneOpAtATime, PanesMatchSelection
  <1>2. CASE CloseDialog
    <2>1. TypeOK'
      BY <1>2 DEF CloseDialog, TypeOK, control, pool, outside, history
    <2>2. OpsInFlight' = OpsInFlight
      BY <1>2 DEF CloseDialog, pool, OpsInFlight
    <2> QED
      BY <1>2, <2>1, <2>2 DEF CloseDialog, OneOpAtATime, PanesMatchSelection
  <1>3. CASE MarkResolved
    <2>1. selected \in Files /\ activePath \in Folders
      BY <1>3 DEF MarkResolved, TypeOK, Paths
    <2>2. /\ JobsOK' /\ jobs' = jobs \cup {NewJob("resolve", activePath, selected)}
      BY <1>0, <1>3, <2>1, SubmitType DEF MarkResolved
    <2>3. TypeOK'
      BY <1>3, <2>2 DEF MarkResolved, TypeOK, JobsOK, control, outside, history
    <2>4. OpsInFlight = {}
      BY <1>3 DEF MarkResolved, OneOpAtATime
    <2>5. \A x, y \in OpsInFlight' : x = y
      BY <2>2, <2>4 DEF OpsInFlight
    <2> QED
      BY <1>3, <2>3, <2>5 DEF MarkResolved, OneOpAtATime, PanesMatchSelection
  <1>4. CASE AbortMerge
    <2>1. activePath \in Folders
      BY <1>4 DEF AbortMerge, TypeOK
    <2>2. JobsOK' /\ jobs' = jobs \cup {NewJob("abort", activePath, NoFile)}
      BY <1>0, <1>4, <2>1, SubmitType DEF AbortMerge
    <2>3. TypeOK'
      BY <1>4, <2>2 DEF AbortMerge, TypeOK, JobsOK, control, outside, history
    <2>4. OpsInFlight = {}
      BY <1>4 DEF AbortMerge, OneOpAtATime
    <2>5. \A x, y \in OpsInFlight' : x = y
      BY <2>2, <2>4 DEF OpsInFlight
    <2> QED
      BY <1>4, <2>3, <2>5 DEF AbortMerge, OneOpAtATime, PanesMatchSelection
  <1>5. CASE \E f \in Folders : ActivateFolder(f)
    <2>1. TypeOK'
      BY <1>5 DEF ActivateFolder, Reset, TypeOK, pool, outside
    <2>2. OpsInFlight' = OpsInFlight
      BY <1>5 DEF ActivateFolder, pool, OpsInFlight
    <2> QED
      BY <1>5, <2>1, <2>2 DEF ActivateFolder, OneOpAtATime, PanesMatchSelection
  <1>6. CASE \E p \in Files : Select(p)
    <2> PICK p \in Files : Select(p)
      BY <1>6
    <2>1. loads' \in [Folders -> [Files -> 0..MaxLoads]]
      BY LoadType DEF Select, TypeOK, Paths
    <2>2. panes' \in {panes, Loading} /\ selected' = p
      BY DEF Select
    <2>3. TypeOK'
      BY <2>1, <2>2 DEF Select, TypeOK, Paths, Panes, control, outside, history
    <2>4. OpsInFlight' = OpsInFlight
      BY DEF Select, OpsInFlight
    <2>5. PanesMatchSelection'
      BY DEF Select, PanesMatchSelection, Loading
    <2> QED
      BY <2>3, <2>4, <2>5 DEF Select, OneOpAtATime
  <1>7. CASE \E f \in Folders, S \in SUBSET Files : MergeConflicts(f, S)
    <2>1. TypeOK'
      BY <1>7 DEF MergeConflicts, TypeOK, control, dialog, pool
    <2>2. OpsInFlight' = OpsInFlight
      BY <1>7 DEF MergeConflicts, pool, OpsInFlight
    <2> QED
      BY <1>7, <2>1, <2>2
         DEF MergeConflicts, OneOpAtATime, PanesMatchSelection, dialog
  <1> QED
    BY <1>1, <1>2, <1>3, <1>4, <1>5, <1>6, <1>7 DEF User

LEMMA RunInv == ASSUME IInv, Run PROVE IInv'
  <1> USE DEF IInv
  <1> PICK j \in jobs : RunList(j) \/ RunResolve(j) \/ RunAbort(j)
    BY DEF Run
  <1>1. j.of \in Folders /\ JobsOK
    BY DEF TypeOK, JobsOK, Job, JobOf
  <1>2. PICK ok \in BOOLEAN, got \in SUBSET Files : Done(j, ok, got)
    <2>1. conflicts[j.of] \in SUBSET Files
      BY <1>1 DEF TypeOK
    <2>2. CASE RunList(j)
      BY <2>1, <2>2 DEF RunList
    <2>3. CASE RunResolve(j) \/ RunAbort(j)
      BY <2>3 DEF RunResolve, RunAbort
    <2> QED
      BY <2>2, <2>3
  <1>3. UNCHANGED <<folder, control, dialog, loads, sent, merges, reused>>
    BY DEF RunList, RunResolve, RunAbort, outside, history
  <1>4. conflicts' \in [Folders -> SUBSET Files] /\ disturbed' \in BOOLEAN
    <2>1. CASE RunList(j)
      <3>1. disturbed' \in BOOLEAN
        BY <2>1 DEF RunList, TypeOK
      <3> QED
        BY <2>1, <3>1 DEF RunList, TypeOK, outside
    <2>2. CASE RunResolve(j) \/ RunAbort(j)
      <3>1. conflicts' \in [Folders -> SUBSET Files]
        <4>1. conflicts \in [Folders -> SUBSET Files]
          BY DEF TypeOK
        <4>2. conflicts[j.of] \ {j.file} \subseteq Files
          BY <1>1, <4>1
        <4>3. \/ UNCHANGED conflicts
              \/ \E S \in SUBSET Files : conflicts' = [conflicts EXCEPT ![j.of] = S]
          BY <2>2, <4>2 DEF RunResolve, RunAbort
        <4> QED
          BY <1>1, <4>1, <4>3
      <3> QED
        BY <2>2, <3>1 DEF RunResolve, RunAbort, TypeOK, history
    <2> QED
      BY <2>1, <2>2
  <1>5. JobsOK' /\ \E k : jobs' = (jobs \ {j}) \cup {k} /\ k.kind = j.kind
    BY <1>1, <1>2, <1>3, DoneType
  <1>6. TypeOK'
    BY <1>3, <1>4, <1>5 DEF TypeOK, JobsOK, control, dialog
  <1>7. /\ OpsInFlight' # {} => OpsInFlight # {}
        /\ (\A x, y \in OpsInFlight : x = y) => \A x, y \in OpsInFlight' : x = y
    BY <1>5, ReplaceOps
  <1> HIDE DEF OpsInFlight
  <1>8. OneOpAtATime' /\ PanesMatchSelection'
    BY <1>3, <1>7 DEF OneOpAtATime, PanesMatchSelection, dialog
  <1> QED
    BY <1>6, <1>8

LEMMA DeliverInv == ASSUME IInv, Deliver PROVE IInv'
  <1> USE DEF IInv
  <1>0. JobsOK
    BY DEF TypeOK, JobsOK
  <1>1. ASSUME NEW j \in jobs, ConflictsReady(j) PROVE IInv'
    <2>1. jobs' = jobs \ {j} /\ JobsOK' /\ OpsInFlight' \subseteq OpsInFlight
      BY <1>0, <1>1, FewerOps DEF ConflictsReady, JobsOK
    <2>2. UNCHANGED <<folder, busy, sent, outside, disturbed>>
      BY <1>1 DEF ConflictsReady
    <2>3. j.got \subseteq Files /\ j.of \in Folders
      BY <1>0 DEF JobsOK, Job, JobOf
    <2>4. CASE j.of = activePath /\ j.got # {}
      <3>1. lastEntries' = j.got /\ ShowEntries(j.got) /\ UNCHANGED <<activePath, reused>>
        BY <1>1, <2>4 DEF ConflictsReady
      <3>2. PICK first \in j.got :
              LET current == IF selected \in j.got THEN selected ELSE first
                  fresh   == current # shownPath
              IN  /\ list' = j.got /\ selected' = current
                  /\ panes' = IF fresh THEN Loading ELSE panes
                  /\ Load(activePath, IF fresh THEN current ELSE NoFile, first)
                  /\ UNCHANGED <<open, shownPath>>
        BY <3>1 DEF ShowEntries
      <3>3. loads' \in [Folders -> [Files -> 0..MaxLoads]]
        BY <2>3, <2>4, <3>2, LoadType DEF TypeOK, Paths
      <3>4. selected' \in Paths /\ panes' \in Panes /\ list' \subseteq Files
            /\ lastEntries' \subseteq Files
        BY <2>3, <3>1, <3>2 DEF TypeOK, Paths, Panes
      <3>5. UNCHANGED <<open, shownPath, conflicts, merges>>
        BY <2>2, <3>2 DEF outside
      <3>6. TypeOK'
        BY <2>1, <2>2, <3>1, <3>3, <3>4, <3>5 DEF TypeOK, JobsOK
      <3>7. PanesMatchSelection'
        BY <3>2 DEF PanesMatchSelection, Loading
      <3> QED
        BY <2>1, <2>2, <3>6, <3>7 DEF OneOpAtATime
    <2>5. CASE j.of = activePath /\ j.got = {}
      <3>1. ClearEntries /\ Reset /\ UNCHANGED loads
        BY <1>1, <2>5 DEF ConflictsReady
      <3>2. /\ selected' \in Paths /\ shownPath' \in Paths /\ panes' \in Panes
            /\ list' \subseteq Files
        BY <3>1 DEF ClearEntries, Paths, Panes
      <3>4. /\ activePath' \in Folders \cup {NoFolder} /\ lastEntries' \subseteq Files
            /\ open' \in BOOLEAN /\ reused' \in BOOLEAN
        BY <3>1 DEF Reset
      <3>5. TypeOK'
        BY <2>1, <2>2, <3>1, <3>2, <3>4 DEF TypeOK, JobsOK, outside
      <3>3. PanesMatchSelection'
        BY <3>1 DEF ClearEntries, PanesMatchSelection, Blank
      <3> QED
        BY <2>1, <2>2, <3>3, <3>5 DEF OneOpAtATime
    <2>6. CASE j.of # activePath
      <3>1. UNCHANGED <<control, open, list, selected, shownPath, panes, loads, reused>>
        BY <1>1, <2>6 DEF ConflictsReady
      <3> QED
        BY <2>1, <2>2, <3>1
           DEF TypeOK, JobsOK, OneOpAtATime, PanesMatchSelection, control, outside
    <2> QED
      BY <2>4, <2>5, <2>6
  <1>2. ASSUME NEW j \in jobs, OpFinished(j) PROVE IInv'
    <2>1. j \in OpsInFlight /\ j.of \in Folders
      BY <1>0, <1>2 DEF OpFinished, OpsInFlight, JobsOK, Job, JobOf
    <2>2. UNCHANGED <<folder, list, selected, shownPath, panes, loads, outside, disturbed>>
      BY <1>2 DEF OpFinished
    <2>3. /\ JobsOK' /\ UNCHANGED panes
          /\ jobs' = jobs \ {j} \/ \E k : jobs' = (jobs \ {j}) \cup {k} /\ k.kind = "list"
      <3>1. CASE j.of = activePath /\ j.ok /\ j.kind = "resolve"
        BY <1>0, <1>2, <2>1, <3>1, SubmitType DEF OpFinished
      <3>2. CASE ~(j.of = activePath /\ j.ok /\ j.kind = "resolve")
        BY <1>0, <1>2, <3>2 DEF OpFinished, JobsOK, Ops
      <3> QED
        BY <3>1, <3>2, <2>2
    <2>4. OpsInFlight' = {}
      BY <2>1, <2>3 DEF OneOpAtATime, OpsInFlight, Ops
    <2>5. /\ activePath' \in Folders \cup {NoFolder} /\ lastEntries' \subseteq Files
          /\ open' \in BOOLEAN /\ busy' \in BOOLEAN /\ reused' \in BOOLEAN
      BY <1>2 DEF OpFinished, Reset, TypeOK, control
    <2>6. TypeOK'
      BY <2>2, <2>3, <2>5 DEF TypeOK, JobsOK, outside
    <2> QED
      BY <2>2, <2>4, <2>6 DEF OneOpAtATime, PanesMatchSelection
  <1>3. ASSUME NEW f \in Folders, NEW p \in Files, BlobsReady(f, p) PROVE IInv'
    <2>1. loads' \in [Folders -> [Files -> 0..MaxLoads]]
      BY <1>3 DEF BlobsReady, TypeOK
    <2>2. panes' \in Panes /\ shownPath' \in Paths /\ PanesMatchSelection'
      BY <1>3 DEF BlobsReady, TypeOK, PanesMatchSelection, Panes, Sides, Paths
    <2>3. OpsInFlight' = OpsInFlight
      BY <1>3 DEF BlobsReady, OpsInFlight
    <2>4. TypeOK'
      BY <1>3, <2>1, <2>2 DEF BlobsReady, TypeOK, control, outside, history
    <2> QED
      BY <1>3, <2>2, <2>3, <2>4 DEF BlobsReady, OneOpAtATime
  <1> QED
    BY <1>1, <1>2, <1>3 DEF Deliver

LEMMA StutterInv == ASSUME IInv, UNCHANGED vars PROVE IInv'
  BY DEF IInv, TypeOK, OneOpAtATime, PanesMatchSelection, OpsInFlight,
         vars, control, dialog, pool, outside, history

LEMMA InductiveInvariant == Spec => []IInv
  <1>1. IInv /\ [Next]_vars => IInv'
    BY UserInv, RunInv, DeliverInv, StutterInv DEF Next
  <1> QED
    BY <1>1, InitInv, PTL DEF Spec
-----------------------------------------------------------------------------
\* The dialog never has two operations under way.
THEOREM OneOperation == Spec => []OneOpAtATime
  <1>1. IInv => OneOpAtATime
    BY DEF IInv
  <1> QED
    BY <1>1, InductiveInvariant, PTL

\* The panes never show one file's sides under the name of another.
THEOREM PanesAreOfSelection == Spec => []PanesMatchSelection
  <1>1. IInv => PanesMatchSelection
    BY DEF IInv
  <1> QED
    BY <1>1, InductiveInvariant, PTL
-----------------------------------------------------------------------------
(***************************************************************************)
(* The first session of the dialog.  Until one has ended, the operation    *)
(* under way is of the active folder, so its result releases the buttons.  *)
(***************************************************************************)
FirstInv ==
    /\ activePath \in {NoFolder, folder}
    /\ ~reused => /\ panes.show = "sides" => panes.of = activePath
                  /\ busy => OpsInFlight # {}
                  /\ \A j \in OpsInFlight : j.of = activePath

\* Before the first session nothing is shown and nothing runs.
LEMMA BeforeFirst ==
    ASSUME IInv, FirstInv, ~reused, activePath = NoFolder
    PROVE  panes.show # "sides" /\ OpsInFlight = {} /\ ~busy
  <1>1. \A j \in OpsInFlight : j.of \in Folders
    BY DEF IInv, TypeOK, Job, JobOf, OpsInFlight
  <1>2. panes.show = "sides" => panes.of \in Folders
    BY DEF IInv, TypeOK, Panes, Sides, Blank, Loading
  <1> QED
    BY <1>1, <1>2 DEF FirstInv

LEMMA UserFirst == ASSUME IInv, FirstInv, User PROVE FirstInv'
  <1>1. CASE Start
    <2>1. jobs' = jobs \cup {NewJob("list", folder, NoFile)} /\ activePath' = folder
          /\ UNCHANGED <<folder, panes, busy, reused>>
      BY <1>1 DEF Start, Submit, history
    <2>2. OpsInFlight' = OpsInFlight
      BY <2>1 DEF OpsInFlight, NewJob, Ops
    <2>3. CASE activePath = NoFolder /\ ~reused
      BY <2>1, <2>2, <2>3, BeforeFirst DEF FirstInv
    <2>4. CASE activePath = folder \/ reused
      BY <2>1, <2>2, <2>4 DEF FirstInv
    <2> QED
      BY <2>3, <2>4 DEF FirstInv
  <1>2. CASE MarkResolved \/ AbortMerge
    <2>1. OpsInFlight = {} /\ UNCHANGED <<folder, activePath, panes, reused>>
      BY <1>2 DEF MarkResolved, AbortMerge, IInv, OneOpAtATime, control, history
    <2>2. PICK kind, file : kind \in Ops /\ jobs' = jobs \cup {NewJob(kind, activePath, file)}
      BY <1>2 DEF MarkResolved, AbortMerge, Submit, Ops
    <2>4. NewJob(kind, activePath, file).kind = kind
          /\ NewJob(kind, activePath, file).of = activePath
      BY DEF NewJob
    <2>3. OpsInFlight' # {} /\ \A j \in OpsInFlight' : j.of = activePath
      BY <2>1, <2>2, <2>4 DEF OpsInFlight
    <2> QED
      BY <2>1, <2>3 DEF FirstInv
  <1>3. CASE \E f \in Folders : ActivateFolder(f)
    <2>1. activePath' = NoFolder /\ reused' = (reused \/ activePath # NoFolder)
          /\ UNCHANGED <<jobs, panes, busy>>
      BY <1>3 DEF ActivateFolder, Reset, pool
    <2>2. OpsInFlight' = OpsInFlight
      BY <2>1 DEF OpsInFlight
    <2> QED
      BY <2>1, <2>2, BeforeFirst DEF FirstInv
  <1>4. CASE CloseDialog \/ (\E p \in Files : Select(p))
             \/ \E f \in Folders, S \in SUBSET Files : MergeConflicts(f, S)
    <2>1. UNCHANGED <<folder, activePath, jobs, busy, reused>> /\ panes' \in {panes, Loading}
      BY <1>4 DEF CloseDialog, Select, MergeConflicts, control, dialog, pool, history
    <2>2. OpsInFlight' = OpsInFlight
      BY <2>1 DEF OpsInFlight
    <2> QED
      BY <2>1, <2>2 DEF FirstInv, Loading
  <1> QED
    BY <1>1, <1>2, <1>3, <1>4 DEF User

\* A job that has run is the same job, done.
LEMMA RanFacts ==
    ASSUME IInv, NEW j \in jobs, NEW ok, NEW got, Done(j, ok, got)
    PROVE  \E k : /\ jobs' = (jobs \ {j}) \cup {k}
                  /\ k.kind = j.kind /\ k.of = j.of /\ k.done /\ k.got = got
  <1>1. j \in JobOf({"resolve"}, Files) \/ j \in JobOf({"list", "abort"}, {NoFile})
    BY DEF IInv, TypeOK, Job
  <1> DEFINE k == [j EXCEPT !.done = TRUE, !.ok = ok, !.got = got]
  <1>2. k.kind = j.kind /\ k.of = j.of /\ k.done /\ k.got = got
    BY <1>1 DEF JobOf
  <1>3. jobs' = (jobs \ {j}) \cup {k}
    BY DEF Done
  <1> HIDE DEF k
  <1> QED
    BY <1>2, <1>3

LEMMA RunFirst == ASSUME IInv, FirstInv, Run PROVE FirstInv'
  <1> PICK j \in jobs : RunList(j) \/ RunResolve(j) \/ RunAbort(j)
    BY DEF Run
  <1>1. UNCHANGED <<folder, activePath, panes, busy, reused>>
    BY DEF RunList, RunResolve, RunAbort, control, dialog, history
  <1>2. PICK k : jobs' = (jobs \ {j}) \cup {k} /\ k.kind = j.kind /\ k.of = j.of
    BY RanFacts DEF RunList, RunResolve, RunAbort
  <1>3. OpsInFlight # {} => OpsInFlight' # {}
    BY <1>2 DEF OpsInFlight
  <1>4. \A x \in OpsInFlight' : \E y \in OpsInFlight : x.of = y.of
    BY <1>2 DEF OpsInFlight
  <1> QED
    BY <1>1, <1>3, <1>4 DEF FirstInv

LEMMA DeliverFirst == ASSUME IInv, FirstInv, Deliver PROVE FirstInv'
  <1>1. ASSUME NEW j \in jobs, ConflictsReady(j) PROVE FirstInv'
    <2>1. OpsInFlight' = OpsInFlight /\ UNCHANGED <<folder, busy>>
      BY <1>1 DEF ConflictsReady, OpsInFlight, Ops
    <2>2. CASE UNCHANGED <<activePath, reused>> /\ panes' \in {panes, Loading}
      BY <2>1, <2>2 DEF FirstInv, Loading
    <2>3. CASE j.of = activePath /\ Reset
      <3>1. j.of \in Folders
        BY DEF IInv, TypeOK, Job, JobOf
      <3> QED
        BY <2>1, <2>3, <3>1 DEF Reset, FirstInv
    <2> QED
      BY <1>1, <2>2, <2>3 DEF ConflictsReady, ShowEntries, control
  <1>2. ASSUME NEW j \in jobs, OpFinished(j) PROVE FirstInv'
    <2>1. j.of \in Folders /\ j \in OpsInFlight /\ UNCHANGED <<folder, panes>>
      BY <1>2 DEF IInv, TypeOK, Job, JobOf, OpFinished, OpsInFlight
    <2>2. OpsInFlight' = {}
      BY <1>2, <2>1 DEF IInv, OneOpAtATime, OpFinished, Submit, NewJob, OpsInFlight, Ops
    <2>3. CASE j.of # activePath
      BY <1>2, <2>1, <2>2, <2>3 DEF OpFinished, FirstInv, control
    <2>4. CASE j.of = activePath
      <3>1. busy' = FALSE
        BY <1>2, <2>4 DEF OpFinished
      <3>2. CASE UNCHANGED <<activePath, reused>>
        BY <2>1, <2>2, <3>1, <3>2 DEF FirstInv
      <3>3. CASE Reset
        BY <2>1, <2>4, <3>3 DEF FirstInv, Reset
      <3> QED
        BY <1>2, <2>4, <3>2, <3>3 DEF OpFinished, control
    <2> QED
      BY <2>3, <2>4
  <1>3. ASSUME NEW f \in Folders, NEW p \in Files, BlobsReady(f, p) PROVE FirstInv'
    <2>1. OpsInFlight' = OpsInFlight /\ UNCHANGED <<folder, activePath, busy, reused>>
      BY <1>3 DEF BlobsReady, OpsInFlight, control, history
    <2>2. panes' = panes \/ panes' = Sides(activePath, p)
      BY <1>3 DEF BlobsReady
    <2> QED
      BY <2>1, <2>2 DEF FirstInv, Sides
  <1> QED
    BY <1>1, <1>2, <1>3 DEF Deliver

\* Until a first session ends the panes are of the active folder, and the
\* buttons are disabled exactly while an operation is under way.
THEOREM FirstSessionIsClean == Spec => []FirstUseIsClean
  <1>1. Init => FirstInv
    BY DEF Init, FirstInv, OpsInFlight, Blank
  <1>2. UNCHANGED vars /\ FirstInv => FirstInv'
    BY DEF vars, control, dialog, pool, history, FirstInv, OpsInFlight
  <1>3. IInv /\ FirstInv /\ [Next]_vars => FirstInv'
    BY <1>2, UserFirst, RunFirst, DeliverFirst DEF Next
  <1>4. IInv /\ FirstInv => FirstUseIsClean
    BY DEF IInv, TypeOK, OneOpAtATime, FirstInv, FirstUseIsClean
  <1> QED
    BY <1>1, <1>3, <1>4, InductiveInvariant, PTL DEF Spec
-----------------------------------------------------------------------------
(***************************************************************************)
(* The end of a session.  Undisturbed, what a list has found is all there  *)
(* is in conflict until it is delivered: operations only resolve.          *)
(***************************************************************************)
ListsHold ==
    ~disturbed => \A j \in jobs : j.kind = "list" /\ j.done => conflicts[j.of] \subseteq j.got

LEMMA NextListsHold == ASSUME IInv, ListsHold, [Next]_vars PROVE ListsHold'
  <1>0. \A j \in jobs : j.of \in Folders
    BY DEF IInv, TypeOK, Job, JobOf
  <1>1. ASSUME jobs' \subseteq jobs \/ (\E kind, of, file, rest :
                   rest \subseteq jobs /\ jobs' = rest \cup {NewJob(kind, of, file)}),
               UNCHANGED <<conflicts, disturbed>>
        PROVE  ListsHold'
    BY <1>1 DEF ListsHold, NewJob
  <1>2. CASE Start \/ MarkResolved \/ AbortMerge \/ CloseDialog
             \/ (\E f \in Folders : ActivateFolder(f)) \/ (\E p \in Files : Select(p))
             \/ Deliver \/ UNCHANGED vars
    BY <1>1, <1>2 DEF Start, MarkResolved, AbortMerge, CloseDialog, ActivateFolder, Select,
       Deliver, ConflictsReady, OpFinished, BlobsReady, Submit, vars, pool, outside, history
  <1>3. ASSUME NEW f \in Folders, NEW S \in SUBSET Files, MergeConflicts(f, S)
        PROVE  ListsHold'
    <2>1. jobs' = jobs /\ conflicts' = [conflicts EXCEPT ![f] = S]
          /\ disturbed' = (disturbed \/ \E j \in jobs : j.of = f)
      BY <1>3 DEF MergeConflicts, pool
    <2> QED
      BY <1>0, <2>1 DEF ListsHold, IInv, TypeOK
  <1>4. ASSUME NEW j \in jobs, RunList(j) PROVE ListsHold'
    <2>1. CASE disturbed'
      BY <2>1 DEF ListsHold
    <2>2. CASE Done(j, TRUE, conflicts[j.of]) /\ UNCHANGED disturbed
      <3> DEFINE k == [j EXCEPT !.done = TRUE, !.ok = TRUE, !.got = conflicts[j.of]]
      <3>1. jobs' = (jobs \ {j}) \cup {k}
        BY <2>2 DEF Done
      <3>2. k.of = j.of /\ k.got = conflicts[j.of]
        BY DEF IInv, TypeOK, Job, JobOf
      <3>3. UNCHANGED conflicts
        BY <1>4 DEF RunList, outside
      <3> HIDE DEF k
      <3> QED
        BY <2>2, <3>1, <3>2, <3>3 DEF ListsHold
    <2> QED
      BY <1>4, <2>1, <2>2 DEF RunList
  <1>5. ASSUME NEW j \in jobs, RunResolve(j) \/ RunAbort(j) PROVE ListsHold'
    <2>1. PICK k : jobs' = (jobs \ {j}) \cup {k} /\ k.kind # "list"
      BY <1>5, RanFacts DEF RunResolve, RunAbort
    <2>2. UNCHANGED disturbed
      BY <1>5 DEF RunResolve, RunAbort, history
    <2>3. \A f \in Folders : conflicts'[f] \subseteq conflicts[f]
      BY <1>0, <1>5 DEF RunResolve, RunAbort, IInv, TypeOK
    <2> QED
      BY <1>0, <2>1, <2>2, <2>3 DEF ListsHold
  <1> QED
    BY <1>2, <1>3, <1>4, <1>5 DEF Next, User, Run

LEMMA EndIsTrue ==
    ASSUME IInv, ListsHold, [Next]_vars, NEW f \in Folders, AllResolved(f), ~disturbed
    PROVE  conflicts[f] = {}
  <1> PICK j \in jobs : j.kind = "list" /\ jobs' = jobs \ {j}
    BY DEF AllResolved
  <1>1. activePath = f /\ activePath' = NoFolder /\ activePath' # activePath
    BY DEF AllResolved
  <1>7. ~(\E g \in Folders : ActivateFolder(g)) /\ ~Start
    <2>1. jobs' # jobs
      OBVIOUS
    <2>2. Start => activePath' \in Folders
      BY DEF Start, IInv, TypeOK
    <2> QED
      BY <1>1, <2>1, <2>2 DEF ActivateFolder, pool
  <1>8. ~CloseDialog /\ ~MarkResolved /\ ~AbortMerge /\ ~UNCHANGED vars
        /\ ~(\E p \in Files : Select(p))
        /\ ~(\E g \in Folders, S \in SUBSET Files : MergeConflicts(g, S))
    BY <1>1 DEF CloseDialog, MarkResolved, AbortMerge, Select, MergeConflicts, vars, control
  <1>2. ~User /\ ~Run /\ ~UNCHANGED vars
    BY <1>1, <1>7, <1>8 DEF User, Run, RunList, RunResolve, RunAbort, control
  <1>3. ~(\E i \in jobs : OpFinished(i))
    <2> SUFFICES ASSUME NEW i \in jobs, OpFinished(i) PROVE FALSE
      OBVIOUS
    <2>1. i.kind \in Ops /\ i # j
      BY DEF OpFinished, Ops
    <2>2. jobs' = jobs \ {i}
      BY <1>1 DEF OpFinished, control
    <2> QED
      BY <2>1, <2>2
  <1>4. ~(\E g \in Folders, p \in Files : BlobsReady(g, p))
    BY <1>1 DEF BlobsReady, control
  <1>5. PICK i \in jobs : ConflictsReady(i)
    BY <1>2, <1>3, <1>4 DEF Next, Deliver
  <1>6. i = j /\ j.done /\ j.of = f /\ j.got = {}
    BY <1>1, <1>5 DEF ConflictsReady, control
  <1> QED
    BY <1>6 DEF ListsHold

\* When no list failed and no merge began under a job, a session only ends for
\* an empty list when the index has no conflict left.
THEOREM EndOfSessionIsTrue == Spec => UndisturbedAllResolvedIsTrue
  <1>1. Init => ListsHold
    BY DEF Init, ListsHold
  <1>2. IInv /\ ListsHold /\ [Next]_vars => ListsHold'
    BY NextListsHold
  <1>3. IInv /\ ListsHold /\ [Next]_vars =>
           [\A f \in Folders : AllResolved(f) /\ ~disturbed => conflicts[f] = {}]_vars
    BY EndIsTrue
  <1> QED
    BY <1>1, <1>2, <1>3, InductiveInvariant, PTL DEF Spec, UndisturbedAllResolvedIsTrue
=============================================================================
