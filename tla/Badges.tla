------------------------------- MODULE Badges --------------------------------
(***************************************************************************)
(* The signature badges of the History tab: which rows are sent to be      *)
(* verified, what gpg and ssh-keygen are understood to say, and where the  *)
(* verdict is kept and shown.                                              *)
(*                                                                         *)
(* Only rows in the viewport are verified: when the list is filled, when a *)
(* page is appended, and when the list has not been scrolled or filtered   *)
(* for a moment.  Verifications run on the pool, more than one at a time,  *)
(* and are delivered in any order; a row asked for twice before the first  *)
(* of them runs is asked for once here.  Verdicts are kept by commit as    *)
(* long as the widget lives, for every folder, whatever becomes of the     *)
(* keys: here these stay as they are.  A row is as high as another; the    *)
(* row that offers more, and what a filter finds in the badge itself, are  *)
(* left out.                                                               *)
(***************************************************************************)
EXTENDS SequencesExt

CONSTANTS
    Folders, Commits,
    Log,       \* of each folder, its commits from the newest on
    Worlds,    \* pairs of what kind of signature each commit has, and the keys
    Filters,   \* sets of commits a filter leaves
    PageSize,  \* kHistoryPageSize
    Tall,      \* rows of the viewport; a small one has one
    MaxJobs    \* bound: verifications in flight when rows are asked for

SignatureIs == {"none", "gpg", "gpgAltered", "gpgExpired", "ssh", "sshAltered", "other"}

\* Of the signer's key, what gpg's keyring has; of SSH keys, the file of allowed
\* signers: "absent" without one, "trusted" when it lists the key.
Keys == {"absent", "untrusted", "trusted", "outdated"}

\* Assumed by the modules that instantiate this one.
BadgesAssumption ==
    /\ Log \in [Folders -> Seq(Commits)] /\ \A f \in Folders : IsInjective(Log[f])
    /\ Worlds \subseteq [Commits -> SignatureIs] \X Keys
    /\ Commits \in Filters /\ {PageSize, Tall, MaxJobs} \subseteq Nat \ {0}

VARIABLES
    path,     \* path_ and activeLocalPath_
    rows,     \* historyList_
    filter,   \* commits the text of commitFilter_ finds
    top,      \* rows above the viewport
    height,   \* rows in it
    debounce, \* verifyDebounce_ runs
    cache,    \* sigCache_
    jobs,     \* verifications in flight
    signature, keys, \* the world; it stays as it is
    unsure,   \* history: commits of which an attempt failed
    grown     \* history: the viewport grew, and no row was asked for since

list  == <<rows, filter, top, height>>
world == <<signature, keys>>
vars  == <<path, list, debounce, cache, jobs, world, unsure, grown>>

Verdicts == {"Verified", "Signed", "Invalid", "Unsigned"}
Pending  == "pending"   \* also: no verdict yet

Row  == [commit : Commits, badge : Verdicts \cup {Pending}, hidden : BOOLEAN]
Job  == [path : Folders, commit : Commits, verdict : Verdicts \cup {Pending}]

Signed(c) == signature[c] # "none"

Init ==
    /\ path \in Folders /\ rows = <<>> /\ filter = Commits /\ top = 0 /\ height = Tall
    /\ debounce = FALSE /\ cache = [c \in Commits |-> Pending]
    /\ jobs = {} /\ unsure = {} /\ grown = FALSE
    /\ \E w \in Worlds : signature = w[1] /\ keys = w[2]
-----------------------------------------------------------------------------
(***************************************************************************)
(* SignatureVerifier.                                                      *)
(***************************************************************************)

\* What gpg reports of a signature.
Reported(c) ==
    LET trust == IF keys = "trusted" THEN {"TRUST_ULTIMATE"} ELSE {"TRUST_UNDEFINED"}
    IN  IF keys = "absent" THEN {"ERRSIG", "NO_PUBKEY"}
        ELSE IF signature[c] = "gpgAltered" THEN {"BADSIG"}
        ELSE IF keys = "outdated" THEN {"REVKEYSIG", "VALIDSIG"}
        ELSE {IF signature[c] = "gpgExpired" THEN "EXPSIG" ELSE "GOODSIG", "VALIDSIG"} \cup trust

\* Mutant of verifyGpg: a valid signature is taken before a revoked key.
verifyGpgGoodFirst(said) ==
    IF said \cap {"GOODSIG", "VALIDSIG"} # {}
    THEN IF "TRUST_ULTIMATE" \in said THEN "Verified" ELSE "Signed"
    ELSE "Invalid"

verifyGpg(said) ==
    IF said \cap {"BADSIG", "REVKEYSIG", "EXPKEYSIG", "NO_PUBKEY"} # {} THEN "Invalid"
    ELSE IF said \cap {"GOODSIG", "VALIDSIG"} = {} THEN "Invalid"
    ELSE IF "TRUST_ULTIMATE" \in said THEN "Verified" ELSE "Signed"

\* Without a file of allowed signers the signature alone is looked at.
verifySsh(c) ==
    IF signature[c] = "sshAltered" THEN "Invalid"
    ELSE IF keys = "absent" THEN "Signed"
    ELSE IF keys = "trusted" THEN "Verified" ELSE "Invalid"

\* verifyCommitSignature and detectFormat.
Verdict(c) ==
    IF signature[c] = "none" THEN "Unsigned"
    ELSE IF signature[c] = "other" THEN "Invalid"
    ELSE IF signature[c] \in {"ssh", "sshAltered"} THEN verifySsh(c)
    ELSE verifyGpg(Reported(c))
-----------------------------------------------------------------------------
(***************************************************************************)
(* The list.                                                               *)
(***************************************************************************)
Shown(rs) == {i \in DOMAIN rs : ~rs[i].hidden}

\* The commits in the viewport: t rows are above it.
InView(rs, t, h) ==
    {rs[i].commit : i \in {r \in Shown(rs) :
        Cardinality({k \in Shown(rs) : k < r}) \in t..(t + h - 1)}}

\* The last row stays at the bottom of the viewport or below.
Clamp(rs, t, h) ==
    LET n == Cardinality(Shown(rs))
    IN  IF t + h <= n THEN t ELSE IF h <= n THEN n - h ELSE 0

appendCommitRow(c, hide) ==
    [commit |-> c, badge |-> IF Signed(c) THEN cache[c] ELSE "Unsigned", hidden |-> hide]

RowsOf(cs, out) == [i \in DOMAIN cs |-> appendCommitRow(cs[i], cs[i] \in out)]

\* Rows with a signature and no verdict yet, also those asked for already.
dispatchVerifyForVisibleRows(rs, t) ==
    /\ jobs' = jobs \cup
          {[path |-> path, commit |-> c, verdict |-> Pending] :
              c \in {x \in InView(rs, t, height) : Signed(x) /\ cache[x] = Pending}}
    /\ Cardinality(jobs') <= MaxJobs
    /\ grown' = FALSE

setFolder(f) ==
    /\ path' = f /\ rows' = <<>> /\ filter' = Commits /\ top' = 0
    /\ debounce' = (debounce \/ top # 0 \/ filter # Commits)
    /\ UNCHANGED <<height, cache, jobs, world, unsure, grown>>

\* The page behind n commits.
Page(n) ==
    LET m == n + PageSize IN
    SubSeq(Log[path], n + 1, IF m < Len(Log[path]) THEN m ELSE Len(Log[path]))

\* The filter holds for the new rows.
setHistory ==
    LET rs == RowsOf(Page(0), Commits \ filter)
    IN  /\ rows' = rs /\ top' = 0
        /\ debounce' = (debounce \/ top # 0 \/ filter # Commits)
        /\ dispatchVerifyForVisibleRows(rs, 0)
        /\ UNCHANGED <<path, filter, height, cache, world, unsure>>

\* It does not for those of a further page.
appendHistory ==
    LET n  == Len(rows)
        rs == rows \o RowsOf(Page(n), {})
    IN  /\ n > 0 /\ n < Len(Log[path]) /\ n % PageSize = 0
        /\ rows' = rs
        /\ dispatchVerifyForVisibleRows(rs, top)
        /\ UNCHANGED <<path, filter, top, height, debounce, cache, world, unsure>>

\* The user, and the calls above when they move the list.
onHistoryScrolled ==
    /\ \E t \in 0..Len(rows) : t # top /\ t = Clamp(rows, t, height) /\ top' = t
    /\ debounce' = TRUE
    /\ UNCHANGED <<path, rows, filter, height, cache, jobs, world, unsure, grown>>

\* Mutant of onHistoryFilterChanged: the rows that appear are not asked for.
onHistoryFilterChangedQuietly(S) ==
    /\ S # filter /\ filter' = S
    /\ rows' = [i \in DOMAIN rows |-> [rows[i] EXCEPT !.hidden = rows[i].commit \notin S]]
    /\ top' = Clamp(rows', top, height)
    /\ UNCHANGED <<path, height, debounce, cache, jobs, world, unsure, grown>>

onHistoryFilterChanged(S) ==
    /\ S # filter /\ filter' = S
    /\ rows' = [i \in DOMAIN rows |-> [rows[i] EXCEPT !.hidden = rows[i].commit \notin S]]
    /\ top' = Clamp(rows', top, height)
    /\ debounce' = TRUE
    /\ UNCHANGED <<path, height, cache, jobs, world, unsure, grown>>

\* Nobody is told when the panel is resized, unless that scrolls the list.
Resize ==
    /\ height' \in {1, Tall} \ {height}
    /\ top' = Clamp(rows, top, height')
    /\ debounce' = (debounce \/ top' # top)
    /\ grown' = (grown \/ (height' > height /\ top' = top))
    /\ UNCHANGED <<path, rows, filter, cache, jobs, world, unsure>>

\* verifyDebounce_ fires.
Pause ==
    /\ debounce /\ debounce' = FALSE
    /\ dispatchVerifyForVisibleRows(rows, top)
    /\ UNCHANGED <<path, list, cache, world, unsure>>
-----------------------------------------------------------------------------
(***************************************************************************)
(* Verifications.                                                          *)
(***************************************************************************)
Ran(j, v) == jobs' = (jobs \ {j}) \cup {[j EXCEPT !.verdict = v]}

Verify(j) ==
    /\ j.verdict = Pending
    /\ Ran(j, Verdict(j.commit))
    /\ UNCHANGED <<path, list, debounce, cache, world, unsure, grown>>

\* The repository does not open, or the program does not start or takes too long.
\* Bound: once.
VerifyFails(j) ==
    /\ j.verdict = Pending /\ unsure = {}
    /\ \E v \in {"Unsigned", "Invalid"} : Ran(j, v)
    /\ unsure' = unsure \cup {j.commit}
    /\ UNCHANGED <<path, list, debounce, cache, world, grown>>

First(c) == SelectInSeq(rows, LAMBDA r : r.commit = c)

\* Mutant of setSignatureVerifyResult: the verdict goes to the row on top.
setSignatureVerifyResultOnTop(j) ==
    /\ j.verdict # Pending /\ jobs' = jobs \ {j}
    /\ IF j.path # path THEN UNCHANGED <<rows, cache>>
       ELSE /\ cache' = [cache EXCEPT ![j.commit] = j.verdict]
            /\ rows' = IF rows = <<>> THEN rows ELSE [rows EXCEPT ![1].badge = j.verdict]
    /\ UNCHANGED <<path, filter, top, height, debounce, world, unsure, grown>>

\* MainWindow drops the result for another folder.
setSignatureVerifyResult(j) ==
    /\ j.verdict # Pending /\ jobs' = jobs \ {j}
    /\ IF j.path # path THEN UNCHANGED <<rows, cache>>
       ELSE /\ cache' = [cache EXCEPT ![j.commit] = j.verdict]
            /\ rows' = IF First(j.commit) = 0 THEN rows
                       ELSE [rows EXCEPT ![First(j.commit)].badge = j.verdict]
    /\ UNCHANGED <<path, filter, top, height, debounce, world, unsure, grown>>

Next ==
    \/ \E f \in Folders : setFolder(f)
    \/ \E S \in Filters : onHistoryFilterChanged(S)
    \/ setHistory \/ appendHistory \/ onHistoryScrolled \/ Resize \/ Pause
    \/ \E j \in jobs : Verify(j) \/ VerifyFails(j) \/ setSignatureVerifyResult(j)

Spec == Init /\ [][Next]_vars
-----------------------------------------------------------------------------
\* Every variable stays in its range.
TypeOK ==
    /\ path \in Folders /\ rows \in Seq(Row) /\ filter \in Filters
    /\ top \in 0..Len(rows) /\ height \in {1, Tall} /\ debounce \in BOOLEAN
    /\ cache \in [Commits -> Verdicts \cup {Pending}] /\ jobs \subseteq Job
    /\ <<signature, keys>> \in Worlds /\ unsure \subseteq Commits /\ grown \in BOOLEAN

\* What a reader takes a badge to say (SignatureVerifier.h).
Deserved(c) ==
    IF ~Signed(c) THEN "Unsigned"
    ELSE IF signature[c] \in {"other", "gpgAltered", "sshAltered"} THEN "Invalid"
    ELSE IF keys = "trusted" THEN "Verified"
    ELSE IF <<signature[c], keys>> \in {<<"gpg", "untrusted">>, <<"ssh", "absent">>} THEN "Signed"
    ELSE "Invalid"

(***************************************************************************)
(* Each row shows its own commit's verdict once there is one, and the      *)
(* verdict is what SignatureVerifier.h says of the signature and the key,  *)
(* whichever folder and list it was asked for in.  Excluded, because it    *)
(* fails there: a signature that has expired, and an attempt that failed   *)
(* (setSignatureVerifyResult, appendCommitRow, verifyGpg).                 *)
(***************************************************************************)
BadgeIsTrue ==
    \A i \in DOMAIN rows :
        LET c == rows[i].commit IN
        /\ Signed(c) => rows[i].badge = cache[c]
        /\ rows[i].badge = Pending \/ c \in unsure \/ signature[c] = "gpgExpired"
           \/ rows[i].badge = Deserved(c)

Awaited(c) == debounce \/ \E j \in jobs : j.path = path /\ j.commit = c

(***************************************************************************)
(* A signed commit in the viewport has its badge, or will: it is being     *)
(* verified for this folder, or the pause is awaited after which it is,    *)
(* however the list came to show it: loaded, scrolled, filtered, or opened *)
(* anew while the answer for another folder was under way.  Excluded,      *)
(* because it fails there: a viewport that grew                            *)
(* (dispatchVerifyForVisibleRows).                                         *)
(***************************************************************************)
PendingIsAwaited ==
    ~grown => \A i \in DOMAIN rows :
        rows[i].badge = Pending /\ rows[i].commit \in InView(rows, top, height)
            => Awaited(rows[i].commit)
=============================================================================
