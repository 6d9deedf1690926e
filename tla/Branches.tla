------------------------------ MODULE Branches -----------------------------
(***************************************************************************)
(* The branches of one repository, HEAD and the index, and the operations  *)
(* of GitHandler that move them.                                           *)
(*                                                                         *)
(* Each operation is several calls of libgit2, made by a job of the pool,  *)
(* and the calls of other jobs come between them: the controls of the two  *)
(* panels that show a clone do not wait for each other.  A change is one   *)
(* file staged, a tree the changes it has, and a commit the sequence of    *)
(* trees from the root to its own: its ancestors are its prefixes.  The    *)
(* working tree is as the index; edits that are not staged make a checkout *)
(* fail and are left out otherwise.  HEAD is never detached.               *)
(***************************************************************************)
EXTENDS Naturals, SequencesExt

CONSTANTS
    Names,     \* names of branches
    Main,      \* the one a repository starts with
    Edits,     \* changes the user makes
    Theirs,    \* changes others push
    MaxLength, \* bound: commits in a line
    MaxJobs    \* bound: jobs at a time

\* Assumed by the modules that instantiate this one.
BranchesAssumption ==
    Main \in Names /\ Edits \cap Theirs = {}
    /\ MaxLength \in Nat \ {0} /\ MaxJobs \in Nat \ {0}

VARIABLES
    branch,  \* refs/heads, Missing for a name without a branch
    head,    \* the name HEAD holds
    index,   \* the changes in the index
    github,  \* the branches on GitHub
    jobs,    \* on the pool
    crossed, \* history: HEAD or a branch moved under a job that relied on it,
             \* or a switch failed between its two halves
    staged,  \* history: changes staged and not in a commit since
    pulled   \* history: changes that came with a fast-forward

refs == <<branch, head, index>>
ghosts == <<staged, pulled>>
vars == <<refs, github, jobs, crossed, ghosts>>

Missing  == <<>>
Tree(c)  == IF c = Missing THEN {} ELSE Last(c)
HeadTip  == branch[head]
Unborn   == HeadTip = Missing
Changes  == Edits \cup Theirs
Lines    == {branch[n] : n \in Names} \cup {github[n] : n \in Names}

Ops  == {"switch", "create", "createAndSwitch", "delete", "rename",
         "commit", "signedCommit", "pull"}
Task(op, n, m) ==
    [op |-> op, name |-> n, to |-> m, at |-> "start", tree |-> {}, tip |-> Missing]

Job == [op : Ops, name : Names, to : Names,
        at : {"start", "tree", "parent", "fetching", "analysed", "merged", "checkedOut"},
        tree : SUBSET Changes, tip : Seq(SUBSET Changes)]

\* A repository with a first commit, cloned or published; or one without.
Init ==
    /\ head = Main /\ index = {} /\ jobs = <<>> /\ crossed = FALSE
    /\ staged = {} /\ pulled = {}
    /\ \E c \in {Missing, <<{}>>} :
        /\ branch = [n \in Names |-> IF n = Main THEN c ELSE Missing]
        /\ github \in {branch, [branch EXCEPT ![Main] = <<{}>>]}
-----------------------------------------------------------------------------
(***************************************************************************)
(* The user, and others who push to GitHub.                                *)
(***************************************************************************)
Fresh(x) ==
    /\ x \notin index \cup UNION {UNION ToSet(c) : c \in Lines}
    /\ \A i \in DOMAIN jobs : x \notin jobs[i].tree

Stage(x) ==
    /\ Fresh(x) /\ index' = index \cup {x} /\ staged' = staged \cup {x}
    /\ UNCHANGED <<branch, head, github, jobs, crossed, pulled>>

OthersPush(n, x) ==
    /\ Fresh(x) /\ github[n] # Missing /\ Len(github[n]) < MaxLength
    /\ github' = [github EXCEPT ![n] = Append(@, Tree(@) \cup {x})]
    /\ UNCHANGED <<refs, jobs, crossed, ghosts>>

\* The menus name branches of a list read earlier; a new name was not on it.
\* Nothing is claimed after crossed, and nothing more is asked for then.
Request(op, n, m) ==
    /\ Len(jobs) < MaxJobs /\ ~crossed
    /\ op # "rename" => m = n
    /\ op \in {"commit", "signedCommit", "pull"} => n = head
    /\ op \in {"create", "createAndSwitch"} => branch[n] = Missing
    /\ op = "rename" => m # n /\ branch[m] = Missing
    /\ jobs' = Append(jobs, Task(op, n, m))
    /\ UNCHANGED <<refs, github, crossed, ghosts>>
-----------------------------------------------------------------------------
(***************************************************************************)
(* Pieces of the operations.                                               *)
(***************************************************************************)
In(i, op, at) == jobs[i].op = op /\ jobs[i].at = at
On(i) == jobs[i].name

Ends(i) == jobs' = RemoveAt(jobs, i)
GoesOn(i, at) == jobs' = [jobs EXCEPT ![i].at = at]

SetBranch(n, c) == branch' = [branch EXCEPT ![n] = c]

\* Mutant of Checkout: the files are left as they are.
CheckoutNothing(base, target) == index

\* git_checkout_tree and git_checkout_head, SAFE: what differs between the tree
\* of HEAD and the target is brought to the target, the rest is left alone.
Checkout(base, target) ==
    {x \in Changes : IF x \in base <=> x \in target THEN x \in index ELSE x \in target}

\* A job that holds to what it read of HEAD or of a branch, and would not see
\* step i change it.
Undermines(i, k) ==
    LET j == jobs[k]
        headMoves == head' # head
        moves(n) == branch'[n] # branch[n]
    IN  CASE j.at = "checkedOut" ->
                headMoves \/ moves(j.name)
                \/ jobs[i].op \in {"switch", "commit", "signedCommit", "pull"}
          [] j.at = "tree" -> headMoves \/ moves(head)
          [] j.at = "parent" -> headMoves \/ (j.op = "signedCommit" /\ moves(head))
          [] j.at = "fetching" /\ j.op = "pull" -> headMoves
          [] j.at = "analysed" -> headMoves \/ moves(j.name)
          [] j.at = "merged" -> branch'[j.to] = Missing
          [] OTHER -> FALSE

Halved(i) == jobs[i].at = "checkedOut" /\ head' # jobs[i].name

Notes(i) ==
    crossed' = (crossed \/ Halved(i) \/ \E k \in DOMAIN jobs \ {i} : Undermines(i, k))
-----------------------------------------------------------------------------
(***************************************************************************)
(* The operations of GitHandler.                                           *)
(***************************************************************************)

\* checkoutBranch: the files first, then HEAD, whether or not there still is
\* such a branch.
checkoutTree(i) ==
    /\ In(i, "switch", "start") /\ branch[On(i)] # Missing
    /\ index' = Checkout(Tree(HeadTip), Tree(branch[On(i)]))
    /\ GoesOn(i, "checkedOut") /\ UNCHANGED <<branch, head, github, ghosts>>

setHead(i) ==
    /\ In(i, "switch", "checkedOut") /\ head' = On(i)
    /\ Ends(i) /\ UNCHANGED <<branch, index, github, ghosts>>

\* createBranch goes on as checkoutBranch.
createBranch(i) ==
    /\ jobs[i].op \in {"create", "createAndSwitch"}
    /\ ~Unborn /\ branch[On(i)] = Missing
    /\ SetBranch(On(i), HeadTip)
    /\ IF jobs[i].op = "create" THEN Ends(i)
                                ELSE jobs' = [jobs EXCEPT ![i].op = "switch"]
    /\ UNCHANGED <<head, index, github, ghosts>>

\* Mutant of Merged: any branch may be deleted.
MergedAny(n) == TRUE

\* Every commit of branch n is one of HEAD.
Merged(n) == Unborn \/ IsPrefix(branch[n], HeadTip)

\* deleteBranch, never forced: the message that would lead to that is not the
\* one waited for.  The branch that has the commits then is history.
checkMerged(i) ==
    /\ In(i, "delete", "start")
    /\ branch[On(i)] # Missing /\ On(i) # head /\ Merged(On(i))
    /\ jobs' = [jobs EXCEPT ![i].at = "merged", ![i].tip = branch[On(i)],
                            ![i].to = head]
    /\ UNCHANGED <<refs, github, ghosts>>

\* git_branch_delete refuses HEAD, and a branch that has moved.
deleteBranch(i) ==
    /\ In(i, "delete", "merged")
    /\ On(i) # head /\ branch[On(i)] = jobs[i].tip
    /\ SetBranch(On(i), Missing)
    /\ Ends(i) /\ UNCHANGED <<head, index, github, ghosts>>

\* renameBranch: git_branch_move takes HEAD along.
renameBranch(i) ==
    /\ In(i, "rename", "start")
    /\ branch[On(i)] # Missing /\ branch[jobs[i].to] = Missing
    /\ branch' = [branch EXCEPT ![On(i)] = Missing, ![jobs[i].to] = branch[On(i)]]
    /\ head' = IF head = On(i) THEN jobs[i].to ELSE head
    /\ Ends(i) /\ UNCHANGED <<index, github, ghosts>>
-----------------------------------------------------------------------------
Committing == {"commit", "signedCommit"}

writeTree(i) ==
    /\ jobs[i].op \in Committing /\ jobs[i].at = "start"
    /\ jobs' = [jobs EXCEPT ![i].at = "tree", ![i].tree = index]
    /\ UNCHANGED <<refs, github, ghosts>>

readParent(i) ==
    /\ jobs[i].at = "tree"
    /\ jobs' = [jobs EXCEPT ![i].at = "parent", ![i].tip = HeadTip]
    /\ UNCHANGED <<refs, github, ghosts>>

\* git_commit_create refuses a parent that HEAD no longer is; after signing,
\* the branch HEAD then holds is set to the commit.
createCommit(i) ==
    /\ jobs[i].at = "parent" /\ Len(jobs[i].tip) < MaxLength
    /\ jobs[i].op = "commit" => jobs[i].tip = HeadTip
    /\ SetBranch(head, Append(jobs[i].tip, jobs[i].tree))
    /\ staged' = staged \ jobs[i].tree
    /\ Ends(i) /\ UNCHANGED <<head, index, github, pulled>>
-----------------------------------------------------------------------------
\* pull is of the branch that is current when it starts.
currentBranch(i) ==
    /\ In(i, "pull", "start")
    /\ jobs' = [jobs EXCEPT ![i].at = "fetching", ![i].name = head]
    /\ UNCHANGED <<refs, github, ghosts>>

\* Mutant of FastForward: the histories are not compared.
FastForwardAny(theirs) == TRUE

\* git_merge_analysis, which compares with HEAD what the fetch has just left in
\* refs/remotes/origin.
UpToDate(theirs)    == IsPrefix(theirs, HeadTip)
FastForward(theirs) == IsPrefix(HeadTip, theirs)

analyse(i) ==
    /\ In(i, "pull", "fetching")
    /\ LET theirs == github[On(i)] IN
        IF theirs = Missing \/ UpToDate(theirs) \/ ~FastForward(theirs) THEN Ends(i)
        ELSE jobs' = [jobs EXCEPT ![i].at = "analysed", ![i].tip = theirs]
    /\ UNCHANGED <<refs, github, ghosts>>

\* The branch is set and HEAD checked out after it, when the tree of HEAD and
\* the target are one and the same.
fastForward(i) ==
    /\ jobs[i].at = "analysed" /\ branch[On(i)] # Missing
    /\ SetBranch(On(i), jobs[i].tip)
    /\ index' = Checkout(Tree(branch'[head]), Tree(branch'[head]))
    /\ pulled' = pulled \cup (Tree(jobs[i].tip) \ Tree(branch[On(i)]))
    /\ Ends(i) /\ UNCHANGED <<head, github, staged>>

\* Any call may fail, and what was done before it stays.
Fails(i) == Ends(i) /\ UNCHANGED <<refs, github, ghosts>>

Run(i) ==
    /\ \/ checkoutTree(i) \/ setHead(i) \/ createBranch(i) \/ checkMerged(i)
       \/ deleteBranch(i) \/ renameBranch(i) \/ writeTree(i) \/ readParent(i)
       \/ createCommit(i) \/ currentBranch(i) \/ analyse(i)
       \/ fastForward(i) \/ Fails(i)
    /\ Notes(i)
-----------------------------------------------------------------------------
Next ==
    \/ \E x \in Edits : Stage(x)
    \/ \E n \in Names, x \in Theirs : OthersPush(n, x)
    \/ \E op \in Ops, n, m \in Names : Request(op, n, m)
    \/ \E i \in DOMAIN jobs : Run(i)

Spec == Init /\ [][Next]_vars
-----------------------------------------------------------------------------
\* Every variable stays in its range.
TypeOK ==
    /\ branch \in [Names -> Seq(SUBSET Changes)] /\ head \in Names
    /\ index \subseteq Changes
    /\ github \in [Names -> Seq(SUBSET Changes)]
    /\ jobs \in Seq(Job) /\ crossed \in BOOLEAN
    /\ staged \subseteq Changes /\ pulled \subseteq Changes

(***************************************************************************)
(* No operation takes a commit off the branches of the repository: what    *)
(* was the tip of one is in the history of one afterwards, also when two   *)
(* deletions, a deletion and a switch, or a pull and a commit overlap.     *)
(* Excluded, because it fails there: jobs one of which moved what another  *)
(* relied on, as two deletions do, each of which found its commits in the  *)
(* branch that the other one deletes, with switches in between             *)
(* (deleteBranch, fastForwardToOriginHead, commit).                        *)
(***************************************************************************)
CommitsKept ==
    [][~crossed' =>
          \A n \in Names : branch[n] # Missing =>
              \E m \in Names : IsPrefix(branch[n], branch'[m])]_vars

Switching == \E i \in DOMAIN jobs : jobs[i].at = "checkedOut"

(***************************************************************************)
(* HEAD stands on a branch once there is one, and a commit made now undoes *)
(* nothing and takes along nothing of another branch: the index has what   *)
(* the tree of HEAD has and what was staged since, no more and no less.    *)
(* Excluded, because it fails there: crossed jobs, and the changes that    *)
(* came with a pull (checkoutBranch, renameBranch, commit).                *)
(***************************************************************************)
HeadStands ==
    ~crossed =>
        /\ Unborn => \A n \in Names : branch[n] = Missing
        /\ ~Switching => /\ Tree(HeadTip) \ index \subseteq pulled
                         /\ index \ Tree(HeadTip) \subseteq staged
-----------------------------------------------------------------------------
(***************************************************************************)
(* What the README lists and the code does not do: a fast-forward pull     *)
(* leaves the files, and the index, as the new commit has them.            *)
(***************************************************************************)
PulledIsCheckedOut ==
    ~crossed /\ jobs = <<>> => Tree(HeadTip) \subseteq index
=============================================================================
