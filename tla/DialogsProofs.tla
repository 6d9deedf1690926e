--------------------------- MODULE DialogsProofs ----------------------------
(***************************************************************************)
(* What MCDialogs composes, for every number of folders, stashes,          *)
(* commits, tags, submodules, branches and jobs: each component has an     *)
(* inductive invariant, and they hold together because only one component  *)
(* moves.                                                                  *)
(***************************************************************************)
EXTENDS MCDialogs, TLAPS

(***************************************************************************)
(* Sequences.                                                              *)
(***************************************************************************)
LEMMA RemoveAtFacts ==
    ASSUME NEW S, NEW s \in Seq(S), NEW i \in 1..Len(s)
    PROVE  /\ RemoveAt(s, i) \in Seq(S)
           /\ Len(s) - 1 \in Nat /\ Len(RemoveAt(s, i)) = Len(s) - 1
           /\ \A k \in 1..(Len(s) - 1) :
                 RemoveAt(s, i)[k] = IF k < i THEN s[k] ELSE s[k + 1]
  <1> DEFINE a == SubSeq(s, 1, i - 1)
             b == SubSeq(s, i + 1, Len(s))
  <1>1. Len(s) \in Nat /\ i \in Nat /\ 1 <= i /\ i <= Len(s)
    OBVIOUS
  <1>2. a \in Seq(S) /\ Len(a) = i - 1 /\ \A k \in 1..(i - 1) : a[k] = s[k]
    BY <1>1
  <1>3. b \in Seq(S) /\ Len(b) = Len(s) - i /\ \A k \in 1..(Len(s) - i) : b[k] = s[i + k]
    BY <1>1
  <1>4. RemoveAt(s, i) = a \o b
    BY DEF RemoveAt
  <1> HIDE DEF a, b
  <1>5. /\ a \o b \in Seq(S) /\ Len(a \o b) = Len(s) - 1
        /\ \A k \in 1..(Len(s) - 1) : (a \o b)[k] = IF k <= i - 1 THEN a[k] ELSE b[k - (i - 1)]
    BY <1>1, <1>2, <1>3
  <1>6. ASSUME NEW k \in 1..(Len(s) - 1)
        PROVE  (a \o b)[k] = IF k < i THEN s[k] ELSE s[k + 1]
    <2>1. CASE k < i
      BY <1>1, <1>2, <1>5, <2>1
    <2>2. CASE ~(k < i)
      <3>1. k - (i - 1) \in 1..(Len(s) - i) /\ i + (k - (i - 1)) = k + 1
        BY <1>1, <2>2
      <3> QED
        BY <1>1, <1>3, <1>5, <2>2, <3>1
    <2> QED
      BY <2>1, <2>2, Zenon
  <1> QED
    BY <1>1, <1>4, <1>5, <1>6

LEMMA PrefixFacts ==
    ASSUME NEW S, NEW s \in Seq(S), NEW t \in Seq(S)
    PROVE  IsPrefix(s, t) <=> Len(s) <= Len(t) /\ \A k \in 1..Len(s) : s[k] = t[k]
  <1>1. CASE Len(s) <= Len(t)
    <2>1. /\ SubSeq(s, 1, Len(s)) \in Seq(S) /\ Len(SubSeq(s, 1, Len(s))) = Len(s)
          /\ \A k \in 1..Len(s) : SubSeq(s, 1, Len(s))[k] = s[k]
      OBVIOUS
    <2>2. /\ SubSeq(t, 1, Len(s)) \in Seq(S) /\ Len(SubSeq(t, 1, Len(s))) = Len(s)
          /\ \A k \in 1..Len(s) : SubSeq(t, 1, Len(s))[k] = t[k]
      BY <1>1
    <2> QED
      BY <1>1, <2>1, <2>2 DEF IsPrefix
  <1> QED
    BY <1>1 DEF IsPrefix

LEMMA PrefixOrder ==
    ASSUME NEW S, NEW s \in Seq(S), NEW t \in Seq(S)
    PROVE  /\ IsPrefix(s, s)
           /\ IsPrefix(<<>>, s)
           /\ \A x \in S : IsPrefix(s, Append(s, x))
           /\ \A u \in Seq(S) : IsPrefix(s, t) /\ IsPrefix(t, u) => IsPrefix(s, u)
           /\ IsPrefix(s, t) /\ s # t => Len(s) < Len(t)
  <1>1. IsPrefix(s, s)
    BY PrefixFacts
  <1>2. IsPrefix(<<>>, s)
    <2>0. <<>> \in Seq(S) /\ Len(<<>>) = 0
      OBVIOUS
    <2>1. PICK e \in Seq(S) : e = <<>> /\ Len(e) = 0
      BY <2>0, Zenon
    <2>2. IsPrefix(e, s) <=> Len(e) <= Len(s) /\ \A k \in 1..Len(e) : e[k] = s[k]
      BY PrefixFacts
    <2>3. Len(s) \in Nat
      OBVIOUS
    <2>4. IsPrefix(e, s)
      BY <2>1, <2>2, <2>3
    <2> QED
      BY <2>1, <2>4
  <1>5. ASSUME NEW x \in S PROVE IsPrefix(s, Append(s, x))
    <2> DEFINE u == Append(s, x)
    <2>1. u \in Seq(S) /\ Len(u) = Len(s) + 1 /\ \A k \in 1..Len(s) : u[k] = s[k]
      OBVIOUS
    <2> HIDE DEF u
    <2>2. IsPrefix(s, u)
      BY <2>1, PrefixFacts
    <2> QED
      BY <2>2 DEF u
  <1>3. ASSUME NEW u \in Seq(S), IsPrefix(s, t), IsPrefix(t, u) PROVE IsPrefix(s, u)
    BY <1>3, PrefixFacts
  <1>4. ASSUME IsPrefix(s, t), s # t PROVE Len(s) < Len(t)
    BY <1>4, PrefixFacts
  <1> QED
    BY <1>1, <1>2, <1>3, <1>4, <1>5

\* The others are all that is left when one is taken out, and a new one is the
\* only one that an Append adds.
LEMMA RestFacts ==
    ASSUME NEW S, NEW s \in Seq(S), NEW i \in 1..Len(s)
    PROVE  /\ RemoveAt(s, i) \in Seq(S) /\ Len(RemoveAt(s, i)) = Len(s) - 1
           /\ \A k \in 1..Len(RemoveAt(s, i)) :
                 \E l \in 1..Len(s) : l # i /\ RemoveAt(s, i)[k] = s[l]
           /\ \A l \in 1..Len(s) : l # i =>
                 \E k \in 1..Len(RemoveAt(s, i)) : RemoveAt(s, i)[k] = s[l]
  <1> DEFINE r == RemoveAt(s, i)
  <1>1. /\ r \in Seq(S) /\ Len(s) \in Nat /\ Len(r) = Len(s) - 1
        /\ \A k \in 1..Len(r) : r[k] = IF k < i THEN s[k] ELSE s[k + 1]
    BY RemoveAtFacts
  <1> HIDE DEF r
  <1>2. ASSUME NEW k \in 1..Len(r) PROVE \E l \in 1..Len(s) : l # i /\ r[k] = s[l]
    <2>1. k \in 1..Len(s) /\ k + 1 \in 1..Len(s)
      BY <1>1
    <2> QED
      BY <1>1, <2>1
  <1>3. ASSUME NEW l \in 1..Len(s), l # i PROVE \E k \in 1..Len(r) : r[k] = s[l]
    <2>1. CASE l < i
      BY <1>1, <2>1
    <2>2. CASE ~(l < i)
      <3>1. l - 1 \in 1..Len(r) /\ ~(l - 1 < i) /\ l - 1 + 1 = l
        BY <1>1, <1>3, <2>2
      <3> QED
        BY <1>1, <3>1, Zenon
    <2> QED
      BY <2>1, <2>2
  <1>4. /\ r \in Seq(S) /\ Len(r) = Len(s) - 1
        /\ \A k \in 1..Len(r) : \E l \in 1..Len(s) : l # i /\ r[k] = s[l]
        /\ \A l \in 1..Len(s) : l # i => \E k \in 1..Len(r) : r[k] = s[l]
    BY <1>1, <1>2, <1>3
  <1> QED
    BY <1>4 DEF r

LEMMA AppendFacts ==
    ASSUME NEW S, NEW s \in Seq(S), NEW x \in S
    PROVE  /\ Append(s, x) \in Seq(S) /\ Len(Append(s, x)) = Len(s) + 1
           /\ Append(s, x)[Len(s) + 1] = x /\ Len(s) + 1 \in 1..Len(Append(s, x))
           /\ \A k \in 1..Len(s) : k \in 1..Len(Append(s, x)) /\ Append(s, x)[k] = s[k]
           /\ \A k \in 1..Len(Append(s, x)) :
                 Append(s, x)[k] = x \/ (k \in 1..Len(s) /\ Append(s, x)[k] = s[k])
  OBVIOUS

LEMMA ChangeFacts ==
    ASSUME NEW S, NEW s \in Seq(S), NEW i \in 1..Len(s), NEW x \in S
    PROVE  /\ [s EXCEPT ![i] = x] \in Seq(S) /\ Len([s EXCEPT ![i] = x]) = Len(s)
           /\ \A k \in 1..Len(s) : [s EXCEPT ![i] = x][k] = IF k = i THEN x ELSE s[k]
  OBVIOUS

-----------------------------------------------------------------------------
(***************************************************************************)
(* Branches and HEAD.  The invariant says of every job what it may count   *)
(* on as long as no two jobs crossed.                                      *)
(***************************************************************************)
\* The index has what T has, and beyond it only what was staged since.
Carried(T) == T \ bIndex \subseteq bPulled /\ bIndex \ T \subseteq bStaged

\* A line in which nothing is taken back, as all on GitHub are.
Grows(c) == \A i, k \in 1..Len(c) : i <= k => c[i] \subseteq c[k]

\* No switch to another branch is halfway.
StaysOnHead == \A k \in 1..Len(bJobs) : bJobs[k].at = "checkedOut" => bJobs[k].name = bHead

OneSwitch ==
    \A i, k \in 1..Len(bJobs) :
        bJobs[i].at = "checkedOut" /\ bJobs[k].at = "checkedOut" => i = k

SwitchCarries ==
    \A k \in 1..Len(bJobs) : bJobs[k].at = "checkedOut" =>
        /\ bJobs[k].op = "switch" /\ bBranch[bJobs[k].name] # <<>>
        /\ Carried(Refs!Tree(bBranch[bJobs[k].name]))

TreeCarries ==
    \A k \in 1..Len(bJobs) : bJobs[k].at = "tree" =>
        /\ bJobs[k].op \in {"commit", "signedCommit"}
        /\ StaysOnHead => Carried(bJobs[k].tree)

\* A commit without a signature may have been overtaken; it fails then.
ParentCarries ==
    \A k \in 1..Len(bJobs) : bJobs[k].at = "parent" =>
        /\ bJobs[k].op \in {"commit", "signedCommit"}
        /\ \/ bJobs[k].tip = bBranch[bHead]
           \/ bJobs[k].op = "commit" /\ Len(bJobs[k].tip) < Len(bBranch[bHead])
        /\ bJobs[k].tip = bBranch[bHead] /\ StaysOnHead => Carried(bJobs[k].tree)

PullExtends ==
    \A k \in 1..Len(bJobs) :
        /\ bJobs[k].at = "fetching" => bJobs[k].op = "pull" /\ bJobs[k].name = bHead
        /\ bJobs[k].at = "analysed" =>
              /\ bJobs[k].op = "pull" /\ bJobs[k].name = bHead
              /\ IsPrefix(bBranch[bHead], bJobs[k].tip) /\ bJobs[k].tip # bBranch[bHead]
              /\ Grows(bJobs[k].tip)

DeletedIsElsewhere ==
    \A k \in 1..Len(bJobs) : bJobs[k].at = "merged" =>
        /\ bJobs[k].op = "delete" /\ bJobs[k].to # bJobs[k].name
        /\ bBranch[bJobs[k].to] # <<>> /\ IsPrefix(bJobs[k].tip, bBranch[bJobs[k].to])

HeadIsBorn == bBranch[bHead] = <<>> => \A n \in Heads : bBranch[n] = <<>>

HeadCarries == ~Refs!Switching => Carried(Refs!Tree(bBranch[bHead]))

Standing ==
    /\ HeadIsBorn /\ HeadCarries /\ OneSwitch /\ SwitchCarries /\ TreeCarries
    /\ ParentCarries /\ PullExtends /\ DeletedIsElsewhere

GithubGrows == \A n \in Heads : Grows(bGithub[n])

RefsInv == Refs!TypeOK /\ GithubGrows /\ (~bCrossed => Standing)

LEMMA TreeType ==
    ASSUME NEW c \in Seq(SUBSET Refs!Changes)
    PROVE  /\ Refs!Tree(c) \in SUBSET Refs!Changes
           /\ \A T \in SUBSET Refs!Changes : Refs!Tree(Append(c, T)) = T
           /\ c # <<>> => Len(c) \in Nat \ {0} /\ Refs!Tree(c) = c[Len(c)]
  <1>1. c # <<>> => Len(c) \in Nat \ {0} /\ Refs!Tree(c) = c[Len(c)]
    BY DEF Refs!Tree, Refs!Missing, Refs!Last
  <1>2. Refs!Tree(<<>>) = {}
    BY DEF Refs!Tree, Refs!Missing
  <1>3. c # <<>> => c[Len(c)] \in SUBSET Refs!Changes
    BY <1>1
  <1>4. ASSUME NEW T \in SUBSET Refs!Changes PROVE Refs!Tree(Append(c, T)) = T
    <2> DEFINE d == Append(c, T)
    <2>1. d \in Seq(SUBSET Refs!Changes) /\ Len(d) = Len(c) + 1 /\ d[Len(c) + 1] = T
      OBVIOUS
    <2>2. d # <<>>
      BY <2>1
    <2> HIDE DEF d
    <2>3. Refs!Tree(d) = T
      BY <2>1, <2>2 DEF Refs!Tree, Refs!Missing, Refs!Last
    <2> QED
      BY <2>3 DEF d
  <1> QED
    BY <1>1, <1>2, <1>3, <1>4

LEMMA RefsTyped == ASSUME Refs!TypeOK PROVE
    /\ \A k \in 1..Len(bJobs) : bJobs[k] \in Refs!Job
    /\ DOMAIN bJobs = 1..Len(bJobs) /\ Len(bJobs) \in Nat
    /\ \A n \in Heads : bBranch[n] \in Seq(SUBSET Refs!Changes)
  BY DEF Refs!TypeOK

LEMMA RefsInitInv == ASSUME Refs!BranchesAssumption, Refs!Init PROVE RefsInv
  <1> USE DEF Refs!BranchesAssumption, Refs!Init, Refs!Missing
  <1>1. \A c \in {<<>>, <<{}>>} : c \in Seq(SUBSET Refs!Changes) /\ Grows(c) /\ Refs!Tree(c) = {}
    <2>1. <<>> \in Seq(SUBSET Refs!Changes) /\ <<{}>> \in Seq(SUBSET Refs!Changes)
      OBVIOUS
    <2>2. Grows(<<>>) /\ Grows(<<{}>>)
      BY DEF Grows
    <2>3. Refs!Tree(<<>>) = {} /\ Refs!Tree(<<{}>>) = {}
      BY DEF Refs!Tree, Refs!Last
    <2> QED
      BY <2>1, <2>2, <2>3, Zenon
  <1>2. PICK c \in {<<>>, <<{}>>} :
            /\ bBranch = [n \in Heads |-> IF n = Main THEN c ELSE <<>>]
            /\ bGithub \in {bBranch, [bBranch EXCEPT ![Main] = <<{}>>]}
    BY Zenon
  <1>3. \A n \in Heads : bBranch[n] \in {<<>>, <<{}>>} /\ bGithub[n] \in {<<>>, <<{}>>}
    BY <1>2
  <1>4. Refs!TypeOK
    <2>1. bBranch \in [Heads -> Seq(SUBSET Refs!Changes)]
      BY <1>1, <1>2, <1>3, Zenon
    <2>2. bGithub \in [Heads -> Seq(SUBSET Refs!Changes)]
      BY <1>1, <1>2, <1>3, Zenon
    <2>3. bJobs \in Seq(Refs!Job)
      OBVIOUS
    <2> QED
      BY <2>1, <2>2, <2>3, Zenon DEF Refs!TypeOK
  <1>5. GithubGrows
    BY <1>1, <1>3, Zenon DEF GithubGrows
  <1>6. HeadIsBorn
    BY <1>2 DEF HeadIsBorn
  <1>7. HeadCarries
    BY <1>1, <1>3, Zenon DEF HeadCarries, Carried
  <1> QED
    BY <1>4, <1>5, <1>6, <1>7 DEF RefsInv, Standing, OneSwitch, SwitchCarries, TreeCarries,
       ParentCarries, PullExtends, DeletedIsElsewhere

\* What is left of the jobs when job i ends, and when it goes on as job j.
LEMMA RefsEnds ==
    ASSUME Refs!TypeOK, NEW i \in DOMAIN bJobs, Refs!Ends(i)
    PROVE  /\ bJobs' \in Seq(Refs!Job) /\ Len(bJobs') = Len(bJobs) - 1
           /\ \A k \in 1..Len(bJobs') :
                 bJobs'[k] = IF k < i THEN bJobs[k] ELSE bJobs[k + 1]
  <1>1. bJobs \in Seq(Refs!Job) /\ i \in 1..Len(bJobs)
    BY DEF Refs!TypeOK
  <1>2. bJobs' = RemoveAt(bJobs, i)
    BY DEF Refs!Ends, Refs!RemoveAt, RemoveAt
  <1> QED
    BY <1>1, <1>2, RemoveAtFacts, Zenon

LEMMA RefsGoesOn ==
    ASSUME Refs!TypeOK, NEW i \in DOMAIN bJobs, NEW j \in Refs!Job,
           bJobs' = [bJobs EXCEPT ![i] = j]
    PROVE  /\ bJobs' \in Seq(Refs!Job) /\ Len(bJobs') = Len(bJobs)
           /\ \A k \in 1..Len(bJobs') : bJobs'[k] = IF k = i THEN j ELSE bJobs[k]
  BY DEF Refs!TypeOK

\* A job that is neither done nor as it was.
Becomes(i, j) ==
    \/ Refs!checkoutTree(i) /\ j = [bJobs[i] EXCEPT !.at = "checkedOut"]
    \/ Refs!createBranch(i) /\ bJobs[i].op # "create"
       /\ j = [bJobs[i] EXCEPT !.op = "switch"]
    \/ Refs!checkMerged(i)
       /\ j = [bJobs[i] EXCEPT !.at = "merged", !.tip = bBranch[bJobs[i].name],
                               !.to = bHead]
    \/ Refs!writeTree(i) /\ j = [bJobs[i] EXCEPT !.at = "tree", !.tree = bIndex]
    \/ Refs!readParent(i)
       /\ j = [bJobs[i] EXCEPT !.at = "parent", !.tip = bBranch[bHead]]
    \/ Refs!currentBranch(i) /\ j = [bJobs[i] EXCEPT !.at = "fetching", !.name = bHead]
    \/ /\ Refs!analyse(i) /\ ~Refs!UpToDate(bGithub[bJobs[i].name])
       /\ Refs!FastForward(bGithub[bJobs[i].name])
       /\ j = [bJobs[i] EXCEPT !.at = "analysed", !.tip = bGithub[bJobs[i].name]]

LEMMA RefsBecomes ==
    ASSUME Refs!TypeOK, NEW i \in DOMAIN bJobs, Refs!Run(i), ~Refs!Ends(i)
    PROVE  \E j \in Refs!Job : Becomes(i, j) /\ bJobs' = [bJobs EXCEPT ![i] = j]
  <1> USE DEF Refs!In, Refs!On, Refs!HeadTip, Refs!Missing
  <1>1. /\ bJobs[i] \in Refs!Job /\ bIndex \in SUBSET Refs!Changes /\ bHead \in Heads
        /\ bBranch[bHead] \in Seq(SUBSET Refs!Changes)
        /\ bBranch[bJobs[i].name] \in Seq(SUBSET Refs!Changes)
        /\ bGithub[bJobs[i].name] \in Seq(SUBSET Refs!Changes)
    <2>1. bJobs[i] \in Refs!Job
      BY DEF Refs!TypeOK
    <2>2. bJobs[i].name \in Heads
      BY <2>1 DEF Refs!Job
    <2> QED
      BY <2>1, <2>2 DEF Refs!TypeOK
  <1>2. ASSUME NEW j \in Refs!Job, Becomes(i, j), bJobs' = [bJobs EXCEPT ![i] = j]
        PROVE  \E k \in Refs!Job : Becomes(i, k) /\ bJobs' = [bJobs EXCEPT ![i] = k]
    BY <1>2, Zenon
  <1>3. CASE Refs!checkoutTree(i)
    <2> DEFINE j == [bJobs[i] EXCEPT !.at = "checkedOut"]
    <2>1. j \in Refs!Job /\ bJobs' = [bJobs EXCEPT ![i] = j]
      BY <1>1, <1>3 DEF Refs!checkoutTree, Refs!GoesOn, Refs!Job
    <2> QED
      BY <1>2, <1>3, <2>1, Zenon DEF Becomes
  <1>4. CASE Refs!createBranch(i)
    <2> DEFINE j == [bJobs[i] EXCEPT !.op = "switch"]
    <2>1. j \in Refs!Job /\ bJobs' = [bJobs EXCEPT ![i] = j] /\ bJobs[i].op # "create"
      BY <1>1, <1>4 DEF Refs!createBranch, Refs!Job, Refs!Ops
    <2> QED
      BY <1>2, <1>4, <2>1, Zenon DEF Becomes
  <1>5. CASE Refs!checkMerged(i)
    <2> DEFINE j == [bJobs[i] EXCEPT !.at = "merged", !.tip = bBranch[bJobs[i].name],
                                     !.to = bHead]
    <2>1. j \in Refs!Job /\ bJobs' = [bJobs EXCEPT ![i] = j]
      BY <1>1, <1>5, Zenon DEF Refs!checkMerged, Refs!Job
    <2> QED
      BY <1>2, <1>5, <2>1, Zenon DEF Becomes
  <1>6. CASE Refs!writeTree(i)
    <2> DEFINE j == [bJobs[i] EXCEPT !.at = "tree", !.tree = bIndex]
    <2>1. j \in Refs!Job /\ bJobs' = [bJobs EXCEPT ![i] = j]
      BY <1>1, <1>6, Zenon DEF Refs!writeTree, Refs!Job
    <2> QED
      BY <1>2, <1>6, <2>1, Zenon DEF Becomes
  <1>7. CASE Refs!readParent(i)
    <2> DEFINE j == [bJobs[i] EXCEPT !.at = "parent", !.tip = bBranch[bHead]]
    <2>1. j \in Refs!Job /\ bJobs' = [bJobs EXCEPT ![i] = j]
      BY <1>1, <1>7, Zenon DEF Refs!readParent, Refs!Job
    <2> QED
      BY <1>2, <1>7, <2>1, Zenon DEF Becomes
  <1>8. CASE Refs!currentBranch(i)
    <2> DEFINE j == [bJobs[i] EXCEPT !.at = "fetching", !.name = bHead]
    <2>1. j \in Refs!Job /\ bJobs' = [bJobs EXCEPT ![i] = j]
      BY <1>1, <1>8, Zenon DEF Refs!currentBranch, Refs!Job
    <2> QED
      BY <1>2, <1>8, <2>1, Zenon DEF Becomes
  <1>9. CASE Refs!analyse(i)
    <2> DEFINE j == [bJobs[i] EXCEPT !.at = "analysed", !.tip = bGithub[bJobs[i].name]]
    <2>1. j \in Refs!Job
      BY <1>1, Zenon DEF Refs!Job
    <2>2. /\ bJobs' = [bJobs EXCEPT ![i] = j]
          /\ ~Refs!UpToDate(bGithub[bJobs[i].name]) /\ Refs!FastForward(bGithub[bJobs[i].name])
      BY <1>9 DEF Refs!analyse
    <2> QED
      BY <1>2, <1>9, <2>1, <2>2, Zenon DEF Becomes
  <1> QED
    BY <1>3, <1>4, <1>5, <1>6, <1>7, <1>8, <1>9
    DEF Refs!Run, Refs!setHead, Refs!deleteBranch, Refs!renameBranch, Refs!createCommit,
        Refs!fastForward, Refs!Fails

LEMMA RefsRunType ==
    ASSUME Refs!TypeOK, NEW i \in DOMAIN bJobs, Refs!Run(i)
    PROVE  Refs!TypeOK'
  <1> USE DEF Refs!TypeOK, Refs!On, Refs!Missing, Refs!HeadTip, Refs!SetBranch,
              Refs!refs, Refs!ghosts
  <1>1. /\ bJobs[i].name \in Heads /\ bJobs[i].to \in Heads
        /\ bJobs[i].tip \in Seq(SUBSET Refs!Changes) /\ bJobs[i].tree \in SUBSET Refs!Changes
    <2>1. bJobs[i] \in Refs!Job
      OBVIOUS
    <2> QED
      BY <2>1, Zenon DEF Refs!Job
  <1>2. bCrossed' \in BOOLEAN
    BY DEF Refs!Run, Refs!Notes
  <1>3. bJobs' \in Seq(Refs!Job)
    BY RefsEnds, RefsBecomes, RefsGoesOn
  <1>4. <<>> \in Seq(SUBSET Refs!Changes)
    OBVIOUS
  <1>5. CASE Refs!checkoutTree(i)
    BY <1>2, <1>3, <1>5 DEF Refs!checkoutTree, Refs!Checkout
  <1>6. CASE Refs!setHead(i)
    BY <1>1, <1>2, <1>3, <1>6, Zenon DEF Refs!setHead
  <1>7. CASE Refs!createBranch(i)
    BY <1>1, <1>2, <1>3, <1>7, Zenon DEF Refs!createBranch
  <1>8. CASE Refs!deleteBranch(i)
    BY <1>2, <1>3, <1>4, <1>8, Zenon DEF Refs!deleteBranch
  <1>9. CASE Refs!renameBranch(i)
    <2>1. bBranch' \in [Heads -> Seq(SUBSET Refs!Changes)] /\ bHead' \in Heads
      BY <1>1, <1>4, <1>9, Zenon DEF Refs!renameBranch
    <2> QED
      BY <1>2, <1>3, <1>9, <2>1, Zenon DEF Refs!renameBranch
  <1>10. CASE Refs!createCommit(i)
    <2>1. Append(bJobs[i].tip, bJobs[i].tree) \in Seq(SUBSET Refs!Changes)
      BY <1>1
    <2> QED
      BY <1>2, <1>3, <1>10, <2>1 DEF Refs!createCommit
  <1>11. CASE Refs!fastForward(i)
    <2>1. Refs!Tree(bJobs[i].tip) \in SUBSET Refs!Changes
      BY <1>1, TreeType, Zenon
    <2>2. bBranch' \in [Heads -> Seq(SUBSET Refs!Changes)]
      BY <1>1, <1>11 DEF Refs!fastForward
    <2>3. bIndex' \subseteq Refs!Changes /\ bPulled' \subseteq Refs!Changes
      BY <1>11, <2>1 DEF Refs!fastForward, Refs!Checkout
    <2> QED
      BY <1>2, <1>3, <1>11, <2>2, <2>3 DEF Refs!fastForward
  <1>12. CASE UNCHANGED <<bBranch, bHead, bIndex, bGithub, bStaged, bPulled>>
    BY <1>2, <1>3, <1>12
  <1> QED
    BY <1>5, <1>6, <1>7, <1>8, <1>9, <1>10, <1>11, <1>12, Zenon
    DEF Refs!Run, Refs!checkMerged, Refs!writeTree, Refs!readParent, Refs!currentBranch,
        Refs!analyse, Refs!Fails

LEMMA RefsNextType ==
    ASSUME Refs!BranchesAssumption, Refs!TypeOK, [Refs!Next]_Refs!vars
    PROVE  Refs!TypeOK'
  <1> USE DEF Refs!TypeOK, Refs!refs, Refs!ghosts
  <1>1. CASE UNCHANGED Refs!vars
    BY <1>1 DEF Refs!vars
  <1>2. ASSUME NEW x \in Edits, Refs!Stage(x) PROVE Refs!TypeOK'
    BY <1>2 DEF Refs!Stage, Refs!Changes
  <1>3. ASSUME NEW n \in Heads, NEW x \in Theirs, Refs!OthersPush(n, x) PROVE Refs!TypeOK'
    <2>1. Append(bGithub[n], Refs!Tree(bGithub[n]) \cup {x}) \in Seq(SUBSET Refs!Changes)
      <3>1. Refs!Tree(bGithub[n]) \cup {x} \in SUBSET Refs!Changes
        BY TreeType, Zenon DEF Refs!Changes
      <3> QED
        BY <3>1
    <2>2. bGithub' \in [Heads -> Seq(SUBSET Refs!Changes)]
      BY <1>3, <2>1 DEF Refs!OthersPush
    <2> QED
      BY <1>3, <2>2 DEF Refs!OthersPush
  <1>4. ASSUME NEW op \in Refs!Ops, NEW n \in Heads, NEW m \in Heads, Refs!Request(op, n, m)
        PROVE  Refs!TypeOK'
    <2>0. <<>> \in Seq(SUBSET Refs!Changes)
      OBVIOUS
    <2>1. Refs!Task(op, n, m) \in Refs!Job
      BY <2>0 DEF Refs!Task, Refs!Job, Refs!Missing
    <2> QED
      BY <1>4, <2>1 DEF Refs!Request
  <1> QED
    BY <1>1, <1>2, <1>3, <1>4, RefsRunType, Zenon DEF Refs!Next

LEMMA GrowsOn ==
    ASSUME NEW c \in Seq(SUBSET Refs!Changes), Grows(c), NEW x \in Refs!Changes
    PROVE  Grows(Append(c, Refs!Tree(c) \cup {x}))
  <1> DEFINE T == Refs!Tree(c) \cup {x}
             d == Append(c, T)
  <1>1. T \in SUBSET Refs!Changes /\ Refs!Tree(c) \subseteq T
    BY TreeType
  <1>2. c # <<>> => Len(c) \in Nat \ {0} /\ Refs!Tree(c) = c[Len(c)]
    BY TreeType
  <1> HIDE DEF T
  <1>3. /\ Len(d) = Len(c) + 1 /\ Len(c) \in Nat /\ d[Len(c) + 1] = T
        /\ \A k \in 1..Len(c) : d[k] = c[k]
    BY <1>1
  <1>4. \A k \in 1..Len(c) : c[k] \subseteq T
    BY <1>1, <1>2 DEF Grows
  <1> HIDE DEF d
  <1>5. Grows(d)
    BY <1>3, <1>4 DEF Grows
  <1> QED
    BY <1>5 DEF d, T

LEMMA GithubGrowsOn ==
    ASSUME Refs!BranchesAssumption, Refs!TypeOK, GithubGrows, [Refs!Next]_Refs!vars
    PROVE  GithubGrows'
  <1>1. CASE UNCHANGED bGithub
    BY <1>1 DEF GithubGrows, Grows
  <1>2. ASSUME NEW n \in Heads, NEW x \in Theirs, Refs!OthersPush(n, x) PROVE GithubGrows'
    <2>1. Grows(Append(bGithub[n], Refs!Tree(bGithub[n]) \cup {x}))
      BY GrowsOn, Zenon DEF GithubGrows, Refs!TypeOK, Refs!Changes
    <2>2. \A m \in Heads : bGithub'[m] = IF m = n
              THEN Append(bGithub[n], Refs!Tree(bGithub[n]) \cup {x}) ELSE bGithub[m]
      BY <1>2 DEF Refs!OthersPush, Refs!TypeOK
    <2>3. ASSUME NEW m \in Heads PROVE Grows(bGithub[m])'
      BY <2>1, <2>2, Zenon DEF GithubGrows, Grows
    <2> QED
      BY <2>3 DEF GithubGrows
  <1> QED
    BY <1>1, <1>2, Zenon DEF Refs!Next, Refs!vars, Refs!Stage, Refs!Request, Refs!Run,
       Refs!checkoutTree, Refs!setHead, Refs!createBranch, Refs!checkMerged,
       Refs!deleteBranch, Refs!renameBranch, Refs!writeTree, Refs!readParent,
       Refs!createCommit, Refs!currentBranch, Refs!analyse, Refs!fastForward, Refs!Fails

\* A job after the step of job i is another one as it was, or what i became.
LEMMA RefsLeft ==
    ASSUME Refs!TypeOK, NEW i \in DOMAIN bJobs, Refs!Run(i), NEW k \in 1..Len(bJobs')
    PROVE  \/ \E l \in 1..Len(bJobs) : l # i /\ bJobs'[k] = bJobs[l]
           \/ \E j \in Refs!Job : Becomes(i, j) /\ bJobs'[k] = j
  <1>0. Len(bJobs) \in Nat /\ i \in 1..Len(bJobs)
    BY RefsTyped
  <1>1. CASE Refs!Ends(i)
    <2>1. Len(bJobs') = Len(bJobs) - 1 /\ bJobs'[k] = IF k < i THEN bJobs[k] ELSE bJobs[k + 1]
      BY <1>1, RefsEnds
    <2>2. k \in 1..Len(bJobs) /\ k + 1 \in 1..Len(bJobs)
      BY <1>0, <2>1
    <2> QED
      BY <1>0, <2>1, <2>2
  <1>2. CASE ~Refs!Ends(i)
    <2>1. PICK j \in Refs!Job : Becomes(i, j) /\ bJobs' = [bJobs EXCEPT ![i] = j]
      BY <1>2, RefsBecomes
    <2>2. Len(bJobs') = Len(bJobs) /\ bJobs'[k] = IF k = i THEN j ELSE bJobs[k]
      BY <2>1, RefsGoesOn
    <2> QED
      BY <2>1, <2>2
  <1> QED
    BY <1>1, <1>2

\* And every other job is still there.
LEMMA RefsStay ==
    ASSUME Refs!TypeOK, NEW i \in DOMAIN bJobs, Refs!Run(i),
           NEW l \in 1..Len(bJobs), l # i
    PROVE  \E k \in 1..Len(bJobs') : bJobs'[k] = bJobs[l]
  <1>0. Len(bJobs) \in Nat /\ i \in 1..Len(bJobs)
    BY RefsTyped
  <1>1. CASE Refs!Ends(i)
    <2>1. /\ Len(bJobs') = Len(bJobs) - 1
          /\ \A k \in 1..Len(bJobs') :
                 bJobs'[k] = IF k < i THEN bJobs[k] ELSE bJobs[k + 1]
      BY <1>1, RefsEnds
    <2>2. CASE l < i
      BY <1>0, <2>1, <2>2
    <2>3. CASE ~(l < i)
      <3>1. l - 1 \in 1..Len(bJobs') /\ ~(l - 1 < i) /\ l - 1 + 1 = l
        BY <1>0, <2>1, <2>3
      <3> QED
        BY <2>1, <3>1
    <2> QED
      BY <2>2, <2>3
  <1>2. CASE ~Refs!Ends(i)
    <2>1. PICK j \in Refs!Job : Becomes(i, j) /\ bJobs' = [bJobs EXCEPT ![i] = j]
      BY <1>2, RefsBecomes
    <2> QED
      BY <2>1, RefsGoesOn
  <1> QED
    BY <1>1, <1>2

\* What a step that is not noted leaves to the job l beside it.
LEMMA RefsNoted ==
    ASSUME Refs!TypeOK, NEW i \in DOMAIN bJobs, Refs!Run(i), ~bCrossed',
           NEW l \in 1..Len(bJobs), l # i
    PROVE  /\ bJobs[l].at = "checkedOut" =>
                 /\ bHead' = bHead /\ bBranch'[bJobs[l].name] = bBranch[bJobs[l].name]
                 /\ bJobs[i].op \notin {"switch", "commit", "signedCommit", "pull"}
           /\ bJobs[l].at = "tree" => bHead' = bHead /\ bBranch'[bHead] = bBranch[bHead]
           /\ bJobs[l].at = "parent" =>
                 /\ bHead' = bHead
                 /\ bJobs[l].op = "signedCommit" => bBranch'[bHead] = bBranch[bHead]
           /\ bJobs[l].at = "fetching" /\ bJobs[l].op = "pull" => bHead' = bHead
           /\ bJobs[l].at = "analysed" =>
                 bHead' = bHead /\ bBranch'[bJobs[l].name] = bBranch[bJobs[l].name]
           /\ bJobs[l].at = "merged" => bBranch'[bJobs[l].to] # <<>>
  <1>1. ~Refs!Undermines(i, l)
    BY RefsTyped, Zenon DEF Refs!Run, Refs!Notes
  <1> QED
    BY <1>1 DEF Refs!Undermines, Refs!Missing

LEMMA RefsNotHalved ==
    ASSUME Refs!TypeOK, NEW i \in DOMAIN bJobs, Refs!Run(i), ~bCrossed'
    PROVE  ~bCrossed /\ (bJobs[i].at = "checkedOut" => bHead' = bJobs[i].name)
  BY Zenon DEF Refs!Run, Refs!Notes, Refs!Halved, Refs!TypeOK

LEMMA RefsStaysOnHead ==
    ASSUME Refs!TypeOK, NEW i \in DOMAIN bJobs, Refs!Run(i), ~bCrossed',
           bHead' = bHead, StaysOnHead'
    PROVE  StaysOnHead
  <1>1. ASSUME NEW l \in 1..Len(bJobs), bJobs[l].at = "checkedOut"
        PROVE  bJobs[l].name = bHead
    <2>1. CASE l = i
      BY <1>1, <2>1, RefsNotHalved
    <2>2. CASE l # i
      <3>1. PICK k \in 1..Len(bJobs') : bJobs'[k] = bJobs[l]
        BY <2>2, RefsStay
      <3> QED
        BY <1>1, <3>1 DEF StaysOnHead
    <2> QED
      BY <2>1, <2>2
  <1> QED
    BY <1>1 DEF StaysOnHead

\* A checkout of the tree that HEAD has leaves the index.
LEMMA CheckoutSame ==
    ASSUME Refs!TypeOK, NEW T \in SUBSET Refs!Changes
    PROVE  Refs!Checkout(T, T) = bIndex
  BY DEF Refs!Checkout, Refs!TypeOK

\* Facts on one job, from the invariant.
LEMMA RefsOfJob ==
    ASSUME Refs!TypeOK, NEW i \in DOMAIN bJobs
    PROVE  /\ bJobs[i] \in Refs!Job
           /\ i \in 1..Len(bJobs) /\ Len(bJobs) \in Nat
           /\ bJobs[i].name \in Heads /\ bJobs[i].to \in Heads /\ bJobs[i].op \in Refs!Ops
           /\ bJobs[i].tip \in Seq(SUBSET Refs!Changes)
           /\ bJobs[i].tree \in SUBSET Refs!Changes
           /\ bBranch \in [Heads -> Seq(SUBSET Refs!Changes)] /\ bHead \in Heads
           /\ bBranch[bHead] \in Seq(SUBSET Refs!Changes)
  <1>1. bJobs[i] \in Refs!Job /\ i \in 1..Len(bJobs) /\ Len(bJobs) \in Nat
    BY DEF Refs!TypeOK
  <1>2. /\ bJobs[i].name \in Heads /\ bJobs[i].to \in Heads /\ bJobs[i].op \in Refs!Ops
        /\ bJobs[i].tip \in Seq(SUBSET Refs!Changes)
        /\ bJobs[i].tree \in SUBSET Refs!Changes
    BY <1>1 DEF Refs!Job
  <1>3. /\ bBranch \in [Heads -> Seq(SUBSET Refs!Changes)] /\ bHead \in Heads
        /\ bBranch[bHead] \in Seq(SUBSET Refs!Changes)
    BY DEF Refs!TypeOK
  <1> QED
    BY <1>1, <1>2, <1>3

\* A commit is made on the tip of HEAD, and a fast-forward extends it.
LEMMA CommitExtends ==
    ASSUME RefsInv, NEW i \in DOMAIN bJobs, Refs!createCommit(i), ~bCrossed
    PROVE  /\ bJobs[i].tip = bBranch[bHead]
           /\ bBranch' = [bBranch EXCEPT ![bHead] = Append(bBranch[bHead], bJobs[i].tree)]
           /\ bHead' = bHead /\ bIndex' = bIndex /\ bPulled' = bPulled
           /\ bStaged' = bStaged \ bJobs[i].tree
           /\ Len(bBranch'[bHead]) > Len(bBranch[bHead])
           /\ IsPrefix(bBranch[bHead], bBranch'[bHead])
           /\ Refs!Tree(bBranch'[bHead]) = bJobs[i].tree
           /\ bJobs[i].op \in {"commit", "signedCommit"}
           /\ StaysOnHead => Carried(bJobs[i].tree)
  <1>1. Refs!TypeOK /\ ParentCarries
    BY DEF RefsInv, Standing
  <1>2. bJobs[i].at = "parent" /\ i \in 1..Len(bJobs)
    BY <1>1, RefsOfJob DEF Refs!createCommit
  <1>3. /\ bJobs[i].op \in {"commit", "signedCommit"}
        /\ \/ bJobs[i].tip = bBranch[bHead]
           \/ bJobs[i].op = "commit"
        /\ bJobs[i].tip = bBranch[bHead] /\ StaysOnHead => Carried(bJobs[i].tree)
    BY <1>1, <1>2 DEF ParentCarries
  <1>4. bJobs[i].tip = bBranch[bHead]
    BY <1>3 DEF Refs!createCommit, Refs!HeadTip
  <1> DEFINE c == bBranch[bHead]
             T == bJobs[i].tree
  <1>5. c \in Seq(SUBSET Refs!Changes) /\ T \in SUBSET Refs!Changes
    BY <1>1, RefsOfJob
  <1>6. /\ bBranch' = [bBranch EXCEPT ![bHead] = Append(c, T)]
        /\ bHead' = bHead /\ bIndex' = bIndex /\ bPulled' = bPulled /\ bStaged' = bStaged \ T
    BY <1>4 DEF Refs!createCommit, Refs!SetBranch
  <1>7. bBranch'[bHead] = Append(c, T)
    BY <1>1, <1>6, RefsOfJob
  <1> HIDE DEF c, T
  <1>8. Len(Append(c, T)) > Len(c)
    BY <1>5
  <1>9. IsPrefix(c, Append(c, T))
    BY <1>5, PrefixOrder
  <1>10. Refs!Tree(Append(c, T)) = T
    BY <1>5, TreeType
  <1> QED
    BY <1>3, <1>4, <1>6, <1>7, <1>8, <1>9, <1>10 DEF c, T

LEMMA PullForwards ==
    ASSUME RefsInv, NEW i \in DOMAIN bJobs, Refs!fastForward(i), ~bCrossed
    PROVE  /\ bJobs[i].name = bHead /\ bJobs[i].op = "pull"
           /\ bBranch' = [bBranch EXCEPT ![bHead] = bJobs[i].tip]
           /\ bHead' = bHead /\ bIndex' = bIndex /\ bStaged' = bStaged
           /\ bPulled' = bPulled \cup (Refs!Tree(bBranch'[bHead]) \ Refs!Tree(bBranch[bHead]))
           /\ Len(bBranch'[bHead]) > Len(bBranch[bHead])
           /\ IsPrefix(bBranch[bHead], bBranch'[bHead])
           /\ Refs!Tree(bBranch[bHead]) \subseteq Refs!Tree(bBranch'[bHead])
  <1>1. Refs!TypeOK /\ PullExtends
    BY DEF RefsInv, Standing
  <1>2. bJobs[i].at = "analysed" /\ i \in 1..Len(bJobs)
    BY <1>1, RefsOfJob DEF Refs!fastForward
  <1>3. /\ bJobs[i].op = "pull" /\ bJobs[i].name = bHead
        /\ IsPrefix(bBranch[bHead], bJobs[i].tip) /\ bJobs[i].tip # bBranch[bHead]
        /\ Grows(bJobs[i].tip)
    BY <1>1, <1>2 DEF PullExtends
  <1> DEFINE c == bBranch[bHead]
             d == bJobs[i].tip
  <1>4. c \in Seq(SUBSET Refs!Changes) /\ d \in Seq(SUBSET Refs!Changes)
    BY <1>1, RefsOfJob
  <1>5. /\ bBranch' = [bBranch EXCEPT ![bHead] = d]
        /\ bHead' = bHead /\ bStaged' = bStaged
        /\ bIndex' = Refs!Checkout(Refs!Tree(bBranch'[bHead]), Refs!Tree(bBranch'[bHead]))
        /\ bPulled' = bPulled \cup (Refs!Tree(d) \ Refs!Tree(c))
    BY <1>3 DEF Refs!fastForward, Refs!SetBranch, Refs!On
  <1>6. bBranch'[bHead] = d
    BY <1>1, <1>5, RefsOfJob
  <1>7. bIndex' = bIndex
    BY <1>1, <1>4, <1>5, <1>6, CheckoutSame, TreeType, Zenon
  <1>8. IsPrefix(c, d) /\ c # d /\ Grows(d)
    BY <1>3
  <1> HIDE DEF c, d
  <1>9. Len(c) < Len(d)
    BY <1>4, <1>8, PrefixOrder
  <1>10. Refs!Tree(c) \subseteq Refs!Tree(d)
    <2>1. CASE c = <<>>
      BY <2>1 DEF Refs!Tree, Refs!Missing
    <2>2. CASE c # <<>>
      <3>1. Len(c) \in Nat \ {0} /\ Len(d) \in Nat /\ Refs!Tree(c) = c[Len(c)]
        BY <1>4, <2>2, TreeType
      <3>2. d # <<>>
        BY <1>9, <3>1
      <3>3. Refs!Tree(d) = d[Len(d)]
        BY <1>4, <3>2, TreeType
      <3>4. c[Len(c)] = d[Len(c)]
        BY <1>4, <1>8, <3>1, PrefixFacts
      <3>5. d[Len(c)] \subseteq d[Len(d)]
        BY <1>8, <1>9, <3>1 DEF Grows
      <3> QED
        BY <3>1, <3>3, <3>4, <3>5
    <2> QED
      BY <2>1, <2>2
  <1>11. Len(d) > Len(c)
    BY <1>4, <1>9
  <1> QED
    BY <1>3, <1>5, <1>6, <1>7, <1>8, <1>10, <1>11 DEF c, d

\* What a step does to HEAD, unless it is one of these four.
LEMMA RefsQuiet ==
    ASSUME RefsInv, NEW i \in DOMAIN bJobs, Refs!Run(i), ~bCrossed'
    PROVE  \/ Refs!createCommit(i) \/ Refs!fastForward(i)
           \/ Refs!setHead(i) \/ Refs!checkoutTree(i)
           \/ /\ bIndex' = bIndex /\ bStaged' = bStaged /\ bPulled' = bPulled
              /\ bBranch'[bHead'] = bBranch[bHead]
              /\ bBranch[bHead] = <<>> => bBranch' = bBranch \/ \A n \in Heads : bBranch'[n] = <<>>
  <1> USE DEF Refs!On, Refs!Missing, Refs!Unborn, Refs!HeadTip, Refs!SetBranch,
              Refs!refs, Refs!ghosts
  <1>1. Refs!TypeOK /\ HeadIsBorn
    BY RefsNotHalved DEF RefsInv, Standing
  <1>2. bBranch \in [Heads -> Seq(SUBSET Refs!Changes)] /\ bHead \in Heads
        /\ bJobs[i].name \in Heads /\ bJobs[i].to \in Heads
    BY <1>1, RefsOfJob
  <1>3. CASE Refs!createBranch(i)
    BY <1>2, <1>3 DEF Refs!createBranch
  <1>4. CASE Refs!deleteBranch(i)
    BY <1>1, <1>2, <1>4 DEF Refs!deleteBranch, HeadIsBorn
  <1>5. CASE Refs!renameBranch(i)
    <2>1. bBranch[bHead] # <<>>
      BY <1>1, <1>2, <1>5 DEF Refs!renameBranch, HeadIsBorn
    <2>2. bBranch'[bHead'] = bBranch[bHead]
      BY <1>2, <1>5, <2>1 DEF Refs!renameBranch
    <2> QED
      BY <1>5, <2>1, <2>2 DEF Refs!renameBranch
  <1>6. CASE UNCHANGED <<bBranch, bHead, bIndex, bStaged, bPulled>>
    BY <1>6
  <1> QED
    BY <1>3, <1>4, <1>5, <1>6
    DEF Refs!Run, Refs!checkMerged, Refs!writeTree, Refs!readParent, Refs!currentBranch,
        Refs!analyse, Refs!Fails

\* A line is only ever added to, as long as it is there.
LEMMA RefsLinesGrow ==
    ASSUME RefsInv, NEW i \in DOMAIN bJobs, Refs!Run(i), ~bCrossed',
           NEW n \in Heads, bBranch[n] # <<>>, bBranch'[n] # <<>>
    PROVE  IsPrefix(bBranch[n], bBranch'[n])
  <1> USE DEF Refs!On, Refs!Missing, Refs!Unborn, Refs!HeadTip, Refs!SetBranch,
              Refs!refs, Refs!ghosts
  <1>1. Refs!TypeOK /\ ~bCrossed
    BY RefsNotHalved DEF RefsInv, Standing
  <1>2. bBranch \in [Heads -> Seq(SUBSET Refs!Changes)] /\ bHead \in Heads
        /\ bJobs[i].name \in Heads /\ bJobs[i].to \in Heads
    BY <1>1, RefsOfJob
  <1>3. IsPrefix(bBranch[n], bBranch[n])
    BY <1>2, PrefixOrder
  <1>4. CASE Refs!createCommit(i)
    BY <1>1, <1>2, <1>3, <1>4, CommitExtends
  <1>5. CASE Refs!fastForward(i)
    BY <1>1, <1>2, <1>3, <1>5, PullForwards
  <1>6. CASE ~Refs!createCommit(i) /\ ~Refs!fastForward(i)
    <2>1. bBranch'[n] = bBranch[n]
      BY <1>2, <1>6
      DEF Refs!Run, Refs!checkoutTree, Refs!setHead, Refs!createBranch, Refs!deleteBranch,
          Refs!renameBranch, Refs!checkMerged, Refs!writeTree, Refs!readParent,
          Refs!currentBranch, Refs!analyse, Refs!Fails
    <2> QED
      BY <1>3, <2>1
  <1> QED
    BY <1>4, <1>5, <1>6

\* Where HEAD stays on its branch, that stays or gets longer.
LEMMA RefsHeadLine ==
    ASSUME RefsInv, NEW i \in DOMAIN bJobs, Refs!Run(i), ~bCrossed', bHead' = bHead
    PROVE  \/ bBranch'[bHead] = bBranch[bHead]
           \/ /\ Refs!createCommit(i) \/ Refs!fastForward(i)
              /\ Len(bBranch'[bHead]) > Len(bBranch[bHead])
  <1>1. Refs!TypeOK /\ ~bCrossed
    BY RefsNotHalved DEF RefsInv
  <1>2. CASE Refs!createCommit(i)
    BY <1>1, <1>2, CommitExtends
  <1>3. CASE Refs!fastForward(i)
    BY <1>1, <1>3, PullForwards
  <1>4. CASE Refs!setHead(i) \/ Refs!checkoutTree(i)
    BY <1>4 DEF Refs!setHead, Refs!checkoutTree
  <1>5. CASE bBranch'[bHead'] = bBranch[bHead]
    BY <1>5
  <1> QED
    BY <1>2, <1>3, <1>4, <1>5, RefsQuiet

\* A tree that was carried stays so beside a step, where HEAD and its branch do.
LEMMA RefsCarriedOn ==
    ASSUME RefsInv, NEW i \in DOMAIN bJobs, Refs!Run(i), ~bCrossed',
           bHead' = bHead, bBranch'[bHead] = bBranch[bHead], StaysOnHead',
           NEW T \in SUBSET Refs!Changes, Carried(T)
    PROVE  Carried(T)'
  <1>1. Refs!TypeOK /\ ~bCrossed
    BY RefsNotHalved DEF RefsInv
  <1>2. /\ bBranch[bHead] \in Seq(SUBSET Refs!Changes) /\ bHead \in Heads
        /\ Len(bBranch[bHead]) \in Nat
    BY <1>1, RefsOfJob
  <1>3. CASE Refs!createCommit(i) \/ Refs!fastForward(i)
    BY <1>1, <1>2, <1>3, CommitExtends, PullForwards
  <1>4. CASE Refs!setHead(i)
    BY <1>4 DEF Refs!setHead, Refs!ghosts, Carried
  <1>5. CASE Refs!checkoutTree(i)
    <2>1. bJobs'[i].at = "checkedOut" /\ bJobs'[i].name = bJobs[i].name /\ i \in 1..Len(bJobs')
      <3> DEFINE j == [bJobs[i] EXCEPT !.at = "checkedOut"]
      <3>1. bJobs' = [bJobs EXCEPT ![i] = j]
        BY <1>5 DEF Refs!checkoutTree, Refs!GoesOn
      <3>2. bJobs[i] \in Refs!Job
        BY <1>1, RefsOfJob
      <3>3. j \in Refs!Job /\ j.at = "checkedOut" /\ j.name = bJobs[i].name
        BY <3>2 DEF Refs!Job
      <3>4. i \in 1..Len(bJobs)
        BY <1>1, RefsOfJob
      <3> HIDE DEF j
      <3>5. Len(bJobs') = Len(bJobs) /\ bJobs'[i] = j
        BY <1>1, <3>1, <3>3, <3>4, RefsGoesOn
      <3> QED
        BY <3>3, <3>4, <3>5
    <2>2. bJobs[i].name = bHead
      BY <2>1 DEF StaysOnHead
    <2>3. bIndex' = bIndex
      <3>1. bIndex' = Refs!Checkout(Refs!Tree(bBranch[bHead]), Refs!Tree(bBranch[bHead]))
        BY <1>5, <2>2 DEF Refs!checkoutTree, Refs!On, Refs!HeadTip
      <3>2. Refs!Tree(bBranch[bHead]) \in SUBSET Refs!Changes
        BY <1>2, TreeType
      <3> QED
        BY <1>1, <3>1, <3>2, CheckoutSame
    <2> QED
      BY <1>5, <2>3 DEF Refs!checkoutTree, Refs!ghosts, Carried
  <1>6. CASE bIndex' = bIndex /\ bStaged' = bStaged /\ bPulled' = bPulled
    BY <1>6 DEF Carried
  <1> QED
    BY <1>3, <1>4, <1>5, <1>6, RefsQuiet

\* Carried(T) after the step, for a T that is of after the step too.
CarriedThen(T) == T \ bIndex' \subseteq bPulled' /\ bIndex' \ T \subseteq bStaged'

LEMMA RefsHeadIsBorn ==
    ASSUME RefsInv, NEW i \in DOMAIN bJobs, Refs!Run(i), ~bCrossed'
    PROVE  HeadIsBorn'
  <1>1. Refs!TypeOK /\ ~bCrossed /\ Standing
    BY RefsNotHalved DEF RefsInv
  <1>2. /\ bBranch[bHead] \in Seq(SUBSET Refs!Changes) /\ bHead \in Heads
        /\ Len(bBranch[bHead]) \in Nat /\ i \in 1..Len(bJobs)
        /\ bBranch \in [Heads -> Seq(SUBSET Refs!Changes)]
    BY <1>1, RefsOfJob
  <1>3. CASE Refs!createCommit(i) \/ Refs!fastForward(i)
    <2>1. bHead' = bHead /\ Len(bBranch'[bHead]) > Len(bBranch[bHead])
      BY <1>1, <1>3, CommitExtends, PullForwards
    <2>2. bBranch'[bHead] # <<>>
      BY <1>2, <2>1
    <2> QED
      BY <2>1, <2>2 DEF HeadIsBorn
  <1>4. CASE Refs!setHead(i)
    <2>1. bHead' = bJobs[i].name /\ bBranch' = bBranch /\ bJobs[i].at = "checkedOut"
      BY <1>4 DEF Refs!setHead, Refs!In, Refs!On
    <2>2. bBranch[bJobs[i].name] # <<>>
      BY <1>1, <1>2, <2>1 DEF Standing, SwitchCarries
    <2> QED
      BY <2>1, <2>2 DEF HeadIsBorn
  <1>5. CASE Refs!checkoutTree(i)
    BY <1>1, <1>5 DEF Refs!checkoutTree, Standing, HeadIsBorn
  <1>6. CASE /\ bBranch'[bHead'] = bBranch[bHead]
             /\ bBranch[bHead] = <<>> => bBranch' = bBranch \/ \A n \in Heads : bBranch'[n] = <<>>
    BY <1>1, <1>6 DEF Standing, HeadIsBorn
  <1> QED
    BY <1>3, <1>4, <1>5, <1>6, RefsQuiet

\* While another job is between the halves of a switch, a step leaves what the
\* switch goes by.
LEMMA RefsBesideSwitch ==
    ASSUME RefsInv, NEW i \in DOMAIN bJobs, Refs!Run(i), ~bCrossed',
           NEW l \in 1..Len(bJobs), l # i, bJobs[l].at = "checkedOut"
    PROVE  /\ bHead' = bHead /\ bBranch'[bJobs[l].name] = bBranch[bJobs[l].name]
           /\ bIndex' = bIndex /\ bStaged' = bStaged /\ bPulled' = bPulled
           /\ ~Refs!checkoutTree(i)
  <1>1. Refs!TypeOK /\ ~bCrossed
    BY RefsNotHalved DEF RefsInv
  <1>2. /\ bHead' = bHead /\ bBranch'[bJobs[l].name] = bBranch[bJobs[l].name]
        /\ bJobs[i].op \notin {"switch", "commit", "signedCommit", "pull"}
    BY <1>1, RefsNoted
  <1>3. ~Refs!checkoutTree(i) /\ ~Refs!setHead(i)
    BY <1>2 DEF Refs!checkoutTree, Refs!setHead, Refs!In
  <1>4. ~Refs!createCommit(i) /\ ~Refs!fastForward(i)
    BY <1>1, <1>2, CommitExtends, PullForwards
  <1> QED
    BY <1>2, <1>3, <1>4, RefsQuiet

LEMMA RefsOneSwitch ==
    ASSUME RefsInv, NEW i \in DOMAIN bJobs, Refs!Run(i), ~bCrossed'
    PROVE  OneSwitch'
  <1>1. Refs!TypeOK /\ ~bCrossed /\ OneSwitch
    BY RefsNotHalved DEF RefsInv, Standing
  <1>2. Len(bJobs) \in Nat /\ i \in 1..Len(bJobs)
    BY <1>1, RefsOfJob
  <1>3. CASE Refs!Ends(i)
    <2>1. /\ Len(bJobs') = Len(bJobs) - 1
          /\ \A k \in 1..Len(bJobs') :
                 bJobs'[k] = IF k < i THEN bJobs[k] ELSE bJobs[k + 1]
      BY <1>1, <1>3, RefsEnds
    <2> QED
      BY <1>1, <1>2, <2>1 DEF OneSwitch
  <1>4. CASE ~Refs!Ends(i)
    <2>1. PICK j \in Refs!Job : Becomes(i, j) /\ bJobs' = [bJobs EXCEPT ![i] = j]
      BY <1>1, <1>4, RefsBecomes
    <2>2. /\ Len(bJobs') = Len(bJobs)
          /\ \A k \in 1..Len(bJobs') : bJobs'[k] = IF k = i THEN j ELSE bJobs[k]
      BY <1>1, <2>1, RefsGoesOn
    <2>3. CASE Refs!checkoutTree(i)
      <3>1. \A l \in 1..Len(bJobs) : l # i => bJobs[l].at # "checkedOut"
        BY <2>3, RefsBesideSwitch
      <3> QED
        BY <2>2, <3>1 DEF OneSwitch
    <2>4. CASE ~Refs!checkoutTree(i)
      <3>1. bJobs[i] \in Refs!Job
        BY <1>1, RefsOfJob
      <3>2. j.at = "checkedOut" => bJobs[i].at = "checkedOut"
        BY <2>1, <2>4, <3>1, Zenon DEF Becomes, Refs!Job
      <3> QED
        BY <1>1, <2>2, <3>2 DEF OneSwitch
    <2> QED
      BY <2>3, <2>4
  <1> QED
    BY <1>3, <1>4

LEMMA RefsSwitchCarries ==
    ASSUME RefsInv, NEW i \in DOMAIN bJobs, Refs!Run(i), ~bCrossed'
    PROVE  SwitchCarries'
  <1>1. Refs!TypeOK /\ ~bCrossed /\ Standing
    BY RefsNotHalved DEF RefsInv
  <1>2. Len(bJobs) \in Nat /\ i \in 1..Len(bJobs) /\ bJobs[i] \in Refs!Job
        /\ bBranch[bHead] \in Seq(SUBSET Refs!Changes)
    BY <1>1, RefsOfJob
  <1>3. ASSUME NEW l \in 1..Len(bJobs), l # i, bJobs[l].at = "checkedOut"
        PROVE  /\ bJobs[l].op = "switch" /\ bBranch'[bJobs[l].name] # <<>>
               /\ CarriedThen(Refs!Tree(bBranch'[bJobs[l].name]))
    BY <1>1, <1>3, RefsBesideSwitch
    DEF Standing, SwitchCarries, Carried, CarriedThen
  <1>4. ASSUME NEW j \in Refs!Job, Becomes(i, j), j.at = "checkedOut"
        PROVE  /\ j.op = "switch" /\ bBranch'[j.name] # <<>>
               /\ CarriedThen(Refs!Tree(bBranch'[j.name]))
    <2>1. bJobs[i].at # "checkedOut" \/ bJobs[i].op = "switch"
      BY <1>1, <1>2 DEF Standing, SwitchCarries
    <2>2. Refs!checkoutTree(i) /\ j = [bJobs[i] EXCEPT !.at = "checkedOut"]
      BY <1>2, <1>4, <2>1, Zenon DEF Becomes, Refs!Job, Refs!createBranch
    <2>3. j.op = "switch" /\ j.name = bJobs[i].name /\ bBranch' = bBranch
          /\ bBranch[j.name] # <<>> /\ bStaged' = bStaged /\ bPulled' = bPulled
          /\ bIndex' = Refs!Checkout(Refs!Tree(bBranch[bHead]), Refs!Tree(bBranch[j.name]))
      BY <1>2, <2>2 DEF Refs!checkoutTree, Refs!Job, Refs!In, Refs!On, Refs!Missing,
         Refs!HeadTip, Refs!ghosts
    <2>4. \A l \in 1..Len(bJobs) : bJobs[l].at # "checkedOut"
      BY <2>2, RefsBesideSwitch DEF Refs!checkoutTree, Refs!In
    <2>5. Carried(Refs!Tree(bBranch[bHead]))
      BY <1>1, <2>4, RefsTyped DEF Standing, HeadCarries, Refs!Switching
    <2>6. Refs!Tree(bBranch[bHead]) \in SUBSET Refs!Changes
      BY <1>2, TreeType
    <2>7. Refs!Tree(bBranch[j.name]) \in SUBSET Refs!Changes
      <3>1. bBranch[j.name] \in Seq(SUBSET Refs!Changes)
        BY <1>1, <1>4 DEF Refs!TypeOK, Refs!Job
      <3> QED
        BY <3>1, TreeType
    <2>8. CarriedThen(Refs!Tree(bBranch[j.name]))
      BY <1>1, <2>3, <2>5, <2>6, <2>7 DEF Carried, CarriedThen, Refs!Checkout, Refs!TypeOK
    <2> QED
      BY <2>3, <2>8
  <1>5. ASSUME NEW k \in 1..Len(bJobs'), bJobs'[k].at = "checkedOut"
        PROVE  /\ bJobs'[k].op = "switch" /\ bBranch'[bJobs'[k].name] # <<>>
               /\ CarriedThen(Refs!Tree(bBranch'[bJobs'[k].name]))
    BY <1>1, <1>3, <1>4, <1>5, RefsLeft
  <1> QED
    BY <1>5 DEF SwitchCarries, Carried, CarriedThen

LEMMA RefsTreeCarries ==
    ASSUME RefsInv, NEW i \in DOMAIN bJobs, Refs!Run(i), ~bCrossed'
    PROVE  TreeCarries'
  <1>1. Refs!TypeOK /\ ~bCrossed /\ Standing
    BY RefsNotHalved DEF RefsInv
  <1>2. Len(bJobs) \in Nat /\ i \in 1..Len(bJobs) /\ bJobs[i] \in Refs!Job
    BY <1>1, RefsOfJob
  <1>3. ASSUME NEW l \in 1..Len(bJobs), l # i, bJobs[l].at = "tree"
        PROVE  /\ bJobs[l].op \in {"commit", "signedCommit"}
               /\ StaysOnHead' => CarriedThen(bJobs[l].tree)
    <2>1. /\ bJobs[l].op \in {"commit", "signedCommit"}
          /\ StaysOnHead => Carried(bJobs[l].tree)
      BY <1>1, <1>3 DEF Standing, TreeCarries
    <2>2. bHead' = bHead /\ bBranch'[bHead] = bBranch[bHead]
      BY <1>1, <1>3, RefsNoted
    <2>3. ASSUME StaysOnHead' PROVE CarriedThen(bJobs[l].tree)
      <3>1. StaysOnHead
        BY <1>1, <2>2, <2>3, RefsStaysOnHead
      <3>2. PICK T \in SUBSET Refs!Changes : T = bJobs[l].tree
        BY <1>1, RefsOfJob
      <3>3. Carried(T)
        BY <2>1, <3>1, <3>2
      <3>4. Carried(T)'
        BY <2>2, <2>3, <3>3, RefsCarriedOn
      <3> QED
        BY <3>2, <3>4 DEF Carried, CarriedThen
    <2> QED
      BY <2>1, <2>3
  <1>4. ASSUME NEW j \in Refs!Job, Becomes(i, j), j.at = "tree"
        PROVE  j.op \in {"commit", "signedCommit"} /\ CarriedThen(j.tree)
    <2>1. bJobs[i].at # "tree" \/ bJobs[i].op \in {"commit", "signedCommit"}
      BY <1>1, <1>2 DEF Standing, TreeCarries
    <2>2. Refs!writeTree(i) /\ j = [bJobs[i] EXCEPT !.at = "tree", !.tree = bIndex]
      BY <1>2, <1>4, <2>1, Zenon DEF Becomes, Refs!Job, Refs!createBranch
    <2>3. j.op \in {"commit", "signedCommit"} /\ j.tree = bIndex /\ bIndex' = bIndex
      BY <1>2, <2>2 DEF Refs!writeTree, Refs!Job, Refs!Committing, Refs!refs
    <2> QED
      BY <2>3 DEF CarriedThen
  <1>5. ASSUME NEW k \in 1..Len(bJobs'), bJobs'[k].at = "tree"
        PROVE  /\ bJobs'[k].op \in {"commit", "signedCommit"}
               /\ StaysOnHead' => CarriedThen(bJobs'[k].tree)
    BY <1>1, <1>3, <1>4, <1>5, RefsLeft
  <1> QED
    BY <1>5 DEF TreeCarries, Carried, CarriedThen

LEMMA RefsParentCarries ==
    ASSUME RefsInv, NEW i \in DOMAIN bJobs, Refs!Run(i), ~bCrossed'
    PROVE  ParentCarries'
  <1> DEFINE Good(j) ==
        /\ j.op \in {"commit", "signedCommit"}
        /\ \/ j.tip = bBranch'[bHead']
           \/ j.op = "commit" /\ Len(j.tip) < Len(bBranch'[bHead'])
        /\ j.tip = bBranch'[bHead'] /\ StaysOnHead' => CarriedThen(j.tree)
  <1>1. Refs!TypeOK /\ ~bCrossed /\ Standing
    BY RefsNotHalved DEF RefsInv
  <1>2. /\ Len(bJobs) \in Nat /\ i \in 1..Len(bJobs) /\ bJobs[i] \in Refs!Job
        /\ Len(bBranch[bHead]) \in Nat
    BY <1>1, RefsOfJob
  <1>3. ASSUME NEW l \in 1..Len(bJobs), l # i, bJobs[l].at = "parent" PROVE Good(bJobs[l])
    <2>1. /\ bJobs[l].op \in {"commit", "signedCommit"}
          /\ \/ bJobs[l].tip = bBranch[bHead]
             \/ bJobs[l].op = "commit" /\ Len(bJobs[l].tip) < Len(bBranch[bHead])
          /\ bJobs[l].tip = bBranch[bHead] /\ StaysOnHead => Carried(bJobs[l].tree)
      BY <1>1, <1>3 DEF Standing, ParentCarries
    <2>2. /\ bHead' = bHead
          /\ bJobs[l].op = "signedCommit" => bBranch'[bHead] = bBranch[bHead]
      BY <1>1, <1>3, RefsNoted
    <2>3. Len(bJobs[l].tip) \in Nat
      BY <1>1, RefsOfJob
    <2>4. CASE bBranch'[bHead] = bBranch[bHead]
      <3>1. ASSUME bJobs[l].tip = bBranch'[bHead'], StaysOnHead'
            PROVE  CarriedThen(bJobs[l].tree)
        <4>1. StaysOnHead
          BY <1>1, <2>2, <3>1, RefsStaysOnHead
        <4>2. PICK T \in SUBSET Refs!Changes : T = bJobs[l].tree
          BY <1>1, RefsOfJob
        <4>3. Carried(T)
          BY <2>1, <2>2, <2>4, <3>1, <4>1, <4>2
        <4>4. Carried(T)'
          BY <2>2, <2>4, <3>1, <4>3, RefsCarriedOn
        <4> QED
          BY <4>2, <4>4 DEF Carried, CarriedThen
      <3> QED
        BY <2>1, <2>2, <2>4, <3>1
    <2>5. CASE bBranch'[bHead] # bBranch[bHead]
      <3>1. Len(bBranch'[bHead]) > Len(bBranch[bHead])
        BY <2>2, <2>5, RefsHeadLine
      <3>2. Len(bBranch'[bHead]) \in Nat
        <4>1. Refs!TypeOK'
          BY <1>1, RefsRunType
        <4> QED
          BY <2>2, <4>1 DEF Refs!TypeOK
      <3>3. bJobs[l].op = "commit" /\ Len(bJobs[l].tip) < Len(bBranch'[bHead])
        BY <1>2, <2>1, <2>2, <2>3, <2>5, <3>1, <3>2
      <3> QED
        BY <2>2, <2>3, <3>2, <3>3
    <2> QED
      BY <2>4, <2>5
  <1>4. ASSUME NEW j \in Refs!Job, Becomes(i, j), j.at = "parent" PROVE Good(j)
    <2>1. bJobs[i].at # "parent" \/ bJobs[i].op \in {"commit", "signedCommit"}
      BY <1>1, <1>2 DEF Standing, ParentCarries
    <2>2. Refs!readParent(i)
          /\ j = [bJobs[i] EXCEPT !.at = "parent", !.tip = bBranch[bHead]]
      BY <1>2, <1>4, <2>1, Zenon DEF Becomes, Refs!Job, Refs!createBranch
    <2>3. /\ j.op = bJobs[i].op /\ j.tree = bJobs[i].tree /\ j.tip = bBranch'[bHead']
          /\ bJobs[i].at = "tree" /\ bHead' = bHead
          /\ bIndex' = bIndex /\ bStaged' = bStaged /\ bPulled' = bPulled
      BY <1>2, <2>2 DEF Refs!readParent, Refs!Job, Refs!refs, Refs!ghosts
    <2>4. bJobs[i].op \in {"commit", "signedCommit"}
          /\ (StaysOnHead => Carried(bJobs[i].tree))
      BY <1>1, <1>2, <2>3 DEF Standing, TreeCarries
    <2>5. StaysOnHead' => CarriedThen(j.tree)
      BY <1>1, <2>3, <2>4, RefsStaysOnHead DEF Carried, CarriedThen
    <2> QED
      BY <2>3, <2>4, <2>5
  <1>5. ASSUME NEW k \in 1..Len(bJobs'), bJobs'[k].at = "parent" PROVE Good(bJobs'[k])
    <2>1. CASE \E l \in 1..Len(bJobs) : l # i /\ bJobs'[k] = bJobs[l]
      BY <1>3, <1>5, <2>1
    <2>2. CASE \E j \in Refs!Job : Becomes(i, j) /\ bJobs'[k] = j
      BY <1>4, <1>5, <2>2
    <2> QED
      BY <1>1, <2>1, <2>2, RefsLeft, Zenon
  <1> QED
    BY <1>5 DEF ParentCarries, Carried, CarriedThen

LEMMA RefsPullExtends ==
    ASSUME RefsInv, NEW i \in DOMAIN bJobs, Refs!Run(i), ~bCrossed'
    PROVE  PullExtends'
  <1> DEFINE Good(j) ==
        /\ j.at = "fetching" => j.op = "pull" /\ j.name = bHead'
        /\ j.at = "analysed" =>
              /\ j.op = "pull" /\ j.name = bHead'
              /\ IsPrefix(bBranch'[bHead'], j.tip) /\ j.tip # bBranch'[bHead']
              /\ Grows(j.tip)
  <1>1. Refs!TypeOK /\ ~bCrossed /\ Standing /\ GithubGrows
    BY RefsNotHalved DEF RefsInv
  <1>2. Len(bJobs) \in Nat /\ i \in 1..Len(bJobs) /\ bJobs[i] \in Refs!Job
        /\ bJobs[i].name \in Heads
    BY <1>1, RefsOfJob
  <1>3. ASSUME NEW l \in 1..Len(bJobs), l # i PROVE Good(bJobs[l])
    BY <1>1, <1>3, RefsNoted DEF Standing, PullExtends
  <1>4. ASSUME NEW j \in Refs!Job, Becomes(i, j) PROVE Good(j)
    <2>1. /\ bJobs[i].at \in {"fetching", "analysed"} => bJobs[i].op = "pull"
          /\ bJobs[i].at = "fetching" => bJobs[i].name = bHead
      BY <1>1, <1>2 DEF Standing, PullExtends
    <2>2. CASE Refs!currentBranch(i) /\ j = [bJobs[i] EXCEPT !.at = "fetching", !.name = bHead]
      BY <1>2, <2>2 DEF Refs!currentBranch, Refs!In, Refs!Job, Refs!refs
    <2>3. CASE /\ Refs!analyse(i) /\ ~Refs!UpToDate(bGithub[bJobs[i].name])
               /\ Refs!FastForward(bGithub[bJobs[i].name])
               /\ j = [bJobs[i] EXCEPT !.at = "analysed", !.tip = bGithub[bJobs[i].name]]
      <3>1. /\ j.op = "pull" /\ j.name = bJobs[i].name /\ bJobs[i].name = bHead
            /\ j.at = "analysed" /\ j.tip = bGithub[bHead]
            /\ bHead' = bHead /\ bBranch' = bBranch
        BY <1>2, <2>1, <2>3 DEF Refs!analyse, Refs!In, Refs!Job, Refs!refs
      <3>2. IsPrefix(bBranch[bHead], j.tip) /\ ~IsPrefix(j.tip, bBranch[bHead])
        BY <2>3, <3>1 DEF Refs!UpToDate, Refs!FastForward, Refs!HeadTip, Refs!IsPrefix, IsPrefix
      <3>3. Grows(j.tip)
        BY <1>1, <3>1 DEF GithubGrows, Refs!TypeOK
      <3>4. IsPrefix(bBranch[bHead], bBranch[bHead])
        BY <1>1, PrefixOrder, RefsOfJob
      <3> QED
        BY <3>1, <3>2, <3>3, <3>4
    <2> QED
      BY <1>2, <1>4, <2>1, <2>2, <2>3, Zenon DEF Becomes, Refs!Job, Refs!createBranch
  <1>5. ASSUME NEW k \in 1..Len(bJobs') PROVE Good(bJobs'[k])
    <2>1. CASE \E l \in 1..Len(bJobs) : l # i /\ bJobs'[k] = bJobs[l]
      BY <1>3, <2>1
    <2>2. CASE \E j \in Refs!Job : Becomes(i, j) /\ bJobs'[k] = j
      BY <1>4, <2>2
    <2> QED
      BY <1>1, <2>1, <2>2, RefsLeft, Zenon
  <1> QED
    BY <1>5 DEF PullExtends

LEMMA RefsDeletedIsElsewhere ==
    ASSUME RefsInv, NEW i \in DOMAIN bJobs, Refs!Run(i), ~bCrossed'
    PROVE  DeletedIsElsewhere'
  <1> DEFINE Good(j) ==
        j.at = "merged" => /\ j.op = "delete" /\ j.to # j.name
                           /\ bBranch'[j.to] # <<>> /\ IsPrefix(j.tip, bBranch'[j.to])
  <1>1. Refs!TypeOK /\ Refs!TypeOK' /\ ~bCrossed /\ Standing
    BY RefsNotHalved, RefsRunType DEF RefsInv
  <1>2. /\ Len(bJobs) \in Nat /\ i \in 1..Len(bJobs) /\ bJobs[i] \in Refs!Job
        /\ bJobs[i].name \in Heads
    BY <1>1, RefsOfJob
  <1>3. ASSUME NEW l \in 1..Len(bJobs), l # i PROVE Good(bJobs[l])
    <2>1. CASE bJobs[l].at = "merged"
      <3>1. /\ bJobs[l].op = "delete" /\ bJobs[l].to # bJobs[l].name
            /\ bBranch[bJobs[l].to] # <<>> /\ IsPrefix(bJobs[l].tip, bBranch[bJobs[l].to])
        BY <1>1, <2>1 DEF Standing, DeletedIsElsewhere
      <3>2. bBranch'[bJobs[l].to] # <<>>
        BY <1>1, <1>3, <2>1, RefsNoted
      <3>3. PICK n \in Heads : n = bJobs[l].to
        BY <1>1, RefsOfJob
      <3>4. IsPrefix(bBranch[n], bBranch'[n])
        BY <3>1, <3>2, <3>3, RefsLinesGrow
      <3>5. /\ bJobs[l].tip \in Seq(SUBSET Refs!Changes)
            /\ bBranch[n] \in Seq(SUBSET Refs!Changes) /\ bBranch'[n] \in Seq(SUBSET Refs!Changes)
        <4>1. bJobs[l].tip \in Seq(SUBSET Refs!Changes)
          BY <1>1, RefsOfJob
        <4> QED
          BY <1>1, <4>1, Zenon DEF Refs!TypeOK
      <3>6. IsPrefix(bJobs[l].tip, bBranch'[n])
        BY <3>1, <3>3, <3>4, <3>5, PrefixOrder
      <3> QED
        BY <3>1, <3>2, <3>3, <3>6
    <2> QED
      BY <2>1
  <1>4. ASSUME NEW j \in Refs!Job, Becomes(i, j) PROVE Good(j)
    <2>1. bJobs[i].at = "merged" => bJobs[i].op = "delete"
      BY <1>1, <1>2 DEF Standing, DeletedIsElsewhere
    <2>2. CASE /\ Refs!checkMerged(i)
               /\ j = [bJobs[i] EXCEPT !.at = "merged", !.tip = bBranch[bJobs[i].name],
                                       !.to = bHead]
      <3>1. /\ j.op = "delete" /\ j.to = bHead /\ j.name = bJobs[i].name /\ j.at = "merged"
            /\ j.tip = bBranch[j.name] /\ bBranch' = bBranch
            /\ j.name # bHead /\ j.tip # <<>>
            /\ (bBranch[bHead] = <<>> \/ IsPrefix(bBranch[j.name], bBranch[bHead]))
        BY <1>2, <2>2
        DEF Refs!checkMerged, Refs!In, Refs!On, Refs!Job, Refs!refs, Refs!Missing,
            Refs!Merged, Refs!Unborn, Refs!HeadTip, Refs!IsPrefix, IsPrefix
      <3>2. bBranch[bHead] # <<>>
        BY <1>1, <1>2, <3>1 DEF Standing, HeadIsBorn
      <3> QED
        BY <3>1, <3>2
    <2> QED
      BY <1>2, <1>4, <2>1, <2>2, Zenon DEF Becomes, Refs!Job, Refs!createBranch
  <1>5. ASSUME NEW k \in 1..Len(bJobs') PROVE Good(bJobs'[k])
    <2>1. CASE \E l \in 1..Len(bJobs) : l # i /\ bJobs'[k] = bJobs[l]
      BY <1>3, <2>1
    <2>2. CASE \E j \in Refs!Job : Becomes(i, j) /\ bJobs'[k] = j
      BY <1>4, <2>2
    <2> QED
      BY <1>1, <2>1, <2>2, RefsLeft
  <1> QED
    BY <1>5 DEF DeletedIsElsewhere

LEMMA RefsHeadCarries ==
    ASSUME RefsInv, NEW i \in DOMAIN bJobs, Refs!Run(i), ~bCrossed'
    PROVE  HeadCarries'
  <1>1. Refs!TypeOK /\ Refs!TypeOK' /\ ~bCrossed /\ Standing
    BY RefsNotHalved, RefsRunType DEF RefsInv
  <1>2. Len(bJobs) \in Nat /\ i \in 1..Len(bJobs) /\ bJobs[i] \in Refs!Job
    BY <1>1, RefsOfJob
  <1> SUFFICES ASSUME ~Refs!Switching' PROVE CarriedThen(Refs!Tree(bBranch'[bHead']))
    BY DEF HeadCarries, Carried, CarriedThen
  <1>3. \A k \in 1..Len(bJobs') : bJobs'[k].at # "checkedOut"
    BY <1>1 DEF Refs!Switching, Refs!TypeOK
  <1>4. \A l \in 1..Len(bJobs) : l # i => bJobs[l].at # "checkedOut"
    BY <1>1, <1>3, RefsStay
  <1>5. CASE bJobs[i].at = "checkedOut"
    <2>1. /\ bJobs[i].op = "switch" /\ bHead' = bJobs[i].name
          /\ Carried(Refs!Tree(bBranch[bJobs[i].name]))
      BY <1>1, <1>2, <1>5, RefsNotHalved DEF Standing, SwitchCarries
    <2>2. ASSUME ~Refs!setHead(i) PROVE ~Refs!createCommit(i) /\ ~Refs!fastForward(i)
                                        /\ ~Refs!checkoutTree(i)
      BY <1>1, <1>5 DEF Refs!createCommit, Refs!fastForward, Refs!checkoutTree, Refs!In
    <2>3. CASE Refs!setHead(i)
      BY <2>1, <2>3 DEF Refs!setHead, Refs!ghosts, Carried, CarriedThen
    <2>4. CASE ~Refs!setHead(i)
      <3>1. UNCHANGED <<bBranch, bHead, bIndex, bStaged, bPulled>>
        BY <1>5, <2>1, <2>4
        DEF Refs!Run, Refs!In, Refs!checkoutTree, Refs!createBranch, Refs!checkMerged,
            Refs!deleteBranch, Refs!renameBranch, Refs!writeTree, Refs!readParent,
            Refs!createCommit, Refs!currentBranch, Refs!analyse, Refs!fastForward,
            Refs!Fails, Refs!refs, Refs!ghosts
      <3> QED
        BY <2>1, <3>1 DEF Carried, CarriedThen
    <2> QED
      BY <2>3, <2>4
  <1>6. CASE bJobs[i].at # "checkedOut"
    <2>1. \A l \in 1..Len(bJobs) : bJobs[l].at # "checkedOut"
      BY <1>4, <1>6
    <2>2. Carried(Refs!Tree(bBranch[bHead])) /\ StaysOnHead
      BY <1>1, <2>1, RefsTyped DEF Standing, HeadCarries, Refs!Switching, StaysOnHead
    <2>3. CASE Refs!createCommit(i)
      BY <1>1, <2>2, <2>3, CommitExtends DEF Carried, CarriedThen
    <2>4. CASE Refs!fastForward(i)
      BY <1>1, <2>2, <2>4, PullForwards DEF Carried, CarriedThen
    <2>5. CASE Refs!setHead(i)
      BY <1>6, <2>5 DEF Refs!setHead, Refs!In
    <2>6. CASE Refs!checkoutTree(i)
      <3> DEFINE j == [bJobs[i] EXCEPT !.at = "checkedOut"]
      <3>1. bJobs' = [bJobs EXCEPT ![i] = j]
        BY <2>6 DEF Refs!checkoutTree, Refs!GoesOn
      <3>2. j \in Refs!Job /\ j.at = "checkedOut"
        BY <1>2 DEF Refs!Job
      <3> HIDE DEF j
      <3>3. Len(bJobs') = Len(bJobs) /\ bJobs'[i] = j
        BY <1>1, <1>2, <3>1, <3>2, RefsGoesOn
      <3> QED
        BY <1>2, <1>3, <3>2, <3>3
    <2>7. CASE /\ bIndex' = bIndex /\ bStaged' = bStaged /\ bPulled' = bPulled
               /\ bBranch'[bHead'] = bBranch[bHead]
      BY <2>2, <2>7 DEF Carried, CarriedThen
    <2> QED
      BY <2>3, <2>4, <2>5, <2>6, <2>7, RefsQuiet
  <1> QED
    BY <1>5, <1>6

LEMMA RefsNextInv ==
    ASSUME Refs!BranchesAssumption, RefsInv, [Refs!Next]_Refs!vars
    PROVE  RefsInv'
  <1>1. Refs!TypeOK' /\ GithubGrows' /\ Refs!TypeOK
    BY RefsNextType, GithubGrowsOn DEF RefsInv
  <1> SUFFICES ASSUME ~bCrossed' PROVE Standing'
    BY <1>1 DEF RefsInv
  <1>2. ASSUME NEW i \in DOMAIN bJobs, Refs!Run(i) PROVE Standing'
    BY <1>2, RefsHeadIsBorn, RefsHeadCarries, RefsOneSwitch, RefsSwitchCarries,
       RefsTreeCarries, RefsParentCarries, RefsPullExtends, RefsDeletedIsElsewhere
    DEF Standing
  <1> USE DEF Standing, HeadIsBorn, HeadCarries, OneSwitch, SwitchCarries, TreeCarries,
              ParentCarries, PullExtends, DeletedIsElsewhere, StaysOnHead, Refs!Switching,
              Carried, Refs!Tree
  <1>3. ASSUME UNCHANGED <<bBranch, bHead, bIndex, bJobs, bCrossed, bStaged, bPulled>>
        PROVE  Standing'
    BY <1>3 DEF RefsInv
  <1>4. ASSUME NEW x \in Edits, Refs!Stage(x) PROVE Standing'
    <2>1. /\ UNCHANGED <<bBranch, bHead, bJobs, bCrossed, bPulled>>
          /\ bIndex' = bIndex \cup {x} /\ bStaged' = bStaged \cup {x}
      BY <1>4 DEF Refs!Stage
    <2>2. \A T : Carried(T) => CarriedThen(T)
      BY <2>1 DEF CarriedThen
    <2> QED
      BY <2>1, <2>2 DEF RefsInv, CarriedThen
  <1>5. ASSUME NEW op \in Refs!Ops, NEW n \in Heads, NEW m \in Heads, Refs!Request(op, n, m)
        PROVE  Standing'
    <2>1. /\ UNCHANGED <<bBranch, bHead, bIndex, bCrossed, bStaged, bPulled>>
          /\ bJobs' = Append(bJobs, Refs!Task(op, n, m))
      BY <1>5 DEF Refs!Request, Refs!refs, Refs!ghosts
    <2>2. Refs!Task(op, n, m).at = "start"
      BY DEF Refs!Task
    <2>3. /\ Len(bJobs) \in Nat /\ Len(bJobs') = Len(bJobs) + 1
          /\ \A k \in 1..Len(bJobs) : bJobs'[k] = bJobs[k]
          /\ bJobs'[Len(bJobs) + 1].at = "start"
          /\ DOMAIN bJobs' = 1..Len(bJobs') /\ DOMAIN bJobs = 1..Len(bJobs)
      BY <1>1, <2>1, <2>2 DEF Refs!TypeOK
    <2>4. \A k \in 1..Len(bJobs') : bJobs'[k].at # "start"
              => k \in 1..Len(bJobs) /\ bJobs'[k] = bJobs[k]
      BY <2>3
    <2>5. ~bCrossed /\ Standing /\ (\A k \in 1..Len(bJobs) : k \in 1..Len(bJobs'))
      BY <2>1, <2>3 DEF RefsInv
    <2>6. HeadIsBorn' /\ OneSwitch' /\ SwitchCarries' /\ PullExtends' /\ DeletedIsElsewhere'
      BY <2>1, <2>4, <2>5
    <2>7. StaysOnHead' <=> StaysOnHead
      BY <2>1, <2>3, <2>4, <2>5
    <2>8. HeadCarries'
      BY <2>1, <2>3, <2>4, <2>5
    <2>9. TreeCarries' /\ ParentCarries'
      <3> HIDE DEF StaysOnHead
      <3> QED
        BY <2>1, <2>4, <2>5, <2>7
    <2> QED
      BY <2>6, <2>8, <2>9
  <1> QED
    BY <1>2, <1>3, <1>4, <1>5 DEF Refs!Next, Refs!vars, Refs!refs, Refs!ghosts, Refs!OthersPush

LEMMA RefsHeadStands == ASSUME RefsInv PROVE HeadStands
  BY DEF RefsInv, Standing, HeadIsBorn, HeadCarries, Carried, HeadStands, Refs!HeadStands,
     Refs!Unborn, Refs!HeadTip, Refs!Missing

LEMMA RefsCommitsKept ==
    ASSUME RefsInv, [Refs!Next]_Refs!vars, ~bCrossed',
           NEW n \in Heads, bBranch[n] # <<>>
    PROVE  \E m \in Heads : IsPrefix(bBranch[n], bBranch'[m])
  <1>1. Refs!TypeOK
    BY DEF RefsInv
  <1>2. IsPrefix(bBranch[n], bBranch[n])
    BY <1>1, PrefixOrder, RefsTyped
  <1>3. ASSUME NEW i \in DOMAIN bJobs, Refs!Run(i)
        PROVE  \E m \in Heads : IsPrefix(bBranch[n], bBranch'[m])
    <2>0. bJobs[i].name \in Heads /\ bJobs[i].to \in Heads /\ ~bCrossed /\ Standing
          /\ bBranch \in [Heads -> Seq(SUBSET Refs!Changes)] /\ i \in 1..Len(bJobs)
      BY <1>1, <1>3, RefsNotHalved, RefsOfJob DEF RefsInv
    <2>1. CASE bBranch'[n] # <<>>
      BY <1>3, <2>1, RefsLinesGrow
    <2>2. CASE bBranch'[n] = <<>> /\ Refs!deleteBranch(i)
      <3>1. /\ bJobs[i].at = "merged" /\ bJobs[i].tip = bBranch[bJobs[i].name]
            /\ bBranch' = [bBranch EXCEPT ![bJobs[i].name] = <<>>]
        BY <2>2 DEF Refs!deleteBranch, Refs!In, Refs!On, Refs!SetBranch, Refs!Missing
      <3>2. bJobs[i].to # bJobs[i].name /\ IsPrefix(bJobs[i].tip, bBranch[bJobs[i].to])
        BY <2>0, <3>1 DEF Standing, DeletedIsElsewhere
      <3>3. n = bJobs[i].name
        BY <2>0, <2>2, <3>1
      <3>4. IsPrefix(bBranch[n], bBranch'[bJobs[i].to])
        BY <2>0, <3>1, <3>2, <3>3
      <3> QED
        BY <2>0, <3>4
    <2>3. CASE bBranch'[n] = <<>> /\ Refs!renameBranch(i)
      <3>1. bBranch'[bJobs[i].to] = bBranch[n]
        BY <2>0, <2>3 DEF Refs!renameBranch, Refs!On, Refs!Missing
      <3> QED
        BY <1>2, <2>0, <3>1
    <2>4. CASE bBranch'[n] = <<>> /\ ~Refs!renameBranch(i) /\ ~Refs!deleteBranch(i)
      <3>1. ~Refs!createCommit(i) /\ ~Refs!fastForward(i)
        <4>1. Len(bBranch[bHead]) \in Nat /\ bHead \in Heads
              /\ bBranch[bHead] \in Seq(SUBSET Refs!Changes)
          BY <1>1, RefsOfJob
        <4>2. ASSUME Refs!createCommit(i) \/ Refs!fastForward(i) PROVE FALSE
          <5>1. Len(bBranch'[bHead]) > Len(bBranch[bHead])
                /\ \A m \in Heads : m # bHead => bBranch'[m] = bBranch[m]
            BY <2>0, <4>2, CommitExtends, PullForwards
          <5> QED
            BY <2>4, <4>1, <5>1
        <4> QED
          BY <4>2
      <3>2. bBranch'[n] = bBranch[n]
        BY <1>3, <2>0, <2>4, <3>1
        DEF Refs!Run, Refs!checkoutTree, Refs!setHead, Refs!createBranch, Refs!checkMerged,
            Refs!writeTree, Refs!readParent, Refs!currentBranch, Refs!analyse, Refs!Fails,
            Refs!refs, Refs!SetBranch, Refs!On, Refs!HeadTip, Refs!Unborn, Refs!Missing
      <3> QED
        BY <2>4, <3>2
    <2> QED
      BY <2>1, <2>2, <2>3, <2>4
  <1>4. CASE bBranch' = bBranch
    BY <1>2, <1>4
  <1> QED
    BY <1>3, <1>4 DEF Refs!Next, Refs!vars, Refs!refs, Refs!Stage, Refs!OthersPush, Refs!Request

-----------------------------------------------------------------------------
(***************************************************************************)
(* Stash.  The invariant says that the user has at most one thing going    *)
(* on with a stack, as long as the dialog was not crowded.                 *)
(***************************************************************************)
\* A reading that will find the stack as it is, or whose failure is noted; or a
\* result that is followed by a reading.
StashRelists(j) ==
    /\ j.at = folder
    /\ IF j.op = "list" THEN j.state = "done" => j.read = stack[folder] ELSE j.state = "done"

StashRelisted == warnings > 0 \/ \E k \in 1..Len(jobs) : StashRelists(jobs[k])

StashListed == open /\ ~lapsed /\ rows # stack[folder] => StashRelisted

PopsHalf(q) == \A k \in 1..Len(q) : q[k].state = "half" => q[k].op = "pop"

StashAlone ==
    /\ Pending <= 1
    /\ asking # 0 => /\ rows = stack[folder] /\ asking \in 1..Len(rows)
                     /\ about = rows[asking]
    /\ open /\ Pending = 0 => rows = stack[folder] \/ rows = <<>>
    /\ \A k \in 1..Len(jobs) :
        /\ open => jobs[k].at = folder
        /\ jobs[k].op = "list" =>
              jobs[k].read = IF jobs[k].state = "done" THEN stack[jobs[k].at] ELSE <<>>
        /\ /\ jobs[k].op \in {"pop", "drop"} /\ jobs[k].state \in {"waits", "half"}
           /\ jobs[k].row \in 1..Len(stack[jobs[k].at])
           => stack[jobs[k].at][jobs[k].row] \in chosen

StashBasics ==
    /\ TypeOK
    /\ open => folder # None
    /\ enabled => row # 0
    /\ asking # 0 => open /\ about \in Stashes
    /\ PopsHalf(jobs)

StashInv ==
    /\ StashBasics
    /\ StashListed
    /\ ~crowded => StashAlone

LEMMA StashTyped ==
    ASSUME TypeOK, NEW i \in DOMAIN jobs
    PROVE  /\ i \in 1..Len(jobs) /\ jobs[i] \in Job /\ jobs \in Seq(Job) /\ Len(jobs) \in Nat
           /\ jobs[i].op \in Ops /\ jobs[i].at \in Folders /\ jobs[i].row \in Nat
           /\ jobs[i].read \in Seq(Stashes)
           /\ jobs[i].state \in {"waits", "half", "done", "failed"}
           /\ stack[jobs[i].at] \in Seq(Stashes)
  <1>1. i \in 1..Len(jobs) /\ jobs[i] \in Job /\ jobs \in Seq(Job) /\ Len(jobs) \in Nat
    BY DEF TypeOK
  <1>2. /\ jobs[i].op \in Ops /\ jobs[i].at \in Folders /\ jobs[i].row \in Nat
        /\ jobs[i].read \in Seq(Stashes)
        /\ jobs[i].state \in {"waits", "half", "done", "failed"}
    BY <1>1 DEF Job
  <1> QED
    BY <1>1, <1>2 DEF TypeOK

\* What job i is after a step of the pool, and what the step did.
StashRan(i, j) ==
    /\ j.op = jobs[i].op /\ j.at = jobs[i].at /\ j.row = jobs[i].row
    /\ \/ /\ j.op = "save" /\ j.state = "done"
          /\ \E s \in Stashes :
                /\ home[s] = None /\ stack' = [stack EXCEPT ![j.at] = <<s>> \o @]
                /\ home' = [home EXCEPT ![s] = j.at]
       \/ /\ j.op = "list" /\ j.state = "done" /\ j.read = stack[j.at]
          /\ stack' = stack /\ home' = home
       \/ /\ j.read = jobs[i].read /\ jobs[i].state # "done" /\ stack' = stack /\ home' = home
          /\ \/ j.state = "failed"
             \/ j.op = "apply" /\ j.state = "done"
             \/ j.op = "pop" /\ jobs[i].state = "waits" /\ j.state = "half"
       \/ /\ jobs[i].row \in DOMAIN stack[j.at] /\ j.state = "done"
          /\ stack' = [stack EXCEPT ![j.at] = RemoveAt(@, j.row)] /\ home' = home
          /\ (jobs[i].state = "half" \/ (j.op = "drop" /\ jobs[i].state = "waits"))

LEMMA StashRuns ==
    ASSUME TypeOK, NEW i \in DOMAIN jobs, Run(i)
    PROVE  \E j \in Job : StashRan(i, j) /\ jobs' = [jobs EXCEPT ![i] = j]
  <1> USE StashTyped DEF Waits, Found, git, Job
  <1>1. ASSUME NEW j \in Job, StashRan(i, j), jobs' = [jobs EXCEPT ![i] = j]
        PROVE  \E k \in Job : StashRan(i, k) /\ jobs' = [jobs EXCEPT ![i] = k]
    BY <1>1, Zenon
  <1>2. ASSUME NEW s \in {"half", "done", "failed"} PROVE
            LET j == [jobs[i] EXCEPT !.state = s] IN
            /\ j \in Job /\ j.state = s /\ j.op = jobs[i].op /\ j.at = jobs[i].at
            /\ j.row = jobs[i].row /\ j.read = jobs[i].read
            /\ Ends(i, s) => jobs' = [jobs EXCEPT ![i] = j]
    BY Zenon DEF Ends
  <1>3. CASE Waits(i, "save") /\ stashSave(i)
    <2> DEFINE j == [jobs[i] EXCEPT !.state = "done"]
    <2>1. jobs' = [jobs EXCEPT ![i] = j] /\ j \in Job
      BY <1>2, <1>3, Zenon DEF stashSave
    <2>2. StashRan(i, j)
      <3>1. j.state = "done" /\ j.op = "save" /\ j.op = jobs[i].op /\ j.at = jobs[i].at
            /\ j.row = jobs[i].row
        BY <1>2, <1>3
      <3> HIDE DEF j
      <3> QED
        BY <1>3, <3>1, Zenon DEF stashSave, StashRan
    <2> QED
      BY <1>1, <2>1, <2>2, Zenon
  <1>4. CASE Fails(i) \/ (Waits(i, "list") /\ stashList(i) /\ Ends(i, "failed"))
    <2> DEFINE j == [jobs[i] EXCEPT !.state = "failed"]
    <2>1. jobs' = [jobs EXCEPT ![i] = j] /\ j \in Job
      BY <1>2, <1>4, Zenon DEF Fails
    <2>2. StashRan(i, j)
      BY <1>2, <1>4 DEF Fails, StashRan, stashList
    <2> QED
      BY <1>1, <2>1, <2>2, Zenon
  <1>5. CASE Waits(i, "list") /\ stashList(i) /\ ~Ends(i, "failed")
    <2> DEFINE j == [jobs[i] EXCEPT !.state = "done", !.read = stack[jobs[i].at]]
    <2>1. jobs' = [jobs EXCEPT ![i] = j] /\ j \in Job
      BY <1>5, Zenon DEF stashList
    <2>2. StashRan(i, j)
      BY <1>5 DEF StashRan, stashList
    <2> QED
      BY <1>1, <2>1, <2>2, Zenon
  <1>6. CASE Waits(i, "apply") /\ Apply(i, "done")
    <2> DEFINE j == [jobs[i] EXCEPT !.state = "done"]
    <2>1. jobs' = [jobs EXCEPT ![i] = j] /\ j \in Job
      BY <1>2, <1>6, Zenon DEF Apply
    <2>2. StashRan(i, j)
      BY <1>2, <1>6 DEF Apply, StashRan
    <2> QED
      BY <1>1, <2>1, <2>2, Zenon
  <1>7. CASE Waits(i, "pop") /\ Apply(i, "half")
    <2> DEFINE j == [jobs[i] EXCEPT !.state = "half"]
    <2>1. jobs' = [jobs EXCEPT ![i] = j] /\ j \in Job
      BY <1>2, <1>7, Zenon DEF Apply
    <2>2. StashRan(i, j)
      <3>1. /\ j.state = "half" /\ j.op = "pop" /\ j.op = jobs[i].op /\ j.at = jobs[i].at
            /\ j.row = jobs[i].row /\ j.read = jobs[i].read
        BY <1>2, <1>7
      <3> HIDE DEF j
      <3> QED
        BY <1>7, <3>1 DEF Apply, StashRan
    <2> QED
      BY <1>1, <2>1, <2>2, Zenon
  <1>8. CASE (jobs[i].state = "half" \/ Waits(i, "drop")) /\ Drop(i)
    <2> DEFINE j == [jobs[i] EXCEPT !.state = "done"]
    <2>1. jobs' = [jobs EXCEPT ![i] = j] /\ j \in Job
      BY <1>2, <1>8, Zenon DEF Drop
    <2>2. StashRan(i, j)
      <3>1. j.state = "done" /\ j.op = jobs[i].op /\ j.at = jobs[i].at
            /\ j.row = jobs[i].row
        BY <1>2
      <3> HIDE DEF j
      <3> QED
        BY <1>8, <3>1 DEF Drop, StashRan
    <2> QED
      BY <1>1, <2>1, <2>2, Zenon
  <1> QED
    BY <1>3, <1>4, <1>5, <1>6, <1>7, <1>8 DEF Run, stashPop

LEMMA StashInitInv == ASSUME StashAssumption, Init PROVE StashInv
  <1> USE DEF Init
  <1>1. \A f \in Folders : stack[f] = <<>>
    OBVIOUS
  <1>2. TypeOK
    <2>1. <<>> \in Seq(Stashes) /\ <<>> \in Seq(Job) /\ rows = <<>> /\ Len(<<>>) = 0
      OBVIOUS
    <2>2. stack \in [Folders -> Seq(Stashes)]
      BY <2>1
    <2>3. home \in [Stashes -> Folders \cup {None}]
      OBVIOUS
    <2>4. rows \in Seq(Stashes) /\ row \in 0..Len(rows) /\ jobs \in Seq(Job)
      BY <2>1
    <2> QED
      BY <2>2, <2>3, <2>4, Zenon DEF TypeOK
  <1>3. StashAlone
    BY DEF StashAlone, Pending
  <1> QED
    BY <1>2, <1>3 DEF StashInv, StashBasics, PopsHalf, StashListed

LEMMA StashStarts ==
    ASSUME TypeOK, folder # None, NEW op \in Ops, NEW r \in Nat, NEW q \in Seq(Job),
           jobs' = Append(q, Task(op, folder, r))
    PROVE  /\ jobs' \in Seq(Job) /\ Len(jobs') = Len(q) + 1
           /\ \A k \in 1..Len(q) : \E m \in 1..Len(jobs') : jobs'[m] = q[k]
           /\ \E m \in 1..Len(jobs') : jobs'[m] = Task(op, folder, r)
           /\ \A k \in 1..Len(jobs') :
                 jobs'[k] = Task(op, folder, r) \/ \E l \in 1..Len(q) : jobs'[k] = q[l]
  <1>1. Task(op, folder, r) \in Job
    <2>1. <<>> \in Seq(Stashes)
      OBVIOUS
    <2> QED
      BY <2>1 DEF Task, Job, TypeOK
  <1> DEFINE t == Task(op, folder, r)
  <1>2. t \in Job /\ jobs' = Append(q, t)
    BY <1>1
  <1> HIDE DEF t
  <1>3. /\ jobs' \in Seq(Job) /\ Len(jobs') = Len(q) + 1
        /\ jobs'[Len(q) + 1] = t /\ Len(q) + 1 \in 1..Len(jobs')
        /\ \A k \in 1..Len(q) : k \in 1..Len(jobs') /\ jobs'[k] = q[k]
        /\ \A k \in 1..Len(jobs') : jobs'[k] = t \/ (k \in 1..Len(q) /\ jobs'[k] = q[k])
    BY <1>2, AppendFacts
  <1>4. /\ jobs' \in Seq(Job) /\ Len(jobs') = Len(q) + 1
        /\ \A k \in 1..Len(q) : \E m \in 1..Len(jobs') : jobs'[m] = q[k]
        /\ \E m \in 1..Len(jobs') : jobs'[m] = t
        /\ \A k \in 1..Len(jobs') : jobs'[k] = t \/ \E l \in 1..Len(q) : jobs'[k] = q[l]
    BY <1>3
  <1> QED
    BY <1>4 DEF t

LEMMA StashRest ==
    ASSUME TypeOK, NEW i \in DOMAIN jobs
    PROVE  /\ Rest(i) \in Seq(Job) /\ Len(Rest(i)) = Len(jobs) - 1
           /\ \A k \in 1..Len(Rest(i)) : \E l \in 1..Len(jobs) : l # i /\ Rest(i)[k] = jobs[l]
           /\ \A l \in 1..Len(jobs) : l # i => \E k \in 1..Len(Rest(i)) : Rest(i)[k] = jobs[l]
  <1>1. i \in 1..Len(jobs) /\ jobs \in Seq(Job)
    BY StashTyped
  <1>2. Rest(i) = RemoveAt(jobs, i)
    BY DEF Rest
  <1>3. /\ RemoveAt(jobs, i) \in Seq(Job) /\ Len(RemoveAt(jobs, i)) = Len(jobs) - 1
        /\ \A k \in 1..Len(RemoveAt(jobs, i)) :
              \E l \in 1..Len(jobs) : l # i /\ RemoveAt(jobs, i)[k] = jobs[l]
        /\ \A l \in 1..Len(jobs) : l # i =>
              \E k \in 1..Len(RemoveAt(jobs, i)) : RemoveAt(jobs, i)[k] = jobs[l]
    BY <1>1, RestFacts, Zenon
  <1> QED
    BY <1>2, <1>3

LEMMA StashStartsPops ==
    ASSUME TypeOK, folder # None, NEW op \in Ops, NEW r \in Nat, NEW q \in Seq(Job),
           jobs' = Append(q, Task(op, folder, r)), PopsHalf(q)
    PROVE  jobs' \in Seq(Job) /\ PopsHalf(jobs')
  <1>1. Task(op, folder, r).state = "waits"
    BY DEF Task
  <1>2. /\ jobs' \in Seq(Job)
        /\ \A k \in 1..Len(jobs') :
              jobs'[k] = Task(op, folder, r) \/ \E l \in 1..Len(q) : jobs'[k] = q[l]
    BY StashStarts
  <1> QED
    BY <1>1, <1>2 DEF PopsHalf

LEMMA StashRestPops ==
    ASSUME TypeOK, NEW i \in DOMAIN jobs, PopsHalf(jobs)
    PROVE  Rest(i) \in Seq(Job) /\ PopsHalf(Rest(i))
  <1>1. /\ Rest(i) \in Seq(Job)
        /\ \A k \in 1..Len(Rest(i)) : \E l \in 1..Len(jobs) : l # i /\ Rest(i)[k] = jobs[l]
    BY StashRest
  <1> QED
    BY <1>1 DEF PopsHalf

LEMMA StashStepBasics ==
    ASSUME StashAssumption, StashBasics, Step, crowded' \in BOOLEAN
    PROVE  StashBasics'
  <1> USE DEF git, dialog, user
  <1>1. /\ TypeOK /\ (open => folder # None) /\ (enabled => row # 0)
        /\ (asking # 0 => open /\ about \in Stashes)
        /\ PopsHalf(jobs)
    BY DEF StashBasics
  <1>2. /\ jobs \in Seq(Job) /\ rows \in Seq(Stashes) /\ row \in 0..Len(rows)
        /\ stack \in [Folders -> Seq(Stashes)] /\ Len(jobs) \in Nat /\ warnings \in Nat
        /\ home \in [Stashes -> Folders \cup {None}] /\ folder \in Folders \cup {None}
        /\ about \in Stashes \cup {None} /\ chosen \subseteq Stashes /\ asking \in Nat
        /\ DOMAIN rows = 1..Len(rows) /\ open \in BOOLEAN /\ enabled \in BOOLEAN
        /\ Len(rows) \in Nat /\ lapsed \in BOOLEAN
    BY <1>1 DEF TypeOK
  <1>3. ASSUME NEW op \in Ops, NEW r \in Nat, folder # None, Start(op, r)
        PROVE  /\ jobs' \in Seq(Job)
               /\ PopsHalf(jobs')
    BY <1>1, <1>2, <1>3, StashStartsPops, Zenon DEF Start
  <1>4. ASSUME NEW f \in Folders, OpenFolder(f) PROVE StashBasics'
    BY <1>1, <1>2, <1>4 DEF OpenFolder, Window, StashBasics, TypeOK, StashAssumption
  <1>5. CASE RemoveFolder
    BY <1>1, <1>2, <1>5 DEF RemoveFolder, Window, StashBasics, TypeOK
  <1>6. CASE StashSaveRequested
    BY <1>1, <1>2, <1>3, <1>6 DEF StashSaveRequested, Ops, StashBasics, TypeOK
  <1>7. CASE StashListRequested
    BY <1>1, <1>2, <1>3, <1>7 DEF StashListRequested, Ops, StashBasics, TypeOK
  <1>8. ASSUME NEW r \in DOMAIN rows, Select(r) PROVE StashBasics'
    BY <1>1, <1>2, <1>8 DEF Select, StashBasics, TypeOK
  <1>9. CASE ApplyClicked
    <2>1. row \in Nat /\ folder # None
      BY <1>1, <1>2, <1>9 DEF ApplyClicked, Dialog
    <2> QED
      BY <1>1, <1>2, <1>3, <1>9, <2>1, Zenon DEF ApplyClicked, Ops, StashBasics, TypeOK
  <1>10. CASE PopClicked
    <2>1. row \in Nat /\ folder # None /\ rows[row] \in Stashes
      BY <1>1, <1>2, <1>10 DEF PopClicked, Dialog
    <2>2. chosen' \subseteq Stashes
      BY <1>2, <1>10, <2>1 DEF PopClicked
    <2> QED
      BY <1>1, <1>2, <1>3, <1>10, <2>1, <2>2, Zenon DEF PopClicked, Ops, StashBasics, TypeOK
  <1>11. CASE DropClicked
    <2>1. row \in Nat /\ rows[row] \in Stashes
      BY <1>1, <1>2, <1>11 DEF DropClicked, Dialog
    <2> QED
      BY <1>1, <1>2, <1>11, <2>1 DEF DropClicked, Dialog, StashBasics, TypeOK
  <1>12. CASE DropConfirmed
    <2>1. folder # None /\ about \in Stashes
      BY <1>1, <1>12 DEF DropConfirmed
    <2>2. chosen' \subseteq Stashes
      BY <1>2, <1>12, <2>1 DEF DropConfirmed
    <2> QED
      BY <1>1, <1>2, <1>3, <1>12, <2>1, <2>2, Zenon DEF DropConfirmed, Ops, StashBasics, TypeOK
  <1>13. CASE DropRefused
    BY <1>1, <1>2, <1>13 DEF DropRefused, StashBasics, TypeOK
  <1>14. CASE CloseDialog
    BY <1>1, <1>2, <1>14, Zenon DEF CloseDialog, Dialog, StashBasics, TypeOK
  <1>15. ASSUME NEW i \in DOMAIN jobs, Run(i) PROVE StashBasics'
    <2>1. PICK j \in Job : StashRan(i, j) /\ jobs' = [jobs EXCEPT ![i] = j]
      BY <1>1, <1>15, StashRuns
    <2>2. /\ jobs' \in Seq(Job) /\ Len(jobs') = Len(jobs)
          /\ \A k \in 1..Len(jobs) : jobs'[k] = IF k = i THEN j ELSE jobs[k]
      BY <1>2, <2>1, ChangeFacts
    <2>3. j.at \in Folders /\ j.row \in Nat /\ (j.state = "half" => j.op = "pop")
      BY <2>1 DEF Job, StashRan
    <2>4. home' \in [Stashes -> Folders \cup {None}]
      BY <1>2, <2>1, <2>3, Zenon DEF StashRan
    <2>5. stack' \in [Folders -> Seq(Stashes)]
      <3>1. ASSUME NEW s \in Stashes PROVE <<s>> \o stack[j.at] \in Seq(Stashes)
        BY <1>2, <2>3
      <3>2. ASSUME j.row \in DOMAIN stack[j.at] PROVE RemoveAt(stack[j.at], j.row) \in Seq(Stashes)
        <4>1. stack[j.at] \in Seq(Stashes) /\ j.row \in 1..Len(stack[j.at])
          BY <1>2, <2>3, <3>2
        <4> QED
          BY <4>1, RemoveAtFacts
      <3>3. \/ stack' = stack
            \/ \E s \in Stashes : stack' = [stack EXCEPT ![j.at] = <<s>> \o stack[j.at]]
            \/ /\ j.row \in DOMAIN stack[j.at]
               /\ stack' = [stack EXCEPT ![j.at] = RemoveAt(stack[j.at], j.row)]
        BY <1>2, <2>1, <2>3, Zenon DEF StashRan
      <3> QED
        BY <1>2, <2>3, <3>1, <3>2, <3>3, Zenon
    <2>6. UNCHANGED <<folder, warnings, lapsed, open, rows, row, enabled, asking, about, chosen>>
      BY <1>15 DEF Run
    <2> QED
      BY <1>1, <1>2, <2>2, <2>3, <2>4, <2>5, <2>6, Zenon DEF StashBasics, TypeOK, PopsHalf
  <1>16. ASSUME NEW i \in DOMAIN jobs, StashListReady(i) PROVE StashBasics'
    <2>1. /\ jobs' \in Seq(Job)
          /\ PopsHalf(jobs')
      <3>1. jobs' = Rest(i)
        BY <1>16 DEF StashListReady
      <3> QED
        BY <1>1, <3>1, StashRestPops
    <2>2. jobs[i].read \in Seq(Stashes)
      BY <1>1, StashTyped
    <2>3. /\ rows' \in Seq(Stashes) /\ row' \in 0..Len(rows')
          /\ enabled' \in BOOLEAN /\ (enabled' => row' # 0)
          /\ open' = open /\ asking' = asking
      <3>1. \/ UNCHANGED <<open, rows, row, enabled, asking>>
            \/ /\ rows' = jobs[i].read /\ row' = 0 /\ enabled' = FALSE
               /\ open' = open /\ asking' = asking
        BY <1>16, Zenon DEF StashListReady, setEntries
      <3>2. Len(jobs[i].read) \in Nat
        BY <2>2
      <3>3. rows' \in Seq(Stashes) /\ row' \in 0..Len(rows')
        <4>1. CASE rows' = rows /\ row' = row
          BY <1>2, <4>1
        <4>2. CASE rows' = jobs[i].read /\ row' = 0
          BY <2>2, <3>2, <4>2
        <4> QED
          BY <3>1, <4>1, <4>2
      <3>4. enabled' \in BOOLEAN /\ open' = open /\ asking' = asking
        BY <1>2, <3>1, Zenon
      <3>5. enabled' => row' # 0
        BY <1>1, <3>1, Zenon
      <3> QED
        BY <3>3, <3>4, <3>5
    <2>4. lapsed' \in BOOLEAN
      BY <1>2, <1>16, Zenon DEF StashListReady
    <2> QED
      BY <1>1, <1>2, <1>16, <2>1, <2>3, <2>4 DEF StashListReady, StashBasics, TypeOK
  <1>17. ASSUME NEW i \in DOMAIN jobs, StashOpFinished(i) PROVE StashBasics'
    <2>1. /\ jobs' \in Seq(Job)
          /\ PopsHalf(jobs')
      <3>1. CASE jobs' = Rest(i)
        BY <1>1, <3>1, StashRestPops
      <3>2. CASE open /\ jobs' = Append(Rest(i), Task("list", folder, 0))
        <4>1. folder # None /\ Rest(i) \in Seq(Job) /\ PopsHalf(Rest(i))
          BY <1>1, <1>2, <3>2, StashRestPops
        <4>2. "list" \in Ops /\ 0 \in Nat
          BY DEF Ops
        <4> QED
          BY <1>1, <3>2, <4>1, <4>2, StashStartsPops
      <3> QED
        BY <1>17, <3>1, <3>2 DEF StashOpFinished, Relist
    <2>2. warnings' \in Nat
      BY <1>2, <1>17 DEF StashOpFinished
    <2>3. enabled' \in BOOLEAN /\ (enabled' => row # 0)
      BY <1>1, <1>2, <1>17, Zenon DEF StashOpFinished
    <2> QED
      BY <1>1, <1>2, <1>17, <2>1, <2>2, <2>3 DEF StashOpFinished, StashBasics, TypeOK
  <1>18. CASE Acknowledge
    <2>1. /\ jobs' \in Seq(Job)
          /\ PopsHalf(jobs')
      <3>1. CASE jobs' = jobs
        BY <1>1, <1>2, <3>1
      <3>2. CASE open /\ jobs' = Append(jobs, Task("list", folder, 0))
        <4>1. folder # None /\ jobs \in Seq(Job) /\ PopsHalf(jobs)
          BY <1>1, <1>2, <3>2
        <4>2. "list" \in Ops /\ 0 \in Nat
          BY DEF Ops
        <4> QED
          BY <1>1, <3>2, <4>1, <4>2, StashStartsPops
      <3> QED
        BY <1>18, <3>1, <3>2 DEF Acknowledge, Relist
    <2>2. warnings' \in Nat
      BY <1>2, <1>18 DEF Acknowledge
    <2> QED
      BY <1>1, <1>2, <1>18, <2>1, <2>2 DEF Acknowledge, StashBasics, TypeOK
  <1> QED
    BY <1>4, <1>5, <1>6, <1>7, <1>8, <1>9, <1>10, <1>11, <1>12, <1>13, <1>14, <1>15,
       <1>16, <1>17, <1>18 DEF Step

\* What a job will do to the list, it will still do when the stack stands still.
LEMMA StashStillRelisted ==
    ASSUME StashRelisted, UNCHANGED <<folder, stack>>, warnings' >= warnings, warnings \in Nat,
           warnings' \in Nat,
           \A k \in 1..Len(jobs) : StashRelists(jobs[k]) =>
               \E m \in 1..Len(jobs') : jobs'[m] = jobs[k]
    PROVE  StashRelisted'
  BY DEF StashRelisted, StashRelists

LEMMA StashStepListed ==
    ASSUME StashAssumption, StashBasics, StashListed, Step, StashBasics'
    PROVE  StashListed'
  <1> USE DEF git, dialog, user
  <1>1. /\ TypeOK /\ TypeOK' /\ (open => folder # None)
        /\ warnings \in Nat /\ warnings' \in Nat /\ jobs \in Seq(Job) /\ Len(jobs) \in Nat
        /\ jobs' \in Seq(Job)
    BY DEF StashBasics, TypeOK
  <1>2. ASSUME NEW op \in Ops, NEW r \in Nat, open, Start(op, r),
               UNCHANGED <<folder, stack, open, rows, lapsed, warnings>>
        PROVE  StashListed'
    <2>1. \A k \in 1..Len(jobs) : \E m \in 1..Len(jobs') : jobs'[m] = jobs[k]
      BY <1>1, <1>2, StashStarts DEF Start
    <2>2. ASSUME StashRelisted PROVE StashRelisted'
      BY <1>1, <1>2, <2>1, <2>2, StashStillRelisted
    <2> QED
      BY <1>2, <2>2 DEF StashListed
  <1>3. ASSUME NEW q \in Seq(Job), folder # None, jobs' = Append(q, Task("list", folder, 0)),
               folder' = folder
        PROVE  StashRelisted'
    <2>1. "list" \in Ops /\ 0 \in Nat
      BY DEF Ops
    <2>2. PICK m \in 1..Len(jobs') : jobs'[m] = Task("list", folder, 0)
      BY <1>1, <1>3, <2>1, StashStarts
    <2>3. StashRelists(jobs[m])'
      BY <1>3, <2>2 DEF StashRelists, Task
    <2> QED
      BY <2>3 DEF StashRelisted
  <1>4. CASE UNCHANGED <<folder, stack, jobs, open, rows, lapsed, warnings>>
    BY <1>4 DEF StashListed, StashRelisted, StashRelists
  <1>5. CASE ~open'
    BY <1>5 DEF StashListed
  <1>6. CASE StashListRequested
    <2>1. StashRelisted'
      BY <1>1, <1>3, <1>6 DEF StashListRequested, Start
    <2> QED
      BY <2>1 DEF StashListed
  <1>7. CASE ApplyClicked \/ PopClicked
    BY <1>1, <1>2, <1>7 DEF ApplyClicked, PopClicked, Dialog, Ops, TypeOK
  <1>8. CASE DropConfirmed
    BY <1>1, <1>2, <1>8 DEF DropConfirmed, Ops, TypeOK, StashBasics
  <1>9. ASSUME NEW i \in DOMAIN jobs, Run(i) PROVE StashListed'
    <2>1. PICK j \in Job : StashRan(i, j) /\ jobs' = [jobs EXCEPT ![i] = j]
      BY <1>1, <1>9, StashRuns
    <2>2. /\ Len(jobs') = Len(jobs) /\ i \in 1..Len(jobs)
          /\ \A k \in 1..Len(jobs) : jobs'[k] = IF k = i THEN j ELSE jobs[k]
      BY <1>1, <2>1, ChangeFacts, StashTyped
    <2>3. UNCHANGED <<folder, warnings, lapsed, open, rows>>
      BY <1>9 DEF Run
    <2>4. CASE stack'[folder] = stack[folder]
      <3>1. ASSUME NEW k \in 1..Len(jobs), StashRelists(jobs[k])
            PROVE  \E m \in 1..Len(jobs') : StashRelists(jobs[m])'
        <4>1. CASE k # i
          BY <2>2, <2>3, <2>4, <3>1, <4>1 DEF StashRelists
        <4>2. CASE k = i
          <5>1. /\ j.at = folder /\ jobs[i].op = j.op
                /\ j.op = "list" => (j.state = "done" => j.read = stack[folder])
                /\ j.op # "list" => j.state = "done"
            BY <2>1, <3>1, <4>2 DEF StashRelists, StashRan, StashBasics, PopsHalf
          <5> QED
            BY <2>2, <2>3, <2>4, <5>1 DEF StashRelists
        <4> QED
          BY <4>1, <4>2
      <3> QED
        BY <2>3, <2>4, <3>1 DEF StashListed, StashRelisted
    <2>5. CASE open /\ stack'[folder] # stack[folder]
      <3>1. /\ j.at = folder /\ j.state = "done" /\ j.op # "list"
        <4>1. folder \in Folders /\ j.at \in Folders /\ stack \in [Folders -> Seq(Stashes)]
          BY <1>1, <2>5 DEF TypeOK, Job
        <4>2. jobs[i].state = "half" => jobs[i].op = "pop"
          BY <2>2 DEF StashBasics, PopsHalf
        <4> QED
          BY <2>1, <2>5, <4>1, <4>2, Zenon DEF StashRan
      <3>2. StashRelists(jobs[i])'
        BY <2>2, <2>3, <3>1 DEF StashRelists
      <3> QED
        BY <2>2, <3>2 DEF StashListed, StashRelisted
    <2> QED
      BY <2>3, <2>4, <2>5 DEF StashListed
  <1>10. ASSUME NEW i \in DOMAIN jobs, StashListReady(i) PROVE StashListed'
    <2>1. /\ jobs' = Rest(i) /\ UNCHANGED <<folder, warnings, stack, open>>
          /\ jobs[i].op = "list" /\ jobs[i].state \in {"done", "failed"}
      BY <1>10, Zenon DEF StashListReady, Back, setEntries
    <2>2. \A l \in 1..Len(jobs) : l # i => \E k \in 1..Len(jobs') : jobs'[k] = jobs[l]
      BY <1>1, <2>1, StashRest
    <2>3. CASE StashRelists(jobs[i])
      <3>1. CASE jobs[i].state = "failed"
        BY <1>10, <2>3, <3>1 DEF StashListReady, StashRelists, StashListed
      <3>2. CASE jobs[i].state = "done"
        BY <1>10, <2>1, <2>3, <3>2 DEF StashListReady, StashRelists, StashListed, setEntries
      <3> QED
        BY <2>1, <3>1, <3>2
    <2>4. CASE ~StashRelists(jobs[i])
      <3>1. StashRelisted => StashRelisted'
        <4>1. \A k \in 1..Len(jobs) : StashRelists(jobs[k]) =>
                  \E m \in 1..Len(jobs') : jobs'[m] = jobs[k]
          BY <2>2, <2>4
        <4> QED
          BY <1>1, <2>1, <4>1, StashStillRelisted
      <3>2. CASE jobs[i].at = folder
        <4>1. jobs[i].read # stack[folder]
          BY <2>1, <2>4, <3>2 DEF StashRelists
        <4>2. lapsed' \/ (~lapsed /\ rows # stack[folder])
          BY <1>10, <3>2, <4>1 DEF StashListReady
        <4> QED
          BY <2>1, <3>1, <4>2 DEF StashListed
      <3>3. CASE jobs[i].at # folder
        BY <1>10, <2>1, <3>1, <3>3 DEF StashListReady, StashListed
      <3> QED
        BY <3>2, <3>3
    <2> QED
      BY <2>3, <2>4
  <1>11. ASSUME NEW i \in DOMAIN jobs, StashOpFinished(i) PROVE StashListed'
    <2>1. /\ UNCHANGED <<folder, stack, open, rows, lapsed>>
          /\ jobs[i].op # "list" /\ jobs[i].state \in {"done", "failed"}
      BY <1>11 DEF StashOpFinished, Back, Ops
    <2>2. Rest(i) \in Seq(Job)
          /\ \A l \in 1..Len(jobs) : l # i => \E k \in 1..Len(Rest(i)) : Rest(i)[k] = jobs[l]
      BY <1>1, StashRest
    <2>3. CASE jobs[i].at = folder /\ jobs[i].state = "failed"
      <3>1. warnings' > 0
        BY <1>1, <1>11, <2>3 DEF StashOpFinished
      <3> QED
        BY <3>1 DEF StashListed, StashRelisted
    <2>4. CASE jobs[i].at = folder /\ jobs[i].state # "failed"
      <3>1. CASE open
        <4>1. StashRelisted'
          BY <1>1, <1>3, <1>11, <2>1, <2>2, <2>4, <3>1 DEF StashOpFinished, Relist
        <4> QED
          BY <4>1 DEF StashListed
      <3> QED
        BY <2>1, <3>1 DEF StashListed
    <2>5. CASE jobs[i].at # folder
      <3>1. jobs' = Rest(i) /\ warnings' = warnings
        BY <1>11, <2>5 DEF StashOpFinished
      <3>2. \A k \in 1..Len(jobs) : StashRelists(jobs[k]) =>
                \E m \in 1..Len(jobs') : jobs'[m] = jobs[k]
        BY <2>2, <2>5, <3>1 DEF StashRelists
      <3>3. StashRelisted => StashRelisted'
        BY <1>1, <2>1, <3>1, <3>2, StashStillRelisted
      <3> QED
        BY <2>1, <3>3 DEF StashListed
    <2> QED
      BY <2>3, <2>4, <2>5
  <1>12. CASE Acknowledge
    <2>1. CASE open
      <3>1. StashRelisted'
        BY <1>1, <1>3, <1>12, <2>1 DEF Acknowledge, Relist
      <3> QED
        BY <3>1 DEF StashListed
    <2> QED
      BY <1>12, <2>1 DEF Acknowledge, StashListed
  <1> QED
    BY <1>4, <1>5, <1>6, <1>7, <1>8, <1>9, <1>10, <1>11, <1>12
    DEF Step, OpenFolder, RemoveFolder, StashSaveRequested, Window, Select, DropClicked,
        DropRefused, CloseDialog

StashJobFits(j) ==
    /\ open => j.at = folder
    /\ j.op = "list" => j.read = IF j.state = "done" THEN stack[j.at] ELSE <<>>
    /\ (j.op \in {"pop", "drop"} /\ j.state \in {"waits", "half"}
        /\ j.row \in 1..Len(stack[j.at])) => stack[j.at][j.row] \in chosen

LEMMA StashAloneIs ==
    StashAlone <=>
        /\ Pending <= 1
        /\ asking # 0 => /\ rows = stack[folder] /\ asking \in 1..Len(rows)
                         /\ about = rows[asking]
        /\ open /\ Pending = 0 => rows = stack[folder] \/ rows = <<>>
        /\ \A k \in 1..Len(jobs) : StashJobFits(jobs[k])
  BY DEF StashAlone, StashJobFits

LEMMA CountFacts ==
    ASSUME NEW n \in Nat, NEW w \in Nat, NEW a \in 0..1, NEW p, p = n + w + a
    PROVE  /\ p \in Nat
           /\ p = 0 <=> n = 0 /\ w = 0 /\ a = 0
           /\ p <= 1 /\ n > 0 => n = 1 /\ w = 0 /\ a = 0
           /\ p <= 1 /\ w > 0 => n = 0 /\ w = 1 /\ a = 0
           /\ p <= 1 /\ a # 0 => n = 0 /\ w = 0
  OBVIOUS

LEMMA StashCount ==
    ASSUME TypeOK
    PROVE  /\ Pending \in Nat /\ Len(jobs) \in Nat /\ warnings \in Nat
           /\ Pending = 0 <=> Len(jobs) = 0 /\ warnings = 0 /\ asking = 0
           /\ Pending <= 1 /\ Len(jobs) > 0 => Len(jobs) = 1 /\ warnings = 0 /\ asking = 0
           /\ Pending <= 1 /\ warnings > 0 => Len(jobs) = 0 /\ warnings = 1 /\ asking = 0
           /\ Pending <= 1 /\ asking # 0 => Len(jobs) = 0 /\ warnings = 0
  <1> DEFINE n == Len(jobs)
             a == IF asking = 0 THEN 0 ELSE 1
  <1>1. n \in Nat /\ warnings \in Nat /\ a \in 0..1 /\ (a = 0 <=> asking = 0)
    BY DEF TypeOK
  <1>2. Pending = n + warnings + a
    BY DEF Pending
  <1> HIDE DEF n, a
  <1>3. /\ Pending \in Nat
        /\ Pending = 0 <=> n = 0 /\ warnings = 0 /\ a = 0
        /\ Pending <= 1 /\ n > 0 => n = 1 /\ warnings = 0 /\ a = 0
        /\ Pending <= 1 /\ warnings > 0 => n = 0 /\ warnings = 1 /\ a = 0
        /\ Pending <= 1 /\ a # 0 => n = 0 /\ warnings = 0
    BY <1>1, <1>2
  <1> QED
    BY <1>1, <1>3 DEF n

\* A job that is the only one.
LEMMA StashOnly ==
    ASSUME TypeOK, folder # None, NEW op \in Ops, NEW r \in Nat, NEW q \in Seq(Job),
           Len(q) = 0, jobs' = Append(q, Task(op, folder, r))
    PROVE  /\ Len(jobs') = 1
           /\ \A k \in 1..Len(jobs') : jobs'[k] = Task(op, folder, r)
  <1>1. /\ Len(jobs') = Len(q) + 1
        /\ \A k \in 1..Len(jobs') :
              jobs'[k] = Task(op, folder, r) \/ \E l \in 1..Len(q) : jobs'[k] = q[l]
    BY StashStarts
  <1> QED
    BY <1>1

LEMMA StashStepAlone ==
    ASSUME StashAssumption, StashBasics, StashBasics', StashAlone, Step, Pending' <= 1
    PROVE  StashAlone'
  <1> USE DEF git, dialog, user
  <1>1. /\ TypeOK /\ TypeOK' /\ (open => folder # None) /\ (enabled => row # 0)
        /\ (asking # 0 => open)
        /\ warnings \in Nat /\ jobs \in Seq(Job) /\ Len(jobs) \in Nat
        /\ stack \in [Folders -> Seq(Stashes)] /\ folder \in Folders \cup {None}
        /\ rows \in Seq(Stashes) /\ row \in 0..Len(rows) /\ asking \in Nat
    BY DEF StashBasics, TypeOK
  <1>2. /\ Pending <= 1
        /\ asking # 0 => /\ rows = stack[folder] /\ asking \in 1..Len(rows)
                         /\ about = rows[asking]
        /\ open /\ Pending = 0 => rows = stack[folder] \/ rows = <<>>
        /\ \A k \in 1..Len(jobs) : StashJobFits(jobs[k])
    BY StashAloneIs
  <1>3. /\ Pending \in Nat
        /\ Pending = 0 <=> Len(jobs) = 0 /\ warnings = 0 /\ asking = 0
        /\ Pending <= 1 /\ Len(jobs) > 0 => Len(jobs) = 1 /\ warnings = 0 /\ asking = 0
        /\ Pending <= 1 /\ warnings > 0 => Len(jobs) = 0 /\ warnings = 1 /\ asking = 0
        /\ Pending <= 1 /\ asking # 0 => Len(jobs) = 0 /\ warnings = 0
    BY <1>1, StashCount
  <1>4. /\ Pending' \in Nat /\ Len(jobs') \in Nat
        /\ Pending' = 0 <=> Len(jobs') = 0 /\ warnings' = 0 /\ asking' = 0
        /\ Pending' <= 1 /\ Len(jobs') > 0 => Len(jobs') = 1 /\ warnings' = 0 /\ asking' = 0
        /\ Pending' <= 1 /\ asking' # 0 => Len(jobs') = 0 /\ warnings' = 0
    <2>1. PICK n \in Nat : n = Len(jobs')
      BY <1>1 DEF TypeOK
    <2>2. PICK w \in Nat : w = warnings'
      BY <1>1 DEF TypeOK
    <2>3. PICK a \in 0..1 : a = IF asking' = 0 THEN 0 ELSE 1
      OBVIOUS
    <2>4. PICK p : p = Pending'
      OBVIOUS
    <2>5. p = n + w + a
      BY <2>1, <2>2, <2>3, <2>4 DEF Pending
    <2>6. /\ p \in Nat
          /\ p = 0 <=> n = 0 /\ w = 0 /\ a = 0
          /\ p <= 1 /\ n > 0 => n = 1 /\ w = 0 /\ a = 0
          /\ p <= 1 /\ a # 0 => n = 0 /\ w = 0
      BY <2>5, CountFacts
    <2> QED
      BY <2>1, <2>2, <2>3, <2>4, <2>6
  <1>5. ASSUME /\ asking' # 0 => /\ rows' = stack'[folder'] /\ asking' \in 1..Len(rows')
                                  /\ about' = rows'[asking']
               /\ open' /\ Pending' = 0 => rows' = stack'[folder'] \/ rows' = <<>>
               /\ \A k \in 1..Len(jobs') : StashJobFits(jobs[k])'
        PROVE  StashAlone'
    BY <1>5 DEF StashAlone, StashJobFits
  \* A job that starts where nothing was under way.
  <1>6. ASSUME NEW op \in Ops, NEW r \in Nat, NEW q \in Seq(Job), folder # None, Len(q) = 0,
               jobs' = Append(q, Task(op, folder, r)), UNCHANGED <<folder, stack>>,
               (op \in {"pop", "drop"} /\ r \in 1..Len(stack[folder]))
                   => stack[folder][r] \in chosen'
        PROVE  /\ Pending' # 0 /\ asking' = 0
               /\ \A k \in 1..Len(jobs') : StashJobFits(jobs[k])'
    <2>1. Len(jobs') = 1 /\ \A k \in 1..Len(jobs') : jobs'[k] = Task(op, folder, r)
      BY <1>1, <1>6, StashOnly
    <2>2. Pending' # 0 /\ asking' = 0
      BY <1>4, <2>1
    <2>3. \A k \in 1..Len(jobs') : StashJobFits(jobs[k])'
      BY <1>6, <2>1 DEF StashJobFits, Task
    <2> QED
      BY <2>2, <2>3
  <1>7. ASSUME NEW op \in Ops, NEW r \in Nat, folder # None, Start(op, r)
        PROVE  Len(jobs) = 0 /\ jobs' = Append(jobs, Task(op, folder, r))
    <2>1. jobs' = Append(jobs, Task(op, folder, r)) /\ Len(jobs') = Len(jobs) + 1
      BY <1>1, <1>7, StashStarts DEF Start
    <2> QED
      BY <1>1, <1>4, <2>1
  <1>8. ASSUME NEW op \in Ops, NEW r \in Nat, folder # None, Start(op, r),
               UNCHANGED <<folder, stack>>,
               (op \in {"pop", "drop"} /\ r \in 1..Len(stack[folder]))
                   => stack[folder][r] \in chosen'
        PROVE  StashAlone'
    <2>1. Len(jobs) = 0 /\ jobs' = Append(jobs, Task(op, folder, r))
      BY <1>7, <1>8
    <2> QED
      BY <1>1, <1>5, <1>6, <1>8, <2>1, Zenon
  <1>9. CASE ~open' /\ asking' = 0 /\ UNCHANGED <<jobs, stack, chosen>>
    BY <1>2, <1>5, <1>9 DEF StashJobFits
  <1>10. CASE StashSaveRequested \/ StashListRequested
    BY <1>1, <1>8, <1>10 DEF StashSaveRequested, StashListRequested, Ops, TypeOK
  <1>11. ASSUME NEW r \in DOMAIN rows, Select(r) PROVE StashAlone'
    <2>1. UNCHANGED <<open, rows, asking, jobs, warnings, folder, stack, about, chosen>>
      BY <1>11 DEF Select
    <2>2. Pending' = Pending
      BY <2>1 DEF Pending
    <2> QED
      BY <1>2, <1>5, <2>1, <2>2 DEF StashJobFits
  <1>12. CASE ApplyClicked
    BY <1>1, <1>8, <1>12 DEF ApplyClicked, Dialog, Ops
  <1>13. CASE PopClicked
    <2>1. /\ folder # None /\ row \in 1..Len(rows) /\ Start("pop", row) /\ asking = 0
          /\ warnings = 0 /\ open /\ UNCHANGED <<folder, stack>>
          /\ chosen' = chosen \cup {rows[row]} /\ "pop" \in Ops
      BY <1>1, <1>13 DEF PopClicked, Dialog, Ops
    <2>2. Len(jobs) = 0
      BY <1>7, <2>1
    <2>3. rows # <<>>
      BY <1>1, <2>1
    <2>4. rows = stack[folder]
      BY <1>2, <1>3, <2>1, <2>2, <2>3
    <2>5. row \in Nat /\ stack[folder][row] \in chosen'
      BY <1>1, <2>1, <2>4
    <2>6. PICK r \in Nat : r = row
      BY <2>5
    <2>7. Start("pop", r)
      BY <2>1, <2>6 DEF Start
    <2> QED
      BY <1>8, <2>1, <2>5, <2>6, <2>7
  <1>14. CASE DropClicked
    <2>1. /\ folder # None /\ row \in 1..Len(rows) /\ asking' = row /\ asking = 0
          /\ warnings = 0 /\ open /\ about' = rows[row]
          /\ UNCHANGED <<folder, stack, jobs, rows>>
      BY <1>1, <1>14 DEF DropClicked, Dialog
    <2>2. Len(jobs) = 0 /\ Pending' # 0
      BY <1>4, <2>1
    <2>3. rows # <<>>
      BY <1>1, <2>1
    <2>4. rows = stack[folder]
      BY <1>2, <1>3, <2>1, <2>2, <2>3
    <2> QED
      BY <1>5, <2>1, <2>2, <2>4
  <1>15. CASE DropConfirmed
    <2>1. /\ asking \in 1..Len(stack[folder]) /\ stack[folder][asking] \in chosen'
          /\ asking \in Nat /\ folder # None /\ Start("drop", asking) /\ "drop" \in Ops
          /\ UNCHANGED <<folder, stack>>
      BY <1>1, <1>2, <1>15 DEF DropConfirmed, Ops
    <2>2. PICK r \in Nat : r = asking
      BY <1>1
    <2>3. Start("drop", r)
      BY <2>1, <2>2 DEF Start
    <2> QED
      BY <1>8, <2>1, <2>2, <2>3
  <1>16. CASE DropRefused
    <2>1. /\ Len(jobs) = 0 /\ jobs' = jobs /\ asking' = 0
          /\ UNCHANGED <<rows, folder, stack>> /\ rows = stack[folder]
      BY <1>2, <1>3, <1>16 DEF DropRefused
    <2> QED
      BY <1>5, <2>1
  <1>17. ASSUME NEW i \in DOMAIN jobs, Run(i) PROVE StashAlone'
    <2>1. PICK j \in Job : StashRan(i, j) /\ jobs' = [jobs EXCEPT ![i] = j]
      BY <1>1, <1>17, StashRuns
    <2>2. i \in 1..Len(jobs) /\ StashJobFits(jobs[i]) /\ jobs[i].at \in Folders
      BY <1>1, <1>2, StashTyped
    <2>3. Len(jobs) = 1 /\ asking = 0
      BY <1>1, <1>2, <1>3, <2>2
    <2>4. Len(jobs') = 1 /\ \A k \in 1..Len(jobs') : jobs'[k] = j
      BY <1>1, <2>1, <2>2, <2>3, ChangeFacts
    <2>5. UNCHANGED <<folder, open, asking, chosen>>
      BY <1>17 DEF Run
    <2>6. Pending' # 0
      BY <1>4, <2>4
    <2>7. StashJobFits(j) \/ j.state = "done"
      BY <2>1, <2>2 DEF StashJobFits, StashRan
    <2>8. StashJobFits(jobs[i]) /\ jobs[i].op = j.op /\ jobs[i].at = j.at
      BY <2>1, <2>2 DEF StashRan
    <2>9. (open => j.at = folder) /\ (j.op = "list" =>
              j.read = (IF j.state = "done" THEN stack'[j.at] ELSE <<>>))
      BY <2>1, <2>2 DEF StashJobFits, StashRan, StashBasics, PopsHalf
    <2>10. (j.op \in {"pop", "drop"} /\ j.state \in {"waits", "half"}
            /\ j.row \in 1..Len(stack'[j.at])) => stack'[j.at][j.row] \in chosen
      BY <2>1, <2>2 DEF StashJobFits, StashRan
    <2>11. \A k \in 1..Len(jobs') : StashJobFits(jobs[k])'
      BY <2>4, <2>5, <2>9, <2>10 DEF StashJobFits
    <2> QED
      BY <1>5, <2>3, <2>5, <2>6, <2>11
  <1>18. ASSUME NEW i \in DOMAIN jobs, StashListReady(i) PROVE StashAlone'
    <2>1. /\ jobs' = Rest(i) /\ UNCHANGED <<folder, stack, open, asking>>
          /\ jobs[i].op = "list" /\ jobs[i].state \in {"done", "failed"}
          /\ jobs[i].at = folder => rows' = jobs[i].read
      BY <1>18, Zenon DEF StashListReady, Back, setEntries
    <2>2. i \in 1..Len(jobs) /\ StashJobFits(jobs[i])
      BY <1>1, <1>2, StashTyped
    <2>3. Len(jobs) = 1 /\ asking = 0
      BY <1>1, <1>2, <1>3, <2>2
    <2>4. Len(jobs') = 0
      BY <1>1, <2>1, <2>3, StashRest
    <2>5. open => rows' = stack[folder] \/ rows' = <<>>
      BY <2>1, <2>2 DEF StashJobFits
    <2> QED
      BY <1>5, <2>1, <2>3, <2>4, <2>5
  <1>19. ASSUME NEW q \in Seq(Job), Len(q) = 0, Relist(q), UNCHANGED <<folder, stack, open>>,
               asking' = 0
        PROVE  StashAlone'
    <2>1. CASE open
      <3>1. "list" \in Ops /\ 0 \in Nat
        BY DEF Ops
      <3> QED
        BY <1>1, <1>5, <1>6, <1>19, <2>1, <3>1, Zenon DEF Relist
    <2>2. CASE ~open
      BY <1>1, <1>5, <1>19, <2>2 DEF Relist, TypeOK
    <2> QED
      BY <2>1, <2>2
  <1>20. ASSUME NEW i \in DOMAIN jobs, StashOpFinished(i) PROVE StashAlone'
    <2>1. UNCHANGED <<folder, stack, open, rows, asking>>
      BY <1>20 DEF StashOpFinished
    <2>2. i \in 1..Len(jobs) /\ StashJobFits(jobs[i])
      BY <1>1, <1>2, StashTyped
    <2>3. Len(jobs) = 1 /\ asking = 0
      BY <1>1, <1>2, <1>3, <2>2
    <2>4. Rest(i) \in Seq(Job) /\ Len(Rest(i)) = 0
      BY <1>1, <2>3, StashRest
    <2>5. CASE jobs[i].at # folder
      BY <1>5, <1>20, <2>1, <2>2, <2>3, <2>4, <2>5 DEF StashOpFinished, StashJobFits
    <2>6. CASE jobs[i].at = folder /\ jobs[i].state = "failed"
      <3>1. warnings' = warnings + 1 /\ jobs' = Rest(i)
        BY <1>20, <2>6 DEF StashOpFinished
      <3>2. Pending' # 0
        BY <1>1, <1>4, <3>1
      <3> QED
        BY <1>5, <2>1, <2>3, <2>4, <3>1, <3>2
    <2>7. CASE jobs[i].at = folder /\ jobs[i].state # "failed"
      BY <1>19, <1>20, <2>1, <2>3, <2>4, <2>7, Zenon DEF StashOpFinished
    <2> QED
      BY <2>5, <2>6, <2>7
  <1>21. CASE Acknowledge
    <2>1. Len(jobs) = 0 /\ asking = 0
      BY <1>2, <1>3, <1>21 DEF Acknowledge
    <2> QED
      BY <1>1, <1>19, <1>21, <2>1, Zenon DEF Acknowledge
  <1> QED
    BY <1>1, <1>9, <1>10, <1>11, <1>12, <1>13, <1>14, <1>15, <1>16, <1>17, <1>18, <1>20, <1>21
    DEF Step, OpenFolder, RemoveFolder, Window, CloseDialog, Dialog

LEMMA StashNextInv == ASSUME StashAssumption, StashInv, [Next]_vars PROVE StashInv'
  <1>1. StashBasics /\ StashListed /\ (~crowded => StashAlone)
    BY DEF StashInv
  <1>2. CASE UNCHANGED vars
    BY <1>1, <1>2
    DEF vars, git, dialog, user, StashInv, StashBasics, TypeOK, PopsHalf, StashListed,
        StashRelisted, StashRelists, StashAlone, Pending
  <1>3. CASE Next
    <2>1. StashBasics'
      BY <1>1, <1>3, StashStepBasics DEF Next, Quiet
    <2>2. StashListed'
      BY <1>1, <1>3, <2>1, StashStepListed DEF Next
    <2>3. ASSUME ~crowded' PROVE StashAlone'
      <3>1. TypeOK' /\ Pending' \in Nat
        <4>1. Len(jobs') \in Nat /\ warnings' \in Nat
          BY <2>1 DEF StashBasics, TypeOK
        <4> QED
          BY <2>1, <4>1 DEF StashBasics, Pending
      <3>2. Pending' <= 1
        BY <1>3, <2>3, <3>1 DEF Next
      <3>3. CASE ~crowded
        BY <1>1, <1>3, <2>1, <3>2, <3>3, StashStepAlone DEF Next
      <3>4. CASE Quiet' /\ rows' = stack'[folder']
        <4>1. Len(jobs') \in Nat /\ warnings' \in Nat
          BY <2>1 DEF StashBasics, TypeOK
        <4>2. Len(jobs') = 0 /\ asking' = 0
          BY <3>4, <4>1 DEF Quiet, Pending
        <4> QED
          BY <3>2, <3>4, <4>2 DEF StashAlone
      <3> QED
        BY <1>3, <2>3, <3>3, <3>4 DEF Next
    <2> QED
      BY <2>1, <2>2, <2>3 DEF StashInv
  <1> QED
    BY <1>2, <1>3

LEMMA StashListIsStack == ASSUME StashInv PROVE ListIsStack
  <1> SUFFICES ASSUME open, Pending = 0, ~lapsed PROVE rows = stack[folder]
    BY DEF ListIsStack, Quiet
  <1>1. Len(jobs) = 0 /\ warnings = 0
    BY StashCount DEF StashInv, StashBasics
  <1> QED
    BY <1>1 DEF StashInv, StashListed, StashRelisted

\* What leaves a stack, leaves it by a drop of the row chosen.
LEMMA StashGoneWasChosen ==
    ASSUME StashAssumption, StashInv, [Next]_vars, ~crowded' PROVE Gone' \ Gone \subseteq chosen
  <1>1. TypeOK /\ StashBasics
    BY DEF StashInv, StashBasics
  <1> SUFFICES ASSUME NEW s \in Stashes, s \in Gone', s \notin Gone PROVE s \in chosen
    BY DEF Gone
  <1>2. CASE UNCHANGED <<stack, home>>
    BY <1>2 DEF Gone
  <1>3. ASSUME NEW i \in DOMAIN jobs, Run(i), Next PROVE s \in chosen
    <2>1. PICK j \in Job : StashRan(i, j) /\ jobs' = [jobs EXCEPT ![i] = j]
      BY <1>1, <1>3, StashRuns
    <2>2. j.at \in Folders /\ i \in 1..Len(jobs) /\ Len(jobs) \in Nat
          /\ stack \in [Folders -> Seq(Stashes)] /\ home \in [Stashes -> Folders \cup {None}]
      BY <1>1, <2>1, StashTyped, Zenon DEF Job, TypeOK
    <2>3. CASE \E x \in Stashes :
                  /\ home[x] = None /\ stack' = [stack EXCEPT ![j.at] = <<x>> \o @]
                  /\ home' = [home EXCEPT ![x] = j.at]
      <3>1. PICK x \in Stashes :
                  /\ home[x] = None /\ stack' = [stack EXCEPT ![j.at] = <<x>> \o @]
                  /\ home' = [home EXCEPT ![x] = j.at]
        BY <2>3, Zenon
      <3> DEFINE c == stack[j.at]
                 d == <<x>> \o c
      <3>2. c \in Seq(Stashes) /\ Len(c) \in Nat
        BY <2>2
      <3>3. stack'[j.at] = d
        BY <2>2, <3>1
      <3> HIDE DEF c
      <3>4. /\ d \in Seq(Stashes) /\ Len(d) = Len(c) + 1 /\ d[1] = x
            /\ \A k \in 1..Len(c) : d[k + 1] = c[k]
        BY <3>2
      <3> HIDE DEF d
      <3>5. ToSet(c) \subseteq ToSet(d) /\ x \in ToSet(d)
        <4>1. DOMAIN c = 1..Len(c) /\ DOMAIN d = 1..Len(d)
          BY <3>2, <3>4
        <4>2. \A k \in 1..Len(c) : k + 1 \in 1..Len(d) /\ d[k + 1] = c[k]
          BY <3>2, <3>4
        <4>3. 1 \in 1..Len(d)
          BY <3>2, <3>4
        <4> QED
          BY <3>4, <4>1, <4>2, <4>3, Zenon DEF ToSet
      <3>6. s # x
        BY <2>2, <3>3, <3>5 DEF Gone
      <3>7. home[s] # None
        BY <2>2, <3>1, <3>6 DEF Gone
      <3>8. \A f \in Folders : s \notin ToSet(stack[f])
        <4>1. \A f \in Folders : s \notin ToSet(stack'[f])
          BY DEF Gone
        <4>2. \A f \in Folders : f # j.at => stack'[f] = stack[f]
          BY <2>2, <3>1
        <4> QED
          BY <2>2, <3>3, <3>5, <4>1, <4>2 DEF c
      <3> QED
        BY <3>7, <3>8 DEF Gone
    <2>4. CASE /\ jobs[i].row \in DOMAIN stack[j.at] /\ j.state = "done"
               /\ stack' = [stack EXCEPT ![j.at] = RemoveAt(@, j.row)] /\ home' = home
               /\ (jobs[i].state = "half" \/ (j.op = "drop" /\ jobs[i].state = "waits"))
      <3> DEFINE c == stack[j.at]
                 r == jobs[i].row
                 d == RemoveAt(c, r)
      <3>1. c \in Seq(Stashes) /\ Len(c) \in Nat /\ r \in 1..Len(c) /\ j.row = r
            /\ DOMAIN c = 1..Len(c)
        BY <2>1, <2>2, <2>4 DEF StashRan
      <3>2. stack'[j.at] = d /\ \A f \in Folders : f # j.at => stack'[f] = stack[f]
        BY <2>2, <2>4, <3>1
      <3>3. home[s] # None /\ (\E f \in Folders : s \in ToSet(stack[f]))
            /\ \A f \in Folders : s \notin ToSet(stack'[f])
        BY <2>4 DEF Gone
      <3>4. s \in ToSet(c) /\ s \notin ToSet(d)
        BY <2>2, <3>2, <3>3, Zenon
      <3>5. PICK k \in 1..Len(c) : s = c[k]
        BY <3>1, <3>4 DEF ToSet
      <3>6. k = r
        <4>1. /\ d \in Seq(Stashes)
              /\ \A l \in 1..Len(c) : l # r => \E m \in 1..Len(d) : d[m] = c[l]
          <5>1. PICK e \in Seq(Stashes) : e = c
            BY <3>1
          <5>2. PICK n \in 1..Len(e) : n = r
            BY <3>1, <5>1
          <5>3. /\ RemoveAt(e, n) \in Seq(Stashes)
                /\ \A l \in 1..Len(e) : l # n =>
                      \E m \in 1..Len(RemoveAt(e, n)) : RemoveAt(e, n)[m] = e[l]
            BY RestFacts
          <5> QED
            BY <5>1, <5>2, <5>3
        <4> HIDE DEF d
        <4>2. DOMAIN d = 1..Len(d)
          BY <4>1
        <4> QED
          BY <3>4, <3>5, <4>1, <4>2 DEF ToSet
      <3>7. StashAlone
        <4>1. jobs' \in Seq(Job) /\ Len(jobs') = Len(jobs)
          BY <1>1, <2>1, <2>2, ChangeFacts DEF TypeOK
        <4>2. Len(jobs) > 0 /\ warnings' \in Nat
          BY <1>1, <1>3, <2>2 DEF Run, TypeOK
        <4>3. ~Quiet'
          BY <2>2, <4>1, <4>2 DEF Quiet, Pending
        <4> QED
          BY <1>3, <4>3 DEF Next, StashInv
      <3>8. /\ j.op = jobs[i].op /\ j.at = jobs[i].at
            /\ jobs[i].op \in {"pop", "drop"} /\ jobs[i].state \in {"waits", "half"}
        BY <1>1, <2>1, <2>2, <2>4 DEF StashRan, StashBasics, PopsHalf
      <3>9. c[r] \in chosen
        BY <2>2, <3>1, <3>7, <3>8 DEF StashAlone
      <3> QED
        BY <3>5, <3>6, <3>9
    <2>5. CASE stack' = stack /\ home' = home
      BY <1>2, <2>5
    <2> QED
      BY <2>1, <2>3, <2>4, <2>5, Zenon DEF StashRan
  <1>4. CASE UNCHANGED vars
    BY <1>2, <1>4 DEF vars, git
  <1>5. CASE Next
    <2>1. CASE \E i \in DOMAIN jobs : Run(i)
      BY <1>3, <1>5, <2>1
    <2>2. CASE ~\E i \in DOMAIN jobs : Run(i)
      BY <1>2, <1>5, <2>2, Zenon
      DEF Next, Step, OpenFolder, RemoveFolder, StashSaveRequested, StashListRequested, Select,
          ApplyClicked, PopClicked, DropClicked, DropConfirmed, DropRefused, CloseDialog,
          StashListReady, StashOpFinished, Acknowledge, git
    <2> QED
      BY <2>1, <2>2
  <1> QED
    BY <1>4, <1>5

-----------------------------------------------------------------------------
(***************************************************************************)
(* Reflog.  The invariant says what a job will find of its commits.        *)
(***************************************************************************)
\* What a job will move HEAD to was looked up, or confirmed.
ReflogFits(j) ==
    /\ j.op = "undo" /\ j.state = "looked" => j.target \in Commits
    /\ j.op = "reset" => j.target \in rChosen

ReflogInv == Moves!TypeOK /\ \A k \in 1..Len(rJobs) : ReflogFits(rJobs[k])

LEMMA ReflogTyped ==
    ASSUME Moves!TypeOK, NEW i \in DOMAIN rJobs
    PROVE  /\ i \in 1..Len(rJobs) /\ rJobs[i] \in Moves!Job /\ rJobs \in Seq(Moves!Job)
           /\ rJobs[i].at \in Clones /\ rJobs[i].target \in Commits \cup {None}
           /\ rJobs[i].read \in Seq(Commits)
           /\ rHead[rJobs[i].at] \in Commits /\ rLog[rJobs[i].at] \in Seq(Commits)
  <1>1. i \in 1..Len(rJobs) /\ rJobs[i] \in Moves!Job /\ rJobs \in Seq(Moves!Job)
    BY DEF Moves!TypeOK
  <1>2. /\ rJobs[i].at \in Clones /\ rJobs[i].target \in Commits \cup {None}
        /\ rJobs[i].read \in Seq(Commits)
    BY <1>1 DEF Moves!Job
  <1> QED
    BY <1>1, <1>2 DEF Moves!TypeOK

\* What job i is after a step of the pool, and what the step did.
ReflogRan(i, j) ==
    /\ j.op = rJobs[i].op /\ j.at = rJobs[i].at
    /\ \/ /\ UNCHANGED <<rHead, rLog, rObjects, rParent>> /\ j.op # "reset"
          /\ j.state = "looked" => j.target \in Commits
       \/ /\ UNCHANGED <<rHead, rLog, rObjects, rParent>> /\ j.state = "failed"
          /\ j.target = rJobs[i].target
       \/ /\ j.state = "done" /\ rJobs[i].state # "done" /\ j.target = rJobs[i].target
          /\ \E c \in Commits :
                /\ rHead' = [rHead EXCEPT ![j.at] = c]
                /\ rLog'  = [rLog EXCEPT ![j.at] = Append(@, c)]
                /\ j.op = "reset" => c = j.target
                /\ j.op = "commit" => j.target = rHead[j.at]
                /\ IF j.op \in Moves!Committing
                   THEN /\ rParent'  = [rParent EXCEPT ![c] = j.target]
                        /\ rObjects' = [rObjects EXCEPT ![j.at] = @ \cup {c}]
                   ELSE UNCHANGED <<rObjects, rParent>>

LEMMA ReflogRuns ==
    ASSUME ReflogInv, NEW i \in DOMAIN rJobs, Moves!Run(i)
    PROVE  \E j \in Moves!Job : ReflogRan(i, j) /\ rJobs' = [rJobs EXCEPT ![i] = j]
  <1> USE DEF Moves!At, Moves!In, Moves!git, Moves!Committing
  <1>0. /\ Moves!TypeOK /\ rJobs[i] \in Moves!Job /\ ReflogFits(rJobs[i]) /\ rJobs[i].at \in Clones
        /\ rJobs[i].target \in Commits \cup {None}
        /\ rHead[rJobs[i].at] \in Commits /\ rLog[rJobs[i].at] \in Seq(Commits)
        /\ rObjects[rJobs[i].at] \in SUBSET Commits
        /\ rParent[rHead[rJobs[i].at]] \in Commits \cup {None}
    <2>1. Moves!TypeOK /\ \A k \in 1..Len(rJobs) : ReflogFits(rJobs[k])
      BY DEF ReflogInv
    <2> QED
      BY <2>1, ReflogTyped DEF Moves!TypeOK
  <1>1. ASSUME NEW j \in Moves!Job, ReflogRan(i, j), rJobs' = [rJobs EXCEPT ![i] = j]
        PROVE  \E k \in Moves!Job : ReflogRan(i, k) /\ rJobs' = [rJobs EXCEPT ![i] = k]
    BY <1>1, Zenon
  <1>2. ASSUME NEW s \in {"looked", "done", "failed"}
        PROVE  \E j \in Moves!Job :
                  /\ j.state = s /\ j.op = rJobs[i].op /\ j.at = rJobs[i].at
                  /\ j.target = rJobs[i].target
                  /\ Moves!Ends(i, s) => rJobs' = [rJobs EXCEPT ![i] = j]
    <2> DEFINE j == [rJobs[i] EXCEPT !.state = s]
    <2>1. /\ j \in Moves!Job /\ j.state = s /\ j.op = rJobs[i].op /\ j.at = rJobs[i].at
          /\ j.target = rJobs[i].target
      BY <1>0 DEF Moves!Job
    <2>2. Moves!Ends(i, s) => rJobs' = [rJobs EXCEPT ![i] = j]
      BY DEF Moves!Ends
    <2> HIDE DEF j
    <2> QED
      BY <2>1, <2>2
  <1>3. ASSUME NEW c \in Commits, Moves!Looks(i, c), UNCHANGED Moves!git, rJobs[i].op # "reset"
        PROVE  \E k \in Moves!Job : ReflogRan(i, k) /\ rJobs' = [rJobs EXCEPT ![i] = k]
    <2> DEFINE j == [rJobs[i] EXCEPT !.state = "looked", !.target = c]
    <2>1. /\ j \in Moves!Job /\ j.state = "looked" /\ j.op = rJobs[i].op /\ j.at = rJobs[i].at
          /\ j.target = c
      BY <1>0, Zenon DEF Moves!Job
    <2>2. rJobs' = [rJobs EXCEPT ![i] = j]
      BY <1>3, Zenon DEF Moves!Looks
    <2> HIDE DEF j
    <2> QED
      BY <1>1, <1>3, <2>1, <2>2, Zenon DEF ReflogRan
  <1>4. CASE Moves!Fails(i)
    <2>1. PICK j \in Moves!Job :
                  /\ j.state = "failed" /\ j.op = rJobs[i].op /\ j.at = rJobs[i].at
                  /\ j.target = rJobs[i].target
                  /\ Moves!Ends(i, "failed") => rJobs' = [rJobs EXCEPT ![i] = j]
      BY <1>2
    <2> QED
      BY <1>1, <1>4, <2>1 DEF Moves!Fails, ReflogRan
  <1>5. PICK j \in Moves!Job :
                  /\ j.state = "done" /\ j.op = rJobs[i].op /\ j.at = rJobs[i].at
                  /\ j.target = rJobs[i].target
                  /\ Moves!Ends(i, "done") => rJobs' = [rJobs EXCEPT ![i] = j]
    BY <1>2
  <1>6. CASE Moves!commit(i)
    <2>1. CASE /\ Moves!Looks(i, rHead[rJobs[i].at]) /\ UNCHANGED Moves!git
               /\ rJobs[i].op \in Moves!Committing
      <3>1. PICK c \in Commits : c = rHead[rJobs[i].at]
        BY <1>0
      <3>2. Moves!Looks(i, c)
        BY <2>1, <3>1 DEF Moves!Looks
      <3> QED
        BY <1>3, <2>1, <3>2
    <2>2. CASE ~(/\ Moves!Looks(i, rHead[rJobs[i].at]) /\ UNCHANGED Moves!git
                 /\ rJobs[i].op \in Moves!Committing)
      <3>1. ReflogRan(i, j) /\ Moves!Ends(i, "done")
        BY <1>0, <1>5, <1>6, <2>2
        DEF Moves!commit, Moves!Makes, Moves!Follows, Moves!MoveHead, ReflogRan
      <3> QED
        BY <1>1, <1>5, <3>1
    <2> QED
      BY <2>1, <2>2
  <1>7. CASE Moves!undoLastCommit(i)
    <2>1. CASE rParent[rHead[rJobs[i].at]] # None /\ Moves!Looks(i, rParent[rHead[rJobs[i].at]])
               /\ UNCHANGED Moves!git /\ rJobs[i].op = "undo"
      <3>1. PICK c \in Commits : c = rParent[rHead[rJobs[i].at]]
        BY <1>0, <2>1
      <3>2. Moves!Looks(i, c)
        BY <2>1, <3>1 DEF Moves!Looks
      <3> QED
        BY <1>3, <2>1, <3>2
    <2>2. CASE /\ rJobs[i].op = "undo" /\ rJobs[i].state = "looked"
               /\ Moves!MoveHead(rJobs[i].at, rJobs[i].target)
               /\ Moves!Ends(i, "done") /\ UNCHANGED <<rObjects, rParent>>
      <3>1. rJobs[i].target \in Commits
        BY <1>0, <2>2 DEF ReflogFits
      <3>2. ReflogRan(i, j)
        BY <1>0, <1>5, <2>2, <3>1, Zenon DEF Moves!MoveHead, ReflogRan
      <3> QED
        BY <1>1, <1>5, <2>2, <3>2
    <2> QED
      BY <1>7, <2>1, <2>2 DEF Moves!undoLastCommit
  <1>8. CASE Moves!softResetTo(i)
    <2>1. ReflogRan(i, j)
      BY <1>0, <1>5, <1>8, Zenon DEF Moves!softResetTo, Moves!MoveHead, ReflogRan
    <2> QED
      BY <1>1, <1>5, <1>8, <2>1 DEF Moves!softResetTo
  <1>9. CASE Moves!readHeadReflog(i)
    <2> DEFINE l == rLog[rJobs[i].at]
    <2>1. Moves!Entries(l) \in Seq(Commits)
      <3>1. l \in Seq(Commits)
        BY <1>0
      <3> HIDE DEF l
      <3>2. Len(l) \in Nat /\ MaxCount \in Nat
        BY <3>1, MovesAssumption DEF Moves!ReflogAssumption
      <3> QED
        BY <3>1, <3>2 DEF Moves!Entries
    <2>2. <<>> \in Seq(Commits)
      OBVIOUS
    <2>3. PICK read \in Seq(Commits) :
              rJobs' = [rJobs EXCEPT ![i].state = "done", ![i].read = read]
      BY <1>9, <2>1, <2>2, Zenon DEF Moves!readHeadReflog
    <2> DEFINE k == [rJobs[i] EXCEPT !.state = "done", !.read = read]
    <2>4. /\ k \in Moves!Job /\ k.state = "done" /\ k.op = rJobs[i].op /\ k.at = rJobs[i].at
      BY <1>0, Zenon DEF Moves!Job
    <2>5. rJobs' = [rJobs EXCEPT ![i] = k]
      BY <2>3, Zenon
    <2>6. rJobs[i].op # "reset" /\ UNCHANGED Moves!git
      BY <1>9 DEF Moves!readHeadReflog
    <2> HIDE DEF k
    <2>7. ReflogRan(i, k)
      BY <2>4, <2>6 DEF ReflogRan
    <2> QED
      BY <1>1, <2>4, <2>5, <2>7, Zenon
  <1> QED
    BY <1>4, <1>6, <1>7, <1>8, <1>9 DEF Moves!Run

LEMMA ReflogInitInv == ASSUME Moves!ReflogAssumption, Moves!Init PROVE ReflogInv
  <1> USE DEF Moves!Init, Moves!ReflogAssumption
  <1>1. <<Root>> \in Seq(Commits) /\ <<>> \in Seq(Moves!Job)
    OBVIOUS
  <1>2. rRows \in Seq(Commits) /\ rRow \in 0..Len(rRows)
    <2>1. <<>> \in Seq(Commits) /\ Len(<<>>) = 0
      OBVIOUS
    <2> QED
      BY <2>1
  <1>3. Moves!TypeOK
    BY <1>1, <1>2, Zenon DEF Moves!TypeOK
  <1> QED
    BY <1>3 DEF ReflogInv

LEMMA ReflogStarts ==
    ASSUME ReflogInv, NEW op \in Moves!Ops, NEW c \in Commits \cup {None}, rFolder # None,
           NEW q \in Seq(Moves!Job), \A k \in 1..Len(q) : ReflogFits(q[k]),
           op = "reset" => c \in rChosen',
           rJobs' = Append(q, Moves!Task(op, rFolder, c)), rChosen \subseteq rChosen'
    PROVE  rJobs' \in Seq(Moves!Job) /\ \A k \in 1..Len(rJobs') : ReflogFits(rJobs[k])'
  <1> DEFINE t == Moves!Task(op, rFolder, c)
  <1>1. t \in Moves!Job /\ t.op = op /\ t.state = "waits" /\ t.target = c
    <2>1. <<>> \in Seq(Commits)
      OBVIOUS
    <2>2. rFolder \in Clones
      BY DEF ReflogInv, Moves!TypeOK
    <2> QED
      BY <2>1, <2>2 DEF Moves!Task, Moves!Job
  <1> HIDE DEF t
  <1>2. /\ rJobs' \in Seq(Moves!Job)
        /\ \A k \in 1..Len(rJobs') : rJobs'[k] = t \/ (k \in 1..Len(q) /\ rJobs'[k] = q[k])
    BY <1>1, AppendFacts DEF t
  <1>3. ASSUME NEW k \in 1..Len(rJobs') PROVE ReflogFits(rJobs[k])'
    BY <1>1, <1>2 DEF ReflogFits
  <1> QED
    BY <1>2, <1>3

LEMMA ReflogRest ==
    ASSUME ReflogInv, NEW i \in DOMAIN rJobs
    PROVE  /\ RemoveAt(rJobs, i) \in Seq(Moves!Job)
           /\ \A k \in 1..Len(RemoveAt(rJobs, i)) : ReflogFits(RemoveAt(rJobs, i)[k])
  <1>1. /\ i \in 1..Len(rJobs) /\ rJobs \in Seq(Moves!Job)
        /\ \A k \in 1..Len(rJobs) : ReflogFits(rJobs[k])
    BY ReflogTyped DEF ReflogInv
  <1>2. /\ RemoveAt(rJobs, i) \in Seq(Moves!Job)
        /\ \A k \in 1..Len(RemoveAt(rJobs, i)) :
              \E l \in 1..Len(rJobs) : l # i /\ RemoveAt(rJobs, i)[k] = rJobs[l]
    BY <1>1, RestFacts, Zenon
  <1> QED
    BY <1>1, <1>2

LEMMA ReflogNextInv ==
    ASSUME Moves!ReflogAssumption, ReflogInv, [Moves!Next]_Moves!vars PROVE ReflogInv'
  <1> USE DEF Moves!git, Moves!dialog, Moves!Free, Moves!Start
  <1>1. Moves!TypeOK /\ \A k \in 1..Len(rJobs) : ReflogFits(rJobs[k])
    BY DEF ReflogInv
  <1>2. /\ rFolder \in Clones \cup {None} /\ rRows \in Seq(Commits) /\ rRow \in 0..Len(rRows)
        /\ rAsking \in Commits \cup {None} /\ rChosen \subseteq Commits
        /\ rJobs \in Seq(Moves!Job) /\ DOMAIN rRows = 1..Len(rRows) /\ Len(rRows) \in Nat
        /\ rHead \in [Clones -> Commits] /\ rLog \in [Clones -> Seq(Commits)]
        /\ rObjects \in [Clones -> SUBSET Commits]
        /\ rParent \in [Commits -> Commits \cup {None}]
        /\ rShown \in BOOLEAN /\ rUsable \in BOOLEAN /\ rRestore \in BOOLEAN
    BY <1>1 DEF Moves!TypeOK
  <1>3. ASSUME NEW op \in Moves!Committing \cup {"undo", "list"}, NEW q \in Seq(Moves!Job),
               \A k \in 1..Len(q) : ReflogFits(q[k]), rFolder # None,
               rJobs' = Append(q, Moves!Task(op, rFolder, None)), UNCHANGED rChosen
        PROVE  rJobs' \in Seq(Moves!Job) /\ \A k \in 1..Len(rJobs') : ReflogFits(rJobs[k])'
    <2>1. op \in Moves!Ops /\ op # "reset" /\ None \in Commits \cup {None}
      BY DEF Moves!Ops, Moves!Committing
    <2> QED
      BY <1>3, <2>1, ReflogStarts
  <1>4. CASE UNCHANGED Moves!vars
    BY <1>1, <1>4 DEF Moves!vars, ReflogInv, Moves!TypeOK, ReflogFits
  <1>5. ASSUME NEW f \in Clones, Moves!OpenFolder(f) PROVE ReflogInv'
    BY <1>1, <1>2, <1>5 DEF Moves!OpenFolder, ReflogInv, Moves!TypeOK, ReflogFits
  <1>6. CASE Moves!RemoveFolder
    BY <1>1, <1>2, <1>6 DEF Moves!RemoveFolder, ReflogInv, Moves!TypeOK, ReflogFits
  <1>7. CASE Moves!CommitRequested
    <2>1. rJobs' \in Seq(Moves!Job) /\ \A k \in 1..Len(rJobs') : ReflogFits(rJobs[k])'
      BY <1>1, <1>2, <1>3, <1>7, Zenon DEF Moves!CommitRequested
    <2> QED
      BY <1>2, <1>7, <2>1 DEF Moves!CommitRequested, ReflogInv, Moves!TypeOK
  <1>8. CASE Moves!UndoLastCommitRequested
    <2>1. rJobs' \in Seq(Moves!Job) /\ \A k \in 1..Len(rJobs') : ReflogFits(rJobs[k])'
      BY <1>1, <1>2, <1>3, <1>8, Zenon DEF Moves!UndoLastCommitRequested
    <2> QED
      BY <1>2, <1>8, <2>1 DEF Moves!UndoLastCommitRequested, ReflogInv, Moves!TypeOK
  <1>9. CASE Moves!ReflogRequested
    <2>1. rJobs' \in Seq(Moves!Job) /\ \A k \in 1..Len(rJobs') : ReflogFits(rJobs[k])'
      BY <1>1, <1>2, <1>3, <1>9, Zenon DEF Moves!ReflogRequested
    <2> QED
      BY <1>2, <1>9, <2>1 DEF Moves!ReflogRequested, ReflogInv, Moves!TypeOK
  <1>10. ASSUME NEW r \in DOMAIN rRows, Moves!Select(r) PROVE ReflogInv'
    BY <1>1, <1>2, <1>10 DEF Moves!Select, ReflogInv, Moves!TypeOK, ReflogFits
  <1>11. CASE Moves!RestoreClicked
    <2>1. rAsking' \in Commits
      BY <1>2, <1>11 DEF Moves!RestoreClicked
    <2> QED
      BY <1>1, <1>2, <1>11, <2>1 DEF Moves!RestoreClicked, ReflogInv, Moves!TypeOK, ReflogFits
  <1>12. CASE Moves!RestoreConfirmed
    <2>1. /\ rAsking \in Commits /\ rChosen' = rChosen \cup {rAsking} /\ rAsking' = None
          /\ UNCHANGED <<rFolder, rHead, rLog, rObjects, rParent, rShown, rRows, rRow>>
          /\ rUsable' \in BOOLEAN /\ rRestore' \in BOOLEAN
      BY <1>2, <1>12, Zenon DEF Moves!RestoreConfirmed
    <2>2. rJobs' \in Seq(Moves!Job) /\ \A k \in 1..Len(rJobs') : ReflogFits(rJobs[k])'
      <3>1. CASE rFolder = None
        <4>1. rJobs' = rJobs
          BY <1>12, <3>1 DEF Moves!RestoreConfirmed
        <4> QED
          BY <1>1, <1>2, <2>1, <4>1 DEF ReflogFits
      <3>2. CASE rFolder # None
        <4>1. PICK c \in Commits \cup {None} : c = rAsking
          BY <2>1
        <4>2. rJobs' = Append(rJobs, Moves!Task("reset", rFolder, c)) /\ "reset" \in Moves!Ops
              /\ c \in rChosen' /\ rChosen \subseteq rChosen'
          BY <1>12, <2>1, <3>2, <4>1 DEF Moves!RestoreConfirmed, Moves!Confirmed, Moves!Ops
        <4> QED
          BY <1>1, <1>2, <3>2, <4>2, ReflogStarts, Zenon
      <3> QED
        BY <3>1, <3>2
    <2> QED
      BY <1>2, <2>1, <2>2 DEF ReflogInv, Moves!TypeOK
  <1>13. CASE Moves!RestoreRefused
    BY <1>1, <1>2, <1>13 DEF Moves!RestoreRefused, ReflogInv, Moves!TypeOK, ReflogFits
  <1>14. CASE Moves!CloseDialog
    BY <1>1, <1>2, <1>14, Zenon DEF Moves!CloseDialog, ReflogInv, Moves!TypeOK, ReflogFits
  <1>15. ASSUME NEW i \in DOMAIN rJobs, Moves!Run(i) PROVE ReflogInv'
    <2>1. PICK j \in Moves!Job : ReflogRan(i, j) /\ rJobs' = [rJobs EXCEPT ![i] = j]
      BY <1>15, ReflogRuns
    <2>2. /\ rJobs' \in Seq(Moves!Job) /\ i \in 1..Len(rJobs) /\ Len(rJobs') = Len(rJobs)
          /\ \A k \in 1..Len(rJobs) : rJobs'[k] = IF k = i THEN j ELSE rJobs[k]
      BY <1>1, <1>2, <2>1, ChangeFacts, ReflogTyped
    <2>3. UNCHANGED <<rFolder, rShown, rRows, rRow, rUsable, rRestore, rAsking, rChosen>>
      BY <1>15 DEF Moves!Run
    <2>4. ReflogFits(j)
      BY <1>1, <2>1, <2>2 DEF ReflogRan, ReflogFits
    <2>5. \A k \in 1..Len(rJobs') : ReflogFits(rJobs[k])'
      BY <1>1, <2>2, <2>3, <2>4 DEF ReflogFits
    <2>6. /\ rHead' \in [Clones -> Commits] /\ rLog' \in [Clones -> Seq(Commits)]
          /\ rObjects' \in [Clones -> SUBSET Commits]
          /\ rParent' \in [Commits -> Commits \cup {None}]
      <3>1. j.at \in Clones /\ j.target \in Commits \cup {None}
        BY DEF Moves!Job
      <3>2. CASE UNCHANGED <<rHead, rLog, rObjects, rParent>>
        BY <1>2, <3>2
      <3>3. CASE rLog' # rLog \/ ~UNCHANGED <<rHead, rObjects, rParent>>
        <4>1. PICK c \in Commits :
                 /\ rHead' = [rHead EXCEPT ![j.at] = c]
                 /\ rLog'  = [rLog EXCEPT ![j.at] = Append(@, c)]
                 /\ IF j.op \in Moves!Committing
                    THEN /\ rParent'  = [rParent EXCEPT ![c] = j.target]
                         /\ rObjects' = [rObjects EXCEPT ![j.at] = @ \cup {c}]
                    ELSE UNCHANGED <<rObjects, rParent>>
          BY <2>1, <3>3 DEF ReflogRan
        <4>2. Append(rLog[j.at], c) \in Seq(Commits)
          BY <1>2, <3>1
        <4>3. rLog' \in [Clones -> Seq(Commits)]
          BY <1>2, <3>1, <4>1, <4>2
        <4>4. rHead' \in [Clones -> Commits]
          BY <1>2, <3>1, <4>1
        <4>5. rParent' \in [Commits -> Commits \cup {None}]
          BY <1>2, <3>1, <4>1, Zenon
        <4>6. rObjects' \in [Clones -> SUBSET Commits]
          <5>1. rObjects[j.at] \cup {c} \in SUBSET Commits
            BY <1>2, <3>1
          <5>2. \/ UNCHANGED rObjects
                \/ rObjects' = [rObjects EXCEPT ![j.at] = rObjects[j.at] \cup {c}]
            BY <4>1
          <5> QED
            BY <1>2, <3>1, <5>1, <5>2, Zenon
        <4> QED
          BY <4>3, <4>4, <4>5, <4>6
      <3> QED
        BY <3>2, <3>3
    <2> QED
      BY <1>2, <2>2, <2>3, <2>5, <2>6 DEF ReflogInv, Moves!TypeOK
  <1>16. ASSUME NEW i \in DOMAIN rJobs,
                \/ Moves!ReflogReady(i) \/ Moves!SoftResetFinished(i) \/ Moves!OtherFinished(i)
         PROVE  ReflogInv'
    <2>1. /\ UNCHANGED <<rFolder, rHead, rLog, rObjects, rParent, rShown, rAsking, rChosen>>
          /\ rUsable' \in BOOLEAN /\ rRestore' \in BOOLEAN
      BY <1>2, <1>16, Zenon DEF Moves!ReflogReady, Moves!SoftResetFinished, Moves!OtherFinished
    <2>2. rRows' \in Seq(Commits) /\ rRow' \in 0..Len(rRows')
      <3>1. rJobs[i].read \in Seq(Commits) /\ Len(rJobs[i].read) \in Nat
        BY <1>1, ReflogTyped
      <3>2. (rRows' = rRows /\ rRow' = rRow) \/ (rRows' = rJobs[i].read /\ rRow' = 0)
        BY <1>16 DEF Moves!ReflogReady, Moves!SoftResetFinished, Moves!OtherFinished
      <3> QED
        BY <1>2, <3>1, <3>2
    <2>3. rJobs' \in Seq(Moves!Job) /\ \A k \in 1..Len(rJobs') : ReflogFits(rJobs[k])'
      <3> DEFINE r == RemoveAt(rJobs, i)
      <3>1. r \in Seq(Moves!Job) /\ \A k \in 1..Len(r) : ReflogFits(r[k])
        BY ReflogRest
      <3>2. \/ rJobs' = r
            \/ rFolder # None /\ rJobs' = Append(r, Moves!Task("list", rFolder, None))
        <4>1. rJobs[i].at # None
          BY <1>1, ReflogTyped DEF Moves!ReflogAssumption
        <4> QED
          BY <1>16, <4>1, Zenon
          DEF Moves!ReflogReady, Moves!SoftResetFinished, Moves!OtherFinished, Moves!At,
              Moves!RemoveAt, RemoveAt
      <3> HIDE DEF r
      <3>3. CASE rJobs' = r
        BY <2>1, <3>1, <3>3 DEF ReflogFits
      <3> QED
        BY <1>3, <2>1, <3>1, <3>2, <3>3
    <2> QED
      BY <1>2, <2>1, <2>2, <2>3 DEF ReflogInv, Moves!TypeOK
  <1> QED
    BY <1>4, <1>5, <1>6, <1>7, <1>8, <1>9, <1>10, <1>11, <1>12, <1>13, <1>14, <1>15, <1>16
    DEF Moves!Next

\* Only a step of the pool adds to a log, and it is the step of the job that ends.
LEMMA ReflogMoves ==
    ASSUME Moves!ReflogAssumption, ReflogInv, [Moves!Next]_Moves!vars,
           NEW i \in DOMAIN rJobs, NEW op \in {"commit", "reset"}, Moves!Steps(i, op)
    PROVE  \E c \in Commits :
              /\ rHead'[rJobs[i].at] = c
              /\ op = "reset" => c = rJobs[i].target /\ c \in rChosen
              /\ op = "commit" => rParent'[c] = rHead[rJobs[i].at]
  <1>1. rLog' # rLog /\ rJobs[i].op = op /\ rJobs[i].state # "done" /\ rJobs'[i].state = "done"
    BY DEF Moves!Steps
  <1>2. PICK k \in DOMAIN rJobs : Moves!Run(k)
    BY <1>1 DEF Moves!Next, Moves!vars, Moves!git, Moves!OpenFolder, Moves!RemoveFolder,
       Moves!CommitRequested, Moves!UndoLastCommitRequested, Moves!ReflogRequested,
       Moves!Select, Moves!RestoreClicked, Moves!RestoreConfirmed, Moves!RestoreRefused,
       Moves!CloseDialog, Moves!ReflogReady, Moves!SoftResetFinished, Moves!OtherFinished
  <1>3. PICK j \in Moves!Job : ReflogRan(k, j) /\ rJobs' = [rJobs EXCEPT ![k] = j]
    BY <1>2, ReflogRuns
  <1>4. Moves!TypeOK /\ rJobs \in Seq(Moves!Job) /\ i \in 1..Len(rJobs) /\ ReflogFits(rJobs[i])
    BY DEF ReflogInv, Moves!TypeOK
  <1>5. k = i
    BY <1>1, <1>3, <1>4
  <1>6. PICK c \in Commits :
            /\ rHead' = [rHead EXCEPT ![j.at] = c]
            /\ j.op = "reset" => c = j.target
            /\ j.op = "commit" => /\ j.target = rHead[j.at]
                                  /\ rParent'  = [rParent EXCEPT ![c] = j.target]
    BY <1>1, <1>3, <1>5 DEF ReflogRan, Moves!Committing
  <1>7. j.op = op /\ j.at = rJobs[i].at /\ j.target = rJobs[i].target /\ j.at \in Clones
    BY <1>1, <1>3, <1>5 DEF ReflogRan, Moves!Job
  <1>8. rHead'[j.at] = c /\ (op = "commit" => rParent'[c] = j.target)
    BY <1>4, <1>6, <1>7 DEF Moves!TypeOK
  <1>9. op = "reset" => rJobs[i].target \in rChosen
    BY <1>1, <1>4 DEF ReflogFits
  <1> QED
    BY <1>6, <1>7, <1>8, <1>9

-----------------------------------------------------------------------------
(***************************************************************************)
(* Tags.  The invariant says which job holds the dialog busy, and which    *)
(* one will put the list right.                                            *)
(***************************************************************************)
\* A change names a tag, and what a creation will write is a commit.
TagFits(j) ==
    /\ j.op \in Labels!Changes => j.name \in Names
    /\ j.state = "half" => j.op = "create" /\ j.target \in 1..MaxTagged

TagsFit(q) == \A k \in 1..Len(q) : TagFits(q[k])

TagsBasics ==
    /\ Labels!TypeOK
    /\ tTags \in [Trees -> [Names -> (1..MaxTagged) \cup {None}]]
    /\ tOpen => tFolder # None
    /\ tCanCreate => tTyped # None /\ ~tBusy
    /\ tAsking # None => tOpen /\ ~tBusy
    /\ TagsFit(tJobs)

\* At most one of the jobs creates or deletes.
TagsOnce(q) ==
    \A k, l \in 1..Len(q) :
        q[k].op \in Labels!Changes /\ q[l].op \in Labels!Changes => k = l

TagsChange(q) == \E k \in 1..Len(q) : q[k].op \in Labels!Changes

TagsAlone ==
    /\ TagsOnce(tJobs)
    /\ TagsChange(tJobs) => tBusy
    /\ tBusy => tDeserted \/ TagsChange(tJobs)

\* A reading that will find the tags as they are, or whose failure is noted; or a
\* result that is followed by a reading.
TagsRelists(j) ==
    /\ j.at = tFolder
    /\ IF j.op = "list" THEN j.state = "done" => j.read = Labels!NamesOf(tFolder)
                        ELSE j.state = "done"

TagsRelisted == tWarnings > 0 \/ \E k \in 1..Len(tJobs) : TagsRelists(tJobs[k])

TagsListed == tOpen /\ ~tLapsed /\ tList # Labels!NamesOf(tFolder) => TagsRelisted

TagsInv == TagsBasics /\ TagsAlone /\ TagsListed

LEMMA TagsTyped ==
    ASSUME TagsBasics, NEW i \in DOMAIN tJobs
    PROVE  /\ i \in 1..Len(tJobs) /\ tJobs[i] \in Labels!Job /\ tJobs \in Seq(Labels!Job)
           /\ Len(tJobs) \in Nat /\ tJobs[i].op \in Labels!Changes \cup {"list"}
           /\ tJobs[i].at \in Trees /\ tJobs[i].name \in Names \cup {None}
           /\ tJobs[i].target \in 0..MaxTagged /\ tJobs[i].read \subseteq Names
           /\ TagFits(tJobs[i])
  <1>1. /\ i \in 1..Len(tJobs) /\ tJobs[i] \in Labels!Job /\ tJobs \in Seq(Labels!Job)
        /\ Len(tJobs) \in Nat
    BY DEF TagsBasics, Labels!TypeOK
  <1>2. /\ tJobs[i].op \in Labels!Changes \cup {"list"}
        /\ tJobs[i].at \in Trees /\ tJobs[i].name \in Names \cup {None}
        /\ tJobs[i].target \in 0..MaxTagged /\ tJobs[i].read \subseteq Names
    BY <1>1 DEF Labels!Job
  <1> QED
    BY <1>1, <1>2 DEF TagsBasics, TagsFit

TagsJob(i, s, t, r) == [tJobs[i] EXCEPT !.state = s, !.target = t, !.read = r]

\* What job i is after a step of the pool, and what the step did.
TagsRan(i, j) ==
    /\ j.op = tJobs[i].op /\ j.at = tJobs[i].at /\ j.name = tJobs[i].name
    /\ tHead' = tHead /\ tJobs[i].state \in {"waits", "half"} /\ TagFits(j)
    /\ \/ tTags' = tTags /\ j.op = "list" /\ j.state = "done" /\ j.read = Labels!NamesOf(j.at)
       \/ tTags' = tTags /\ j.state \in {"half", "failed"}
       \/ /\ j.op \in Labels!Changes /\ j.state = "done"
          /\ \E c \in (1..MaxTagged) \cup {None} :
                /\ tTags' = [tTags EXCEPT ![j.at][j.name] = c]
                /\ c # None => tTags[j.at][j.name] = None

LEMMA TagsRuns ==
    ASSUME Labels!TagsAssumption, TagsBasics, NEW i \in DOMAIN tJobs, Labels!Run(i)
    PROVE  \E j \in Labels!Job : TagsRan(i, j) /\ tJobs' = [tJobs EXCEPT ![i] = j]
  <1> USE DEF Labels!Waits, Labels!git
  <1>0. /\ tJobs[i] \in Labels!Job /\ tJobs[i].op \in Labels!Changes \cup {"list"}
        /\ tJobs[i].at \in Trees /\ tJobs[i].name \in Names \cup {None}
        /\ tJobs[i].target \in 0..MaxTagged /\ tJobs[i].read \subseteq Names
        /\ TagFits(tJobs[i]) /\ tHead[tJobs[i].at] \in 0..MaxTagged /\ MaxTagged \in Nat
        /\ 0 \in 0..MaxTagged
    <2>1. /\ tJobs[i] \in Labels!Job /\ tJobs[i].op \in Labels!Changes \cup {"list"}
          /\ tJobs[i].at \in Trees /\ tJobs[i].name \in Names \cup {None}
          /\ tJobs[i].target \in 0..MaxTagged /\ tJobs[i].read \subseteq Names
          /\ TagFits(tJobs[i])
      BY TagsTyped
    <2> QED
      BY <2>1 DEF TagsBasics, Labels!TypeOK, Labels!TagsAssumption
  <1>1. ASSUME NEW j \in Labels!Job, TagsRan(i, j), tJobs' = [tJobs EXCEPT ![i] = j]
        PROVE  \E k \in Labels!Job : TagsRan(i, k) /\ tJobs' = [tJobs EXCEPT ![i] = k]
    BY <1>1, Zenon
  <1>2. ASSUME NEW s \in {"waits", "half", "done", "failed"}, NEW t \in 0..MaxTagged,
               NEW r \in SUBSET Names
        PROVE  \E j \in Labels!Job :
                  /\ j.state = s /\ j.op = tJobs[i].op /\ j.at = tJobs[i].at
                  /\ j.name = tJobs[i].name /\ j.target = t /\ j.read = r
                  /\ j = TagsJob(i, s, t, r)
    <2>1. /\ TagsJob(i, s, t, r).state = s /\ TagsJob(i, s, t, r).op = tJobs[i].op
          /\ TagsJob(i, s, t, r).at = tJobs[i].at /\ TagsJob(i, s, t, r).name = tJobs[i].name
          /\ TagsJob(i, s, t, r).target = t /\ TagsJob(i, s, t, r).read = r
          /\ TagsJob(i, s, t, r) \in Labels!Job
      BY <1>0, Zenon DEF Labels!Job, TagsJob
    <2> QED
      BY <2>1
  <1>3. ASSUME NEW s \in {"done", "failed"}, Labels!Ends(i, s)
        PROVE  \E j \in Labels!Job :
                  /\ j.state = s /\ j.op = tJobs[i].op /\ j.at = tJobs[i].at
                  /\ j.name = tJobs[i].name /\ tJobs' = [tJobs EXCEPT ![i] = j]
    <2>1. PICK r \in SUBSET Names : r = tJobs[i].read
      BY <1>0
    <2>2. PICK t \in 0..MaxTagged : t = 0
      BY <1>0
    <2>3. PICK j \in Labels!Job :
                  /\ j.state = s /\ j.op = tJobs[i].op /\ j.at = tJobs[i].at
                  /\ j.name = tJobs[i].name
                  /\ j = TagsJob(i, s, t, r)
      BY <1>2
    <2>4. tJobs' = [tJobs EXCEPT ![i] = j]
      <3>1. TagsJob(i, s, t, r)
            = [tJobs[i] EXCEPT !.state = s, !.target = 0]
        BY <1>0, <2>1, <2>2, Zenon DEF Labels!Job, TagsJob
      <3>2. tJobs' = [tJobs EXCEPT ![i] = [tJobs[i] EXCEPT !.state = s, !.target = 0]]
        BY <1>3, Zenon DEF Labels!Ends
      <3> QED
        BY <2>3, <3>1, <3>2
    <2> QED
      BY <2>3, <2>4, Zenon
  <1>4. CASE Labels!Fails(i) \/ (tJobs[i].op = "list" /\ Labels!Ends(i, "failed")
                                 /\ Labels!listTags(i))
    <2>1. PICK j \in Labels!Job :
                  /\ j.state = "failed" /\ j.op = tJobs[i].op /\ j.at = tJobs[i].at
                  /\ j.name = tJobs[i].name /\ tJobs' = [tJobs EXCEPT ![i] = j]
      BY <1>3, <1>4 DEF Labels!Fails
    <2>2. TagsRan(i, j)
      BY <1>0, <1>4, <2>1 DEF Labels!Fails, Labels!listTags, TagsRan, TagFits
    <2> QED
      BY <1>1, <2>1, <2>2, Zenon
  <1>5. CASE Labels!listTags(i) /\ ~Labels!Ends(i, "failed")
    <2>1. PICK t \in 0..MaxTagged : t = tJobs[i].target
      BY <1>0
    <2>2. PICK r \in SUBSET Names : r = Labels!NamesOf(tJobs[i].at)
      BY Zenon DEF Labels!NamesOf
    <2>3. PICK j \in Labels!Job :
                  /\ j.state = "done" /\ j.op = tJobs[i].op /\ j.at = tJobs[i].at
                  /\ j.name = tJobs[i].name /\ j.read = r
                  /\ j = TagsJob(i, "done", t, r)
      BY <1>2
    <2>4. tJobs' = [tJobs EXCEPT ![i] = j]
      <3>1. TagsJob(i, "done", t, r)
            = [tJobs[i] EXCEPT !.state = "done", !.read = r]
        BY <1>0, <2>1, Zenon DEF Labels!Job, TagsJob
      <3>2. tJobs' = [tJobs EXCEPT ![i] = [tJobs[i] EXCEPT !.state = "done", !.read = r]]
        BY <1>5, <2>2 DEF Labels!listTags
      <3> QED
        BY <2>3, <3>1, <3>2, Zenon
    <2>5. TagsRan(i, j)
      BY <1>0, <1>5, <2>2, <2>3 DEF Labels!listTags, Labels!Changes, TagsRan, TagFits
    <2> QED
      BY <1>1, <2>4, <2>5, Zenon
  <1>6. CASE Labels!resolveTarget(i)
    <2>1. PICK t \in 0..MaxTagged : t = tHead[tJobs[i].at]
      BY <1>0
    <2>2. PICK r \in SUBSET Names : r = tJobs[i].read
      BY <1>0
    <2>3. PICK j \in Labels!Job :
                  /\ j.state = "half" /\ j.op = tJobs[i].op /\ j.at = tJobs[i].at
                  /\ j.name = tJobs[i].name /\ j.target = t
                  /\ j = TagsJob(i, "half", t, r)
      BY <1>2
    <2>4. tJobs' = [tJobs EXCEPT ![i] = j]
      <3>1. TagsJob(i, "half", t, r)
            = [tJobs[i] EXCEPT !.state = "half", !.target = t]
        BY <1>0, <2>2, Zenon DEF Labels!Job, TagsJob
      <3>2. tJobs' = [tJobs EXCEPT ![i] = [tJobs[i] EXCEPT !.state = "half", !.target = t]]
        BY <1>6, <2>1, Zenon DEF Labels!resolveTarget
      <3> QED
        BY <2>3, <3>1, <3>2, Zenon
    <2>5. TagsRan(i, j)
      <3>1. t \in 1..MaxTagged /\ tJobs[i].op = "create" /\ tJobs[i].state = "waits"
            /\ tHead' = tHead /\ tTags' = tTags
        BY <1>0, <1>6, <2>1 DEF Labels!resolveTarget
      <3>2. tJobs[i].name \in Names
        BY <1>0, <3>1 DEF TagFits, Labels!Changes
      <3> QED
        BY <2>3, <3>1, <3>2 DEF TagsRan, TagFits
    <2> QED
      BY <1>1, <2>4, <2>5, Zenon
  <1>7. CASE Labels!writeTag(i) \/ Labels!deleteTag(i)
    <2>1. PICK j \in Labels!Job :
                  /\ j.state = "done" /\ j.op = tJobs[i].op /\ j.at = tJobs[i].at
                  /\ j.name = tJobs[i].name /\ tJobs' = [tJobs EXCEPT ![i] = j]
      BY <1>3, <1>7 DEF Labels!writeTag, Labels!deleteTag
    <2>2. tHead' = tHead /\ tJobs[i].state \in {"waits", "half"} /\ TagFits(j)
          /\ j.op \in Labels!Changes
      BY <1>0, <1>7, <2>1 DEF Labels!writeTag, Labels!deleteTag, TagFits, Labels!Changes
    <2>3. \E c \in (1..MaxTagged) \cup {None} :
                /\ tTags' = [tTags EXCEPT ![j.at][j.name] = c]
                /\ c # None => tTags[j.at][j.name] = None
      <3>1. CASE Labels!writeTag(i)
        <4>1. tJobs[i].target \in 1..MaxTagged
          BY <1>0, <3>1 DEF Labels!writeTag, TagFits
        <4> QED
          BY <2>1, <3>1, <4>1, Zenon DEF Labels!writeTag
      <3>2. CASE Labels!deleteTag(i)
        BY <2>1, <3>2, Zenon DEF Labels!deleteTag
      <3> QED
        BY <1>7, <3>1, <3>2, Zenon
    <2>4. TagsRan(i, j)
      BY <2>1, <2>2, <2>3, Zenon DEF TagsRan
    <2> QED
      BY <1>1, <2>1, <2>4, Zenon
  <1> QED
    BY <1>4, <1>5, <1>6, <1>7 DEF Labels!Run, Labels!listTags

LEMMA TagsInitInv == ASSUME Labels!TagsAssumption, Labels!Init PROVE TagsInv
  <1> USE DEF Labels!Init
  <1>1. <<>> \in Seq(Labels!Job) /\ Len(tJobs) = 0
    OBVIOUS
  <1>2. \A f \in Trees : Labels!NamesOf(f) = {}
    BY DEF Labels!NamesOf
  <1>3. tHead \in [Trees -> 0..MaxTagged]
    <2>1. 0 \in 0..MaxTagged
      BY DEF Labels!TagsAssumption
    <2> QED
      BY <2>1
  <1>4. /\ tTags \in [Trees -> [Names -> (1..MaxTagged) \cup {None}]]
        /\ \A f \in Trees : DOMAIN tTags[f] = Names
    OBVIOUS
  <1>5. Labels!TypeOK
    BY <1>1, <1>2, <1>3, <1>4, Zenon DEF Labels!TypeOK
  <1>6. TagsBasics
    BY <1>1, <1>4, <1>5 DEF TagsBasics, TagsFit
  <1>7. TagsAlone
    BY <1>1 DEF TagsAlone, TagsOnce, TagsChange
  <1> QED
    BY <1>6, <1>7 DEF TagsInv, TagsListed

LEMMA TagsStarts ==
    ASSUME Labels!TypeOK, tFolder # None, NEW op \in Labels!Changes \cup {"list"},
           NEW n \in Names \cup {None}, 0 \in 0..MaxTagged,
           op \in Labels!Changes => n \in Names,
           NEW q \in Seq(Labels!Job), TagsFit(q), tJobs' = Append(q, Labels!Task(op, tFolder, n))
    PROVE  /\ tJobs' \in Seq(Labels!Job) /\ TagsFit(tJobs)'
           /\ \A k \in 1..Len(q) : k \in 1..Len(tJobs') /\ tJobs'[k] = q[k]
           /\ \A k \in 1..Len(tJobs') : k \notin 1..Len(q) => k = Len(q) + 1
           /\ Len(q) + 1 \in 1..Len(tJobs')
           /\ tJobs'[Len(q) + 1].op = op /\ tJobs'[Len(q) + 1].at = tFolder
           /\ tJobs'[Len(q) + 1].state = "waits"
  <1> DEFINE t == Labels!Task(op, tFolder, n)
  <1>1. t \in Labels!Job /\ t.op = op /\ t.at = tFolder /\ t.state = "waits" /\ t.name = n
    <2>1. tFolder \in Trees
      BY DEF Labels!TypeOK
    <2> QED
      BY <2>1 DEF Labels!Task, Labels!Job
  <1>2. tJobs' = Append(q, t)
    OBVIOUS
  <1>3. TagFits(t)
    BY <1>1 DEF TagFits
  <1> HIDE DEF t
  <1>4. /\ tJobs' \in Seq(Labels!Job) /\ Len(tJobs') = Len(q) + 1
        /\ tJobs'[Len(q) + 1] = t /\ Len(q) + 1 \in 1..Len(tJobs')
        /\ \A k \in 1..Len(q) : k \in 1..Len(tJobs') /\ tJobs'[k] = q[k]
        /\ \A k \in 1..Len(tJobs') : tJobs'[k] = t \/ (k \in 1..Len(q) /\ tJobs'[k] = q[k])
    BY <1>1, <1>2, AppendFacts
  <1>5. TagsFit(tJobs')
    BY <1>3, <1>4 DEF TagsFit
  <1>6. \A k \in 1..Len(tJobs') : k \notin 1..Len(q) => k = Len(q) + 1
    BY <1>4
  <1> QED
    BY <1>1, <1>4, <1>5, <1>6

LEMMA TagsRest ==
    ASSUME TagsBasics, NEW i \in DOMAIN tJobs
    PROVE  /\ Labels!Rest(i) \in Seq(Labels!Job) /\ TagsFit(Labels!Rest(i))
           /\ Len(Labels!Rest(i)) = Len(tJobs) - 1 /\ Len(tJobs) - 1 \in Nat
           /\ \A k \in 1..(Len(tJobs) - 1) :
                 Labels!Rest(i)[k] = IF k < i THEN tJobs[k] ELSE tJobs[k + 1]
           /\ \A l \in 1..Len(tJobs) : l # i =>
                 \E k \in 1..Len(Labels!Rest(i)) : Labels!Rest(i)[k] = tJobs[l]
  <1>1. i \in 1..Len(tJobs) /\ tJobs \in Seq(Labels!Job) /\ Len(tJobs) \in Nat
    BY TagsTyped
  <1>2. PICK q : q = RemoveAt(tJobs, i)
    OBVIOUS
  <1>3. Labels!Rest(i) = q
    BY <1>2 DEF Labels!Rest, Labels!RemoveAt, RemoveAt
  <1>4. /\ q \in Seq(Labels!Job) /\ Len(q) = Len(tJobs) - 1 /\ Len(tJobs) - 1 \in Nat
        /\ \A k \in 1..(Len(tJobs) - 1) : q[k] = IF k < i THEN tJobs[k] ELSE tJobs[k + 1]
    BY <1>1, <1>2, RemoveAtFacts, Zenon
  <1>5. \A l \in 1..Len(tJobs) : l # i => \E k \in 1..Len(q) : q[k] = tJobs[l]
    BY <1>1, <1>2, RestFacts, Zenon
  <1>6. TagsFit(q)
    BY <1>1, <1>4 DEF TagsFit, TagsBasics
  <1> QED
    BY <1>3, <1>4, <1>5, <1>6, Zenon

LEMMA TagsStepBasics ==
    ASSUME Labels!TagsAssumption, TagsBasics, Labels!Next
    PROVE  TagsBasics'
  <1> USE DEF Labels!git, Labels!dialog
  <1>1. /\ Labels!TypeOK /\ TagsFit(tJobs) /\ (tOpen => tFolder # None)
        /\ (tCanCreate => tTyped # None /\ ~tBusy) /\ (tAsking # None => tOpen /\ ~tBusy)
        /\ tTags \in [Trees -> [Names -> (1..MaxTagged) \cup {None}]]
    BY DEF TagsBasics
  <1>2. /\ tFolder \in Trees \cup {None} /\ tHead \in [Trees -> 0..MaxTagged]
        /\ tJobs \in Seq(Labels!Job) /\ tWarnings \in Nat /\ tList \subseteq Names
        /\ tCurrent \in Names \cup {None} /\ tTyped \in Names \cup {None}
        /\ tAsking \in Names \cup {None} /\ MaxTagged \in Nat /\ 0 \in 0..MaxTagged
        /\ None \notin Trees \cup Names
    BY <1>1 DEF Labels!TypeOK, Labels!TagsAssumption
  <1>3. /\ tOpen \in BOOLEAN /\ tError \in BOOLEAN /\ tCanCreate \in BOOLEAN
        /\ tBusy \in BOOLEAN /\ tLapsed \in BOOLEAN /\ tDeserted \in BOOLEAN
    BY <1>1 DEF Labels!TypeOK
  <1>4. ASSUME tFolder' \in Trees \cup {None}, tHead' \in [Trees -> 0..MaxTagged],
               tTags' \in [Trees -> [Names -> (1..MaxTagged) \cup {None}]],
               tJobs' \in Seq(Labels!Job), TagsFit(tJobs)', tWarnings' \in Nat,
               tList' \subseteq Names, tCurrent' \in Names \cup {None},
               tTyped' \in Names \cup {None}, tAsking' \in Names \cup {None},
               tOpen' \in BOOLEAN, tError' \in BOOLEAN, tCanCreate' \in BOOLEAN,
               tBusy' \in BOOLEAN, tLapsed' \in BOOLEAN, tDeserted' \in BOOLEAN,
               tOpen' => tFolder' # None, tCanCreate' => tTyped' # None /\ ~tBusy',
               tAsking' # None => tOpen' /\ ~tBusy'
        PROVE  TagsBasics'
    <2>1. \A f \in Trees : /\ DOMAIN tTags'[f] = Names
                           /\ \A n \in Labels!NamesOf(f)' : tTags'[f][n] \in 1..MaxTagged
      BY <1>4 DEF Labels!NamesOf
    <2>2. {tOpen', tError', tCanCreate', tBusy', tLapsed', tDeserted'} \subseteq BOOLEAN
      BY <1>4
    <2> QED
      BY <1>4, <2>1, <2>2 DEF TagsBasics, Labels!TypeOK
  <1>5. ASSUME NEW op \in Labels!Changes \cup {"list"}, NEW n \in Names \cup {None},
               tFolder # None, op \in Labels!Changes => n \in Names,
               NEW q \in Seq(Labels!Job), TagsFit(q),
               tJobs' = Append(q, Labels!Task(op, tFolder, n))
        PROVE  tJobs' \in Seq(Labels!Job) /\ TagsFit(tJobs)'
    BY <1>1, <1>2, <1>5, TagsStarts, Zenon
  <1>6. ASSUME UNCHANGED tJobs PROVE tJobs' \in Seq(Labels!Job) /\ TagsFit(tJobs)'
    BY <1>1, <1>2, <1>6 DEF TagsFit
  <1>7. ASSUME NEW f \in Trees \cup {None}, Labels!OpenFolder(f) PROVE TagsBasics'
    BY <1>1, <1>2, <1>3, <1>4, <1>6, <1>7 DEF Labels!OpenFolder
  <1>8. CASE Labels!TagsRequested
    <2>1. "list" \notin Labels!Changes
      BY DEF Labels!Changes
    <2>2. tJobs' \in Seq(Labels!Job) /\ TagsFit(tJobs)'
      BY <1>1, <1>2, <1>5, <1>8, <2>1 DEF Labels!TagsRequested, Labels!Start
    <2> QED
      BY <1>1, <1>2, <1>3, <1>4, <1>8, <2>2 DEF Labels!TagsRequested
  <1>9. ASSUME NEW f \in Trees, Labels!Commit(f) PROVE TagsBasics'
    <2>1. tHead' \in [Trees -> 0..MaxTagged]
      BY <1>2, <1>9 DEF Labels!Commit
    <2> QED
      BY <1>1, <1>2, <1>3, <1>4, <1>6, <1>9, <2>1 DEF Labels!Commit
  <1>10. ASSUME NEW n \in Names, Labels!Select(n) PROVE TagsBasics'
    BY <1>1, <1>2, <1>3, <1>4, <1>6, <1>10 DEF Labels!Select
  <1>11. ASSUME NEW n \in Names \cup {None}, Labels!NameChanged(n) PROVE TagsBasics'
    BY <1>1, <1>2, <1>3, <1>4, <1>6, <1>11 DEF Labels!NameChanged, Labels!Dialog
  <1>12. CASE Labels!CreateClicked
    <2>1. /\ tTyped \in Names /\ "create" \in Labels!Changes /\ tFolder # None /\ tAsking = None
      BY <1>1, <1>2, <1>12 DEF Labels!CreateClicked, Labels!Dialog, Labels!Changes
    <2>2. tJobs' \in Seq(Labels!Job) /\ TagsFit(tJobs)'
      <3>1. PICK n \in Names : n = tTyped
        BY <2>1
      <3>2. tJobs' = Append(tJobs, Labels!Task("create", tFolder, n))
        BY <1>12, <3>1 DEF Labels!CreateClicked, Labels!Start
      <3> QED
        BY <1>1, <1>2, <1>5, <2>1, <3>2
    <2> QED
      BY <1>1, <1>2, <1>3, <1>4, <1>12, <2>1, <2>2 DEF Labels!CreateClicked, Labels!setBusy
  <1>13. CASE Labels!DeleteClicked
    BY <1>1, <1>2, <1>3, <1>4, <1>6, <1>13 DEF Labels!DeleteClicked, Labels!Dialog
  <1>14. CASE Labels!DeleteConfirmed
    <2>1. /\ tAsking \in Names /\ "delete" \in Labels!Changes /\ tFolder # None
      BY <1>1, <1>2, <1>14 DEF Labels!DeleteConfirmed, Labels!Changes
    <2>2. tJobs' \in Seq(Labels!Job) /\ TagsFit(tJobs)'
      <3>1. PICK n \in Names : n = tAsking
        BY <2>1
      <3>2. tJobs' = Append(tJobs, Labels!Task("delete", tFolder, n))
        BY <1>14, <3>1 DEF Labels!DeleteConfirmed, Labels!Start
      <3> QED
        BY <1>1, <1>2, <1>5, <2>1, <3>2
    <2> QED
      BY <1>1, <1>2, <1>3, <1>4, <1>14, <2>1, <2>2 DEF Labels!DeleteConfirmed, Labels!setBusy
  <1>15. CASE Labels!DeleteRefused
    BY <1>1, <1>2, <1>3, <1>4, <1>6, <1>15 DEF Labels!DeleteRefused
  <1>16. CASE Labels!CloseDialog
    BY <1>1, <1>2, <1>3, <1>4, <1>6, <1>16, Zenon DEF Labels!CloseDialog, Labels!Dialog
  <1>17. ASSUME NEW i \in DOMAIN tJobs, Labels!Run(i) PROVE TagsBasics'
    <2>1. PICK j \in Labels!Job : TagsRan(i, j) /\ tJobs' = [tJobs EXCEPT ![i] = j]
      BY <1>17, TagsRuns
    <2>2. /\ tJobs' \in Seq(Labels!Job) /\ Len(tJobs') = Len(tJobs)
          /\ \A k \in 1..Len(tJobs) : tJobs'[k] = IF k = i THEN j ELSE tJobs[k]
      BY <1>2, <2>1, ChangeFacts, TagsTyped
    <2>3. TagsFit(tJobs)' /\ tHead' = tHead
      BY <1>1, <2>1, <2>2 DEF TagsRan, TagsFit
    <2>4. tTags' \in [Trees -> [Names -> (1..MaxTagged) \cup {None}]]
      <3>1. CASE tTags' = tTags
        BY <1>1, <3>1
      <3>2. CASE tTags' # tTags
        <4>1. PICK c \in (1..MaxTagged) \cup {None} : tTags' = [tTags EXCEPT ![j.at][j.name] = c]
          BY <2>1, <3>2, Zenon DEF TagsRan
        <4>2. j.at \in Trees
          BY DEF Labels!Job
        <4>3. [tTags[j.at] EXCEPT ![j.name] = c] \in [Names -> (1..MaxTagged) \cup {None}]
          BY <1>1, <4>2, Zenon
        <4> QED
          BY <1>1, <4>1, <4>2, <4>3
      <3> QED
        BY <3>1, <3>2
    <2> QED
      BY <1>1, <1>2, <1>3, <1>4, <1>17, <2>2, <2>3, <2>4 DEF Labels!Run
  <1>18. ASSUME NEW i \in DOMAIN tJobs, Labels!TagsReady(i) PROVE TagsBasics'
    <2>1. tJobs' \in Seq(Labels!Job) /\ TagsFit(tJobs)'
      <3>1. tJobs' = Labels!Rest(i)
        BY <1>18 DEF Labels!TagsReady
      <3>2. Labels!Rest(i) \in Seq(Labels!Job) /\ TagsFit(Labels!Rest(i))
        BY TagsRest
      <3> QED
        BY <3>1, <3>2 DEF TagsFit
    <2>2. tJobs[i].read \subseteq Names
      BY TagsTyped
    <2>3. tList' \subseteq Names /\ tCurrent' \in Names \cup {None}
      BY <1>2, <1>18, <2>2, Zenon DEF Labels!TagsReady
    <2>4. tLapsed' \in BOOLEAN
      BY <1>3, <1>18, Zenon DEF Labels!TagsReady
    <2> QED
      BY <1>1, <1>2, <1>3, <1>4, <1>18, <2>1, <2>3, <2>4 DEF Labels!TagsReady
  <1>19. ASSUME NEW q \in Seq(Labels!Job), TagsFit(q), Labels!Relist(q)
         PROVE  tJobs' \in Seq(Labels!Job) /\ TagsFit(tJobs)'
    <2>1. "list" \notin Labels!Changes
      BY DEF Labels!Changes
    <2>2. CASE tOpen
      BY <1>1, <1>2, <1>5, <1>19, <2>1, <2>2 DEF Labels!Relist
    <2>3. CASE ~tOpen
      BY <1>19, <2>3 DEF Labels!Relist, TagsFit
    <2> QED
      BY <2>2, <2>3
  <1>20. ASSUME NEW i \in DOMAIN tJobs, Labels!TagOpFinished(i) PROVE TagsBasics'
    <2>1. Labels!Rest(i) \in Seq(Labels!Job) /\ TagsFit(Labels!Rest(i))
      BY TagsRest
    <2>2. tJobs' \in Seq(Labels!Job) /\ TagsFit(tJobs)'
      <3>1. CASE tJobs' = Labels!Rest(i)
        BY <2>1, <3>1 DEF TagsFit
      <3>2. CASE Labels!Relist(Labels!Rest(i))
        BY <1>19, <2>1, <3>2
      <3> QED
        BY <1>20, <3>1, <3>2, Zenon DEF Labels!TagOpFinished
    <2>3. tWarnings' \in Nat /\ tDeserted' \in BOOLEAN
      <3>1. tWarnings' = tWarnings \/ tWarnings' = tWarnings + 1
        BY <1>20, Zenon DEF Labels!TagOpFinished
      <3>2. tDeserted' = tDeserted \/ tDeserted' = TRUE
        BY <1>20, Zenon DEF Labels!TagOpFinished
      <3>3. tWarnings' \in Nat
        BY <1>2, <3>1
      <3>4. tDeserted' \in BOOLEAN
        BY <1>3, <3>2, Zenon
      <3> QED
        BY <3>3, <3>4
    <2>4. /\ tBusy' \in BOOLEAN /\ tCanCreate' \in BOOLEAN
          /\ tCanCreate' => tTyped # None /\ ~tBusy'
          /\ tAsking # None => ~tBusy'
      BY <1>1, <1>3, <1>20, Zenon DEF Labels!TagOpFinished, Labels!setBusy
    <2> QED
      BY <1>1, <1>2, <1>3, <1>4, <1>20, <2>2, <2>3, <2>4 DEF Labels!TagOpFinished
  <1>21. CASE Labels!Acknowledge
    <2>1. tJobs' \in Seq(Labels!Job) /\ TagsFit(tJobs)' /\ tWarnings' \in Nat
      BY <1>1, <1>2, <1>19, <1>21 DEF Labels!Acknowledge
    <2> QED
      BY <1>1, <1>2, <1>3, <1>4, <1>21, <2>1 DEF Labels!Acknowledge
  <1> QED
    BY <1>7, <1>8, <1>9, <1>10, <1>11, <1>12, <1>13, <1>14, <1>15, <1>16, <1>17, <1>18,
       <1>20, <1>21 DEF Labels!Next

LEMMA TagsStepAlone ==
    ASSUME Labels!TagsAssumption, TagsBasics, TagsAlone, Labels!Next
    PROVE  TagsAlone'
  <1> USE DEF Labels!git, Labels!dialog
  <1>1. /\ Labels!TypeOK /\ TagsFit(tJobs) /\ (tOpen => tFolder # None)
        /\ (tCanCreate => ~tBusy /\ tTyped \in Names) /\ (tAsking # None => tOpen /\ ~tBusy)
        /\ tJobs \in Seq(Labels!Job) /\ Len(tJobs) \in Nat /\ 0 \in 0..MaxTagged
        /\ tAsking \in Names \cup {None} /\ "list" \notin Labels!Changes
    BY DEF TagsBasics, Labels!TypeOK, Labels!TagsAssumption, Labels!Changes
  <1>2. /\ \A k, l \in 1..Len(tJobs) :
              tJobs[k].op \in Labels!Changes /\ tJobs[l].op \in Labels!Changes => k = l
        /\ \A k \in 1..Len(tJobs) : tJobs[k].op \in Labels!Changes => tBusy
        /\ tBusy => tDeserted \/ \E k \in 1..Len(tJobs) : tJobs[k].op \in Labels!Changes
    BY DEF TagsAlone, TagsOnce, TagsChange
  <1>3. ASSUME UNCHANGED <<tJobs, tBusy, tDeserted>> PROVE TagsAlone'
    BY <1>3 DEF TagsAlone, TagsOnce, TagsChange
  \* A reading is added to what is there.
  <1>4. ASSUME NEW q \in Seq(Labels!Job), TagsFit(q), tFolder # None,
               tJobs' = Append(q, Labels!Task("list", tFolder, None)),
               TagsOnce(q), TagsChange(q) => tBusy', tBusy' => tDeserted' \/ TagsChange(q)
        PROVE  TagsAlone'
    <2>1. /\ \A k \in 1..Len(q) : k \in 1..Len(tJobs') /\ tJobs'[k] = q[k]
          /\ \A k \in 1..Len(tJobs') : k \notin 1..Len(q) => k = Len(q) + 1
          /\ tJobs'[Len(q) + 1].op = "list"
      BY <1>1, <1>4, TagsStarts
    <2>2. \A k \in 1..Len(tJobs') :
              tJobs'[k].op \in Labels!Changes => k \in 1..Len(q) /\ tJobs'[k] = q[k]
      BY <1>1, <2>1
    <2> HIDE <1>4
    <2>3. TagsOnce(q) /\ (TagsChange(q) => tBusy') /\ (tBusy' => tDeserted' \/ TagsChange(q))
      BY <1>4
    <2> QED
      BY <2>1, <2>2, <2>3, Zenon DEF TagsAlone, TagsOnce, TagsChange
  \* A change is added where there is none.
  <1>5. ASSUME NEW op \in Labels!Changes, NEW n \in Names, tFolder # None, ~tBusy, tBusy',
               tJobs' = Append(tJobs, Labels!Task(op, tFolder, n))
        PROVE  TagsAlone'
    <2>1. /\ \A k \in 1..Len(tJobs) : k \in 1..Len(tJobs') /\ tJobs'[k] = tJobs[k]
          /\ \A k \in 1..Len(tJobs') : k \notin 1..Len(tJobs) => k = Len(tJobs) + 1
          /\ Len(tJobs) + 1 \in 1..Len(tJobs') /\ tJobs'[Len(tJobs) + 1].op = op
      BY <1>1, <1>5, TagsStarts
    <2>2. \A k \in 1..Len(tJobs') : tJobs'[k].op \in Labels!Changes => k = Len(tJobs) + 1
      BY <1>2, <1>5, <2>1
    <2>3. TagsOnce(tJobs)'
      BY <2>2 DEF TagsOnce
    <2>4. TagsChange(tJobs)'
      BY <1>5, <2>1 DEF TagsChange
    <2> QED
      BY <1>5, <2>3, <2>4 DEF TagsAlone
  <1>6. CASE Labels!TagsRequested
    BY <1>1, <1>4, <1>6 DEF Labels!TagsRequested, Labels!Start, TagsAlone
  <1>7. CASE Labels!CreateClicked
    <2>1. PICK n \in Names : n = tTyped
      BY <1>1, <1>7 DEF Labels!CreateClicked
    <2>2. /\ tJobs' = Append(tJobs, Labels!Task("create", tFolder, n))
          /\ ~tBusy /\ tBusy' /\ tFolder # None /\ "create" \in Labels!Changes
      BY <1>1, <1>7, <2>1
      DEF Labels!CreateClicked, Labels!Start, Labels!setBusy, Labels!Dialog, Labels!Changes
    <2> QED
      BY <1>5, <2>2
  <1>8. CASE Labels!DeleteConfirmed
    <2>1. PICK n \in Names : n = tAsking
      BY <1>1, <1>8 DEF Labels!DeleteConfirmed
    <2>2. /\ tJobs' = Append(tJobs, Labels!Task("delete", tFolder, n))
          /\ ~tBusy /\ tBusy' /\ tFolder # None /\ "delete" \in Labels!Changes
      BY <1>1, <1>8, <2>1
      DEF Labels!DeleteConfirmed, Labels!Start, Labels!setBusy, Labels!Changes
    <2> QED
      BY <1>5, <2>2
  <1>9. ASSUME NEW i \in DOMAIN tJobs, Labels!Run(i) PROVE TagsAlone'
    <2>1. PICK j \in Labels!Job : TagsRan(i, j) /\ tJobs' = [tJobs EXCEPT ![i] = j]
      BY <1>9, TagsRuns
    <2>2. /\ Len(tJobs') = Len(tJobs) /\ i \in 1..Len(tJobs)
          /\ \A k \in 1..Len(tJobs) : tJobs'[k] = IF k = i THEN j ELSE tJobs[k]
      BY <1>1, <2>1, ChangeFacts, TagsTyped
    <2>3. \A k \in 1..Len(tJobs) : tJobs'[k].op = tJobs[k].op
      BY <2>1, <2>2 DEF TagsRan
    <2>4. UNCHANGED <<tBusy, tDeserted>>
      BY <1>9 DEF Labels!Run
    <2> QED
      BY <1>2, <2>2, <2>3, <2>4, Zenon DEF TagsAlone, TagsOnce, TagsChange
  \* What is left when job i is taken out.
  <1>10. ASSUME NEW i \in DOMAIN tJobs
         PROVE  /\ Labels!Rest(i) \in Seq(Labels!Job) /\ TagsFit(Labels!Rest(i))
                /\ TagsOnce(Labels!Rest(i)) /\ (TagsChange(Labels!Rest(i)) => TagsChange(tJobs))
                /\ tJobs[i].op \in Labels!Changes => ~TagsChange(Labels!Rest(i))
                /\ tJobs[i].op = "list" /\ TagsChange(tJobs) => TagsChange(Labels!Rest(i))
    <2>1. PICK q : q = Labels!Rest(i)
      OBVIOUS
    <2>2. /\ q \in Seq(Labels!Job) /\ TagsFit(q)
          /\ Len(q) = Len(tJobs) - 1 /\ Len(tJobs) - 1 \in Nat
          /\ \A k \in 1..(Len(tJobs) - 1) : q[k] = IF k < i THEN tJobs[k] ELSE tJobs[k + 1]
          /\ \A l \in 1..Len(tJobs) : l # i => \E k \in 1..Len(q) : q[k] = tJobs[l]
      BY <2>1, TagsRest, Zenon
    <2>3. i \in 1..Len(tJobs)
      BY TagsTyped
    <2>4. TagsOnce(q)
      <3>1. ASSUME NEW k \in 1..Len(q) PROVE
              \E a \in 1..Len(tJobs) : q[k] = tJobs[a] /\ a = IF k < i THEN k ELSE k + 1
        BY <1>1, <2>2, <2>3
      <3>2. ASSUME NEW k \in 1..Len(q), NEW l \in 1..Len(q),
                   q[k].op \in Labels!Changes, q[l].op \in Labels!Changes
            PROVE  k = l
        <4>1. PICK a \in 1..Len(tJobs) : q[k] = tJobs[a] /\ a = IF k < i THEN k ELSE k + 1
          BY <3>1
        <4>2. PICK b \in 1..Len(tJobs) : q[l] = tJobs[b] /\ b = IF l < i THEN l ELSE l + 1
          BY <3>1
        <4>3. a = b
          BY <1>2, <3>2, <4>1, <4>2, Zenon
        <4> QED
          BY <2>2, <2>3, <4>1, <4>2, <4>3
      <3> QED
        BY <3>2 DEF TagsOnce
    <2>5. TagsChange(q) => TagsChange(tJobs)
      BY <1>1, <2>2, <2>3 DEF TagsChange
    <2>6. tJobs[i].op \in Labels!Changes => ~TagsChange(q)
      BY <1>1, <1>2, <2>2, <2>3 DEF TagsChange
    <2>7. tJobs[i].op = "list" /\ TagsChange(tJobs) => TagsChange(q)
      BY <1>1, <2>2, <2>3, Zenon DEF TagsChange
    <2> QED
      BY <2>1, <2>2, <2>4, <2>5, <2>6, <2>7
  <1>11. ASSUME NEW i \in DOMAIN tJobs, Labels!TagsReady(i) PROVE TagsAlone'
    <2>1. /\ tJobs' = Labels!Rest(i) /\ tJobs[i].op = "list" /\ UNCHANGED <<tBusy, tDeserted>>
      BY <1>11 DEF Labels!TagsReady
    <2>2. TagsOnce(tJobs)' /\ (TagsChange(tJobs)' <=> TagsChange(tJobs))
      <3>1. PICK q : q = tJobs'
        OBVIOUS
      <3>2. TagsOnce(q) /\ (TagsChange(q) <=> TagsChange(tJobs))
        BY <1>10, <2>1, <3>1
      <3> QED
        BY <3>1, <3>2 DEF TagsOnce, TagsChange
    <2> QED
      BY <2>1, <2>2 DEF TagsAlone
  <1>12. ASSUME NEW i \in DOMAIN tJobs, Labels!TagOpFinished(i) PROVE TagsAlone'
    <2>1. /\ Labels!Rest(i) \in Seq(Labels!Job) /\ TagsFit(Labels!Rest(i))
          /\ TagsOnce(Labels!Rest(i)) /\ ~TagsChange(Labels!Rest(i))
      BY <1>10, <1>12 DEF Labels!TagOpFinished
    <2>2. tBusy' => tDeserted'
      <3>1. CASE tJobs[i].at # tFolder
        <4>1. tDeserted' = TRUE
          BY <1>12, <3>1 DEF Labels!TagOpFinished
        <4> QED
          BY <4>1
      <3>2. CASE tJobs[i].at = tFolder
        <4>1. tBusy' = FALSE
          BY <1>12, <3>2 DEF Labels!TagOpFinished, Labels!setBusy
        <4> QED
          BY <4>1
      <3> QED
        BY <3>1, <3>2
    <2>3. CASE tJobs' = Labels!Rest(i)
      BY <2>1, <2>2, <2>3, Zenon DEF TagsAlone, TagsOnce, TagsChange
    <2>4. CASE tJobs' = Append(Labels!Rest(i), Labels!Task("list", tFolder, None)) /\ tOpen
      BY <1>1, <1>4, <2>1, <2>2, <2>4
    <2> QED
      BY <1>12, <2>3, <2>4, Zenon DEF Labels!TagOpFinished, Labels!Relist
  <1>13. CASE Labels!Acknowledge
    <2>1. CASE tOpen
      BY <1>1, <1>4, <1>13, <2>1 DEF Labels!Acknowledge, Labels!Relist, TagsAlone
    <2> QED
      BY <1>3, <1>13, <2>1 DEF Labels!Acknowledge, Labels!Relist
  <1> QED
    BY <1>3, <1>6, <1>7, <1>8, <1>9, <1>11, <1>12, <1>13
    DEF Labels!Next, Labels!OpenFolder, Labels!Commit, Labels!Select, Labels!NameChanged,
        Labels!DeleteClicked, Labels!DeleteRefused, Labels!CloseDialog

\* What a job will do to the list, it will still do when the tags stand still.
LEMMA TagsStillRelisted ==
    ASSUME TagsRelisted, UNCHANGED <<tFolder, tTags>>, tWarnings' >= tWarnings,
           tWarnings \in Nat, tWarnings' \in Nat,
           \A k \in 1..Len(tJobs) : TagsRelists(tJobs[k]) =>
               \E m \in 1..Len(tJobs') : tJobs'[m] = tJobs[k]
    PROVE  TagsRelisted'
  BY DEF TagsRelisted, TagsRelists, Labels!NamesOf

LEMMA TagsStepListed ==
    ASSUME Labels!TagsAssumption, TagsBasics, TagsListed, Labels!Next, TagsBasics'
    PROVE  TagsListed'
  <1> USE DEF Labels!git, Labels!dialog
  <1>1. /\ Labels!TypeOK /\ TagsFit(tJobs) /\ (tOpen => tFolder # None)
        /\ (tAsking # None => tOpen)
        /\ tTags \in [Trees -> [Names -> (1..MaxTagged) \cup {None}]]
        /\ tJobs \in Seq(Labels!Job) /\ Len(tJobs) \in Nat /\ 0 \in 0..MaxTagged
        /\ tWarnings \in Nat /\ tWarnings' \in Nat /\ "list" \notin Labels!Changes
        /\ tTyped \in Names \cup {None} /\ tAsking \in Names \cup {None}
        /\ tFolder \in Trees \cup {None} /\ (tCanCreate => tTyped # None)
    BY DEF TagsBasics, Labels!TypeOK, Labels!TagsAssumption, Labels!Changes
  \* A change is added to what there is.
  <1>2. ASSUME NEW op \in Labels!Changes, NEW n \in Names, tFolder # None,
               tJobs' = Append(tJobs, Labels!Task(op, tFolder, n)),
               UNCHANGED <<tFolder, tTags, tOpen, tList, tLapsed, tWarnings>>
        PROVE  TagsListed'
    <2>1. \A k \in 1..Len(tJobs) : k \in 1..Len(tJobs') /\ tJobs'[k] = tJobs[k]
      BY <1>1, <1>2, TagsStarts
    <2>2. ASSUME TagsRelisted PROVE TagsRelisted'
      BY <1>1, <1>2, <2>1, <2>2, TagsStillRelisted
    <2> QED
      BY <1>2, <2>2 DEF TagsListed, Labels!NamesOf
  <1>3. ASSUME NEW q \in Seq(Labels!Job), TagsFit(q), tFolder # None,
               tJobs' = Append(q, Labels!Task("list", tFolder, None)), tFolder' = tFolder
        PROVE  TagsRelisted'
    <2>1. /\ Len(q) + 1 \in 1..Len(tJobs') /\ tJobs'[Len(q) + 1].op = "list"
          /\ tJobs'[Len(q) + 1].at = tFolder /\ tJobs'[Len(q) + 1].state = "waits"
      BY <1>1, <1>3, TagsStarts
    <2> QED
      BY <1>3, <2>1 DEF TagsRelisted, TagsRelists
  <1>4. CASE UNCHANGED <<tFolder, tTags, tJobs, tOpen, tList, tLapsed, tWarnings>>
    BY <1>4 DEF TagsListed, TagsRelisted, TagsRelists, Labels!NamesOf
  <1>5. CASE ~tOpen'
    BY <1>5 DEF TagsListed
  <1>6. CASE Labels!TagsRequested
    <2>1. TagsRelisted'
      BY <1>1, <1>3, <1>6 DEF Labels!TagsRequested, Labels!Start
    <2> QED
      BY <2>1 DEF TagsListed
  <1>7. CASE Labels!CreateClicked
    <2>1. PICK n \in Names : n = tTyped
      BY <1>1, <1>7 DEF Labels!CreateClicked
    <2>2. tJobs' = Append(tJobs, Labels!Task("create", tFolder, n)) /\ "create" \in Labels!Changes
      BY <1>7, <2>1 DEF Labels!CreateClicked, Labels!Start, Labels!Changes
    <2> QED
      BY <1>1, <1>2, <1>7, <2>2 DEF Labels!CreateClicked, Labels!Dialog
  <1>8. CASE Labels!DeleteConfirmed
    <2>1. PICK n \in Names : n = tAsking
      BY <1>1, <1>8 DEF Labels!DeleteConfirmed
    <2>2. tJobs' = Append(tJobs, Labels!Task("delete", tFolder, n)) /\ "delete" \in Labels!Changes
      BY <1>8, <2>1 DEF Labels!DeleteConfirmed, Labels!Start, Labels!Changes
    <2> QED
      BY <1>1, <1>2, <1>8, <2>2 DEF Labels!DeleteConfirmed
  <1>9. ASSUME NEW i \in DOMAIN tJobs, Labels!Run(i) PROVE TagsListed'
    <2>1. PICK j \in Labels!Job : TagsRan(i, j) /\ tJobs' = [tJobs EXCEPT ![i] = j]
      BY <1>9, TagsRuns
    <2>2. /\ Len(tJobs') = Len(tJobs) /\ i \in 1..Len(tJobs) /\ j.at \in Trees
          /\ \A k \in 1..Len(tJobs) : tJobs'[k] = IF k = i THEN j ELSE tJobs[k]
      BY <1>1, <2>1, ChangeFacts, TagsTyped DEF Labels!Job
    <2>3. UNCHANGED <<tFolder, tWarnings, tLapsed, tOpen, tList>>
      BY <1>9 DEF Labels!Run
    <2>4. CASE Labels!NamesOf(tFolder)' = Labels!NamesOf(tFolder)
      <3>1. ASSUME NEW k \in 1..Len(tJobs), TagsRelists(tJobs[k])
            PROVE  TagsRelists(tJobs[k])'
        <4>1. CASE k # i
          BY <2>2, <2>3, <2>4, <3>1, <4>1 DEF TagsRelists
        <4>2. CASE k = i
          <5>1. /\ j.at = tFolder /\ tJobs[i].op = j.op /\ j.op = "list"
                /\ j.state = "done" => j.read = Labels!NamesOf(tFolder)
            BY <1>1, <2>1, <3>1, <4>2 DEF TagsRelists, TagsRan
          <5> QED
            BY <2>2, <2>3, <2>4, <4>2, <5>1 DEF TagsRelists
        <4> QED
          BY <4>1, <4>2
      <3> QED
        BY <2>2, <2>3, <2>4, <3>1 DEF TagsListed, TagsRelisted
    <2>5. CASE Labels!NamesOf(tFolder)' # Labels!NamesOf(tFolder)
      <3>1. PICK c \in (1..MaxTagged) \cup {None} :
               tTags' = [tTags EXCEPT ![j.at][j.name] = c] /\ j.state = "done"
               /\ j.op \in Labels!Changes
        BY <2>1, <2>3, <2>5, Zenon DEF TagsRan, Labels!NamesOf
      <3>2. CASE ~tOpen
        BY <2>3, <3>2 DEF TagsListed
      <3>3. CASE tOpen
        <4>1. tFolder \in Trees
          BY <1>1, <3>3
        <4>2. j.at = tFolder
          <5>1. ASSUME j.at # tFolder PROVE tTags'[tFolder] = tTags[tFolder]
            BY <1>1, <3>1, <4>1, <5>1
          <5> QED
            BY <2>3, <2>5, <5>1 DEF Labels!NamesOf
        <4>3. TagsRelists(tJobs[i])'
          BY <1>1, <2>2, <2>3, <3>1, <4>2 DEF TagsRelists
        <4> QED
          BY <2>2, <4>3 DEF TagsListed, TagsRelisted
      <3> QED
        BY <3>2, <3>3
    <2> QED
      BY <2>4, <2>5
  <1>10. ASSUME NEW i \in DOMAIN tJobs, Labels!TagsReady(i) PROVE TagsListed'
    <2>1. /\ tJobs' = Labels!Rest(i) /\ UNCHANGED <<tFolder, tWarnings, tTags, tOpen>>
          /\ tJobs[i].op = "list" /\ tJobs[i].state \in {"done", "failed"}
          /\ Labels!NamesOf(tFolder)' = Labels!NamesOf(tFolder)
      BY <1>10 DEF Labels!TagsReady, Labels!Back, Labels!NamesOf
    <2>2. \A l \in 1..Len(tJobs) : l # i => \E k \in 1..Len(tJobs') : tJobs'[k] = tJobs[l]
      BY <2>1, TagsRest
    <2>3. CASE TagsRelists(tJobs[i])
      <3>1. CASE tJobs[i].state = "failed"
        BY <1>10, <2>3, <3>1 DEF Labels!TagsReady, TagsRelists, TagsListed
      <3>2. CASE tJobs[i].state = "done"
        BY <1>10, <2>1, <2>3, <3>2 DEF Labels!TagsReady, TagsRelists, TagsListed
      <3> QED
        BY <2>1, <3>1, <3>2
    <2>4. CASE ~TagsRelists(tJobs[i])
      <3>1. TagsRelisted => TagsRelisted'
        <4>1. \A k \in 1..Len(tJobs) : TagsRelists(tJobs[k]) =>
                  \E m \in 1..Len(tJobs') : tJobs'[m] = tJobs[k]
          BY <2>2, <2>4
        <4> QED
          BY <1>1, <2>1, <4>1, TagsStillRelisted
      <3>2. CASE tJobs[i].at = tFolder
        <4>1. tJobs[i].read # Labels!NamesOf(tFolder)
          BY <2>1, <2>4, <3>2 DEF TagsRelists
        <4>2. tLapsed' \/ (~tLapsed /\ tList # Labels!NamesOf(tFolder))
          BY <1>10, <3>2, <4>1 DEF Labels!TagsReady
        <4> QED
          BY <2>1, <3>1, <4>2 DEF TagsListed
      <3>3. CASE tJobs[i].at # tFolder
        BY <1>10, <2>1, <3>1, <3>3 DEF Labels!TagsReady, TagsListed
      <3> QED
        BY <3>2, <3>3
    <2> QED
      BY <2>3, <2>4
  <1>11. ASSUME NEW i \in DOMAIN tJobs, Labels!TagOpFinished(i) PROVE TagsListed'
    <2>1. /\ UNCHANGED <<tFolder, tTags, tOpen, tList, tLapsed>>
          /\ tJobs[i].op \in Labels!Changes /\ tJobs[i].state \in {"done", "failed"}
          /\ Labels!NamesOf(tFolder)' = Labels!NamesOf(tFolder)
      BY <1>11 DEF Labels!TagOpFinished, Labels!Back, Labels!NamesOf
    <2>2. /\ Labels!Rest(i) \in Seq(Labels!Job) /\ TagsFit(Labels!Rest(i))
          /\ \A l \in 1..Len(tJobs) : l # i =>
                \E k \in 1..Len(Labels!Rest(i)) : Labels!Rest(i)[k] = tJobs[l]
      BY TagsRest, Zenon
    <2>3. CASE tJobs[i].at = tFolder /\ tJobs[i].state = "failed"
      <3>1. tWarnings' > 0
        <4>1. tWarnings' = tWarnings + 1
          BY <1>11, <2>3 DEF Labels!TagOpFinished
        <4> QED
          BY <1>1, <4>1
      <3> QED
        BY <3>1 DEF TagsListed, TagsRelisted
    <2>4. CASE tJobs[i].at = tFolder /\ tJobs[i].state # "failed"
      <3>1. CASE tOpen
        <4>1. TagsRelisted'
          BY <1>1, <1>3, <1>11, <2>1, <2>2, <2>4, <3>1 DEF Labels!TagOpFinished, Labels!Relist
        <4> QED
          BY <4>1 DEF TagsListed
      <3> QED
        BY <2>1, <3>1 DEF TagsListed
    <2>5. CASE tJobs[i].at # tFolder
      <3>1. tJobs' = Labels!Rest(i) /\ tWarnings' = tWarnings
        BY <1>11, <2>5 DEF Labels!TagOpFinished
      <3>2. \A k \in 1..Len(tJobs) : TagsRelists(tJobs[k]) =>
                \E m \in 1..Len(tJobs') : tJobs'[m] = tJobs[k]
        BY <2>2, <2>5, <3>1 DEF TagsRelists
      <3>3. TagsRelisted => TagsRelisted'
        BY <1>1, <2>1, <3>1, <3>2, TagsStillRelisted
      <3> QED
        BY <2>1, <3>3 DEF TagsListed
    <2> QED
      BY <2>3, <2>4, <2>5
  <1>12. CASE Labels!Acknowledge
    <2>1. CASE tOpen
      <3>1. TagsRelisted'
        BY <1>1, <1>3, <1>12, <2>1 DEF Labels!Acknowledge, Labels!Relist
      <3> QED
        BY <3>1 DEF TagsListed
    <2> QED
      BY <1>12, <2>1 DEF Labels!Acknowledge, TagsListed
  <1>13. ASSUME NEW f \in Trees \cup {None}, Labels!OpenFolder(f) PROVE ~tOpen'
    BY <1>13 DEF Labels!OpenFolder
  <1>14. CASE Labels!CloseDialog
    BY <1>5, <1>14 DEF Labels!CloseDialog
  <1> QED
    BY <1>4, <1>5, <1>6, <1>7, <1>8, <1>9, <1>10, <1>11, <1>12, <1>13, <1>14
    DEF Labels!Next, Labels!Commit, Labels!Select, Labels!NameChanged,
        Labels!DeleteClicked, Labels!DeleteRefused

LEMMA TagsNextInv ==
    ASSUME Labels!TagsAssumption, TagsInv, [Labels!Next]_Labels!vars PROVE TagsInv'
  <1>1. TagsBasics /\ TagsAlone /\ TagsListed
    BY DEF TagsInv
  <1>2. CASE UNCHANGED Labels!vars
    <2> USE DEF Labels!vars, Labels!git, Labels!dialog
    <2>1. TagsBasics'
      BY <1>1, <1>2 DEF TagsBasics, Labels!TypeOK, TagsFit, Labels!NamesOf
    <2>2. TagsAlone' /\ TagsListed'
      BY <1>1, <1>2
      DEF TagsAlone, TagsOnce, TagsChange, TagsListed, TagsRelisted, TagsRelists, Labels!NamesOf
    <2> QED
      BY <2>1, <2>2 DEF TagsInv
  <1>3. CASE Labels!Next
    <2>1. TagsBasics'
      BY <1>1, <1>3, TagsStepBasics
    <2>2. TagsAlone' /\ TagsListed'
      BY <1>1, <1>3, <2>1, TagsStepAlone, TagsStepListed
    <2> QED
      BY <2>1, <2>2 DEF TagsInv
  <1> QED
    BY <1>2, <1>3

LEMMA TagsHold == ASSUME TagsInv PROVE Labels!ListIsRead /\ Labels!BusyIsRunning
  <1>1. tJobs \in Seq(Labels!Job) /\ TagsAlone /\ TagsListed /\ Len(tJobs) \in Nat
        /\ DOMAIN tJobs = 1..Len(tJobs)
    BY DEF TagsInv, TagsBasics, Labels!TypeOK
  <1>2. Labels!ListIsRead
    <2> SUFFICES ASSUME tOpen, tJobs = <<>>, tWarnings = 0, ~tLapsed
                 PROVE  tList = Labels!NamesOf(tFolder)
      BY DEF Labels!ListIsRead, Labels!Quiet
    <2>1. Len(tJobs) = 0
      OBVIOUS
    <2> QED
      BY <1>1, <2>1 DEF TagsListed, TagsRelisted
  <1>3. Labels!BusyIsRunning
    BY <1>1 DEF Labels!BusyIsRunning, Labels!Running, TagsAlone, TagsOnce, TagsChange
  <1> QED
    BY <1>2, <1>3

\* A tag is written only where there is none, and else only deleted.
LEMMA TagsKept ==
    ASSUME Labels!TagsAssumption, TagsInv, [Labels!Next]_Labels!vars,
           NEW f \in Trees, NEW n \in Labels!NamesOf(f)
    PROVE  tTags'[f][n] \in {tTags[f][n], None}
  <1>1. TagsBasics /\ tTags \in [Trees -> [Names -> (1..MaxTagged) \cup {None}]]
        /\ n \in Names /\ tTags[f][n] # None
    BY DEF TagsInv, TagsBasics, Labels!NamesOf
  <1>2. CASE tTags' = tTags
    BY <1>2
  <1>3. CASE \E i \in DOMAIN tJobs : Labels!Run(i)
    <2>1. PICK i \in DOMAIN tJobs : Labels!Run(i)
      BY <1>3
    <2>2. PICK j \in Labels!Job : TagsRan(i, j)
      BY <1>1, <2>1, TagsRuns
    <2>3. CASE tTags' # tTags
      <3>1. PICK c \in (1..MaxTagged) \cup {None} :
               /\ tTags' = [tTags EXCEPT ![j.at][j.name] = c]
               /\ c # None => tTags[j.at][j.name] = None
        BY <2>2, <2>3 DEF TagsRan
      <3>2. CASE f = j.at /\ n = j.name
        BY <1>1, <3>1, <3>2
      <3>3. CASE f # j.at \/ n # j.name
        <4>1. tTags'[f][n] = tTags[f][n]
          BY <1>1, <3>1, <3>3
        <4> QED
          BY <4>1
      <3> QED
        BY <3>2, <3>3
    <2> QED
      BY <1>2, <2>3
  <1> QED
    BY <1>2, <1>3, Zenon
    DEF Labels!Next, Labels!vars, Labels!git, Labels!dialog, Labels!OpenFolder, Labels!Commit,
        Labels!TagsRequested, Labels!Select, Labels!NameChanged, Labels!CreateClicked,
        Labels!DeleteClicked, Labels!DeleteConfirmed, Labels!DeleteRefused, Labels!CloseDialog,
        Labels!TagsReady, Labels!TagOpFinished, Labels!Acknowledge

-----------------------------------------------------------------------------
(***************************************************************************)
(* Submodules.  The invariant says which calls a job has behind it, and    *)
(* which job or warning will put the rows right.                           *)
(***************************************************************************)
\* The places a call gives to a submodule.
NestedGives(c) ==
    CASE c = "setup"    -> {"gitmodules", "config", "modules", "work"}
      [] c = "init"     -> {"config"}
      [] c = "update"   -> {"modules", "work"}
      [] c = "finalize" -> {"index"}
      [] OTHER -> {}

\* todo are the last calls of op.
NestedLeft(op, todo) ==
    /\ Len(todo) <= Len(Nested!Calls[op])
    /\ \A k \in 1..Len(todo) :
          todo[k] = Nested!Calls[op][k + (Len(Nested!Calls[op]) - Len(todo))]

\* The calls before have had their effect on the places of the submodule.
NestedDid(op, todo, mine) ==
    \A k \in 1..(Len(Nested!Calls[op]) - Len(todo)) :
        IF op = "remove" THEN Nested!Calls[op][k] \notin mine
                         ELSE NestedGives(Nested!Calls[op][k]) \subseteq mine

NestedFits(j) ==
    /\ NestedLeft(j.op, j.todo)
    /\ j.state = "runs" => j.todo # <<>>
    /\ j.state = "done" => j.op = "list" \/ j.todo = <<>>
    /\ j.op # "list" => j.sub \in Subs
    /\ j.alone /\ j.op # "list" /\ j.state # "failed" =>
          NestedDid(j.op, j.todo, mHas[j.at][j.sub])

NestedApart(q) ==
    \A k, l \in 1..Len(q) : q[k].alone /\ Nested!SameSub(q[k], q[l]) => k = l

NestedPool(q) ==
    /\ q \in Seq(Nested!Job) /\ NestedApart(q)
    /\ \A k \in 1..Len(q) : NestedFits(q[k])

NestedRelists(j) ==
    /\ j.at = mFolder
    /\ (j.op = "list" /\ j.state = "done") => j.read = Nested!KnownIn(mFolder)

NestedRelisted == mWarnings > 0 \/ \E k \in 1..Len(mJobs) : NestedRelists(mJobs[k])

NestedListed == mFolder # None /\ ~mLapsed /\ mRows # Nested!KnownIn(mFolder) => NestedRelisted

NestedBasics ==
    /\ Nested!TypeOK
    /\ mWarnings > 0 => mFolder # None
    /\ NestedPool(mJobs)

NestedInv == NestedBasics /\ NestedListed

LEMMA CallsFacts ==
    /\ \A op \in Nested!Ops : /\ Nested!Calls[op] \in Seq(Nested!Steps)
                              /\ Len(Nested!Calls[op]) \in Nat \ {0}
    /\ \A op \in Nested!Ops \ {"remove"} : \A k \in 1..Len(Nested!Calls[op]) :
          /\ Nested!Calls[op][k] \notin Nested!Places
          /\ Nested!Calls[op][k] = "read" <=> op = "list"
          /\ op = "sync" => Nested!Calls[op][k] = "lookup"
    /\ \A k \in 1..Len(Nested!Calls["remove"]) :
          Nested!Calls["remove"][k] \in Nested!Places \cup {"lookup"}
    /\ Len(Nested!Calls["list"]) = 1
  <1> USE DEF Nested!Calls, Nested!AddCalls, Nested!Steps, Nested!Places
  <1>1. /\ Nested!Calls["list"] \in Seq(Nested!Steps) /\ Len(Nested!Calls["list"]) = 1
        /\ Nested!Calls["list"][1] = "read"
    OBVIOUS
  <1>2. /\ Nested!Calls["init"] \in Seq(Nested!Steps) /\ Len(Nested!Calls["init"]) = 3
        /\ Nested!Calls["init"][1] = "lookup" /\ Nested!Calls["init"][2] = "init"
        /\ Nested!Calls["init"][3] = "update"
    OBVIOUS
  <1>3. /\ Nested!Calls["update"] \in Seq(Nested!Steps) /\ Len(Nested!Calls["update"]) = 2
        /\ Nested!Calls["update"][1] = "lookup" /\ Nested!Calls["update"][2] = "update"
    OBVIOUS
  <1>4. /\ Nested!Calls["sync"] \in Seq(Nested!Steps) /\ Len(Nested!Calls["sync"]) = 1
        /\ Nested!Calls["sync"][1] = "lookup"
    OBVIOUS
  <1>5. /\ Nested!Calls["add"] \in Seq(Nested!Steps) /\ Len(Nested!Calls["add"]) = 5
        /\ Nested!Calls["add"][1] = "free" /\ Nested!Calls["add"][2] = "setup"
        /\ Nested!Calls["add"][3] = "init" /\ Nested!Calls["add"][4] = "update"
        /\ Nested!Calls["add"][5] = "finalize"
    OBVIOUS
  <1>6. /\ Nested!Calls["remove"] \in Seq(Nested!Steps) /\ Len(Nested!Calls["remove"]) = 6
        /\ Nested!Calls["remove"][1] = "lookup" /\ Nested!Calls["remove"][2] = "gitmodules"
        /\ Nested!Calls["remove"][3] = "config" /\ Nested!Calls["remove"][4] = "index"
        /\ Nested!Calls["remove"][5] = "modules" /\ Nested!Calls["remove"][6] = "work"
    OBVIOUS
  <1> HIDE DEF Nested!Calls, Nested!AddCalls, Nested!Steps
  <1>7. ASSUME NEW op \in Nested!Ops \ {"remove"}, NEW k \in 1..Len(Nested!Calls[op])
        PROVE  /\ Nested!Calls[op][k] \notin Nested!Places
               /\ Nested!Calls[op][k] = "read" <=> op = "list"
               /\ op = "sync" => Nested!Calls[op][k] = "lookup"
    <2>1. CASE op = "list"
      BY <1>1, <2>1
    <2>2. CASE op = "init"
      BY <1>2, <2>2
    <2>3. CASE op = "update"
      BY <1>3, <2>3
    <2>4. CASE op = "sync"
      BY <1>4, <2>4
    <2>5. CASE op = "add"
      BY <1>5, <2>5
    <2> QED
      BY <2>1, <2>2, <2>3, <2>4, <2>5 DEF Nested!Ops
  <1>8. ASSUME NEW k \in 1..Len(Nested!Calls["remove"])
        PROVE  Nested!Calls["remove"][k] \in Nested!Places \cup {"lookup"}
    BY <1>6
  <1>9. ASSUME NEW op \in Nested!Ops
        PROVE  Nested!Calls[op] \in Seq(Nested!Steps) /\ Len(Nested!Calls[op]) \in Nat \ {0}
    BY <1>1, <1>2, <1>3, <1>4, <1>5, <1>6 DEF Nested!Ops
  <1> QED
    BY <1>1, <1>7, <1>8, <1>9

\* Who did all calls of these operations left the submodule whole.
LEMMA NestedWhole ==
    ASSUME NEW mine \in SUBSET Nested!Places
    PROVE  /\ NestedDid("add", <<>>, mine) => mine = Nested!Places
           /\ NestedDid("remove", <<>>, mine) => mine = {}
           /\ NestedDid("init", <<>>, mine) => {"config", "modules", "work"} \subseteq mine
  <1> USE DEF Nested!Calls, Nested!AddCalls, Nested!Places
  <1>1. /\ Len(Nested!Calls["add"]) = 5
        /\ Nested!Calls["add"][2] = "setup" /\ Nested!Calls["add"][5] = "finalize"
    OBVIOUS
  <1>2. /\ Len(Nested!Calls["init"]) = 3
        /\ Nested!Calls["init"][2] = "init" /\ Nested!Calls["init"][3] = "update"
    OBVIOUS
  <1>3. /\ Len(Nested!Calls["remove"]) = 6
        /\ Nested!Calls["remove"][2] = "gitmodules"
        /\ Nested!Calls["remove"][3] = "config" /\ Nested!Calls["remove"][4] = "index"
        /\ Nested!Calls["remove"][5] = "modules" /\ Nested!Calls["remove"][6] = "work"
    OBVIOUS
  <1> HIDE DEF Nested!Calls, Nested!AddCalls
  <1>4. Len(<<>>) = 0
    OBVIOUS
  <1>5. ASSUME NestedDid("add", <<>>, mine) PROVE mine = Nested!Places
    <2>1. NestedGives("setup") \subseteq mine /\ NestedGives("finalize") \subseteq mine
      BY <1>1, <1>4, <1>5 DEF NestedDid
    <2> QED
      BY <2>1 DEF NestedGives
  <1>6. ASSUME NestedDid("init", <<>>, mine) PROVE {"config", "modules", "work"} \subseteq mine
    <2>1. NestedGives("init") \subseteq mine /\ NestedGives("update") \subseteq mine
      BY <1>2, <1>4, <1>6 DEF NestedDid
    <2> QED
      BY <2>1 DEF NestedGives
  <1>7. ASSUME NestedDid("remove", <<>>, mine) PROVE mine = {}
    <2>1. \A k \in 1..6 : Nested!Calls["remove"][k] \notin mine
      BY <1>3, <1>4, <1>7 DEF NestedDid
    <2> QED
      BY <1>3, <2>1
  <1> QED
    BY <1>5, <1>6, <1>7

\* The places after call c.
NestedAfter(c, mine) ==
    IF c \in Nested!Places THEN mine \ {c} ELSE mine \cup NestedGives(c)

LEMMA NestedGoesOn ==
    ASSUME NEW op \in Nested!Ops, NEW todo \in Seq(Nested!Steps), todo # <<>>,
           NestedLeft(op, todo)
    PROVE  /\ Tail(todo) \in Seq(Nested!Steps) /\ NestedLeft(op, Tail(todo))
           /\ Len(todo) = 1 <=> Tail(todo) = <<>>
           /\ op # "list" => Head(todo) # "read"
           /\ op = "list" => Head(todo) = "read"
           /\ op = "sync" => \A mine : NestedAfter(Head(todo), mine) = mine
           /\ \A mine \in SUBSET Nested!Places :
                 NestedDid(op, todo, mine) =>
                     NestedDid(op, Tail(todo), NestedAfter(Head(todo), mine))
  <1> DEFINE calls == Nested!Calls[op]
             rest  == Tail(todo)
             n     == Len(calls) - Len(todo)
  <1>1. calls \in Seq(Nested!Steps) /\ Len(calls) \in Nat
    BY CallsFacts
  <1>2. /\ Len(todo) \in Nat \ {0} /\ rest \in Seq(Nested!Steps) /\ Len(rest) = Len(todo) - 1
        /\ \A k \in 1..Len(rest) : rest[k] = todo[k + 1]
        /\ Len(todo) = 1 <=> rest = <<>>
        /\ Head(todo) = todo[1]
    <2>1. /\ Len(todo) \in Nat \ {0} /\ rest \in Seq(Nested!Steps) /\ Len(rest) = Len(todo) - 1
          /\ \A k \in 1..Len(rest) : rest[k] = todo[k + 1]
      OBVIOUS
    <2>2. Head(todo) = todo[1]
      OBVIOUS
    <2> HIDE DEF rest
    <2>3. rest = <<>> <=> Len(rest) = 0
      BY <2>1
    <2> QED
      BY <2>1, <2>2, <2>3
  <1>3. n \in Nat /\ todo[1] = calls[n + 1] /\ n + 1 \in 1..Len(calls)
    BY <1>1, <1>2 DEF NestedLeft
  <1>4. NestedLeft(op, rest)
    <2>1. Len(rest) <= Len(calls)
      BY <1>1, <1>2 DEF NestedLeft
    <2>2. ASSUME NEW k \in 1..Len(rest)
          PROVE  rest[k] = calls[k + (Len(calls) - Len(rest))]
      <3> HIDE DEF calls, rest
      <3>1. k + 1 \in 1..Len(todo) /\ k + 1 + n = k + (Len(calls) - Len(rest))
        BY <1>1, <1>2
      <3>2. todo[k + 1] = calls[k + 1 + n]
        BY <3>1 DEF NestedLeft, calls, n
      <3> QED
        BY <1>2, <3>1, <3>2
    <2> QED
      BY <2>1, <2>2 DEF NestedLeft
  <1>5. calls[n + 1] = "read" <=> op = "list"
    BY <1>3, CallsFacts DEF Nested!Places
  <1>6. op = "sync" => calls[n + 1] = "lookup"
    BY <1>3, CallsFacts
  <1>7. ASSUME NEW mine \in SUBSET Nested!Places, NestedDid(op, todo, mine)
        PROVE  NestedDid(op, rest, NestedAfter(calls[n + 1], mine))
    <2>1. Len(calls) - Len(rest) = n + 1
      BY <1>1, <1>2
    <2> SUFFICES ASSUME NEW k \in 1..(n + 1)
                 PROVE  IF op = "remove"
                        THEN calls[k] \notin NestedAfter(calls[n + 1], mine)
                        ELSE NestedGives(calls[k]) \subseteq NestedAfter(calls[n + 1], mine)
      BY <2>1 DEF NestedDid
    <2>2. k \in 1..n \/ k = n + 1
      BY <1>3
    <2>3. k \in 1..n => IF op = "remove" THEN calls[k] \notin mine
                                         ELSE NestedGives(calls[k]) \subseteq mine
      BY <1>7 DEF NestedDid
    <2> HIDE DEF calls, n
    <2>4. CASE op = "remove"
      <3>1. calls[n + 1] \in Nested!Places \cup {"lookup"}
        BY <1>3, <2>4, CallsFacts DEF calls
      <3> QED
        BY <2>2, <2>3, <2>4, <3>1 DEF NestedAfter, NestedGives, Nested!Places
    <2>5. CASE op # "remove"
      <3>1. calls[n + 1] \notin Nested!Places
        BY <1>3, <2>5, CallsFacts DEF calls
      <3> QED
        BY <2>2, <2>3, <2>5, <3>1 DEF NestedAfter
    <2> QED
      BY <2>4, <2>5
  <1> HIDE DEF calls, rest, n
  <1>8. /\ rest \in Seq(Nested!Steps) /\ NestedLeft(op, rest)
        /\ Len(todo) = 1 <=> rest = <<>>
        /\ op # "list" => Head(todo) # "read"
        /\ op = "list" => Head(todo) = "read"
        /\ op = "sync" => \A mine : NestedAfter(Head(todo), mine) = mine
        /\ \A mine \in SUBSET Nested!Places :
              NestedDid(op, todo, mine) => NestedDid(op, rest, NestedAfter(Head(todo), mine))
    BY <1>2, <1>3, <1>4, <1>5, <1>6, <1>7, Zenon DEF NestedAfter, NestedGives, Nested!Places
  <1> QED
    BY <1>8 DEF rest

LEMMA NestedTyped ==
    ASSUME Nested!TypeOK, NEW i \in DOMAIN mJobs
    PROVE  /\ i \in 1..Len(mJobs) /\ mJobs[i] \in Nested!Job /\ mJobs \in Seq(Nested!Job)
           /\ Len(mJobs) \in Nat /\ mJobs[i].op \in Nested!Ops
           /\ mJobs[i].at \in Clones /\ mJobs[i].sub \in Subs \cup {None}
           /\ mJobs[i].todo \in Seq(Nested!Steps) /\ mJobs[i].read \subseteq Subs
           /\ mJobs[i].state \in {"runs", "done", "failed"} /\ mJobs[i].alone \in BOOLEAN
           /\ mJobs[i].sub \in Subs => mHas[mJobs[i].at][mJobs[i].sub] \in SUBSET Nested!Places
  <1>1. /\ i \in 1..Len(mJobs) /\ mJobs[i] \in Nested!Job /\ mJobs \in Seq(Nested!Job)
        /\ Len(mJobs) \in Nat
    BY DEF Nested!TypeOK
  <1>2. /\ mJobs[i].op \in Nested!Ops
        /\ mJobs[i].at \in Clones /\ mJobs[i].sub \in Subs \cup {None}
        /\ mJobs[i].todo \in Seq(Nested!Steps) /\ mJobs[i].read \subseteq Subs
        /\ mJobs[i].state \in {"runs", "done", "failed"}
    BY <1>1 DEF Nested!Job
  <1>3. mJobs[i].alone \in BOOLEAN
    BY <1>1 DEF Nested!Job
  <1>4. mJobs[i].sub \in Subs => mHas[mJobs[i].at][mJobs[i].sub] \in SUBSET Nested!Places
    BY <1>2 DEF Nested!TypeOK
  <1> QED
    BY <1>1, <1>2, <1>3, <1>4

NestedJob(i, todo, read, state) ==
    [mJobs[i] EXCEPT !.todo = todo, !.read = read, !.state = state]
NestedCrowded(i, todo, state) ==
    [mJobs[i] EXCEPT !.todo = todo, !.state = state, !.alone = FALSE]

\* What job i is after a step of the pool, and what the step did.
NestedRan(i, j) ==
    /\ j.op = mJobs[i].op /\ j.at = mJobs[i].at /\ j.sub = mJobs[i].sub
    /\ mJobs[i].state = "runs" /\ (j.alone => mJobs[i].alone) /\ NestedFits(j)'
    /\ \/ mHas' = mHas
       \/ /\ Nested!Changing(j)
          /\ \E m \in SUBSET Nested!Places : mHas' = [mHas EXCEPT ![j.at][j.sub] = m]
    /\ (j.op = "list" /\ j.state = "done") => j.read = Nested!KnownIn(j.at)

LEMMA NestedRuns ==
    ASSUME Nested!TypeOK, NEW i \in DOMAIN mJobs, NestedFits(mJobs[i]), Nested!Run(i)
    PROVE  \E j \in Nested!Job : NestedRan(i, j) /\ mJobs' = [mJobs EXCEPT ![i] = j]
  <1> USE DEF Nested!Call, Nested!Mine
  <1>1. /\ mJobs[i] \in Nested!Job /\ mJobs[i].op \in Nested!Ops
        /\ mJobs[i].at \in Clones /\ mJobs[i].sub \in Subs \cup {None}
        /\ mJobs[i].todo \in Seq(Nested!Steps) /\ mJobs[i].read \subseteq Subs
        /\ mJobs[i].alone \in BOOLEAN /\ mJobs[i].state = "runs"
        /\ mJobs[i].sub \in Subs => mHas[mJobs[i].at][mJobs[i].sub] \in SUBSET Nested!Places
        /\ mHas \in [Clones -> [Subs -> SUBSET Nested!Places]]
    <2>1. /\ mJobs[i] \in Nested!Job /\ mJobs[i].op \in Nested!Ops
          /\ mJobs[i].at \in Clones /\ mJobs[i].sub \in Subs \cup {None}
          /\ mJobs[i].todo \in Seq(Nested!Steps) /\ mJobs[i].read \subseteq Subs
          /\ mJobs[i].sub \in Subs => mHas[mJobs[i].at][mJobs[i].sub] \in SUBSET Nested!Places
      BY NestedTyped
    <2>2. mJobs[i].alone \in BOOLEAN
      BY NestedTyped
    <2>3. mJobs[i].state = "runs" /\ mHas \in [Clones -> [Subs -> SUBSET Nested!Places]]
      BY DEF Nested!Run, Nested!TypeOK
    <2> QED
      BY <2>1, <2>2, <2>3
  <1>2. /\ NestedLeft(mJobs[i].op, mJobs[i].todo) /\ mJobs[i].todo # <<>>
        /\ mJobs[i].op # "list" => mJobs[i].sub \in Subs
        /\ mJobs[i].alone /\ mJobs[i].op # "list" =>
              NestedDid(mJobs[i].op, mJobs[i].todo, mHas[mJobs[i].at][mJobs[i].sub])
    BY <1>1 DEF NestedFits
  <1>3. PICK c \in Nested!Steps, rest \in Seq(Nested!Steps) :
            c = Head(mJobs[i].todo) /\ rest = Tail(mJobs[i].todo)
    <2>1. PICK todo \in Seq(Nested!Steps) : todo = mJobs[i].todo
      BY <1>1
    <2>2. todo # <<>>
      BY <1>2, <2>1
    <2>3. Head(todo) \in Nested!Steps /\ Tail(todo) \in Seq(Nested!Steps)
      BY <2>2
    <2> QED
      BY <2>1, <2>3, Zenon
  <1>4. /\ NestedLeft(mJobs[i].op, rest) /\ (Len(mJobs[i].todo) = 1 <=> rest = <<>>)
        /\ (c = "read" <=> mJobs[i].op = "list")
        /\ mJobs[i].op = "sync" => \A mine : NestedAfter(c, mine) = mine
        /\ \A mine \in SUBSET Nested!Places :
              NestedDid(mJobs[i].op, mJobs[i].todo, mine) =>
                  NestedDid(mJobs[i].op, rest, NestedAfter(c, mine))
    <2>1. PICK op \in Nested!Ops, todo \in Seq(Nested!Steps) :
              op = mJobs[i].op /\ todo = mJobs[i].todo
      BY <1>1
    <2>2. todo # <<>> /\ NestedLeft(op, todo)
      BY <1>2, <2>1
    <2> QED
      BY <1>3, <2>1, <2>2, NestedGoesOn, Zenon
  <1>5. ASSUME NEW todo \in Seq(Nested!Steps), NEW read \in SUBSET Subs,
               NEW state \in {"runs", "done", "failed"}
        PROVE  \E j \in Nested!Job :
                  /\ j.op = mJobs[i].op /\ j.at = mJobs[i].at /\ j.sub = mJobs[i].sub
                  /\ j.todo = todo /\ j.read = read /\ j.state = state
                  /\ j.alone = mJobs[i].alone
                  /\ j = NestedJob(i, todo, read, state)
    <2>1. PICK j : j = NestedJob(i, todo, read, state)
      OBVIOUS
    <2>2. /\ j.op = mJobs[i].op /\ j.at = mJobs[i].at /\ j.sub = mJobs[i].sub
          /\ j.todo = todo /\ j.read = read /\ j.state = state /\ j.alone = mJobs[i].alone
          /\ j \in Nested!Job
      BY <1>1, <2>1, Zenon DEF NestedJob, Nested!Job
    <2> QED
      BY <2>1, <2>2
  <1>13. ASSUME NEW todo \in Seq(Nested!Steps), NEW state \in {"runs", "done", "failed"}
        PROVE  \E j \in Nested!Job :
                  /\ j.op = mJobs[i].op /\ j.at = mJobs[i].at /\ j.sub = mJobs[i].sub
                  /\ j.todo = todo /\ j.read = mJobs[i].read /\ j.state = state /\ ~j.alone
                  /\ j = NestedCrowded(i, todo, state)
    <2>1. PICK j : j = NestedCrowded(i, todo, state)
      OBVIOUS
    <2>2. /\ j.op = mJobs[i].op /\ j.at = mJobs[i].at /\ j.sub = mJobs[i].sub
          /\ j.todo = todo /\ j.read = mJobs[i].read /\ j.state = state /\ ~j.alone
          /\ j \in Nested!Job
      BY <1>1, <2>1, Zenon DEF NestedCrowded, Nested!Job
    <2> QED
      BY <2>1, <2>2
  <1>6. PICK read \in SUBSET Subs : read = mJobs[i].read
    BY <1>1
  <1>14. PICK state \in {"runs", "done", "failed"} : state = IF rest = <<>> THEN "done" ELSE "runs"
    OBVIOUS
  \* A call is done with, well or badly.
  <1>7. ASSUME NEW j \in Nested!Job, j.op = mJobs[i].op, j.at = mJobs[i].at,
               j.sub = mJobs[i].sub, j.todo = rest, j.state = state, c # "read",
               j.alone => mJobs[i].alone /\ mHas'[j.at][j.sub] = NestedAfter(c, mHas[j.at][j.sub])
        PROVE  NestedFits(j)'
    <2>1. NestedLeft(j.op, j.todo) /\ j.op # "list" /\ j.sub \in Subs
      BY <1>2, <1>4, <1>7
    <2>2. (j.state = "runs" => j.todo # <<>>) /\ (j.state = "done" => j.todo = <<>>)
      BY <1>7, <1>14
    <2>3. ASSUME j.alone PROVE NestedDid(j.op, j.todo, mHas'[j.at][j.sub])
      <3>1. mHas[j.at][j.sub] \in SUBSET Nested!Places
            /\ NestedDid(j.op, mJobs[i].todo, mHas[j.at][j.sub])
        BY <1>1, <1>2, <1>7, <2>1, <2>3
      <3> QED
        BY <1>4, <1>7, <2>3, <3>1
    <2> QED
      BY <2>1, <2>2, <2>3 DEF NestedFits
  <1>8. ASSUME NEW j \in Nested!Job, NestedRan(i, j), mJobs' = [mJobs EXCEPT ![i] = j]
        PROVE  \E k \in Nested!Job : NestedRan(i, k) /\ mJobs' = [mJobs EXCEPT ![i] = k]
    BY <1>8, Zenon
  <1>9. CASE Nested!Perform(i)
    <2>1. c # "read" /\ Nested!Proceed(i, mJobs[i].alone) /\ mJobs[i].op # "list"
          /\ mJobs[i].sub \in Subs
      BY <1>2, <1>3, <1>4, <1>9 DEF Nested!Perform
    <2>2. PICK m \in SUBSET Nested!Places :
              m = NestedAfter(c, mHas[mJobs[i].at][mJobs[i].sub])
      <3>1. NestedAfter(c, mHas[mJobs[i].at][mJobs[i].sub]) \in SUBSET Nested!Places
        BY <1>1, <2>1 DEF NestedAfter, NestedGives, Nested!Places
      <3> QED
        BY <3>1
    <2>3. mHas' = [mHas EXCEPT ![mJobs[i].at][mJobs[i].sub] = m]
      <3>1. Nested!After(i) = m
        BY <1>3, <2>2, Zenon DEF Nested!After, NestedAfter, NestedGives, Nested!Places
      <3> QED
        BY <1>9, <3>1 DEF Nested!Perform
    <2>4. mHas'[mJobs[i].at][mJobs[i].sub] = m
      <3>1. mHas' = [mHas EXCEPT ![mJobs[i].at] = [@ EXCEPT ![mJobs[i].sub] = m]]
        BY <2>3
      <3> QED
        BY <1>1, <2>1, <3>1
    <2>5. PICK j \in Nested!Job :
                  /\ j.op = mJobs[i].op /\ j.at = mJobs[i].at /\ j.sub = mJobs[i].sub
                  /\ j.todo = rest /\ j.state = state /\ j.alone = mJobs[i].alone
                  /\ j = NestedJob(i, rest, read, state)
      BY <1>5
    <2>6. mJobs' = [mJobs EXCEPT ![i] = j]
      <3>1. NestedJob(i, rest, read, state)
            = [mJobs[i] EXCEPT !.todo = rest, !.alone = mJobs[i].alone, !.state = state]
        BY <1>1, <1>6, Zenon DEF NestedJob, Nested!Job
      <3>2. mJobs' = [mJobs EXCEPT ![i] =
                [mJobs[i] EXCEPT !.todo = rest, !.alone = mJobs[i].alone, !.state = state]]
        BY <1>1, <1>3, <1>4, <1>14, <2>1, Zenon DEF Nested!Proceed
      <3> QED
        BY <2>5, <3>1, <3>2
    <2>9. NestedFits(j)'
      BY <1>7, <2>1, <2>2, <2>4, <2>5
    <2>7. mHas' = mHas \/ Nested!Changing(j)
      <3>1. CASE mJobs[i].op = "sync"
        <4>1. m = mHas[mJobs[i].at][mJobs[i].sub]
          BY <1>4, <2>2, <3>1
        <4>2. mHas' = mHas
          BY <1>1, <2>1, <2>3, <4>1, Zenon
        <4> QED
          BY <4>2
      <3>2. CASE mJobs[i].op # "sync"
        BY <2>1, <2>5, <3>2 DEF Nested!Changing
      <3> QED
        BY <3>1, <3>2
    <2>8. NestedRan(i, j)
      BY <1>1, <2>1, <2>3, <2>5, <2>7, <2>9, Zenon DEF NestedRan
    <2> QED
      BY <1>8, <2>6, <2>8, Zenon
  <1>10. CASE Nested!PassOver(i)
    <2>1. c # "read" /\ Nested!Proceed(i, FALSE) /\ mHas' = mHas /\ mJobs[i].op # "list"
      BY <1>3, <1>4, <1>10, Zenon DEF Nested!PassOver, Nested!Places
    <2>2. PICK j \in Nested!Job :
                  /\ j.op = mJobs[i].op /\ j.at = mJobs[i].at /\ j.sub = mJobs[i].sub
                  /\ j.todo = rest /\ j.state = state /\ ~j.alone
                  /\ j = NestedCrowded(i, rest, state)
      BY <1>13
    <2>3. mJobs' = [mJobs EXCEPT ![i] = j]
      <3>1. NestedCrowded(i, rest, state)
            = [mJobs[i] EXCEPT !.todo = rest, !.alone = FALSE, !.state = state]
        BY <1>1, Zenon DEF NestedCrowded, Nested!Job
      <3>2. mJobs' = [mJobs EXCEPT ![i] =
                [mJobs[i] EXCEPT !.todo = rest, !.alone = FALSE, !.state = state]]
        BY <1>1, <1>3, <1>4, <1>14, <2>1, Zenon DEF Nested!Proceed
      <3> QED
        BY <2>2, <3>1, <3>2
    <2>4. NestedFits(j)'
      BY <1>7, <2>1, <2>2
    <2>5. NestedRan(i, j)
      BY <1>1, <2>1, <2>2, <2>4 DEF NestedRan
    <2> QED
      BY <1>8, <2>3, <2>5, Zenon
  <1>11. CASE Nested!Fails(i)
    <2>1. <<>> \in Seq(Nested!Steps) /\ Len(<<>>) = 0
      OBVIOUS
    <2>2. PICK e \in Seq(Nested!Steps) : e = <<>>
      BY <2>1, Zenon
    <2>3. PICK j \in Nested!Job :
                  /\ j.op = mJobs[i].op /\ j.at = mJobs[i].at /\ j.sub = mJobs[i].sub
                  /\ j.todo = e /\ j.state = "failed" /\ ~j.alone
                  /\ j = NestedCrowded(i, e, "failed")
      BY <1>13
    <2>4. mJobs' = [mJobs EXCEPT ![i] = j]
      <3>1. NestedCrowded(i, e, "failed")
            = [mJobs[i] EXCEPT !.state = "failed", !.todo = <<>>, !.alone = FALSE]
        BY <1>1, <2>2, Zenon DEF NestedCrowded, Nested!Job
      <3>2. mJobs' = [mJobs EXCEPT ![i] =
                          [mJobs[i] EXCEPT !.state = "failed", !.todo = <<>>, !.alone = FALSE]]
        BY <1>11, Zenon DEF Nested!Fails
      <3> QED
        BY <2>3, <3>1, <3>2, Zenon
    <2>5. NestedFits(j)'
      <3>1. NestedLeft(j.op, j.todo)
        <4>1. Len(j.todo) = 0 /\ Len(Nested!Calls[j.op]) \in Nat
          BY <1>1, <2>1, <2>2, <2>3, CallsFacts
        <4> QED
          BY <4>1 DEF NestedLeft
      <3> QED
        BY <1>2, <2>2, <2>3, <3>1 DEF NestedFits
    <2>6. NestedRan(i, j)
      BY <1>1, <1>11, <2>2, <2>3, <2>5 DEF NestedRan, Nested!Fails
    <2> QED
      BY <1>8, <2>4, <2>6, Zenon
  <1>12. CASE Nested!listSubmodules(i)
    <2>1. PICK r \in SUBSET Subs : r = Nested!KnownIn(mJobs[i].at)
      BY Zenon DEF Nested!KnownIn
    <2>2. PICK todo \in Seq(Nested!Steps) : todo = mJobs[i].todo
      BY <1>1
    <2>3. PICK j \in Nested!Job :
                  /\ j.op = mJobs[i].op /\ j.at = mJobs[i].at /\ j.sub = mJobs[i].sub
                  /\ j.todo = todo /\ j.read = r /\ j.state = "done"
                  /\ j.alone = mJobs[i].alone
                  /\ j = NestedJob(i, todo, r, "done")
      BY <1>5
    <2>4. mJobs' = [mJobs EXCEPT ![i] = j]
      <3>1. NestedJob(i, todo, r, "done")
            = [mJobs[i] EXCEPT !.state = "done", !.read = r]
        BY <1>1, <2>2, Zenon DEF NestedJob, Nested!Job
      <3>2. mJobs' = [mJobs EXCEPT ![i] = [mJobs[i] EXCEPT !.state = "done", !.read = r]]
        BY <1>12, <2>1, Zenon DEF Nested!listSubmodules
      <3> QED
        BY <2>3, <3>1, <3>2, Zenon
    <2>5. j.op = "list" /\ mHas' = mHas
      BY <1>3, <1>4, <1>12, <2>3 DEF Nested!listSubmodules
    <2>6. NestedFits(j)'
      BY <1>2, <2>2, <2>3, <2>5 DEF NestedFits
    <2>7. NestedRan(i, j)
      BY <1>1, <2>1, <2>2, <2>3, <2>5, <2>6 DEF NestedRan
    <2> QED
      BY <1>8, <2>4, <2>7, Zenon
  <1> QED
    BY <1>9, <1>10, <1>11, <1>12 DEF Nested!Run

LEMMA NestedTask ==
    ASSUME Nested!TypeOK, NEW op \in Nested!Ops, NEW f \in Clones, NEW s \in Subs \cup {None},
           op # "list" => s \in Subs
    PROVE  /\ Nested!Task(op, f, s) \in Nested!Job /\ NestedFits(Nested!Task(op, f, s))
           /\ Nested!Task(op, f, s).op = op /\ Nested!Task(op, f, s).at = f
           /\ Nested!Task(op, f, s).sub = s /\ Nested!Task(op, f, s).state = "runs"
  <1>1. Nested!Calls[op] \in Seq(Nested!Steps) /\ Len(Nested!Calls[op]) \in Nat \ {0}
    BY CallsFacts
  <1>2. PICK c \in Seq(Nested!Steps) : c = Nested!Calls[op] /\ Len(c) \in Nat \ {0}
    BY <1>1
  <1>3. PICK j : j = Nested!Task(op, f, s)
    OBVIOUS
  <1>4. /\ j \in Nested!Job /\ j.op = op /\ j.at = f /\ j.sub = s /\ j.state = "runs"
        /\ j.todo = c
    BY <1>2, <1>3 DEF Nested!Task, Nested!Job
  <1>5. c # <<>> /\ NestedLeft(op, c)
    <2>1. \A k \in 1..Len(c) : k + (Len(c) - Len(c)) = k
      BY <1>2
    <2> QED
      BY <1>2, <2>1 DEF NestedLeft
  <1>6. \A mine : NestedDid(op, c, mine)
    BY <1>2 DEF NestedDid
  <1>7. NestedFits(j)
    BY <1>4, <1>5, <1>6 DEF NestedFits
  <1> QED
    BY <1>3, <1>4, <1>7

LEMMA NestedLists ==
    ASSUME Nested!TypeOK, NEW q, NestedPool(q), NEW f \in Clones,
           NEW r, r = Append(q, Nested!Task("list", f, None))
    PROVE  /\ NestedPool(r) /\ \A k \in 1..Len(q) : k \in 1..Len(r) /\ r[k] = q[k]
           /\ \E k \in 1..Len(r) : r[k].op = "list" /\ r[k].at = f /\ r[k].state = "runs"
  <1>1. "list" \in Nested!Ops /\ q \in Seq(Nested!Job)
    BY DEF Nested!Ops, NestedPool
  <1>2. PICK t \in Nested!Job : /\ t = Nested!Task("list", f, None) /\ NestedFits(t)
                                /\ t.op = "list" /\ t.at = f /\ t.state = "runs"
    BY <1>1, NestedTask
  <1>3. /\ r \in Seq(Nested!Job) /\ Len(r) = Len(q) + 1 /\ Len(q) \in Nat
        /\ r[Len(q) + 1] = t /\ Len(q) + 1 \in 1..Len(r)
        /\ \A k \in 1..Len(q) : k \in 1..Len(r) /\ r[k] = q[k]
        /\ \A k \in 1..Len(r) : r[k] = t \/ (k \in 1..Len(q) /\ r[k] = q[k])
    BY <1>1, <1>2, AppendFacts
  <1>4. \A j : ~Nested!SameSub(t, j) /\ ~Nested!SameSub(j, t)
    BY <1>2 DEF Nested!SameSub, Nested!Changing
  <1>5. NestedApart(r)
    BY <1>3, <1>4 DEF NestedApart, NestedPool
  <1>6. \A k \in 1..Len(r) : NestedFits(r[k])
    BY <1>2, <1>3 DEF NestedPool
  <1> QED
    BY <1>2, <1>3, <1>5, <1>6 DEF NestedPool

\* A job as it was, or no longer alone.
NestedLike(j, k) ==
    /\ j.op = k.op /\ j.at = k.at /\ j.sub = k.sub /\ j.todo = k.todo /\ j.read = k.read
    /\ j.state = k.state /\ (j.alone => k.alone)

LEMMA NestedLess ==
    ASSUME NEW j \in Nested!Job, NEW p
    PROVE  /\ [j EXCEPT !.alone = @ /\ ~p] \in Nested!Job
           /\ NestedLike([j EXCEPT !.alone = @ /\ ~p], j)
           /\ [j EXCEPT !.alone = @ /\ ~p].alone => ~p
  <1>1. CASE p
    <2>1. [j EXCEPT !.alone = @ /\ ~p] = [j EXCEPT !.alone = FALSE]
      BY <1>1, Zenon
    <2> QED
      BY <1>1, <2>1, Zenon DEF Nested!Job, NestedLike
  <1>2. CASE ~p
    <2>1. (j.alone /\ ~p) = j.alone
      BY <1>2 DEF Nested!Job
    <2>2. [j EXCEPT !.alone = @ /\ ~p] = j
      BY <2>1 DEF Nested!Job
    <2> QED
      BY <1>2, <2>2, Zenon DEF NestedLike
  <1> QED
    BY <1>1, <1>2

LEMMA ConcatFacts ==
    ASSUME NEW S, NEW s \in Seq(S), NEW t \in Seq(S)
    PROVE  /\ s \o t \in Seq(S) /\ Len(s \o t) = Len(s) + Len(t)
           /\ \A k \in 1..Len(s) : k \in 1..Len(s \o t) /\ (s \o t)[k] = s[k]
           /\ \A k \in 1..Len(t) :
                 Len(s) + k \in 1..Len(s \o t) /\ (s \o t)[Len(s) + k] = t[k]
  <1>1. Len(s) \in Nat /\ Len(t) \in Nat /\ s \o t \in Seq(S) /\ Len(s \o t) = Len(s) + Len(t)
    OBVIOUS
  <1>2. ASSUME NEW k \in 1..Len(s) PROVE k \in 1..Len(s \o t) /\ (s \o t)[k] = s[k]
    OBVIOUS
  <1>3. ASSUME NEW k \in 1..Len(t)
        PROVE  Len(s) + k \in 1..Len(s \o t) /\ (s \o t)[Len(s) + k] = t[k]
    <2>1. Len(s) + k \in 1..(Len(s) + Len(t)) /\ ~(Len(s) + k <= Len(s)) /\ Len(s) + k - Len(s) = k
      BY <1>1
    <2> QED
      BY <1>1, <2>1
  <1> QED
    BY <1>1, <1>2, <1>3

LEMMA NestedOwn ==
    ASSUME NEW j \in Nested!Job, j.alone, NEW p
    PROVE  /\ [j EXCEPT !.alone = ~p] \in Nested!Job
           /\ NestedLike([j EXCEPT !.alone = ~p], j)
           /\ [j EXCEPT !.alone = ~p].alone => ~p
  <1>1. CASE p
    <2>1. [j EXCEPT !.alone = ~p] = [j EXCEPT !.alone = FALSE]
      BY <1>1, Zenon
    <2> QED
      BY <1>1, <2>1, Zenon DEF Nested!Job, NestedLike
  <1>2. CASE ~p
    <2>1. [j EXCEPT !.alone = ~p] = [j EXCEPT !.alone = TRUE]
      BY <1>2, Zenon
    <2> QED
      BY <1>2, <2>1 DEF Nested!Job, NestedLike
  <1> QED
    BY <1>1, <1>2

LEMMA NestedSame ==
    ASSUME NEW j, NEW k, NestedLike(j, k)
    PROVE  /\ \A l : Nested!SameSub(j, l) <=> Nested!SameSub(k, l)
           /\ \A l : Nested!SameSub(l, j) <=> Nested!SameSub(l, k)
           /\ \A l : Nested!SameSub(k, l) <=> Nested!SameSub(l, k)
           /\ NestedFits(k) => NestedFits(j)
  <1>1. \A l : Nested!SameSub(j, l) <=> Nested!SameSub(k, l)
    BY DEF NestedLike, Nested!SameSub, Nested!Changing
  <1>2. \A l : Nested!SameSub(l, j) <=> Nested!SameSub(l, k)
    BY DEF NestedLike, Nested!SameSub, Nested!Changing
  <1>3. \A l : Nested!SameSub(k, l) <=> Nested!SameSub(l, k)
    BY DEF Nested!SameSub
  <1>4. NestedFits(k) => NestedFits(j)
    BY DEF NestedLike, NestedFits
  <1> QED
    BY <1>1, <1>2, <1>3, <1>4

LEMMA NestedSubmits ==
    ASSUME NEW q, NestedPool(q), NEW js \in Seq(Nested!Job),
           \A k \in 1..Len(js) : NestedFits(js[k]) /\ js[k].alone,
           \A k, l \in 1..Len(js) : Nested!SameSub(js[k], js[l]) => k = l,
           NEW r, r = Nested!Submit(q, js)
    PROVE  /\ NestedPool(r)
           /\ \A k \in 1..Len(q) : k \in 1..Len(r) /\ NestedLike(r[k], q[k])
           /\ \A k \in 1..Len(js) :
                 Len(q) + k \in 1..Len(r) /\ NestedLike(r[Len(q) + k], js[k])
  <1> DEFINE a == [i \in DOMAIN q |-> [q[i] EXCEPT !.alone = @ /\ ~Nested!Met(js, q[i])]]
             b == [i \in DOMAIN js |-> [js[i] EXCEPT !.alone = ~Nested!Met(q, js[i])]]
  <1>1. /\ q \in Seq(Nested!Job) /\ Len(q) \in Nat /\ DOMAIN q = 1..Len(q)
        /\ Len(js) \in Nat /\ DOMAIN js = 1..Len(js)
    BY DEF NestedPool
  <1>2. \A k \in 1..Len(q) : q[k] \in Nested!Job /\ NestedFits(q[k])
    BY <1>1 DEF NestedPool
  <1>3. \A k \in 1..Len(js) : js[k] \in Nested!Job
    BY <1>1
  <1>4. ASSUME NEW k \in 1..Len(q)
        PROVE  /\ a[k] \in Nested!Job /\ NestedLike(a[k], q[k])
               /\ a[k].alone => ~Nested!Met(js, q[k])
    <2>1. PICK j \in Nested!Job : j = q[k]
      BY <1>2
    <2>2. a[k] = [j EXCEPT !.alone = @ /\ ~Nested!Met(js, j)]
      BY <1>1, <2>1
    <2> HIDE DEF a
    <2> QED
      BY <2>1, <2>2, NestedLess
  <1>5. ASSUME NEW k \in 1..Len(js)
        PROVE  /\ b[k] \in Nested!Job /\ NestedLike(b[k], js[k])
               /\ b[k].alone => ~Nested!Met(q, js[k])
    <2>1. PICK j \in Nested!Job : j = js[k] /\ j.alone
      BY <1>3
    <2>2. b[k] = [j EXCEPT !.alone = ~Nested!Met(q, j)]
      BY <1>1, <2>1
    <2> HIDE DEF b
    <2> QED
      BY <2>1, <2>2, NestedOwn
  <1>6. a \in Seq(Nested!Job) /\ Len(a) = Len(q)
    <2>1. a \in [1..Len(q) -> Nested!Job]
      <3>1. a = [i \in 1..Len(q) |-> a[i]]
        BY <1>1
      <3> HIDE DEF a
      <3> QED
        BY <1>4, <3>1
    <2> HIDE DEF a
    <2> QED
      BY <1>1, <2>1
  <1>7. b \in Seq(Nested!Job) /\ Len(b) = Len(js)
    <2>1. b \in [1..Len(js) -> Nested!Job]
      <3>1. b = [i \in 1..Len(js) |-> b[i]]
        BY <1>1
      <3> HIDE DEF b
      <3> QED
        BY <1>5, <3>1
    <2> HIDE DEF b
    <2> QED
      BY <1>1, <2>1
  <1>8. r = a \o b
    BY DEF Nested!Submit
  <1> HIDE DEF a, b
  <1>9. /\ r \in Seq(Nested!Job) /\ Len(r) = Len(q) + Len(js)
        /\ \A k \in 1..Len(q) : k \in 1..Len(r) /\ r[k] = a[k]
        /\ \A k \in 1..Len(js) : Len(q) + k \in 1..Len(r) /\ r[Len(q) + k] = b[k]
    <2>1. PICK s \in Seq(Nested!Job), t \in Seq(Nested!Job) : s = a /\ t = b
      BY <1>6, <1>7
    <2>2. /\ s \o t \in Seq(Nested!Job) /\ Len(s \o t) = Len(s) + Len(t)
          /\ \A k \in 1..Len(s) : k \in 1..Len(s \o t) /\ (s \o t)[k] = s[k]
          /\ \A k \in 1..Len(t) :
                Len(s) + k \in 1..Len(s \o t) /\ (s \o t)[Len(s) + k] = t[k]
      BY ConcatFacts
    <2>3. r = s \o t /\ Len(s) = Len(q) /\ Len(t) = Len(js)
      BY <1>6, <1>7, <1>8, <2>1
    <2> QED
      BY <2>1, <2>2, <2>3
  <1>10. \A k \in 1..Len(r) :
            \/ k \in 1..Len(q)
            \/ \E m \in 1..Len(js) : k = Len(q) + m
    <2> SUFFICES ASSUME NEW k \in 1..Len(r), k \notin 1..Len(q)
                 PROVE  \E m \in 1..Len(js) : k = Len(q) + m
      OBVIOUS
    <2>1. k - Len(q) \in 1..Len(js) /\ k = Len(q) + (k - Len(q))
      BY <1>1, <1>9
    <2> QED
      BY <2>1, Zenon
  <1>11. \A k \in 1..Len(q) : NestedLike(r[k], q[k]) /\ (r[k].alone => ~Nested!Met(js, q[k]))
    BY <1>4, <1>9, Zenon
  <1>12. \A k \in 1..Len(js) : /\ NestedLike(r[Len(q) + k], js[k])
                               /\ r[Len(q) + k].alone => ~Nested!Met(q, js[k])
    BY <1>5, <1>9
  <1>13. NestedApart(r)
    <2> SUFFICES ASSUME NEW k \in 1..Len(r), NEW l \in 1..Len(r), r[k].alone,
                        Nested!SameSub(r[k], r[l])
                 PROVE  k = l
      BY DEF NestedApart
    <2>1. CASE k \in 1..Len(q) /\ l \in 1..Len(q)
      <3>1. NestedLike(r[k], q[k]) /\ NestedLike(r[l], q[l])
        BY <1>11, <2>1
      <3>2. Nested!SameSub(q[k], r[l])
        BY <3>1, NestedSame
      <3>3. Nested!SameSub(q[k], q[l])
        BY <3>1, <3>2, NestedSame
      <3>4. q[k].alone
        BY <3>1 DEF NestedLike
      <3> QED
        BY <2>1, <3>3, <3>4 DEF NestedPool, NestedApart
    <2>2. ASSUME NEW m \in 1..Len(js), l = Len(q) + m, k \in 1..Len(q) PROVE FALSE
      <3>1. Nested!SameSub(q[k], js[m])
        BY <1>11, <1>12, <2>2, NestedSame
      <3>2. Nested!SameSub(js[m], q[k])
        BY <3>1 DEF Nested!SameSub
      <3>3. Nested!Met(js, q[k])
        BY <1>1, <3>2, Zenon DEF Nested!Met
      <3> QED
        BY <1>11, <2>2, <3>3
    <2>3. ASSUME NEW m \in 1..Len(js), k = Len(q) + m, l \in 1..Len(q) PROVE FALSE
      <3>1. Nested!SameSub(js[m], q[l])
        BY <1>11, <1>12, <2>3, NestedSame
      <3>2. Nested!SameSub(q[l], js[m])
        BY <3>1 DEF Nested!SameSub
      <3>3. Nested!Met(q, js[m])
        BY <1>1, <2>3, <3>2, Zenon DEF Nested!Met
      <3> QED
        BY <1>12, <2>3, <3>3
    <2>4. ASSUME NEW m \in 1..Len(js), k = Len(q) + m, NEW n \in 1..Len(js), l = Len(q) + n
          PROVE  k = l
      <3>1. Nested!SameSub(js[m], js[n])
        BY <1>12, <2>4, NestedSame
      <3> QED
        BY <2>4, <3>1, Zenon
    <2> QED
      BY <1>10, <2>1, <2>2, <2>3, <2>4
  <1>14. \A k \in 1..Len(r) : NestedFits(r[k])
    <2>1. \A k \in 1..Len(q) : NestedFits(r[k])
      BY <1>2, <1>11, NestedSame
    <2>2. \A k \in 1..Len(js) : NestedFits(r[Len(q) + k])
      BY <1>12, NestedSame
    <2> QED
      BY <1>10, <2>1, <2>2, Zenon
  <1> QED
    BY <1>9, <1>11, <1>12, <1>13, <1>14 DEF NestedPool

LEMMA NestedRest ==
    ASSUME NEW q, NestedPool(q), NEW i \in 1..Len(q), NEW r, r = RemoveAt(q, i)
    PROVE  /\ NestedPool(r)
           /\ \A l \in 1..Len(q) : l # i => \E k \in 1..Len(r) : r[k] = q[l]
  <1>1. q \in Seq(Nested!Job) /\ Len(q) \in Nat
    BY DEF NestedPool
  <1>2. /\ r \in Seq(Nested!Job) /\ Len(r) = Len(q) - 1 /\ Len(q) - 1 \in Nat
        /\ \A k \in 1..Len(r) : r[k] = IF k < i THEN q[k] ELSE q[k + 1]
    BY <1>1, RemoveAtFacts, Zenon
  <1>3. \A l \in 1..Len(q) : l # i => \E k \in 1..Len(r) : r[k] = q[l]
    BY <1>1, RestFacts
  <1>4. \A k \in 1..Len(r) : \E l \in 1..Len(q) : l = (IF k < i THEN k ELSE k + 1) /\ r[k] = q[l]
    BY <1>1, <1>2
  <1>5. ASSUME NEW k \in 1..Len(r), NEW l \in 1..Len(r), r[k].alone, Nested!SameSub(r[k], r[l])
        PROVE  k = l
    <2>1. PICK m \in 1..Len(q) : m = (IF k < i THEN k ELSE k + 1) /\ r[k] = q[m]
      BY <1>4, Zenon
    <2>2. PICK n \in 1..Len(q) : n = (IF l < i THEN l ELSE l + 1) /\ r[l] = q[n]
      BY <1>4
    <2>3. m = n
      BY <1>5, <2>1, <2>2 DEF NestedPool, NestedApart
    <2> QED
      BY <1>1, <1>2, <2>1, <2>2, <2>3
  <1>6. \A k \in 1..Len(r) : NestedFits(r[k])
    BY <1>4 DEF NestedPool
  <1> QED
    BY <1>2, <1>3, <1>5, <1>6 DEF NestedPool, NestedApart

\* What is submitted is of one submodule each.
NestedNew(js) ==
    /\ js \in Seq(Nested!Job)
    /\ \A k \in 1..Len(js) : NestedFits(js[k]) /\ js[k].alone
    /\ \A k, l \in 1..Len(js) : Nested!SameSub(js[k], js[l]) => k = l

LEMMA NestedOne ==
    ASSUME Nested!TypeOK, NEW op \in Nested!Ops, NEW f \in Clones, NEW s \in Subs \cup {None},
           op # "list" => s \in Subs, NEW js, js = <<Nested!Task(op, f, s)>>
    PROVE  /\ NestedNew(js) /\ Len(js) = 1
           /\ js[1].op = op /\ js[1].at = f /\ js[1].state = "runs"
  <1>1. PICK t \in Nested!Job : /\ t = Nested!Task(op, f, s) /\ NestedFits(t) /\ t.alone
                                /\ t.op = op /\ t.at = f /\ t.state = "runs"
    <2>1. Nested!Task(op, f, s).alone
      BY DEF Nested!Task
    <2> QED
      BY <2>1, NestedTask
  <1>2. js \in Seq(Nested!Job) /\ Len(js) = 1 /\ js[1] = t
    BY <1>1
  <1> QED
    BY <1>1, <1>2 DEF NestedNew

LEMMA NestedAll ==
    ASSUME Nested!TypeOK, NEW n \in Nat, NEW f \in Clones, NEW order \in Nested!Bijection(1..n, mRows),
           NEW js, js = [k \in 1..n |-> Nested!Task("init", f, order[k])]
    PROVE  NestedNew(js)
  <1>1. /\ order \in [1..n -> mRows] /\ mRows \subseteq Subs
        /\ \A k, l \in 1..n : order[k] = order[l] => k = l
    BY DEF Nested!Bijection, Nested!Injection, Nested!Surjection, Nested!IsInjective, Nested!TypeOK
  <1>2. ASSUME NEW k \in 1..n
        PROVE  /\ js[k] \in Nested!Job /\ NestedFits(js[k]) /\ js[k].alone /\ js[k].sub = order[k]
    <2>1. PICK s \in Subs : s = order[k]
      BY <1>1
    <2>2. js[k] = Nested!Task("init", f, s) /\ js[k].alone
      BY <2>1 DEF Nested!Task
    <2>3. "init" \in Nested!Ops /\ s \in Subs \cup {None}
      BY DEF Nested!Ops
    <2>4. PICK t \in Nested!Job : /\ t = Nested!Task("init", f, s) /\ NestedFits(t) /\ t.sub = s
      BY <2>3, NestedTask
    <2> QED
      BY <2>1, <2>2, <2>4
  <1>3. js \in Seq(Nested!Job) /\ Len(js) = n
    <2>1. js \in [1..n -> Nested!Job]
      <3>1. js = [k \in 1..n |-> js[k]]
        OBVIOUS
      <3> QED
        BY <1>2, <3>1
    <2> QED
      BY <2>1
  <1>4. \A k, l \in 1..Len(js) : Nested!SameSub(js[k], js[l]) => k = l
    BY <1>1, <1>2, <1>3 DEF Nested!SameSub
  <1> QED
    BY <1>2, <1>3, <1>4 DEF NestedNew

\* The pool after a step that leaves the submodules alone.
LEMMA NestedPooled ==
    ASSUME NEW q, NestedPool(q), mJobs' = q, UNCHANGED mHas
    PROVE  NestedPool(mJobs)'
  BY Zenon DEF NestedPool, NestedApart, NestedFits, NestedDid

LEMMA NestedStarts ==
    ASSUME Nested!TypeOK, NestedPool(mJobs), NEW js, NestedNew(js),
           mJobs' = Nested!Submit(mJobs, js), UNCHANGED mHas
    PROVE  /\ NestedPool(mJobs)'
           /\ \A k \in 1..Len(mJobs) : k \in 1..Len(mJobs') /\ NestedLike(mJobs'[k], mJobs[k])
           /\ \A k \in 1..Len(js) :
                 \E l \in 1..Len(mJobs') : NestedLike(mJobs'[l], js[k])
  <1>1. PICK q : q = mJobs
    OBVIOUS
  <1>2. NestedPool(q)
    BY <1>1
  <1>3. PICK r : r = Nested!Submit(q, js)
    OBVIOUS
  <1>4. /\ NestedPool(r)
        /\ \A k \in 1..Len(q) : k \in 1..Len(r) /\ NestedLike(r[k], q[k])
        /\ \A k \in 1..Len(js) :
              Len(q) + k \in 1..Len(r) /\ NestedLike(r[Len(q) + k], js[k])
    BY <1>2, <1>3, NestedSubmits, Zenon DEF NestedNew
  <1>5. mJobs' = r
    BY <1>1, <1>3
  <1>6. NestedPool(mJobs)'
    BY <1>4, <1>5, NestedPooled
  <1> QED
    BY <1>1, <1>4, <1>5, <1>6

\* What the user asks for in the tab.
NestedAsked ==
    \/ Nested!SubmodulesListRequested \/ Nested!UpdateAllClicked
    \/ \E s \in Subs : \/ Nested!SubmoduleAddRequested(s)
                       \/ \E op \in Nested!Ops : Nested!SubmoduleRequested(op, s)

LEMMA NestedAsks ==
    ASSUME Nested!SubmodulesAssumption, NestedBasics, NestedAsked
    PROVE  /\ \E js : NestedNew(js) /\ mJobs' = Nested!Submit(mJobs, js)
                      /\ (Nested!SubmodulesListRequested =>
                            Len(js) = 1 /\ js[1].op = "list" /\ js[1].at = mFolder
                            /\ js[1].state = "runs")
           /\ mFolder # None /\ UNCHANGED <<mFolder, mHas, mRows, mWarnings, mLapsed>>
  <1>1. Nested!TypeOK
    BY DEF NestedBasics
  <1>2. mFolder # None /\ UNCHANGED <<mFolder, mHas, mRows, mWarnings, mLapsed>>
    BY DEF NestedAsked, Nested!SubmodulesListRequested, Nested!UpdateAllClicked,
           Nested!SubmoduleAddRequested, Nested!SubmoduleRequested, Nested!Tab
  <1>3. PICK f \in Clones : f = mFolder
    BY <1>1, <1>2 DEF Nested!TypeOK
  <1>4. ASSUME NEW op \in Nested!Ops, NEW s \in Subs \cup {None}, op # "list" => s \in Subs,
               Nested!Start(op, s)
        PROVE  \E js : /\ NestedNew(js) /\ mJobs' = Nested!Submit(mJobs, js)
                       /\ Len(js) = 1 /\ js[1].op = op /\ js[1].at = mFolder
                       /\ js[1].state = "runs"
    <2>1. PICK js : js = <<Nested!Task(op, f, s)>>
      BY Zenon
    <2>2. NestedNew(js) /\ Len(js) = 1 /\ js[1].op = op /\ js[1].at = f /\ js[1].state = "runs"
      BY <1>1, <1>4, <2>1, NestedOne
    <2>3. mJobs' = Nested!Submit(mJobs, js)
      BY <1>3, <1>4, <2>1 DEF Nested!Start
    <2> QED
      BY <1>3, <2>2, <2>3
  <1>5. CASE Nested!SubmodulesListRequested
    <2>1. Nested!Start("list", None) /\ "list" \in Nested!Ops /\ None \in Subs \cup {None}
      BY <1>5 DEF Nested!SubmodulesListRequested, Nested!Ops
    <2>2. PICK js : /\ NestedNew(js) /\ mJobs' = Nested!Submit(mJobs, js)
                    /\ Len(js) = 1 /\ js[1].op = "list" /\ js[1].at = mFolder
                    /\ js[1].state = "runs"
      BY <1>4, <2>1
    <2> QED
      BY <1>2, <2>2
  <1>6. CASE ~Nested!SubmodulesListRequested
    <2> SUFFICES \E js : NestedNew(js) /\ mJobs' = Nested!Submit(mJobs, js)
      BY <1>2, <1>6
    <2>1. ASSUME NEW s \in Subs, Nested!SubmoduleAddRequested(s)
          PROVE  \E js : NestedNew(js) /\ mJobs' = Nested!Submit(mJobs, js)
      <3>1. Nested!Start("add", s) /\ "add" \in Nested!Ops /\ s \in Subs \cup {None}
        BY <2>1 DEF Nested!SubmoduleAddRequested, Nested!Ops
      <3> QED
        BY <1>4, <3>1
    <2>2. ASSUME NEW s \in Subs, NEW op \in Nested!Ops, Nested!SubmoduleRequested(op, s)
          PROVE  \E js : NestedNew(js) /\ mJobs' = Nested!Submit(mJobs, js)
      <3>1. Nested!Start(op, s) /\ s \in Subs \cup {None}
        BY <2>2 DEF Nested!SubmoduleRequested
      <3> QED
        BY <1>4, <3>1
    <2>3. CASE Nested!UpdateAllClicked
      <3>0. PICK n \in 1 .. MaxJobs - Len(mJobs) : \E order \in Nested!Bijection(1 .. n, mRows) :
              mJobs' = Nested!Submit(mJobs, [k \in 1 .. n |-> Nested!Task("init", mFolder, order[k])])
        BY <2>3, Zenon DEF Nested!UpdateAllClicked
      <3>1. PICK order \in Nested!Bijection(1 .. n, mRows) :
              mJobs' = Nested!Submit(mJobs, [k \in 1 .. n |-> Nested!Task("init", mFolder, order[k])])
        BY <3>0, Zenon
      <3>2. n \in Nat
        BY <1>1, <3>0 DEF Nested!SubmodulesAssumption, Nested!TypeOK
      <3>3. PICK js : js = [k \in 1 .. n |-> Nested!Task("init", f, order[k])]
        BY Zenon
      <3>4. NestedNew(js)
        BY <1>1, <3>1, <3>2, <3>3, NestedAll
      <3>5. mJobs' = Nested!Submit(mJobs, js)
        BY <1>3, <3>1, <3>3
      <3> QED
        BY <3>4, <3>5
    <2> QED
      BY <1>6, <2>1, <2>2, <2>3 DEF NestedAsked
  <1> QED
    BY <1>5, <1>6

\* A list is submitted by what follows an operation and by a folder opened.
LEMMA NestedAppends ==
    ASSUME Nested!TypeOK, NEW q, NestedPool(q), mFolder' \in Clones, UNCHANGED mHas,
           mJobs' = Append(q, Nested!Task("list", mFolder', None))
    PROVE  /\ NestedPool(mJobs)'
           /\ \E k \in 1..Len(mJobs') : /\ mJobs'[k].op = "list" /\ mJobs'[k].at = mFolder'
                                        /\ mJobs'[k].state = "runs"
  <1>1. PICK f \in Clones : f = mFolder'
    OBVIOUS
  <1>2. PICK r : r = Append(q, Nested!Task("list", f, None))
    BY Zenon
  <1>3. /\ NestedPool(r)
        /\ \E k \in 1..Len(r) : r[k].op = "list" /\ r[k].at = f /\ r[k].state = "runs"
    <2>1. NestedPool(r)
      BY <1>1, <1>2, NestedLists, Zenon
    <2>2. \E k \in 1..Len(r) : r[k].op = "list" /\ r[k].at = f /\ r[k].state = "runs"
      BY <1>1, <1>2, NestedLists
    <2> QED
      BY <2>1, <2>2
  <1>4. mJobs' = r
    BY <1>1, <1>2
  <1>5. NestedPool(mJobs)'
    BY <1>3, <1>4, NestedPooled
  <1> QED
    BY <1>1, <1>3, <1>4, <1>5

LEMMA NestedLeaves ==
    ASSUME NestedBasics, NEW i \in DOMAIN mJobs
    PROVE  \E q : /\ q = Nested!Rest(i) /\ NestedPool(q)
                  /\ \A l \in 1..Len(mJobs) : l # i => \E k \in 1..Len(q) : q[k] = mJobs[l]
  <1>1. PICK q : q = mJobs
    OBVIOUS
  <1>2. PICK r : r = RemoveAt(q, i)
    OBVIOUS
  <1>3. NestedPool(q) /\ i \in 1..Len(q)
    BY <1>1 DEF NestedBasics, NestedPool
  <1>4. NestedPool(r) /\ \A l \in 1..Len(q) : l # i => \E k \in 1..Len(r) : r[k] = q[l]
    BY <1>2, <1>3, NestedRest
  <1>5. r = Nested!Rest(i)
    BY <1>1, <1>2 DEF Nested!Rest, Nested!RemoveAt, RemoveAt
  <1> QED
    BY <1>1, <1>4, <1>5

LEMMA NestedPoolIs ==
    ASSUME NEW r \in Seq(Nested!Job), NestedApart(r), mJobs' = r,
           \A k \in 1..Len(r) : NestedFits(r[k])'
    PROVE  NestedPool(mJobs)'
  BY DEF NestedPool, NestedApart, NestedFits, NestedDid

\* Another job on the submodule that a step of the pool changes was not alone.
LEMMA NestedRunPool ==
    ASSUME NestedBasics, NEW i \in DOMAIN mJobs, Nested!Run(i)
    PROVE  mHas' \in [Clones -> [Subs -> SUBSET Nested!Places]] /\ NestedPool(mJobs)'
  <1>1. Nested!TypeOK /\ NestedPool(mJobs)
    BY DEF NestedBasics
  <1>2. /\ mJobs \in Seq(Nested!Job) /\ i \in 1..Len(mJobs) /\ NestedFits(mJobs[i])
        /\ mHas \in [Clones -> [Subs -> SUBSET Nested!Places]] /\ Len(mJobs) \in Nat
    BY <1>1 DEF NestedPool, Nested!TypeOK
  <1>3. PICK j \in Nested!Job : NestedRan(i, j) /\ mJobs' = [mJobs EXCEPT ![i] = j]
    BY <1>1, <1>2, NestedRuns
  <1>4. PICK r \in Seq(Nested!Job) :
            /\ mJobs' = r /\ Len(r) = Len(mJobs)
            /\ \A k \in 1..Len(mJobs) : r[k] = IF k = i THEN j ELSE mJobs[k]
    <2>1. /\ mJobs' \in Seq(Nested!Job) /\ Len(mJobs') = Len(mJobs)
          /\ \A k \in 1..Len(mJobs) : mJobs'[k] = IF k = i THEN j ELSE mJobs[k]
      BY <1>2, <1>3, ChangeFacts
    <2> QED
      BY <2>1
  <1>5. /\ j.op = mJobs[i].op /\ j.at = mJobs[i].at /\ j.sub = mJobs[i].sub
        /\ j.alone => mJobs[i].alone
        /\ NestedFits(j)'
    BY <1>3 DEF NestedRan
  <1>6. NestedApart(r)
    <2> SUFFICES ASSUME NEW k \in 1..Len(r), NEW l \in 1..Len(r), r[k].alone,
                        Nested!SameSub(r[k], r[l])
                 PROVE  k = l
      BY DEF NestedApart
    <2>1. \A m \in 1..Len(r) : /\ r[m].op = mJobs[m].op /\ r[m].at = mJobs[m].at
                               /\ r[m].sub = mJobs[m].sub /\ (r[m].alone => mJobs[m].alone)
      BY <1>4, <1>5
    <2>2. Nested!SameSub(mJobs[k], mJobs[l]) /\ mJobs[k].alone
      BY <2>1 DEF Nested!SameSub, Nested!Changing
    <2> QED
      BY <1>1, <1>4, <2>2 DEF NestedPool, NestedApart
  <1>7. ASSUME NEW k \in 1..Len(mJobs), k # i, NEW t \in Nested!Job, t = mJobs[k]
        PROVE  NestedFits(t)'
    <2>1. NestedFits(t) /\ t.op \in Nested!Ops
      BY <1>1, <1>7 DEF NestedPool, Nested!Job
    <2>2. CASE mHas'[t.at][t.sub] = mHas[t.at][t.sub]
      BY <2>1, <2>2, Zenon DEF NestedFits, NestedDid
    <2>3. CASE t.op = "sync"
      <3>1. \A m \in 1..Len(Nested!Calls["sync"]) : Nested!Calls["sync"][m] = "lookup"
        BY <2>3, CallsFacts, Zenon DEF Nested!Ops
      <3>2. NestedLeft(t.op, t.todo) /\ Len(Nested!Calls["sync"]) \in Nat /\ Len(t.todo) \in Nat
        BY <2>1, <2>3, CallsFacts DEF NestedFits, Nested!Job
      <3>3. \A mine : NestedDid(t.op, t.todo, mine)
        <4>1. PICK n \in Nat, c \in {Nested!Calls["sync"]} : n = Len(t.todo) /\ c = Nested!Calls["sync"]
          BY <3>2
        <4>2. \A m \in 1..(Len(c) - n) : NestedGives(c[m]) = {}
          <5> SUFFICES ASSUME NEW m \in 1..(Len(c) - n) PROVE NestedGives(c[m]) = {}
            BY Zenon
          <5>1. m \in 1..Len(c)
            BY <3>2, <4>1
          <5>2. c[m] = "lookup"
            BY <3>1, <4>1, <5>1
          <5> QED
            BY <5>2 DEF NestedGives
        <4> QED
          BY <2>3, <4>1, <4>2, Zenon DEF NestedDid
      <3> QED
        BY <2>1, <3>3 DEF NestedFits
    <2>4. CASE t.op = "list" \/ ~t.alone
      BY <2>1, <2>4 DEF NestedFits
    <2>5. CASE mHas'[t.at][t.sub] # mHas[t.at][t.sub] /\ t.op \notin {"sync", "list"} /\ t.alone
      <3>1. PICK m \in SUBSET Nested!Places : mHas' = [mHas EXCEPT ![j.at][j.sub] = m]
        BY <1>3, <2>5, Zenon DEF NestedRan
      <3>2. Nested!Changing(j)
        BY <1>3, <2>5 DEF NestedRan
      <3>3. t.at = j.at /\ t.sub = j.sub
        <4>1. t.at \in Clones /\ j.at \in Clones /\ t.sub \in Subs
          BY <2>1, <2>5 DEF Nested!Job, NestedFits
        <4>2. mHas' = [mHas EXCEPT ![j.at] = [@ EXCEPT ![j.sub] = m]]
          BY <3>1
        <4> QED
          BY <1>2, <2>5, <4>1, <4>2
      <3>4. Nested!SameSub(mJobs[k], mJobs[i])
        BY <1>5, <1>7, <2>5, <3>2, <3>3 DEF Nested!SameSub, Nested!Changing
      <3> QED
        BY <1>1, <1>2, <1>7, <2>5, <3>4 DEF NestedPool, NestedApart
    <2> QED
      BY <2>2, <2>3, <2>4, <2>5
  <1>8. \A k \in 1..Len(r) : NestedFits(r[k])'
    <2> SUFFICES ASSUME NEW k \in 1..Len(r) PROVE NestedFits(r[k])'
      OBVIOUS
    <2>1. PICK t \in Nested!Job : t = r[k]
      BY <1>4
    <2>2. NestedFits(t)'
      BY <1>2, <1>4, <1>5, <1>7, <2>1
    <2> QED
      BY <2>1, <2>2
  <1>9. NestedPool(mJobs)'
    BY <1>4, <1>6, <1>8, NestedPoolIs
  <1>10. mHas' \in [Clones -> [Subs -> SUBSET Nested!Places]]
    <2>1. CASE mHas' = mHas
      BY <1>2, <2>1
    <2>2. CASE mHas' # mHas
      <3>1. PICK m \in SUBSET Nested!Places : mHas' = [mHas EXCEPT ![j.at][j.sub] = m]
        BY <1>3, <2>2, Zenon DEF NestedRan
      <3>2. mHas' = [mHas EXCEPT ![j.at] = [mHas[j.at] EXCEPT ![j.sub] = m]]
        BY <3>1
      <3>3. j.at \in Clones
        BY DEF Nested!Job
      <3>4. [mHas[j.at] EXCEPT ![j.sub] = m] \in [Subs -> SUBSET Nested!Places]
        BY <1>2, <3>3, Zenon
      <3> QED
        BY <1>2, <3>2, <3>3, <3>4
    <2> QED
      BY <2>1, <2>2
  <1> QED
    BY <1>9, <1>10

LEMMA NestedStepBasics ==
    ASSUME Nested!SubmodulesAssumption, NestedBasics, Nested!Next
    PROVE  NestedBasics'
  <1>1. /\ Nested!TypeOK /\ NestedPool(mJobs) /\ (mWarnings > 0 => mFolder # None)
        /\ mFolder \in Clones \cup {None} /\ mHas \in [Clones -> [Subs -> SUBSET Nested!Places]]
        /\ mRows \subseteq Subs /\ mWarnings \in Nat /\ mLapsed \in BOOLEAN
        /\ mJobs \in Seq(Nested!Job) /\ DOMAIN mJobs = 1..Len(mJobs)
    BY DEF NestedBasics, Nested!TypeOK, NestedPool
  <1>2. ASSUME NestedPool(mJobs)', (mWarnings' > 0 => mFolder' # None),
               mFolder' \in Clones \cup {None}, mWarnings' \in Nat, mRows' \subseteq Subs,
               mLapsed' \in BOOLEAN, mHas' \in [Clones -> [Subs -> SUBSET Nested!Places]]
        PROVE  NestedBasics'
    <2>1. mJobs' \in Seq(Nested!Job)
      BY <1>2 DEF NestedPool
    <2> QED
      BY <1>2, <2>1 DEF NestedBasics, Nested!TypeOK
  <1>3. CASE NestedAsked
    <2>1. PICK js : NestedNew(js) /\ mJobs' = Nested!Submit(mJobs, js)
      BY <1>3, NestedAsks
    <2>2. UNCHANGED <<mFolder, mHas, mRows, mWarnings, mLapsed>>
      BY <1>3, NestedAsks
    <2>3. NestedPool(mJobs)'
      BY <1>1, <2>1, <2>2, NestedStarts
    <2> QED
      BY <1>1, <1>2, <2>2, <2>3
  <1>4. ASSUME UNCHANGED <<mJobs, mHas>> PROVE NestedPool(mJobs)'
    BY <1>1, <1>4 DEF NestedPool, NestedApart, NestedFits, NestedDid
  <1>5. ASSUME NEW f \in Clones \cup {None}, Nested!OpenFolder(f) PROVE NestedBasics'
    <2>1. mFolder' = f /\ mWarnings' = 0 /\ UNCHANGED <<mHas, mRows, mLapsed>>
      BY <1>5 DEF Nested!OpenFolder
    <2>2. NestedPool(mJobs)'
      <3>1. CASE f = None
        BY <1>4, <1>5, <2>1, <3>1 DEF Nested!OpenFolder
      <3>2. CASE f # None
        <4>1. PICK q : q = mJobs
          OBVIOUS
        <4>2. NestedPool(q) /\ mFolder' \in Clones
              /\ mJobs' = Append(q, Nested!Task("list", mFolder', None))
          BY <1>1, <1>5, <2>1, <3>2, <4>1 DEF Nested!OpenFolder
        <4> QED
          BY <1>1, <2>1, <4>2, NestedAppends
      <3> QED
        BY <3>1, <3>2
    <2> QED
      BY <1>1, <1>2, <2>1, <2>2
  <1>6. ASSUME NEW i \in DOMAIN mJobs, Nested!Run(i) PROVE NestedBasics'
    <2>1. UNCHANGED <<mFolder, mRows, mWarnings, mLapsed>>
      BY <1>6 DEF Nested!Run
    <2>2. mHas' \in [Clones -> [Subs -> SUBSET Nested!Places]] /\ NestedPool(mJobs)'
      BY <1>6, NestedRunPool
    <2> QED
      BY <1>1, <1>2, <2>1, <2>2
  <1>7. ASSUME NEW i \in DOMAIN mJobs, Nested!SubmodulesReady(i) PROVE NestedBasics'
    <2>1. PICK q : q = Nested!Rest(i) /\ NestedPool(q)
      BY NestedLeaves
    <2>2. mJobs' = q /\ UNCHANGED <<mFolder, mHas, mWarnings>>
      BY <1>7, <2>1 DEF Nested!SubmodulesReady
    <2>3. NestedPool(mJobs)'
      BY <2>1, <2>2, NestedPooled
    <2>4. mJobs[i].read \subseteq Subs
      BY <1>1, NestedTyped
    <2>5. mRows' \subseteq Subs
      BY <1>1, <1>7, <2>4, Zenon DEF Nested!SubmodulesReady
    <2>6. mLapsed' \in BOOLEAN
      BY <1>1, <1>7, Zenon DEF Nested!SubmodulesReady
    <2> QED
      BY <1>1, <1>2, <2>2, <2>3, <2>5, <2>6
  <1>8. ASSUME NEW q, NestedPool(q), Nested!Relist(q), mFolder \in Clones,
               UNCHANGED <<mFolder, mHas>>
        PROVE  NestedPool(mJobs)'
    BY <1>1, <1>8, NestedAppends DEF Nested!Relist
  <1>9. ASSUME NEW i \in DOMAIN mJobs, Nested!SubmoduleOpFinished(i) PROVE NestedBasics'
    <2>1. PICK q : q = Nested!Rest(i) /\ NestedPool(q)
      BY NestedLeaves
    <2>2. UNCHANGED <<mFolder, mHas, mRows, mLapsed>> /\ mJobs[i].at \in Clones
      BY <1>1, <1>9, NestedTyped DEF Nested!SubmoduleOpFinished
    <2>3. CASE mJobs' = q
      <3>1. NestedPool(mJobs)'
        BY <2>1, <2>2, <2>3, NestedPooled
      <3>2. mWarnings' \in Nat /\ (mWarnings' > 0 => mFolder' # None)
        <4>1. mJobs[i].at \in Clones /\ (mWarnings' = mWarnings \/
                  (mWarnings' = mWarnings + 1 /\ mJobs[i].at = mFolder))
          BY <1>9, <2>2 DEF Nested!SubmoduleOpFinished
        <4>2. None \notin Clones
          BY DEF Nested!SubmodulesAssumption
        <4> QED
          BY <1>1, <2>2, <4>1, <4>2
      <3> QED
        BY <1>1, <1>2, <2>2, <3>1, <3>2
    <2>4. CASE Nested!Relist(q) /\ mFolder = mJobs[i].at /\ mWarnings' = mWarnings
      <3>1. NestedPool(mJobs)'
        BY <1>8, <2>1, <2>2, <2>4
      <3> QED
        BY <1>1, <1>2, <2>2, <2>4, <3>1
    <2> QED
      BY <1>9, <2>1, <2>3, <2>4 DEF Nested!SubmoduleOpFinished
  <1>10. CASE Nested!Acknowledge
    <2>1. /\ mWarnings > 0 /\ mWarnings' = mWarnings - 1 /\ mFolder \in Clones
          /\ UNCHANGED <<mFolder, mHas, mRows, mLapsed>> /\ Nested!Relist(mJobs)
      BY <1>1, <1>10 DEF Nested!Acknowledge
    <2>2. PICK q : q = mJobs
      OBVIOUS
    <2>3. NestedPool(mJobs)'
      BY <1>1, <1>8, <2>1, <2>2
    <2>4. mWarnings' \in Nat /\ mFolder' # None
      BY <1>1, <2>1
    <2> QED
      BY <1>1, <1>2, <2>1, <2>3, <2>4
  <1> QED
    BY <1>3, <1>5, <1>6, <1>7, <1>9, <1>10 DEF Nested!Next, NestedAsked

\* What a job will do to the rows, it will still do when the folder stands still.
LEMMA NestedStillRelisted ==
    ASSUME NestedRelisted, UNCHANGED <<mFolder, mHas>>, mWarnings' >= mWarnings,
           mWarnings \in Nat, mWarnings' \in Nat,
           \A k \in 1..Len(mJobs) : NestedRelists(mJobs[k]) =>
               \E m \in 1..Len(mJobs') : NestedLike(mJobs'[m], mJobs[k])
    PROVE  NestedRelisted'
  <1>1. Nested!KnownIn(mFolder)' = Nested!KnownIn(mFolder)
    BY DEF Nested!KnownIn, Nested!Known
  <1>2. CASE mWarnings > 0
    BY <1>2 DEF NestedRelisted
  <1>3. ASSUME NEW k \in 1..Len(mJobs), NestedRelists(mJobs[k]) PROVE NestedRelisted'
    <2>1. PICK m \in 1..Len(mJobs') : NestedLike(mJobs'[m], mJobs[k])
      BY <1>3
    <2>2. NestedRelists(mJobs[m])'
      BY <1>1, <1>3, <2>1 DEF NestedRelists, NestedLike
    <2> QED
      BY <2>2 DEF NestedRelisted
  <1> QED
    BY <1>2, <1>3 DEF NestedRelisted

LEMMA NestedStepListed ==
    ASSUME Nested!SubmodulesAssumption, NestedBasics, NestedListed, Nested!Next, NestedBasics'
    PROVE  NestedListed'
  <1>1. /\ Nested!TypeOK /\ NestedPool(mJobs) /\ mWarnings \in Nat /\ mWarnings' \in Nat
        /\ mJobs \in Seq(Nested!Job) /\ Len(mJobs) \in Nat /\ DOMAIN mJobs = 1..Len(mJobs)
        /\ mHas \in [Clones -> [Subs -> SUBSET Nested!Places]]
        /\ mFolder \in Clones \cup {None}
    BY DEF NestedBasics, Nested!TypeOK, NestedPool
  <1>2. ASSUME NEW k \in 1..Len(mJobs'), mJobs'[k].op = "list", mJobs'[k].at = mFolder',
               mJobs'[k].state = "runs"
        PROVE  NestedListed'
    BY <1>2 DEF NestedListed, NestedRelisted, NestedRelists
  <1>3. CASE NestedAsked
    <2>1. PICK js : NestedNew(js) /\ mJobs' = Nested!Submit(mJobs, js)
      BY <1>3, NestedAsks
    <2>2. UNCHANGED <<mFolder, mHas, mRows, mWarnings, mLapsed>>
      BY <1>3, NestedAsks
    <2>3. \A k \in 1..Len(mJobs) : k \in 1..Len(mJobs') /\ NestedLike(mJobs'[k], mJobs[k])
      BY <1>1, <2>1, <2>2, NestedStarts
    <2>4. NestedRelisted => NestedRelisted'
      BY <1>1, <2>2, <2>3, NestedStillRelisted
    <2> QED
      BY <2>2, <2>4 DEF NestedListed, Nested!KnownIn, Nested!Known
  <1>4. ASSUME NEW q, NestedPool(q), Nested!Relist(q), mFolder \in Clones,
               UNCHANGED <<mFolder, mHas>>
        PROVE  NestedListed'
    <2>1. mJobs' = Append(q, Nested!Task("list", mFolder', None)) /\ mFolder' \in Clones
      BY <1>4 DEF Nested!Relist
    <2>2. \E k \in 1..Len(mJobs') : /\ mJobs'[k].op = "list" /\ mJobs'[k].at = mFolder'
                                    /\ mJobs'[k].state = "runs"
      BY <1>1, <1>4, <2>1, NestedAppends
    <2> QED
      BY <1>2, <2>2
  <1>5. ASSUME NEW f \in Clones \cup {None}, Nested!OpenFolder(f) PROVE NestedListed'
    <2>1. CASE f = None
      BY <1>5, <2>1 DEF Nested!OpenFolder, NestedListed
    <2>2. CASE f # None
      <3>1. PICK q : q = mJobs
        OBVIOUS
      <3>2. NestedPool(q) /\ mFolder' \in Clones /\ mHas' = mHas
            /\ mJobs' = Append(q, Nested!Task("list", mFolder', None))
        BY <1>1, <1>5, <2>2, <3>1 DEF Nested!OpenFolder
      <3>3. \E k \in 1..Len(mJobs') : /\ mJobs'[k].op = "list" /\ mJobs'[k].at = mFolder'
                                      /\ mJobs'[k].state = "runs"
        BY <1>1, <3>2, NestedAppends, Zenon
      <3> QED
        BY <1>2, <3>3
    <2> QED
      BY <2>1, <2>2
  <1>6. ASSUME NEW i \in DOMAIN mJobs, Nested!Run(i) PROVE NestedListed'
    <2>1. PICK j \in Nested!Job : NestedRan(i, j) /\ mJobs' = [mJobs EXCEPT ![i] = j]
      BY <1>1, <1>6, NestedRuns DEF NestedPool
    <2>2. /\ Len(mJobs') = Len(mJobs) /\ i \in 1..Len(mJobs)
          /\ \A k \in 1..Len(mJobs) : mJobs'[k] = IF k = i THEN j ELSE mJobs[k]
      BY <1>1, <2>1, ChangeFacts
    <2>3. UNCHANGED <<mFolder, mWarnings, mLapsed, mRows>>
      BY <1>6 DEF Nested!Run
    <2>4. CASE Nested!KnownIn(mFolder)' = Nested!KnownIn(mFolder)
      <3>1. ASSUME NEW k \in 1..Len(mJobs), NestedRelists(mJobs[k])
            PROVE  NestedRelists(mJobs[k])'
        <4>1. CASE k # i
          BY <2>2, <2>3, <2>4, <3>1, <4>1 DEF NestedRelists
        <4>2. CASE k = i
          <5>1. j.at = mFolder /\ ((j.op = "list" /\ j.state = "done") => j.read = Nested!KnownIn(mFolder))
            BY <2>1, <3>1, <4>2 DEF NestedRelists, NestedRan
          <5> QED
            BY <2>2, <2>3, <2>4, <4>2, <5>1 DEF NestedRelists
        <4> QED
          BY <4>1, <4>2
      <3> QED
        BY <2>2, <2>3, <2>4, <3>1 DEF NestedListed, NestedRelisted
    <2>5. CASE Nested!KnownIn(mFolder)' # Nested!KnownIn(mFolder)
      <3>1. PICK m \in SUBSET Nested!Places :
               mHas' = [mHas EXCEPT ![j.at][j.sub] = m] /\ Nested!Changing(j)
        BY <2>1, <2>3, <2>5, Zenon DEF NestedRan, Nested!KnownIn, Nested!Known
      <3>2. CASE mFolder = None
        BY <2>3, <3>2 DEF NestedListed
      <3>3. CASE mFolder \in Clones
        <4>1. j.at = mFolder
          <5>1. ASSUME j.at # mFolder PROVE mHas'[mFolder] = mHas[mFolder]
            BY <1>1, <3>1, <3>3, <5>1
          <5> QED
            BY <2>3, <2>5, <5>1 DEF Nested!KnownIn, Nested!Known
        <4>2. NestedRelists(mJobs[i])'
          BY <2>2, <2>3, <3>1, <4>1 DEF NestedRelists, Nested!Changing
        <4> QED
          BY <2>2, <4>2 DEF NestedListed, NestedRelisted
      <3> QED
        BY <1>1, <3>2, <3>3
    <2> QED
      BY <2>4, <2>5
  <1>7. ASSUME NEW i \in DOMAIN mJobs, Nested!SubmodulesReady(i) PROVE NestedListed'
    <2>1. PICK q : /\ q = Nested!Rest(i)
                   /\ \A l \in 1..Len(mJobs) : l # i => \E k \in 1..Len(q) : q[k] = mJobs[l]
      BY NestedLeaves
    <2>2. /\ mJobs' = q /\ UNCHANGED <<mFolder, mWarnings, mHas>>
          /\ mJobs[i].op = "list" /\ mJobs[i].state \in {"done", "failed"}
          /\ Nested!KnownIn(mFolder)' = Nested!KnownIn(mFolder)
      <3>1. mJobs[i].state \in {"runs", "done", "failed"}
        BY <1>1, NestedTyped
      <3> QED
        BY <1>7, <2>1, <3>1
        DEF Nested!SubmodulesReady, Nested!Back, Nested!KnownIn, Nested!Known
    <2>3. CASE NestedRelists(mJobs[i])
      <3>1. CASE mJobs[i].state = "failed"
        BY <1>7, <2>3, <3>1 DEF Nested!SubmodulesReady, NestedRelists, NestedListed
      <3>2. CASE mJobs[i].state = "done"
        BY <1>7, <2>2, <2>3, <3>2 DEF Nested!SubmodulesReady, NestedRelists, NestedListed
      <3> QED
        BY <2>2, <3>1, <3>2
    <2>4. CASE ~NestedRelists(mJobs[i])
      <3>1. NestedRelisted => NestedRelisted'
        <4>1. \A k \in 1..Len(mJobs) : NestedRelists(mJobs[k]) =>
                  \E m \in 1..Len(mJobs') : NestedLike(mJobs'[m], mJobs[k])
          <5>1. \A t : NestedLike(t, t)
            BY DEF NestedLike
          <5> QED
            BY <2>1, <2>2, <2>4, <5>1
        <4> QED
          BY <1>1, <2>2, <4>1, NestedStillRelisted
      <3>2. CASE mJobs[i].at = mFolder
        <4>1. mJobs[i].read # Nested!KnownIn(mFolder)
          BY <2>2, <2>4, <3>2 DEF NestedRelists
        <4>2. mLapsed' \/ (~mLapsed /\ mRows # Nested!KnownIn(mFolder))
          BY <1>7, <3>2, <4>1 DEF Nested!SubmodulesReady
        <4> QED
          BY <2>2, <3>1, <4>2 DEF NestedListed
      <3>3. CASE mJobs[i].at # mFolder
        BY <1>7, <2>2, <3>1, <3>3 DEF Nested!SubmodulesReady, NestedListed
      <3> QED
        BY <3>2, <3>3
    <2> QED
      BY <2>3, <2>4
  <1>8. ASSUME NEW i \in DOMAIN mJobs, Nested!SubmoduleOpFinished(i) PROVE NestedListed'
    <2>1. PICK q : /\ q = Nested!Rest(i) /\ NestedPool(q)
                   /\ \A l \in 1..Len(mJobs) : l # i => \E k \in 1..Len(q) : q[k] = mJobs[l]
      BY NestedLeaves
    <2>2. /\ UNCHANGED <<mFolder, mHas, mRows, mLapsed>> /\ mJobs[i].at \in Clones
          /\ Nested!KnownIn(mFolder)' = Nested!KnownIn(mFolder)
      BY <1>1, <1>8, NestedTyped DEF Nested!SubmoduleOpFinished, Nested!KnownIn, Nested!Known
    <2>3. CASE mJobs[i].at # mFolder
      <3>1. mJobs' = q /\ mWarnings' = mWarnings
        BY <1>8, <2>1, <2>3 DEF Nested!SubmoduleOpFinished
      <3>2. \A k \in 1..Len(mJobs) : NestedRelists(mJobs[k]) =>
                \E m \in 1..Len(mJobs') : NestedLike(mJobs'[m], mJobs[k])
        <4>1. \A t : NestedLike(t, t)
          BY DEF NestedLike
        <4> QED
          BY <2>1, <2>3, <3>1, <4>1 DEF NestedRelists
      <3>3. NestedRelisted => NestedRelisted'
        BY <1>1, <2>2, <3>1, <3>2, NestedStillRelisted
      <3> QED
        BY <2>2, <3>3 DEF NestedListed
    <2>4. CASE mJobs[i].at = mFolder /\ mJobs[i].state = "failed"
      <3>1. mWarnings' = mWarnings + 1
        BY <1>8, <2>4 DEF Nested!SubmoduleOpFinished
      <3> QED
        BY <1>1, <3>1 DEF NestedListed, NestedRelisted
    <2>5. CASE mJobs[i].at = mFolder /\ mJobs[i].state # "failed"
      BY <1>4, <1>8, <2>1, <2>2, <2>5 DEF Nested!SubmoduleOpFinished
    <2> QED
      BY <2>3, <2>4, <2>5
  <1>9. CASE Nested!Acknowledge
    <2>1. PICK q : q = mJobs
      OBVIOUS
    <2>2. /\ NestedPool(q) /\ Nested!Relist(q) /\ mFolder \in Clones
          /\ UNCHANGED <<mFolder, mHas>>
      BY <1>1, <1>9, <2>1 DEF Nested!Acknowledge, NestedBasics
    <2> QED
      BY <1>4, <2>2
  <1> QED
    BY <1>3, <1>5, <1>6, <1>7, <1>8, <1>9 DEF Nested!Next, NestedAsked

LEMMA NestedInitInv ==
    ASSUME Nested!SubmodulesAssumption, Nested!Init PROVE NestedInv
  <1>1. mJobs = <<>> /\ mLapsed /\ mWarnings = 0
    BY DEF Nested!Init
  <1>2. Nested!TypeOK
    BY DEF Nested!Init, Nested!TypeOK, Nested!Places
  <1>3. NestedPool(mJobs)
    <2>1. mJobs \in Seq(Nested!Job) /\ Len(mJobs) = 0
      BY <1>1
    <2> QED
      BY <2>1 DEF NestedPool, NestedApart
  <1> QED
    BY <1>1, <1>2, <1>3 DEF NestedInv, NestedBasics, NestedListed

LEMMA NestedNextInv ==
    ASSUME Nested!SubmodulesAssumption, NestedInv, [Nested!Next]_Nested!vars PROVE NestedInv'
  <1>1. NestedBasics /\ NestedListed
    BY DEF NestedInv
  <1>2. CASE UNCHANGED Nested!vars
    <2>1. UNCHANGED <<mFolder, mHas, mJobs, mRows, mWarnings, mLapsed>>
      BY <1>2 DEF Nested!vars
    <2>2. NestedBasics'
      BY <1>1, <2>1, Zenon
      DEF NestedBasics, Nested!TypeOK, NestedPool, NestedApart, NestedFits, NestedDid
    <2>3. NestedListed'
      BY <1>1, <2>1, Zenon
      DEF NestedListed, NestedRelisted, NestedRelists, Nested!KnownIn, Nested!Known
    <2> QED
      BY <2>2, <2>3 DEF NestedInv
  <1>3. CASE Nested!Next
    <2>1. NestedBasics'
      BY <1>1, <1>3, NestedStepBasics
    <2>2. NestedListed'
      BY <1>1, <1>3, <2>1, NestedStepListed
    <2> QED
      BY <2>1, <2>2 DEF NestedInv
  <1> QED
    BY <1>2, <1>3

LEMMA NestedHold == ASSUME NestedInv PROVE Nested!RowsAreRead /\ Nested!SuccessIsWhole
  <1>1. Nested!TypeOK /\ NestedPool(mJobs) /\ NestedListed /\ DOMAIN mJobs = 1..Len(mJobs)
    BY DEF NestedInv, NestedBasics, NestedPool
  <1>2. Nested!RowsAreRead
    <2> SUFFICES ASSUME mFolder # None, mWarnings = 0, mJobs = <<>>, ~mLapsed
                 PROVE  mRows = Nested!KnownIn(mFolder)
      BY DEF Nested!RowsAreRead, Nested!Tab
    <2>1. Len(mJobs) = 0
      OBVIOUS
    <2> QED
      BY <1>1, <2>1 DEF NestedListed, NestedRelisted
  <1>3. Nested!SuccessIsWhole
    <2> SUFFICES ASSUME NEW i \in DOMAIN mJobs, mJobs[i].state = "done", mJobs[i].alone
                 PROVE  CASE mJobs[i].op = "add"    -> Nested!Mine(i) = Nested!Places
                          [] mJobs[i].op = "remove" -> Nested!Mine(i) = {}
                          [] mJobs[i].op = "init"   ->
                                {"config", "modules", "work"} \subseteq Nested!Mine(i)
                          [] OTHER -> TRUE
      BY DEF Nested!SuccessIsWhole
    <2>1. NestedFits(mJobs[i])
      BY <1>1 DEF NestedPool
    <2>2. CASE mJobs[i].op \in {"add", "remove", "init"}
      <3>1. mJobs[i].sub \in Subs /\ mJobs[i].todo = <<>>
            /\ NestedDid(mJobs[i].op, mJobs[i].todo, mHas[mJobs[i].at][mJobs[i].sub])
        BY <2>1, <2>2 DEF NestedFits
      <3>2. PICK mine \in SUBSET Nested!Places : mine = mHas[mJobs[i].at][mJobs[i].sub]
        BY <1>1, <3>1, NestedTyped
      <3>3. NestedDid(mJobs[i].op, <<>>, mine) /\ Nested!Mine(i) = mine
        BY <3>1, <3>2 DEF Nested!Mine
      <3>4. /\ NestedDid("add", <<>>, mine) => mine = Nested!Places
            /\ NestedDid("remove", <<>>, mine) => mine = {}
            /\ NestedDid("init", <<>>, mine) => {"config", "modules", "work"} \subseteq mine
        BY NestedWhole
      <3> QED
        BY <2>2, <3>3, <3>4
    <2>3. CASE mJobs[i].op \notin {"add", "remove", "init"}
      BY <2>3
    <2> QED
      BY <2>2, <2>3
  <1> QED
    BY <1>2, <1>3

-----------------------------------------------------------------------------
(***************************************************************************)
(* All of them.                                                            *)
(***************************************************************************)
dialogsVars == <<moving, vars, reflogVars, tagsVars, modulesVars, branchesVars>>

DialogsInv == StashInv /\ ReflogInv /\ TagsInv /\ NestedInv /\ RefsInv

LEMMA DialogsInitInv == ASSUME DialogsInit PROVE DialogsInv
  <1>1. Init /\ Moves!Init /\ Labels!Init /\ Nested!Init /\ Refs!Init
    BY DEF DialogsInit
  <1>2. StashInv
    BY <1>1, StashAssumption, StashInitInv
  <1>3. ReflogInv
    BY <1>1, MovesAssumption, ReflogInitInv
  <1>4. TagsInv
    BY <1>1, LabelsAssumption, TagsInitInv
  <1>5. NestedInv
    BY <1>1, NestedAssumption, NestedInitInv
  <1>6. RefsInv
    BY <1>1, RefsAssumption, RefsInitInv
  <1> QED
    BY <1>2, <1>3, <1>4, <1>5, <1>6 DEF DialogsInv

\* Each component moves as its specification says, or stands still.
LEMMA DialogsMove ==
    ASSUME [DialogsNext]_dialogsVars
    PROVE  /\ [Next]_vars /\ [Moves!Next]_Moves!vars /\ [Labels!Next]_Labels!vars
           /\ [Nested!Next]_Nested!vars /\ [Refs!Next]_Refs!vars
  <1>1. reflogVars' = reflogVars => Moves!vars' = Moves!vars
    BY DEF reflogVars, Moves!vars, Moves!git, Moves!dialog
  <1>2. tagsVars' = tagsVars => Labels!vars' = Labels!vars
    BY DEF tagsVars, Labels!vars, Labels!git, Labels!dialog
  <1>3. modulesVars' = modulesVars => Nested!vars' = Nested!vars
    BY DEF modulesVars, Nested!vars
  <1>4. branchesVars' = branchesVars => Refs!vars' = Refs!vars
    BY DEF branchesVars, Refs!vars, Refs!refs, Refs!ghosts
  <1>5. CASE UNCHANGED dialogsVars
    BY <1>1, <1>2, <1>3, <1>4, <1>5 DEF dialogsVars
  <1>6. CASE DialogsNext
    BY <1>1, <1>2, <1>3, <1>4, <1>6 DEF DialogsNext
  <1> QED
    BY <1>5, <1>6

LEMMA DialogsNextInv == ASSUME DialogsInv, [DialogsNext]_dialogsVars PROVE DialogsInv'
  <1>1. StashInv /\ ReflogInv /\ TagsInv /\ NestedInv /\ RefsInv
    BY DEF DialogsInv
  <1>2. StashInv'
    BY <1>1, StashAssumption, DialogsMove, StashNextInv
  <1>3. ReflogInv'
    BY <1>1, MovesAssumption, DialogsMove, ReflogNextInv
  <1>4. TagsInv'
    BY <1>1, LabelsAssumption, DialogsMove, TagsNextInv
  <1>5. NestedInv'
    BY <1>1, NestedAssumption, DialogsMove, NestedNextInv
  <1>6. RefsInv'
    BY <1>1, RefsAssumption, DialogsMove, RefsNextInv
  <1> QED
    BY <1>2, <1>3, <1>4, <1>5, <1>6 DEF DialogsInv

LEMMA DialogsInvariant == DialogsSpec => []DialogsInv
  <1>1. DialogsInit => DialogsInv
    BY DialogsInitInv
  <1>2. DialogsInv /\ [DialogsNext]_dialogsVars => DialogsInv'
    BY DialogsNextInv
  <1> QED
    BY <1>1, <1>2, PTL DEF DialogsSpec, dialogsVars

(***************************************************************************)
(* Whatever folders, stashes, commits, tags, submodules and branches       *)
(* there are, every variable of the five components stays in its range.    *)
(***************************************************************************)
THEOREM DialogsTypes == DialogsSpec => []AllTypesOK
  <1>1. DialogsInv => AllTypesOK
    BY DEF DialogsInv, AllTypesOK, StashInv, StashBasics, ReflogInv, TagsInv, TagsBasics,
           NestedInv, NestedBasics, RefsInv
  <1> QED
    BY <1>1, DialogsInvariant, PTL

(***************************************************************************)
(* The list a dialog is left with is the one in the repository, unless     *)
(* its last reading failed or was overtaken, and the tags dialog is busy   *)
(* exactly while one of its jobs runs (onStashesReady, onTagsReady,        *)
(* setSubmodules).                                                         *)
(***************************************************************************)
THEOREM DialogsLists == DialogsSpec => []ListsAreRead
  <1>1. DialogsInv => ListsAreRead
    <2> SUFFICES ASSUME DialogsInv PROVE ListsAreRead
      OBVIOUS
    <2>1. ListIsStack
      BY StashListIsStack DEF DialogsInv
    <2>2. Labels!ListIsRead /\ Labels!BusyIsRunning
      BY TagsHold DEF DialogsInv
    <2>3. Nested!RowsAreRead
      BY NestedHold DEF DialogsInv
    <2> QED
      BY <2>1, <2>2, <2>3 DEF ListsAreRead
  <1> QED
    BY <1>1, DialogsInvariant, PTL

(***************************************************************************)
(* A submodule operation that was alone with its submodule, passed         *)
(* nothing over and reports success left it whole (addSubmodule,           *)
(* removeSubmodule).                                                       *)
(***************************************************************************)
THEOREM DialogsWhole == DialogsSpec => []SuccessIsWhole
  <1>1. DialogsInv => SuccessIsWhole
    BY NestedHold DEF DialogsInv, SuccessIsWhole
  <1> QED
    BY <1>1, DialogsInvariant, PTL

(***************************************************************************)
(* As long as no two jobs crossed, HEAD stands on a branch once there is   *)
(* one, and the index has what its tree has and what was staged, the       *)
(* changes that came with a pull apart (checkoutBranch, renameBranch,      *)
(* commit).                                                                *)
(***************************************************************************)
THEOREM DialogsHead == DialogsSpec => []HeadStands
  <1>1. DialogsInv => HeadStands
    BY RefsHeadStands DEF DialogsInv
  <1> QED
    BY <1>1, DialogsInvariant, PTL

(***************************************************************************)
(* What goes for good is what the user chose, unless the stash dialog was  *)
(* crowded; no tag moves; no commit is taken off the branches as long as   *)
(* no two jobs crossed; and an unsigned commit follows what is HEAD when   *)
(* it is made, whatever other commits, undos and restores run beside it:   *)
(* git_commit_create checks the parent against HEAD. A signed commit is    *)
(* not made by it, and is excepted (commit).                               *)
(***************************************************************************)
THEOREM DialogsLoseNothing == DialogsSpec => NothingLostUnchosen
  <1> DEFINE Gone1  == ~crowded' => Gone' \ Gone \subseteq chosen
             Reset1 == \A i \in DOMAIN rJobs :
                          Moves!Steps(i, "reset") => rHead'[Moves!At(i)] \in rChosen
             Commit1 == \A i \in DOMAIN rJobs :
                          Moves!Steps(i, "commit") => rParent'[rHead'[Moves!At(i)]] = rHead[Moves!At(i)]
             Tags1  == \A f \in Trees : \A n \in Labels!NamesOf(f) :
                          tTags'[f][n] \in {tTags[f][n], None}
             Kept1  == ~bCrossed' =>
                          \A n \in Heads : bBranch[n] # Refs!Missing =>
                              \E m \in Heads : Refs!IsPrefix(bBranch[n], bBranch'[m])
  <1>1. DialogsInv /\ [DialogsNext]_dialogsVars =>
            Gone1 /\ Reset1 /\ Commit1 /\ Tags1 /\ Kept1
    <2> SUFFICES ASSUME DialogsInv, [DialogsNext]_dialogsVars
                 PROVE  Gone1 /\ Reset1 /\ Commit1 /\ Tags1 /\ Kept1
      OBVIOUS
    <2>1. /\ StashInv /\ ReflogInv /\ TagsInv /\ RefsInv
          /\ [Next]_vars /\ [Moves!Next]_Moves!vars /\ [Labels!Next]_Labels!vars
          /\ [Refs!Next]_Refs!vars
      BY DialogsMove DEF DialogsInv
    <2>2. Gone1
      BY <2>1, StashAssumption, StashGoneWasChosen
    <2>3. Reset1
      BY <2>1, MovesAssumption, ReflogMoves DEF Moves!At
    <2>4. Commit1
      BY <2>1, MovesAssumption, ReflogMoves DEF Moves!At
    <2>5. Tags1
      BY <2>1, LabelsAssumption, TagsKept
    <2>6. Kept1
      BY <2>1, RefsCommitsKept DEF Refs!Missing, Refs!IsPrefix, IsPrefix
    <2> QED
      BY <2>2, <2>3, <2>4, <2>5, <2>6
  <1> HIDE DEF Gone1, Reset1, Commit1, Tags1, Kept1
  <1>2. DialogsSpec => [][Gone1]_vars /\ [][Reset1]_Moves!vars /\ [][Commit1]_Moves!vars
                       /\ [][Tags1]_Labels!vars /\ [][Kept1]_Refs!vars
    BY <1>1, DialogsInvariant, PTL DEF DialogsSpec, dialogsVars
  <1>3. [][Gone1]_vars => GoneWasChosen
    BY DEF Gone1, GoneWasChosen
  <1>4. [][Reset1]_Moves!vars => Moves!RestoredWasChosen
    BY DEF Reset1, Moves!RestoredWasChosen
  <1>5. [][Commit1]_Moves!vars => Moves!CommitFollowsHead
    BY DEF Commit1, Moves!CommitFollowsHead
  <1>6. [][Tags1]_Labels!vars => Labels!TagsStay
    BY DEF Tags1, Labels!TagsStay
  <1>7. [][Kept1]_Refs!vars => Refs!CommitsKept
    BY DEF Kept1, Refs!CommitsKept
  <1> QED
    BY <1>2, <1>3, <1>4, <1>5, <1>6, <1>7, PTL DEF NothingLostUnchosen
=============================================================================
