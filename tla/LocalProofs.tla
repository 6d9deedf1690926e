---------------------------- MODULE LocalProofs -----------------------------
(***************************************************************************)
(* The panel of a local folder, for every set of folders, operations and   *)
(* commits, every history, every size of a page and every bound: History,  *)
(* Badges and Workspace each have an inductive invariant, and they hold    *)
(* together because only one of them moves.                                *)
(***************************************************************************)
EXTENDS MCLocal, Sequences, FiniteSetTheorems, WellFoundedInduction, SequenceTheorems, TLAPS

(***************************************************************************)
(* History.  The ancestors of a commit, and the order they are walked in:  *)
(* a function defined by itself is the least set closed under parents,     *)
(* and the walk is that set the greatest first.                            *)
(***************************************************************************)
LEMMA LeastOf == ASSUME NEW T, T \subseteq Nat, T # {} PROVE \E x \in T : \A y \in T : x <= y
  <1> DEFINE R == OpToRel(<, Nat)
  <1>1. IsWellFoundedOn(R, Nat)
    BY NatLessThanWellFounded
  <1>2. R = {ss \in Nat \X Nat : ss[1] < ss[2]}
    BY DEF OpToRel
  <1> HIDE DEF R
  <1>3. \A x \in Nat, y \in Nat : y < x => <<y, x>> \in R
    BY <1>2
  <1>4. PICK x \in T : \A y \in T : ~(<<y, x>> \in R)
    BY <1>1, WFMin
  <1>5. ASSUME NEW y \in T PROVE x <= y
    <2>1. x \in Nat /\ y \in Nat /\ ~(y < x)
      BY <1>3, <1>4
    <2> QED
      BY <2>1
  <1> QED
    BY <1>5

-----------------------------------------------------------------------------
\* How many of A are no less than d.
Rank(A, d) == Cardinality({e \in A : e >= d})

LEMMA RankFacts ==
    ASSUME NEW A, A \subseteq Nat, IsFiniteSet(A)
    PROVE  /\ Cardinality(A) \in Nat
           /\ \A d \in A : Rank(A, d) \in 1..Cardinality(A)
           /\ \A d \in A, e \in A : d > e => Rank(A, d) < Rank(A, e)
           /\ \A d \in A, e \in A : Rank(A, d) = Rank(A, e) => d = e
  <1>1. Cardinality(A) \in Nat
    BY FS_CardinalityType
  <1> DEFINE N(d) == {e \in A : e >= d}
  <1>2. ASSUME NEW d \in A PROVE Rank(A, d) \in 1..Cardinality(A) /\ IsFiniteSet(N(d))
    <2>1. N(d) \in SUBSET A /\ d \in N(d)
      OBVIOUS
    <2> HIDE DEF N
    <2>2. IsFiniteSet(N(d)) /\ Cardinality(N(d)) <= Cardinality(A) /\ Cardinality(N(d)) \in Nat
      BY <2>1, FS_Subset, FS_CardinalityType
    <2>3. Cardinality(N(d)) # 0
      BY <2>1, <2>2, FS_EmptySet
    <2> QED
      BY <1>1, <2>2, <2>3 DEF Rank, N
  <1>3. ASSUME NEW d \in A, NEW e \in A, d > e PROVE Rank(A, d) < Rank(A, e)
    <2>0. d \in Nat /\ e \in Nat /\ \A z \in A : z \in Nat
      OBVIOUS
    <2>1. N(d) \in SUBSET N(e) /\ e \in N(e) /\ e \notin N(d)
      <3>1. \A z \in A : z >= d => z >= e
        BY <1>3, <2>0
      <3>2. e >= e /\ ~(e >= d)
        BY <1>3, <2>0
      <3> QED
        BY <3>1, <3>2
    <2>2. IsFiniteSet(N(e)) /\ IsFiniteSet(N(d))
      BY <1>2
    <2> HIDE DEF N
    <2>3. Cardinality(N(d)) <= Cardinality(N(e)) /\ Cardinality(N(e)) # Cardinality(N(d))
      BY <2>1, <2>2, FS_Subset
    <2>4. Cardinality(N(d)) \in Nat /\ Cardinality(N(e)) \in Nat
      BY <2>2, FS_CardinalityType
    <2> QED
      BY <2>3, <2>4 DEF Rank, N
  <1>4. ASSUME NEW d \in A, NEW e \in A, Rank(A, d) = Rank(A, e) PROVE d = e
    <2>1. Rank(A, d) \in 1..Cardinality(A) /\ Rank(A, e) \in 1..Cardinality(A)
      BY <1>2
    <2>2. Rank(A, d) \in Nat /\ d \in Nat /\ e \in Nat
      BY <1>1, <2>1
    <2>3. ~(Rank(A, d) < Rank(A, e)) /\ ~(Rank(A, e) < Rank(A, d))
      BY <1>4, <2>2
    <2> QED
      BY <1>3, <2>2, <2>3
  <1> QED
    BY <1>1, <1>2, <1>3, <1>4

LEMMA RankOnto ==
    ASSUME NEW A, A \subseteq Nat, IsFiniteSet(A), NEW k \in 1..Cardinality(A)
    PROVE  \E d \in A : Rank(A, d) = k
  <1> DEFINE n == Cardinality(A)
  <1> DEFINE f == [d \in A |-> Rank(A, d)]
  <1>1. /\ n \in Nat /\ \A d \in A : Rank(A, d) \in 1..n
        /\ \A d \in A, e \in A : Rank(A, d) = Rank(A, e) => d = e
    BY RankFacts
  <1>2. IsFiniteSet(1..n) /\ Cardinality(1..n) = n
    BY <1>1, FS_Interval
  <1>3. f \in Injection(A, 1..n)
    BY <1>1 DEF Injection, IsInjective
  <1>4. f \in Surjection(A, 1..n)
    <2> HIDE DEF f
    <2> QED
      BY <1>2, <1>3, FS_Injection
  <1>5. \E d \in A : f[d] = k
    BY <1>4 DEF Surjection
  <1> QED
    BY <1>5

\* The members of A, the greatest first.
Falling(A) == [k \in 1..Cardinality(A) |-> CHOOSE d \in A : Rank(A, d) = k]

LEMMA FallingFacts ==
    ASSUME NEW A, A \subseteq Nat, IsFiniteSet(A)
    PROVE  /\ Falling(A) \in Seq(A) /\ Len(Falling(A)) = Cardinality(A)
           /\ \A k \in 1..Cardinality(A) : Falling(A)[k] \in A /\ Rank(A, Falling(A)[k]) = k
           /\ \A d \in A : Falling(A)[Rank(A, d)] = d
  <1> DEFINE n == Cardinality(A)
             s == Falling(A)
  <1>1. n \in Nat /\ s = [k \in 1..n |-> CHOOSE d \in A : Rank(A, d) = k]
    BY RankFacts DEF Falling
  <1>2. ASSUME NEW k \in 1..n PROVE s[k] \in A /\ Rank(A, s[k]) = k
    <2>1. \E d \in A : Rank(A, d) = k
      BY RankOnto
    <2> QED
      BY <1>1, <2>1
  <1> HIDE DEF n, s
  <1>3. s \in [1..n -> A]
    BY <1>1, <1>2
  <1>4. s \in Seq(A) /\ Len(s) = n
    BY <1>1, <1>3
  <1>5. ASSUME NEW d \in A PROVE s[Rank(A, d)] = d
    <2>1. Rank(A, d) \in 1..n
      BY RankFacts DEF n
    <2>2. s[Rank(A, d)] \in A /\ Rank(A, s[Rank(A, d)]) = Rank(A, d)
      BY <1>2, <2>1
    <2> QED
      BY <2>2, RankFacts
  <1> QED
    BY <1>2, <1>4, <1>5 DEF n, s

\* What follows the k-th is what is less than it.
LEMMA FallingRest ==
    ASSUME NEW A, A \subseteq Nat, IsFiniteSet(A), NEW k \in 1..Cardinality(A),
           NEW B, B = {e \in A : e <= Falling(A)[k]}
    PROVE  /\ Cardinality(B) = Cardinality(A) - k + 1
           /\ \A i \in 1..Cardinality(B) : Falling(B)[i] = Falling(A)[i + k - 1]
  <1> DEFINE n == Cardinality(A)
             m == Cardinality(B)
             s == Falling(A)
             t == Falling(B)
             d == s[k]
             U == {e \in A : e >= d}
             V == {e \in A : e > d}
  <1>0. n \in Nat /\ k \in Nat /\ \A e \in A : e \in Nat
    <2>1. n \in Nat
      BY RankFacts
    <2> QED
      BY <2>1
  <1>1. /\ d \in A /\ d \in Nat /\ Rank(A, d) = k /\ B = {e \in A : e <= d}
    <2>1. d \in A /\ Rank(A, d) = k
      BY FallingFacts
    <2> QED
      BY <1>0, <2>1
  <1> HIDE DEF d
  <1>2. /\ B \in SUBSET A /\ B \subseteq Nat /\ U \in SUBSET A /\ V \in SUBSET A
        /\ V = U \ {d} /\ d \in U /\ V \cap B = {} /\ V \cup B = A
    <2>1. \A e \in A : (e >= d <=> e > d \/ e = d) /\ (e <= d <=> ~(e > d)) /\ ~(d > d)
      BY <1>0, <1>1
    <2> QED
      BY <1>0, <1>1, <2>1
  <1>3. Cardinality(U) = k
    BY <1>1 DEF Rank
  <1> HIDE DEF n, m, s, t, d, U, V
  <1>4. IsFiniteSet(B) /\ IsFiniteSet(U) /\ IsFiniteSet(V)
    BY <1>2, FS_Subset
  <1>5. Cardinality(V) = k - 1
    BY <1>2, <1>3, <1>4, FS_RemoveElement
  <1>6. Cardinality(A) = Cardinality(V) + Cardinality(B) - Cardinality({})
    BY <1>2, <1>4, FS_Union
  <1>7. Cardinality(B) \in Nat /\ Cardinality(B) = n - k + 1
    <2>1. Cardinality(B) \in Nat /\ Cardinality({}) = 0
      BY <1>4, FS_EmptySet, FS_CardinalityType
    <2> QED
      BY <1>0, <1>5, <1>6, <2>1 DEF n
  <1>8. ASSUME NEW x \in B PROVE Rank(A, x) = Rank(B, x) + k - 1
    <2> DEFINE X == {e \in A : e >= x}
               Y == {e \in B : e >= x}
    <2>1. X = V \cup Y /\ V \cap Y = {} /\ X \in SUBSET A /\ Y \in SUBSET A
      <3>1. x \in Nat /\ x <= d
        BY <1>0, <1>1
      <3>2. \A e \in A : (e > d => e >= x) /\ (e <= d <=> ~(e > d))
        BY <1>0, <1>1, <3>1
      <3> QED
        BY <1>1, <1>2, <3>2 DEF V
    <2>2. Rank(A, x) = Cardinality(X) /\ Rank(B, x) = Cardinality(Y)
      BY DEF Rank
    <2> HIDE DEF X, Y
    <2>3. IsFiniteSet(Y) /\ Cardinality(Y) \in Nat
      BY <2>1, FS_Subset, FS_CardinalityType
    <2>4. Cardinality(X) = Cardinality(V) + Cardinality(Y) - Cardinality({})
      BY <1>4, <2>1, <2>3, FS_Union
    <2> QED
      BY <1>0, <1>5, <2>2, <2>3, <2>4, FS_EmptySet
  <1>9. ASSUME NEW i \in 1..Cardinality(B) PROVE t[i] = s[i + k - 1]
    <2>1. t[i] \in B /\ Rank(B, t[i]) = i
      <3>1. \A j \in 1..Cardinality(B) : Falling(B)[j] \in B /\ Rank(B, Falling(B)[j]) = j
        BY <1>2, <1>4, FallingFacts
      <3> QED
        BY <3>1 DEF t
    <2>2. PICK x \in B : x = t[i]
      BY <2>1
    <2>3. Rank(A, x) = i + k - 1
      BY <1>0, <1>7, <1>8, <2>1, <2>2
    <2>4. s[Rank(A, x)] = x
      BY <1>2, FallingFacts DEF s
    <2> QED
      BY <2>2, <2>3, <2>4
  <1> QED
    BY <1>7, <1>9 DEF n, s, t

LEMMA PagesSets ==
    /\ \A S : Pages!Cardinality(S) = Cardinality(S)
    /\ \A S : Pages!IsFiniteSet(S) <=> IsFiniteSet(S)
  <1>1. ASSUME NEW S PROVE Pages!Cardinality(S) = Cardinality(S)
    BY DEF Pages!Cardinality, Cardinality
  <1>2. ASSUME NEW S PROVE Pages!IsFiniteSet(S) <=> IsFiniteSet(S)
    BY DEF Pages!IsFiniteSet, IsFiniteSet
  <1> QED
    BY <1>1, <1>2

LEMMA PagesFacts ==
    /\ Commits \subseteq Nat /\ IsFiniteSet(Commits) /\ None \notin Commits /\ None \notin Opened
    /\ Parents \in [Commits -> SUBSET Commits] /\ Folder \in [Commits -> Opened]
    /\ \A c \in Commits : \A q \in Parents[c] : q < c /\ Folder[q] = Folder[c]
    /\ PageSize \in Nat \ {0}
  BY PagesAssumption, PagesSets DEF Pages!HistoryAssumption

\* The least set with c that is closed under parents.
Reach(c) ==
    {d \in Commits : \A S \in SUBSET Commits :
        (c \in S /\ \A x \in S : Parents[x] \subseteq S) => d \in S}

LEMMA ReachFacts ==
    \A c \in Commits : Reach(c) = {c} \cup UNION {Reach(q) : q \in Parents[c]}
  <1> SUFFICES ASSUME NEW c \in Commits
               PROVE  Reach(c) = {c} \cup UNION {Reach(q) : q \in Parents[c]}
    OBVIOUS
  <1> DEFINE T == {c} \cup UNION {Reach(q) : q \in Parents[c]}
  <1>1. ASSUME NEW d \in T PROVE d \in Reach(c)
    <2>1. CASE d = c
      BY <2>1 DEF Reach
    <2>2. ASSUME NEW q \in Parents[c], d \in Reach(q) PROVE d \in Reach(c)
      <3>1. d \in Commits
        BY <2>2 DEF Reach
      <3>2. ASSUME NEW S \in SUBSET Commits, c \in S, \A x \in S : Parents[x] \subseteq S
            PROVE  d \in S
        <4>1. q \in S
          BY <3>2
        <4> QED
          BY <2>2, <3>2, <4>1 DEF Reach
      <3> QED
        BY <3>1, <3>2 DEF Reach
    <2> QED
      BY <1>1, <2>1, <2>2
  <1>2. T \in SUBSET Commits /\ c \in T
    BY PagesFacts DEF Reach
  <1>3. ASSUME NEW x \in T, NEW y \in Parents[x] PROVE y \in T
    <2>0. \A q \in Commits : q \in Reach(q)
      BY DEF Reach
    <2>1. CASE x = c
      <3>1. y \in Reach(y) /\ y \in Parents[c]
        BY <1>3, <2>0, <2>1, PagesFacts
      <3> QED
        BY <3>1
    <2>2. ASSUME NEW q \in Parents[c], x \in Reach(q) PROVE y \in T
      <3>1. x \in Commits /\ y \in Commits
        BY <1>2, <1>3, PagesFacts
      <3>2. ASSUME NEW S \in SUBSET Commits, q \in S, \A z \in S : Parents[z] \subseteq S
            PROVE  y \in S
        <4>1. x \in S
          BY <2>2, <3>2 DEF Reach
        <4> QED
          BY <1>3, <3>2, <4>1
      <3>3. y \in Reach(q)
        BY <3>1, <3>2 DEF Reach
      <3> QED
        BY <3>3
    <2> QED
      BY <1>3, <2>1, <2>2
  <1>4. ASSUME NEW d \in Reach(c) PROVE d \in T
    <2>1. \A x \in T : Parents[x] \subseteq T
      BY <1>3
    <2> HIDE DEF T
    <2> QED
      BY <1>2, <1>4, <2>1 DEF Reach
  <1> QED
    BY <1>1, <1>4

LEMMA AncestorsAre ==
    /\ \A c \in Commits : Pages!Ancestors[c] = {c} \cup UNION {Pages!Ancestors[q] : q \in Parents[c]}
  <1> DEFINE Grows(f) == f = [c \in Commits |-> {c} \cup UNION {f[q] : q \in Parents[c]}]
  <1> DEFINE R == [c \in Commits |-> Reach(c)]
  <1>1. Grows(R)
    <2>1. ASSUME NEW c \in Commits
          PROVE  {Reach(q) : q \in Parents[c]} = {R[q] : q \in Parents[c]}
      <3>1. \A q \in Parents[c] : R[q] = Reach(q)
        BY PagesFacts
      <3> QED
        BY <3>1
    <2>2. \A c \in Commits : R[c] = {c} \cup UNION {R[q] : q \in Parents[c]}
      BY <2>1, ReachFacts
    <2> QED
      BY <2>2
  <1>2. Pages!Ancestors = CHOOSE f : Grows(f)
    BY DEF Pages!Ancestors
  <1>3. Grows(Pages!Ancestors)
    <2> HIDE DEF R, Grows
    <2> QED
      BY <1>1, <1>2
  <1> QED
    BY <1>3

\* What holds of c if it holds of its parents holds of every commit.
LEMMA AncestorsBound ==
    \A c \in Commits :
        /\ c \in Pages!Ancestors[c]
        /\ \A d \in Pages!Ancestors[c] : d \in Commits /\ d <= c /\ Folder[d] = Folder[c]
  <1> DEFINE P(c) == \A d \in Pages!Ancestors[c] : d \in Commits /\ d <= c /\ Folder[d] = Folder[c]
             Bad == {c \in Commits : ~P(c)}
  <1>1. Bad = {}
    <2>1. SUFFICES ASSUME Bad # {} PROVE FALSE
      OBVIOUS
    <2>2. Bad \subseteq Nat
      BY PagesFacts
    <2> HIDE DEF P
    <2>3. PICK c \in Bad : \A e \in Bad : c <= e
      <3> HIDE DEF Bad
      <3> QED
        BY <2>1, <2>2, LeastOf
    <2>4. c \in Commits /\ c \in Nat
      BY <2>2
    <2>5. ASSUME NEW d \in Pages!Ancestors[c]
          PROVE  d \in Commits /\ d <= c /\ Folder[d] = Folder[c]
      <3>1. CASE d = c
        BY <2>4, <3>1
      <3>2. ASSUME NEW q \in Parents[c], d \in Pages!Ancestors[q]
            PROVE  d \in Commits /\ d <= c /\ Folder[d] = Folder[c]
        <4>1. q \in Commits /\ q < c /\ Folder[q] = Folder[c] /\ q \in Nat
          BY <2>4, PagesFacts
        <4>2. P(q)
          BY <2>3, <2>4, <4>1
        <4>3. d \in Commits /\ d <= q /\ Folder[d] = Folder[q]
          BY <3>2, <4>2 DEF P
        <4>4. d \in Nat
          BY <4>3, PagesFacts
        <4> QED
          BY <2>4, <4>1, <4>3, <4>4
      <3> QED
        BY <2>4, <2>5, <3>1, <3>2, AncestorsAre
    <2>6. P(c)
      BY <2>5 DEF P
    <2> QED
      BY <2>6
  <1> QED
    BY <1>1, AncestorsAre

\* On a line, the ancestors of an ancestor are those that are no newer.
LEMMA LineAncestors ==
    ASSUME Pages!Linear
    PROVE  \A c \in Commits : \A d \in Pages!Ancestors[c] :
              Pages!Ancestors[d] = {e \in Pages!Ancestors[c] : e <= d}
  <1> DEFINE P(c) == \A d \in Pages!Ancestors[c] :
                        Pages!Ancestors[d] = {e \in Pages!Ancestors[c] : e <= d}
             Bad == {c \in Commits : ~P(c)}
  <1>1. Bad = {}
    <2>1. SUFFICES ASSUME Bad # {} PROVE FALSE
      OBVIOUS
    <2>2. Bad \subseteq Nat
      BY PagesFacts
    <2> HIDE DEF P
    <2>3. PICK c \in Bad : \A e \in Bad : c <= e
      <3> HIDE DEF Bad
      <3> QED
        BY <2>1, <2>2, LeastOf
    <2>4. c \in Commits /\ c \in Nat
      BY <2>2
    <2>5. ASSUME NEW d \in Pages!Ancestors[c]
          PROVE  Pages!Ancestors[d] = {e \in Pages!Ancestors[c] : e <= d}
      <3>1. CASE d = c
        BY <2>4, <3>1, AncestorsBound
      <3>2. ASSUME NEW q \in Parents[c], d \in Pages!Ancestors[q]
            PROVE  Pages!Ancestors[d] = {e \in Pages!Ancestors[c] : e <= d}
        <4>1. q \in Commits /\ q < c /\ q \in Nat /\ \A p \in Parents[c] : p = q
          BY <2>4, PagesFacts DEF Pages!Linear
        <4>2. P(q)
          BY <2>3, <2>4, <4>1
        <4>3. Pages!Ancestors[d] = {e \in Pages!Ancestors[q] : e <= d}
          BY <3>2, <4>2 DEF P
        <4>4. Pages!Ancestors[c] = {c} \cup Pages!Ancestors[q]
          <5>1. Pages!Ancestors[c] = {c} \cup UNION {Pages!Ancestors[p] : p \in Parents[c]}
            BY <2>4, AncestorsAre
          <5>2. UNION {Pages!Ancestors[p] : p \in Parents[c]} = Pages!Ancestors[q]
            BY <4>1
          <5> QED
            BY <5>1, <5>2
        <4>5. ~(c <= d)
          <5>1. d <= q /\ d \in Nat
            BY <3>2, <4>1, AncestorsBound, PagesFacts
          <5> QED
            BY <2>4, <4>1, <5>1
        <4> QED
          BY <4>3, <4>4, <4>5
      <3> QED
        BY <2>4, <2>5, <3>1, <3>2, AncestorsAre
    <2>6. P(c)
      BY <2>5 DEF P
    <2> QED
      BY <2>6
  <1> QED
    BY <1>1

LEMMA WalkFacts ==
    ASSUME NEW c \in Commits
    PROVE  /\ Pages!Ancestors[c] \subseteq Nat /\ IsFiniteSet(Pages!Ancestors[c])
           /\ Pages!Walk(c) = Falling(Pages!Ancestors[c])
           /\ Pages!Walk(c) \in Seq(Commits) /\ Len(Pages!Walk(c)) = Cardinality(Pages!Ancestors[c])
           /\ Len(Pages!Walk(c)) > 0 /\ Pages!Walk(c)[1] = c
           /\ \A i \in 1..Len(Pages!Walk(c)) :
                 Pages!Walk(c)[i] \in Pages!Ancestors[c] /\ Folder[Pages!Walk(c)[i]] = Folder[c]
           /\ \A d \in Pages!Ancestors[c] : \E i \in 1..Len(Pages!Walk(c)) : Pages!Walk(c)[i] = d
  <1> DEFINE A == Pages!Ancestors[c]
             w == Pages!Walk(c)
  <1>1. A \in SUBSET Commits /\ A \subseteq Nat /\ c \in A
        /\ \A d \in A : d <= c /\ Folder[d] = Folder[c]
    BY AncestorsBound, PagesFacts
  <1>2. w = Falling(A)
    BY DEF Pages!Walk, Falling, Rank, Pages!Cardinality, Cardinality
  <1> HIDE DEF A, w
  <1>3. IsFiniteSet(A)
    BY <1>1, PagesFacts, FS_Subset
  <1>4. /\ w \in Seq(A) /\ Len(w) = Cardinality(A) /\ Cardinality(A) \in Nat
        /\ \A k \in 1..Cardinality(A) : w[k] \in A /\ Rank(A, w[k]) = k
        /\ \A d \in A : w[Rank(A, d)] = d /\ Rank(A, d) \in 1..Cardinality(A)
    BY <1>1, <1>2, <1>3, FallingFacts, RankFacts
  <1>5. w \in Seq(Commits)
    <2>1. \A k \in 1..Len(w) : w[k] \in Commits
      BY <1>1, <1>4
    <2>2. w = [k \in 1..Len(w) |-> w[k]]
      BY <1>4
    <2> QED
      BY <1>4, <2>1, <2>2
  <1>6. Rank(A, c) = 1
    <2>1. {e \in A : e >= c} = {c}
      <3>1. \A e \in A : e >= c => e = c
        BY <1>1
      <3>2. c >= c
        BY <1>1
      <3> QED
        BY <1>1, <3>1, <3>2
    <2> QED
      BY <2>1, FS_Singleton DEF Rank
  <1>7. Len(w) > 0 /\ w[1] = c
    BY <1>1, <1>4, <1>6
  <1>8. \A i \in 1..Len(w) : w[i] \in A /\ Folder[w[i]] = Folder[c]
    BY <1>1, <1>4
  <1>9. \A d \in A : \E i \in 1..Len(w) : w[i] = d
    BY <1>4
  <1> QED
    BY <1>1, <1>2, <1>3, <1>4, <1>5, <1>7, <1>8, <1>9 DEF A, w

\* On a line, the walk from the k-th commit of a walk is the rest of that walk.
LEMMA WalkRest ==
    ASSUME Pages!Linear, NEW c \in Commits, NEW k \in 1..Len(Pages!Walk(c)),
           NEW d, d = Pages!Walk(c)[k]
    PROVE  /\ d \in Commits /\ Len(Pages!Walk(d)) = Len(Pages!Walk(c)) - k + 1
           /\ \A i \in 1..Len(Pages!Walk(d)) : Pages!Walk(d)[i] = Pages!Walk(c)[i + k - 1]
  <1>1. PICK A, B : A = Pages!Ancestors[c] /\ B = Pages!Ancestors[d]
    OBVIOUS
  <1>2. A \subseteq Nat /\ IsFiniteSet(A) /\ Pages!Walk(c) = Falling(A)
        /\ Len(Pages!Walk(c)) = Cardinality(A) /\ d \in A
    BY <1>1, WalkFacts
  <1>3. d \in Commits
    BY <1>1, <1>2, AncestorsBound
  <1>4. B = {e \in A : e <= Falling(A)[k]}
    BY <1>1, <1>2, LineAncestors
  <1>5. Pages!Walk(d) = Falling(B) /\ Len(Pages!Walk(d)) = Cardinality(B)
    BY <1>1, <1>3, WalkFacts
  <1>6. k \in 1..Cardinality(A)
    BY <1>2
  <1>7. Cardinality(B) = Cardinality(A) - k + 1
        /\ \A i \in 1..Cardinality(B) : Falling(B)[i] = Falling(A)[i + k - 1]
    <2>1. A \subseteq Nat /\ IsFiniteSet(A)
      BY <1>2
    <2>2. \A X : (X \subseteq Nat /\ IsFiniteSet(X)) => \A j \in 1..Cardinality(X) :
             \A Y : Y = {e \in X : e <= Falling(X)[j]} =>
                (/\ Cardinality(Y) = Cardinality(X) - j + 1
                 /\ \A i \in 1..Cardinality(Y) : Falling(Y)[i] = Falling(X)[i + j - 1])
      BY FallingRest
    <2>3. \A j \in 1..Cardinality(A) : \A Y : Y = {e \in A : e <= Falling(A)[j]} =>
                (/\ Cardinality(Y) = Cardinality(A) - j + 1
                 /\ \A i \in 1..Cardinality(Y) : Falling(Y)[i] = Falling(A)[i + j - 1])
      BY <2>1, <2>2, Zenon
    <2>4. \A Y : Y = {e \in A : e <= Falling(A)[k]} =>
                (/\ Cardinality(Y) = Cardinality(A) - k + 1
                 /\ \A i \in 1..Cardinality(Y) : Falling(Y)[i] = Falling(A)[i + k - 1])
      BY <1>6, <2>3, Zenon
    <2> QED
      BY <1>4, <2>4, Zenon
  <1> QED
    BY <1>2, <1>3, <1>5, <1>7

-----------------------------------------------------------------------------
(***************************************************************************)
(* Sequences of commits, and bags of loads.                                *)
(***************************************************************************)
IsBag(b) == \A e \in DOMAIN b : b[e] \in Nat \ {0}

\* t goes on where s ends.
Starts(s, t) == Len(s) <= Len(t) /\ \A i \in 1..Len(s) : s[i] = t[i]

LEMMA PrefixIsStart ==
    ASSUME NEW S, NEW s \in Seq(S), NEW t \in Seq(S)
    PROVE  Pages!IsPrefix(s, t) <=> Starts(s, t)
  <1> DEFINE n == Len(s)
  <1>1. n \in Nat /\ Len(t) \in Nat /\ s = [i \in 1..n |-> s[i]]
    OBVIOUS
  <1>2. SubSeq(s, 1, n) = s
    BY <1>1
  <1>3. ASSUME n <= Len(t) PROVE SubSeq(t, 1, n) = [i \in 1..n |-> t[i]]
    BY <1>1, <1>3
  <1>4. ASSUME n <= Len(t), s = [i \in 1..n |-> t[i]] PROVE Starts(s, t)
    BY <1>1, <1>4 DEF Starts
  <1>5. ASSUME Starts(s, t) PROVE n <= Len(t) /\ s = [i \in 1..n |-> t[i]]
    BY <1>1, <1>5 DEF Starts
  <1> QED
    BY <1>2, <1>3, <1>4, <1>5 DEF Pages!IsPrefix

LEMMA FirstPageFacts ==
    ASSUME NEW s \in Seq(Commits)
    PROVE  /\ Pages!FirstPage(s) \in Seq(Commits) /\ Starts(Pages!FirstPage(s), s)
           /\ Len(Pages!FirstPage(s)) < PageSize => Len(Pages!FirstPage(s)) = Len(s)
  <1> DEFINE n == IF Len(s) < PageSize THEN Len(s) ELSE PageSize
             p == Pages!FirstPage(s)
  <1>1. n \in Nat /\ n <= Len(s) /\ (n < PageSize => n = Len(s)) /\ PageSize \in Nat
    BY PagesFacts
  <1>2. p = SubSeq(s, 1, n)
    BY DEF Pages!FirstPage
  <1> HIDE DEF n, p
  <1>3. p \in Seq(Commits) /\ Len(p) = n /\ \A i \in 1..n : p[i] = s[i]
    BY <1>1, <1>2
  <1> QED
    BY <1>1, <1>3 DEF Starts, p

LEMMA TailFacts ==
    ASSUME NEW s \in Seq(Commits), s # <<>>
    PROVE  /\ Tail(s) \in Seq(Commits) /\ Len(Tail(s)) = Len(s) - 1
           /\ \A i \in 1..Len(Tail(s)) : Tail(s)[i] = s[i + 1]
  OBVIOUS

\* The page after the last of the rows goes on where they end.
LEMMA PageGoesOn ==
    ASSUME Pages!Linear, NEW c \in Commits, NEW s \in Seq(Commits), s # <<>>,
           Starts(s, Pages!Walk(c)), NEW d, d = s[Len(s)],
           NEW p, p = Pages!FirstPage(Tail(Pages!Walk(d)))
    PROVE  /\ p \in Seq(Commits) /\ Starts(s \o p, Pages!Walk(c))
           /\ Len(p) < PageSize => Len(s \o p) = Len(Pages!Walk(c))
  <1> DEFINE w == Pages!Walk(c)
             v == Pages!Walk(d)
             k == Len(s)
  <1>1. k \in Nat /\ k > 0 /\ s[k] = w[k] /\ k <= Len(w) /\ w \in Seq(Commits)
        /\ \A i \in 1..k : s[i] = w[i]
    <2>1. k \in Nat /\ k > 0
      OBVIOUS
    <2>2. w \in Seq(Commits)
      BY WalkFacts
    <2>3. k <= Len(w) /\ \A i \in 1..k : s[i] = w[i]
      BY DEF Starts
    <2> QED
      BY <2>1, <2>2, <2>3
  <1>2. k \in 1..Len(w) /\ d = w[k]
    BY <1>1
  <1>3. /\ d \in Commits /\ Len(v) = Len(w) - k + 1
        /\ \A i \in 1..Len(v) : v[i] = w[i + k - 1]
    BY <1>2, WalkRest
  <1>4. v \in Seq(Commits) /\ v # <<>> /\ Len(v) \in Nat /\ Len(v) > 0
    <2>1. v \in Seq(Commits) /\ Len(v) > 0
      BY <1>3, WalkFacts
    <2> HIDE DEF v
    <2>2. v # <<>>
      BY <2>1
    <2> QED
      BY <2>1, <2>2
  <1> HIDE DEF w, v, k
  <1> DEFINE t == Tail(v)
  <1>5. t \in Seq(Commits) /\ Len(t) = Len(v) - 1 /\ \A i \in 1..Len(t) : t[i] = v[i + 1]
    BY <1>4, TailFacts
  <1>6. Len(w) \in Nat
    BY <1>1
  <1>7. Len(t) = Len(w) - k /\ \A i \in 1..Len(t) : t[i] = w[i + k]
    <2>1. Len(t) = Len(w) - k
      BY <1>1, <1>3, <1>5, <1>6
    <2>2. ASSUME NEW i \in 1..Len(t) PROVE t[i] = w[i + k]
      <3>1. i + 1 \in 1..Len(v) /\ (i + 1) + k - 1 = i + k
        BY <1>1, <1>4, <1>5
      <3> QED
        BY <3>1, <1>3, <1>5
    <2> QED
      BY <2>1, <2>2
  <1> HIDE DEF t
  <1>8. /\ p \in Seq(Commits) /\ Len(p) <= Len(t) /\ \A i \in 1..Len(p) : p[i] = t[i]
        /\ Len(p) < PageSize => Len(p) = Len(t)
    BY <1>5, FirstPageFacts DEF Starts, t, v
  <1>9. Len(p) \in Nat /\ Len(s \o p) = k + Len(p)
        /\ \A i \in 1..(k + Len(p)) : (s \o p)[i] = IF i <= k THEN s[i] ELSE p[i - k]
    BY <1>8 DEF k
  <1>10. ASSUME NEW i \in 1..(k + Len(p)) PROVE (s \o p)[i] = w[i]
    <2>1. CASE i <= k
      BY <2>1, <1>1, <1>9
    <2>2. CASE i > k
      <3>1. i - k \in 1..Len(p) /\ (i - k) + k = i /\ i - k \in 1..Len(t)
        BY <2>2, <1>1, <1>6, <1>7, <1>8, <1>9
      <3>2. p[i - k] = t[i - k] /\ t[i - k] = w[(i - k) + k]
        BY <3>1, <1>7, <1>8
      <3> QED
        BY <3>1, <3>2, <2>2, <1>1, <1>9
    <2> QED
      BY <2>1, <2>2, <1>1, <1>9
  <1> QED
    <2>1. Len(s \o p) <= Len(w) /\ (Len(p) < PageSize => Len(s \o p) = Len(w))
      BY <1>1, <1>6, <1>7, <1>8, <1>9
    <2>2. Starts(s \o p, w)
      BY <2>1, <1>9, <1>10 DEF Starts
    <2> QED
      BY <2>1, <2>2, <1>8 DEF w
-----------------------------------------------------------------------------
\* A list as long as the walk it starts is all of it.
LEMMA WholeWalk ==
    ASSUME NEW c \in Commits, NEW s \in Seq(Commits), Starts(s, Pages!Walk(c)),
           Len(s) = Len(Pages!Walk(c))
    PROVE  Pages!ToSet(s) = Pages!Ancestors[c]
  <1> DEFINE w == Pages!Walk(c)
  <1>1. /\ w \in Seq(Commits) /\ Len(s) = Len(w)
        /\ \A i \in 1..Len(w) : s[i] = w[i] /\ w[i] \in Pages!Ancestors[c]
        /\ \A d \in Pages!Ancestors[c] : \E i \in 1..Len(w) : w[i] = d
    BY WalkFacts DEF Starts
  <1>2. DOMAIN s = 1..Len(w)
    BY <1>1
  <1> QED
    BY <1>1, <1>2 DEF Pages!ToSet

\* How often e is in the bag b.
CountIn(b, e) == IF e \in DOMAIN b THEN b[e] ELSE 0

\* Two bags differ at most in how often j is in them.
SameBut(b, c, j) == \A e : e # j => CountIn(c, e) = CountIn(b, e)

LEMMA PageAdds ==
    ASSUME NEW b, IsBag(b), NEW j, NEW c, c = Pages!(+)(b, Pages!SetToBag({j}))
    PROVE  /\ IsBag(c) /\ DOMAIN c = DOMAIN b \cup {j}
           /\ CountIn(c, j) = CountIn(b, j) + 1
           /\ SameBut(b, c, j)
  <1> DEFINE o == Pages!SetToBag({j})
  <1>1. DOMAIN o = {j} /\ o[j] = 1
    BY DEF Pages!SetToBag
  <1> HIDE DEF o
  <1>2. c = [e \in DOMAIN b \cup DOMAIN o |->
                (IF e \in DOMAIN b THEN b[e] ELSE 0) + (IF e \in DOMAIN o THEN o[e] ELSE 0)]
    BY DEF o, Pages!(+)
  <1>3. DOMAIN c = DOMAIN b \cup {j}
    BY <1>1, <1>2
  <1>4. ASSUME NEW e PROVE CountIn(c, e) = CountIn(b, e) + (IF e = j THEN 1 ELSE 0)
    <2>1. CASE e \in DOMAIN c
      <3>1. c[e] = CountIn(b, e) + (IF e = j THEN o[j] ELSE 0)
        BY <2>1, <1>1, <1>2 DEF CountIn
      <3> QED
        BY <3>1, <2>1, <1>1 DEF CountIn
    <2>2. CASE e \notin DOMAIN c
      BY <2>2, <1>3 DEF CountIn
    <2> QED
      BY <2>1, <2>2
  <1>5. IsBag(c)
    <2>1. ASSUME NEW e \in DOMAIN c PROVE c[e] \in Nat \ {0}
      <3>1. c[e] = CountIn(b, e) + (IF e = j THEN 1 ELSE 0)
        BY <1>4 DEF CountIn
      <3>2. CountIn(b, e) \in Nat /\ (e # j => CountIn(b, e) > 0)
        BY <1>3 DEF CountIn, IsBag
      <3> QED
        BY <3>1, <3>2
    <2> QED
      BY <2>1 DEF IsBag
  <1>6. \A e : CountIn(b, e) \in Nat
    BY DEF CountIn, IsBag
  <1>7. CountIn(c, j) = CountIn(b, j) + 1 /\ SameBut(b, c, j)
    <2>1. ASSUME NEW e, e # j PROVE CountIn(c, e) = CountIn(b, e)
      <3>1. CountIn(c, e) = CountIn(b, e) + 0
        BY <1>4, <2>1
      <3> QED
        BY <3>1, <1>6
    <2> QED
      BY <2>1, <1>4 DEF SameBut
  <1> QED
    BY <1>3, <1>5, <1>7

LEMMA PageTakes ==
    ASSUME NEW b, IsBag(b), NEW j \in DOMAIN b, NEW c, c = Pages!(-)(b, Pages!SetToBag({j}))
    PROVE  /\ IsBag(c) /\ DOMAIN c \subseteq DOMAIN b /\ DOMAIN b \ {j} \subseteq DOMAIN c
           /\ j \in DOMAIN c => b[j] > 1
           /\ CountIn(c, j) = CountIn(b, j) - 1
           /\ SameBut(b, c, j)
  <1> DEFINE o == Pages!SetToBag({j})
             g == [e \in DOMAIN b |-> IF e \in DOMAIN o THEN b[e] - o[e] ELSE b[e]]
  <1>1. DOMAIN o = {j} /\ o[j] = 1
    BY DEF Pages!SetToBag
  <1>2. c = [e \in {d \in DOMAIN g : g[d] > 0} |-> g[e]]
    BY DEF Pages!(-)
  <1>3. DOMAIN g = DOMAIN b /\ \A e \in DOMAIN b : g[e] = b[e] - (IF e = j THEN 1 ELSE 0)
    <2>1. ASSUME NEW e \in DOMAIN b PROVE g[e] = b[e] - (IF e = j THEN 1 ELSE 0)
      <3>1. b[e] \in Nat
        BY DEF IsBag
      <3>2. g[e] = IF e = j THEN b[e] - o[j] ELSE b[e]
        BY <1>1
      <3> HIDE DEF g
      <3> QED
        BY <3>1, <3>2, <1>1
    <2> QED
      BY <2>1
  <1> HIDE DEF g, o
  <1>4. \A e \in DOMAIN b : b[e] \in Nat /\ b[e] > 0
    BY DEF IsBag
  <1>5. DOMAIN c = {d \in DOMAIN b : g[d] > 0} /\ \A e \in DOMAIN c : c[e] = g[e]
    BY <1>2, <1>3
  <1>6. /\ IsBag(c) /\ DOMAIN c \subseteq DOMAIN b /\ DOMAIN b \ {j} \subseteq DOMAIN c
        /\ j \in DOMAIN c => b[j] > 1
    <2>1. \A e \in DOMAIN c : c[e] \in Nat \ {0}
      BY <1>3, <1>4, <1>5
    <2>2. \A e \in DOMAIN b : e # j => e \in DOMAIN c
      BY <1>3, <1>4, <1>5
    <2>3. j \in DOMAIN c => b[j] > 1
      BY <1>3, <1>4, <1>5
    <2> QED
      BY <2>1, <2>2, <2>3, <1>5 DEF IsBag
  <1>7. ASSUME NEW e PROVE CountIn(c, e) = CountIn(b, e) - (IF e = j THEN 1 ELSE 0)
    <2>1. CASE e \in DOMAIN c
      BY <2>1, <1>3, <1>5 DEF CountIn
    <2>2. CASE e \notin DOMAIN c /\ e \in DOMAIN b
      <3>1. e = j /\ ~(g[e] > 0) /\ g[e] = b[e] - 1 /\ b[e] \in Nat /\ b[e] > 0
        BY <2>2, <1>3, <1>4, <1>5, <1>6
      <3> QED
        BY <3>1, <2>2 DEF CountIn
    <2>3. CASE e \notin DOMAIN b
      BY <2>3, <1>6 DEF CountIn
    <2> QED
      BY <2>1, <2>2, <2>3
  <1>8. \A e : CountIn(b, e) \in Nat
    BY DEF CountIn, IsBag
  <1>9. CountIn(c, j) = CountIn(b, j) - 1 /\ SameBut(b, c, j)
    <2>1. ASSUME NEW e, e # j PROVE CountIn(c, e) = CountIn(b, e)
      <3>1. CountIn(c, e) = CountIn(b, e) - 0
        BY <1>7, <2>1
      <3> QED
        BY <3>1, <1>8
    <2> QED
      BY <2>1, <1>7 DEF SameBut
  <1> QED
    BY <1>6, <1>9

-----------------------------------------------------------------------------
(***************************************************************************)
(* History.  The invariant says that a load brings the first page of its   *)
(* folder or the page after the commit it was asked for, and that unless   *)
(* a list was replaced while a page was awaited, the page awaited is the   *)
(* only one and follows the rows.                                          *)
(***************************************************************************)
\* What a job brings: a first page of its folder, or the one after a commit.
PageTrue(j) ==
    /\ j \in Pages!Job
    /\ j.after # None => Folder[j.after] = j.path
    /\ j.done =>
          \/ j.page = <<>> /\ (j.after # None => j.failed)
          \/ j.after = None /\ \E h \in Commits :
                 Folder[h] = j.path /\ j.page = Pages!FirstPage(Pages!Walk(h))
          \/ j.after # None /\ j.page = Pages!FirstPage(Tail(Pages!Walk(j.after)))

PagesTyped ==
    /\ Pages!TypeOK /\ IsBag(hJobs)
    /\ \A p \in Opened : hHead[p] # None => Folder[hHead[p]] = p
    /\ \A j \in DOMAIN hJobs : PageTrue(j)

\* The page asked for last is the only one on its way, and follows the rows.
PageComes ==
    hShown # None /\ ~hCrossed =>
        \A j \in Pages!Pending(hPath) :
            /\ hMore = "loading" /\ hRows # <<>> /\ j.after = hRows[Len(hRows)]
            /\ hJobs[j] = 1 /\ \A k \in Pages!Pending(hPath) : k = j

PagesInv ==
    PagesTyped /\ Pages!RowsOfFolder /\ Pages!LastRowWorks /\ PageComes /\ Pages!PagesJoin

Asked(p, after) == [path |-> p, after |-> after, done |-> FALSE, page |-> <<>>, failed |-> FALSE]
Answered(j, page, failed) ==
    [path |-> j.path, after |-> j.after, done |-> TRUE, page |-> page, failed |-> failed]

LEMMA PendingIs ==
    /\ Pages!InFlight = DOMAIN hJobs
    /\ \A p : Pages!Pending(p) = {j \in DOMAIN hJobs : j.path = p /\ j.after # None}
  BY DEF Pages!InFlight, Pages!BagToSet, Pages!Pending

LEMMA PendingIsNext ==
    /\ Pages!InFlight' = DOMAIN hJobs'
    /\ \A p : Pages!Pending(p)' = {j \in DOMAIN hJobs' : j.path = p /\ j.after # None}
  BY DEF Pages!InFlight, Pages!BagToSet, Pages!Pending

LEMMA AskedFacts ==
    ASSUME NEW p \in Opened, NEW a \in Commits \cup {None}, a # None => Folder[a] = p
    PROVE  PageTrue(Asked(p, a))
  <1>1. <<>> \in Seq(Commits)
    OBVIOUS
  <1> DEFINE j == Asked(p, a)
  <1>2. j.path = p /\ j.after = a /\ j.done = FALSE
    BY DEF Asked
  <1>3. j \in Pages!Job
    BY <1>1 DEF Asked, Pages!Job
  <1> QED
    BY <1>2, <1>3 DEF PageTrue

LEMMA RequestFacts ==
    ASSUME PagesTyped, NEW p \in Opened, NEW a \in Commits \cup {None},
           a # None => Folder[a] = p, Pages!Request(p, a)
    PROVE  /\ IsBag(hJobs') /\ \A j \in DOMAIN hJobs' : PageTrue(j)
           /\ DOMAIN hJobs' = DOMAIN hJobs \cup {Asked(p, a)}
           /\ CountIn(hJobs', Asked(p, a)) = CountIn(hJobs, Asked(p, a)) + 1
           /\ SameBut(hJobs, hJobs', Asked(p, a))
  <1> DEFINE j == Asked(p, a)
  <1>1. hJobs' = Pages!(+)(hJobs, Pages!SetToBag({j}))
    BY DEF Pages!Request, Pages!Load, Asked
  <1>2. PageTrue(j)
    BY AskedFacts
  <1> HIDE DEF j
  <1>3. /\ IsBag(hJobs') /\ DOMAIN hJobs' = DOMAIN hJobs \cup {j}
        /\ CountIn(hJobs', j) = CountIn(hJobs, j) + 1
        /\ SameBut(hJobs, hJobs', j)
    <2>1. PICK c : c = hJobs'
      OBVIOUS
    <2>2. c = Pages!(+)(hJobs, Pages!SetToBag({j}))
      BY <2>1, <1>1
    <2>3. /\ IsBag(c) /\ DOMAIN c = DOMAIN hJobs \cup {j}
          /\ CountIn(c, j) = CountIn(hJobs, j) + 1
          /\ SameBut(hJobs, c, j)
      <3>1. IsBag(hJobs)
        BY DEF PagesTyped
      <3> QED
        BY <3>1, <2>2, PageAdds, Zenon
    <2> QED
      BY <2>1, <2>3
  <1> QED
    BY <1>2, <1>3 DEF PagesTyped, j

LEMMA TakenFacts ==
    ASSUME PagesTyped, NEW j \in DOMAIN hJobs,
           hJobs' = Pages!(-)(hJobs, Pages!SetToBag({j}))
    PROVE  /\ IsBag(hJobs') /\ \A k \in DOMAIN hJobs' : PageTrue(k)
           /\ DOMAIN hJobs' \subseteq DOMAIN hJobs /\ DOMAIN hJobs \ {j} \subseteq DOMAIN hJobs'
           /\ j \in DOMAIN hJobs' => hJobs[j] > 1
           /\ \A e \in DOMAIN hJobs' : e # j => hJobs'[e] = hJobs[e]
  <1>1. /\ IsBag(hJobs') /\ DOMAIN hJobs' \subseteq DOMAIN hJobs
        /\ DOMAIN hJobs \ {j} \subseteq DOMAIN hJobs' /\ (j \in DOMAIN hJobs' => hJobs[j] > 1)
        /\ CountIn(hJobs', j) = CountIn(hJobs, j) - 1
        /\ SameBut(hJobs, hJobs', j)
    <2>1. PICK c : c = hJobs'
      OBVIOUS
    <2>2. c = Pages!(-)(hJobs, Pages!SetToBag({j}))
      BY <2>1
    <2>3. /\ IsBag(c) /\ DOMAIN c \subseteq DOMAIN hJobs
          /\ DOMAIN hJobs \ {j} \subseteq DOMAIN c /\ (j \in DOMAIN c => hJobs[j] > 1)
          /\ CountIn(c, j) = CountIn(hJobs, j) - 1
          /\ SameBut(hJobs, c, j)
      BY <2>2, PageTakes DEF PagesTyped
    <2> QED
      BY <2>1, <2>3
  <1>2. ASSUME NEW e \in DOMAIN hJobs', e # j PROVE hJobs'[e] = hJobs[e]
    <2>1. CountIn(hJobs', e) = CountIn(hJobs, e) /\ e \in DOMAIN hJobs
      BY <1>1, <1>2 DEF SameBut
    <2>2. hJobs[e] \in Nat
      BY <2>1 DEF PagesTyped, IsBag
    <2> QED
      BY <2>1, <2>2 DEF CountIn
  <1> QED
    BY <1>1, <1>2 DEF PagesTyped

LEMMA LogFacts ==
    ASSUME PagesTyped, NEW j \in DOMAIN hJobs,
           NEW page, page = Pages!Log(hHead[j.path], j.after)
    PROVE  PageTrue(Answered(j, page, FALSE))
  <1>1. PageTrue(j) /\ j.path \in Opened /\ j.after \in Commits \cup {None}
    BY DEF PagesTyped, PageTrue, Pages!Job
  <1>2. hHead[j.path] \in Commits \cup {None}
        /\ (hHead[j.path] # None => Folder[hHead[j.path]] = j.path)
    BY <1>1 DEF PagesTyped, Pages!TypeOK
  <1> DEFINE k == Answered(j, page, FALSE)
  <1>3. k.path = j.path /\ k.after = j.after /\ k.done = TRUE /\ k.page = page
    BY DEF Answered
  <1>4. CASE j.after # None
    <2>1. page = Pages!FirstPage(Tail(Pages!Walk(j.after)))
      BY <1>4 DEF Pages!Log
    <2>2. Tail(Pages!Walk(j.after)) \in Seq(Commits)
      <3>1. Pages!Walk(j.after) \in Seq(Commits) /\ Len(Pages!Walk(j.after)) > 0
        BY <1>1, <1>4, WalkFacts
      <3>2. PICK w : w = Pages!Walk(j.after)
        OBVIOUS
      <3>3. w # <<>>
        BY <3>1, <3>2
      <3> QED
        BY <3>1, <3>2, <3>3, TailFacts
    <2>3. page \in Seq(Commits)
      BY <2>1, <2>2, FirstPageFacts
    <2>4. k \in Pages!Job
      BY <2>3, <1>1 DEF Answered, Pages!Job
    <2> QED
      BY <2>1, <2>4, <1>1, <1>3, <1>4 DEF PageTrue
  <1>5. CASE j.after = None /\ hHead[j.path] # None
    <2>1. page = Pages!FirstPage(Pages!Walk(hHead[j.path]))
      BY <1>5 DEF Pages!Log
    <2>2. page \in Seq(Commits)
      BY <2>1, <1>2, <1>5, WalkFacts, FirstPageFacts
    <2>3. k \in Pages!Job
      BY <2>2, <1>1 DEF Answered, Pages!Job
    <2> QED
      BY <2>1, <2>3, <1>1, <1>2, <1>3, <1>5 DEF PageTrue
  <1>6. CASE j.after = None /\ hHead[j.path] = None
    <2>1. page = <<>>
      BY <1>6 DEF Pages!Log
    <2>2. page \in Seq(Commits)
      BY <2>1
    <2>3. k \in Pages!Job
      BY <2>2, <1>1 DEF Answered, Pages!Job
    <2> QED
      BY <2>1, <2>3, <1>1, <1>3, <1>6 DEF PageTrue
  <1> QED
    BY <1>4, <1>5, <1>6

LEMMA FailedFacts ==
    ASSUME PagesTyped, NEW j \in DOMAIN hJobs
    PROVE  PageTrue(Answered(j, <<>>, TRUE))
  <1>1. PageTrue(j) /\ j.path \in Opened /\ j.after \in Commits \cup {None}
    BY DEF PagesTyped, PageTrue, Pages!Job
  <1>2. <<>> \in Seq(Commits)
    OBVIOUS
  <1> DEFINE k == Answered(j, <<>>, TRUE)
  <1>3. k.path = j.path /\ k.after = j.after /\ k.done = TRUE /\ k.page = <<>> /\ k.failed = TRUE
    BY DEF Answered
  <1>4. k \in Pages!Job
    BY <1>1, <1>2 DEF Answered, Pages!Job
  <1> QED
    BY <1>1, <1>3, <1>4 DEF PageTrue

\* What was asked for is answered, and nothing else changes.
LEMMA AnswerFacts ==
    ASSUME PagesTyped, NEW j \in DOMAIN hJobs, ~j.done, Pages!LoadHistory(j)
    PROVE  /\ IsBag(hJobs') /\ \A k \in DOMAIN hJobs' : PageTrue(k)
           /\ \E k : /\ k.path = j.path /\ k.after = j.after /\ k \in DOMAIN hJobs' /\ k # j
                     /\ DOMAIN hJobs' \subseteq DOMAIN hJobs \cup {k}
                     /\ DOMAIN hJobs \ {j} \subseteq DOMAIN hJobs'
                     /\ hJobs[j] = 1 => j \notin DOMAIN hJobs'
                     /\ \A e \in DOMAIN hJobs : e \notin {j, k} => hJobs'[e] = hJobs[e]
                     /\ hJobs'[k] = CountIn(hJobs, k) + 1
  <1>1. PICK page, failed : /\ Pages!Answer(j, page, failed)
                            /\ PageTrue(Answered(j, page, failed))
    <2>1. CASE Pages!Answer(j, Pages!Log(hHead[j.path], j.after), FALSE)
      BY <2>1, LogFacts
    <2>2. CASE Pages!Answer(j, <<>>, TRUE)
      BY <2>2, FailedFacts
    <2> QED
      BY <2>1, <2>2 DEF Pages!LoadHistory
  <1>2. PICK k : k = Answered(j, page, failed)
    OBVIOUS
  <1>3. /\ PageTrue(k) /\ k.path = j.path /\ k.after = j.after /\ k.done = TRUE
    BY <1>1, <1>2 DEF Answered
  <1>4. PICK b : b = Pages!(-)(hJobs, Pages!SetToBag({j}))
    OBVIOUS
  <1>5. hJobs' = Pages!(+)(b, Pages!SetToBag({k}))
    BY <1>1, <1>2, <1>4 DEF Pages!Answer, Answered
  <1>6. /\ IsBag(b) /\ DOMAIN b \subseteq DOMAIN hJobs /\ DOMAIN hJobs \ {j} \subseteq DOMAIN b
        /\ j \in DOMAIN b => hJobs[j] > 1
        /\ CountIn(b, j) = CountIn(hJobs, j) - 1
        /\ SameBut(hJobs, b, j)
    BY <1>4, PageTakes DEF PagesTyped
  <1>7. /\ IsBag(hJobs') /\ DOMAIN hJobs' = DOMAIN b \cup {k}
        /\ CountIn(hJobs', k) = CountIn(b, k) + 1
        /\ SameBut(b, hJobs', k)
    <2>1. PICK c : c = hJobs'
      OBVIOUS
    <2>2. c = Pages!(+)(b, Pages!SetToBag({k}))
      BY <2>1, <1>5
    <2>3. /\ IsBag(c) /\ DOMAIN c = DOMAIN b \cup {k}
          /\ CountIn(c, k) = CountIn(b, k) + 1
          /\ SameBut(b, c, k)
      <3>1. IsBag(b)
        BY <1>6
      <3> QED
        BY <3>1, <2>2, PageAdds, Zenon
    <2> QED
      BY <2>1, <2>3
  <1>8. k # j
    BY <1>3
  <1>9. \A e \in DOMAIN hJobs' : PageTrue(e)
    BY <1>3, <1>6, <1>7 DEF PagesTyped
  <1>10. \A e : CountIn(hJobs, e) \in Nat
    BY DEF PagesTyped, IsBag, CountIn
  <1>11. ASSUME NEW e \in DOMAIN hJobs, e \notin {j, k} PROVE hJobs'[e] = hJobs[e]
    <2>1. CountIn(hJobs', e) = CountIn(b, e) /\ CountIn(b, e) = CountIn(hJobs, e)
      BY <1>6, <1>7, <1>11 DEF SameBut
    <2>2. e \in DOMAIN hJobs'
      BY <1>6, <1>7, <1>11 DEF SameBut
    <2> QED
      BY <2>1, <2>2, <1>10 DEF CountIn
  <1>12. hJobs'[k] = CountIn(hJobs, k) + 1
    <2>1. CountIn(hJobs', k) = CountIn(b, k) + 1 /\ CountIn(b, k) = CountIn(hJobs, k)
      BY <1>6, <1>7, <1>8 DEF SameBut
    <2> QED
      BY <2>1, <1>7, <1>10 DEF CountIn
  <1>13. hJobs[j] = 1 => j \notin DOMAIN hJobs'
    BY <1>6, <1>7, <1>8 DEF SameBut
  <1> QED
    BY <1>3, <1>6, <1>7, <1>8, <1>9, <1>11, <1>12, <1>13

\* The commits a folder's head may be.
HeadsAreOfFolders == \A p \in Opened : hHead[p] # None => Folder[hHead[p]] = p

LEMMA TypedAgain ==
    ASSUME hHead' \in [Opened -> Commits \cup {None}], HeadsAreOfFolders',
           hShown' \in {None, hPath'}, hPath' \in Opened \cup {None},
           {hRepo', hTab', hLoaded', hLoading', hCrossed', hLost'} \subseteq BOOLEAN,
           hRows' \in Seq(Commits), hMore' \in {"none", "more", "loading"},
           hOldest' \in Commits \cup {None},
           IsBag(hJobs'), \A j \in DOMAIN hJobs' : PageTrue(j)
    PROVE  PagesTyped'
  <1>1. \A j \in DOMAIN hJobs' : j \in Pages!Job
    BY DEF PageTrue
  <1>2. \A j \in Pages!InFlight' : j \in Pages!Job
    BY <1>1, PendingIsNext
  <1>3. Pages!TypeOK'
    BY <1>2, Zenon DEF Pages!TypeOK
  <1> QED
    BY <1>3, Zenon DEF PagesTyped, HeadsAreOfFolders

LEMMA TypedFacts ==
    ASSUME PagesTyped
    PROVE  /\ hHead \in [Opened -> Commits \cup {None}] /\ HeadsAreOfFolders
           /\ hShown \in {None, hPath} /\ hPath \in Opened \cup {None}
           /\ {hRepo, hTab, hLoaded, hLoading, hCrossed, hLost} \subseteq BOOLEAN
           /\ hRows \in Seq(Commits) /\ hMore \in {"none", "more", "loading"}
           /\ hOldest \in Commits \cup {None} /\ IsBag(hJobs)
           /\ \A j \in DOMAIN hJobs : PageTrue(j)
  BY Zenon DEF PagesTyped, Pages!TypeOK, HeadsAreOfFolders

\* Nothing moves but what is not spoken of.
LEMMA StillTyped ==
    ASSUME PagesTyped, IsBag(hJobs'), \A j \in DOMAIN hJobs' : PageTrue(j),
           UNCHANGED <<hHead, hPath, Pages!list, Pages!ghosts>>,
           hShown' \in {None, hShown}, {hRepo', hTab'} \subseteq BOOLEAN
    PROVE  PagesTyped'
  <1>1. UNCHANGED <<hHead, hPath, hLoaded, hRows, hMore, hOldest, hLoading, hCrossed, hLost>>
    BY DEF Pages!list, Pages!ghosts
  <1>2. HeadsAreOfFolders'
    BY <1>1, TypedFacts DEF HeadsAreOfFolders
  <1>3. hShown' \in {None, hPath'} /\ hHead' \in [Opened -> Commits \cup {None}]
        /\ hPath' \in Opened \cup {None} /\ hRows' \in Seq(Commits)
        /\ hMore' \in {"none", "more", "loading"} /\ hOldest' \in Commits \cup {None}
    BY <1>1, TypedFacts
  <1>4. {hLoaded', hLoading', hCrossed', hLost'} \subseteq BOOLEAN
    BY <1>1, TypedFacts, Zenon
  <1>5. {hRepo', hTab', hLoaded', hLoading', hCrossed', hLost'} \subseteq BOOLEAN
    BY <1>4, Zenon
  <1> QED
    BY <1>2, <1>3, <1>5, TypedAgain, Zenon

\* The list stays, and what is said of it.
LEMMA ListStays ==
    ASSUME PagesInv, UNCHANGED <<hPath, Pages!list, Pages!ghosts>>, hShown' \in {None, hShown}
    PROVE  Pages!RowsOfFolder' /\ Pages!PagesJoin'
  <1>1. UNCHANGED <<hPath, hRows, hMore, hCrossed, hLost>>
    BY DEF Pages!list, Pages!ghosts
  <1>2. Pages!RowsOfFolder'
    BY <1>1 DEF PagesInv, Pages!RowsOfFolder
  <1>3. Pages!PagesJoin'
    <2>1. CASE hShown' = None
      BY <2>1 DEF Pages!PagesJoin
    <2>2. CASE hShown' = hShown
      BY <2>2, <1>1 DEF PagesInv, Pages!PagesJoin, Pages!Complete, Pages!Linear
    <2> QED
      BY <2>1, <2>2
  <1> QED
    BY <1>2, <1>3

\* Jobs that are not pages awaited come and go.
LEMMA AwaitedStays ==
    ASSUME PagesInv, UNCHANGED <<hPath, Pages!list, Pages!ghosts>>, hShown' \in {None, hShown},
           hShown' # None => /\ Pages!Pending(hPath)' = Pages!Pending(hPath)
                             /\ \A j \in Pages!Pending(hPath) : hJobs'[j] = hJobs[j]
    PROVE  Pages!LastRowWorks' /\ PageComes'
  <1>1. UNCHANGED <<hPath, hRows, hMore, hOldest, hLoading, hCrossed>>
    BY DEF Pages!list, Pages!ghosts
  <1>2. CASE hShown' = None
    BY <1>2 DEF Pages!LastRowWorks, PageComes
  <1>3. CASE hShown' = hShown /\ hShown # None
    <2>1. PICK P : P = Pages!Pending(hPath)
      OBVIOUS
    <2>2. Pages!Pending(hPath)' = P /\ \A j \in P : hJobs'[j] = hJobs[j]
      BY <1>3, <2>1
    <2>3. Pages!LastRowWorks'
      BY <1>1, <1>3, <2>1, <2>2 DEF PagesInv, Pages!LastRowWorks, Pages!Last
    <2>4. PageComes'
      BY <1>1, <1>3, <2>1, <2>2 DEF PagesInv, PageComes
    <2> QED
      BY <2>3, <2>4
  <1> QED
    BY <1>2, <1>3
-----------------------------------------------------------------------------
LEMMA QuietSteps ==
    ASSUME PagesInv, UNCHANGED <<hHead, hPath, Pages!list, Pages!ghosts, hJobs>>,
           hShown' \in {None, hShown}, {hRepo', hTab'} \subseteq BOOLEAN
    PROVE  PagesInv'
  <1>1. PagesTyped'
    BY StillTyped, TypedFacts DEF PagesInv
  <1>2. Pages!RowsOfFolder' /\ Pages!PagesJoin'
    BY ListStays
  <1>3. Pages!Pending(hPath)' = Pages!Pending(hPath)
    BY PendingIs, PendingIsNext
  <1>4. Pages!LastRowWorks' /\ PageComes'
    BY <1>3, AwaitedStays
  <1> QED
    BY <1>1, <1>2, <1>4 DEF PagesInv

\* A first page is asked for.
LEMMA AsksFirst ==
    ASSUME PagesInv, hPath \in Opened, Pages!Request(hPath, None),
           UNCHANGED <<hPath, Pages!list, Pages!ghosts, hShown>>,
           {hRepo', hTab'} \subseteq BOOLEAN
    PROVE  /\ IsBag(hJobs') /\ \A j \in DOMAIN hJobs' : PageTrue(j)
           /\ Pages!RowsOfFolder' /\ Pages!PagesJoin' /\ Pages!LastRowWorks' /\ PageComes'
  <1> DEFINE a == Asked(hPath, None)
  <1>1. PagesTyped
    BY DEF PagesInv
  <1>2. /\ IsBag(hJobs') /\ \A j \in DOMAIN hJobs' : PageTrue(j)
        /\ DOMAIN hJobs' = DOMAIN hJobs \cup {a}
        /\ SameBut(hJobs, hJobs', a)
    BY <1>1, RequestFacts
  <1>3. a.after = None
    BY DEF Asked
  <1> HIDE DEF a
  <1>4. Pages!Pending(hPath)' = Pages!Pending(hPath)
    BY <1>2, <1>3, PendingIs, PendingIsNext
  <1>5. ASSUME NEW j \in Pages!Pending(hPath) PROVE hJobs'[j] = hJobs[j]
    <2>1. j \in DOMAIN hJobs /\ j.after # None
      BY PendingIs
    <2>2. CountIn(hJobs', j) = CountIn(hJobs, j) /\ j \in DOMAIN hJobs'
      BY <2>1, <1>2, <1>3 DEF SameBut
    <2> QED
      BY <2>1, <2>2 DEF CountIn
  <1>6. Pages!RowsOfFolder' /\ Pages!PagesJoin'
    BY ListStays
  <1>7. Pages!LastRowWorks' /\ PageComes'
    BY <1>4, <1>5, AwaitedStays
  <1> QED
    BY <1>2, <1>6, <1>7

LEMMA ShownIsPath == ASSUME PagesInv, hShown # None PROVE hPath = hShown /\ hPath \in Opened
  BY PagesFacts, TypedFacts DEF PagesInv

LEMMA TabStep == ASSUME PagesInv, Pages!OpenTab PROVE PagesInv'
  <1>1. /\ hShown # None /\ hTab' = TRUE
        /\ UNCHANGED <<hHead, hShown, hPath, hRepo, Pages!list, Pages!ghosts>>
        /\ Pages!Request(hPath, None) \/ UNCHANGED hJobs
    BY DEF Pages!OpenTab
  <1>2. {hRepo', hTab'} \subseteq BOOLEAN
    <2>1. hRepo \in BOOLEAN
      BY TypedFacts, Zenon DEF PagesInv
    <2> QED
      BY <2>1, <1>1, Zenon
  <1>3. CASE UNCHANGED hJobs
    BY <1>1, <1>2, <1>3, QuietSteps
  <1>4. CASE Pages!Request(hPath, None)
    <2>1. /\ IsBag(hJobs') /\ \A j \in DOMAIN hJobs' : PageTrue(j)
          /\ Pages!RowsOfFolder' /\ Pages!PagesJoin' /\ Pages!LastRowWorks' /\ PageComes'
      BY <1>1, <1>2, <1>4, ShownIsPath, AsksFirst
    <2>2. PagesTyped'
      BY <1>1, <1>2, <2>1, StillTyped DEF PagesInv
    <2> QED
      BY <2>1, <2>2 DEF PagesInv
  <1> QED
    BY <1>1, <1>3, <1>4

LEMMA PagesRefreshStep == ASSUME PagesInv, Pages!HistoryRefreshClicked PROVE PagesInv'
  <1>1. /\ hShown # None /\ Pages!Request(hPath, None)
        /\ UNCHANGED <<hHead, hShown, hPath, hRepo, hTab, Pages!list, Pages!ghosts>>
    BY DEF Pages!HistoryRefreshClicked
  <1>2. {hRepo', hTab'} \subseteq BOOLEAN
    BY <1>1, TypedFacts, Zenon DEF PagesInv
  <1>3. /\ IsBag(hJobs') /\ \A j \in DOMAIN hJobs' : PageTrue(j)
        /\ Pages!RowsOfFolder' /\ Pages!PagesJoin' /\ Pages!LastRowWorks' /\ PageComes'
    BY <1>1, <1>2, ShownIsPath, AsksFirst
  <1>4. PagesTyped'
    BY <1>1, <1>2, <1>3, StillTyped DEF PagesInv
  <1> QED
    BY <1>3, <1>4 DEF PagesInv

LEMMA PanelSteps ==
    ASSUME PagesInv, Pages!RemoveFolder \/ Pages!StateReady \/ Pages!LeaveTab PROVE PagesInv'
  <1>1. /\ UNCHANGED <<hHead, hPath, Pages!list, Pages!ghosts, hJobs>>
        /\ hShown' \in {None, hShown}
    BY DEF Pages!RemoveFolder, Pages!StateReady, Pages!LeaveTab
  <1>2. hRepo' \in {hRepo, TRUE} /\ hTab' \in {hTab, FALSE}
    BY DEF Pages!RemoveFolder, Pages!StateReady, Pages!LeaveTab
  <1>3. {hRepo', hTab'} \subseteq BOOLEAN
    <2>1. hRepo \in BOOLEAN /\ hTab \in BOOLEAN
      BY TypedFacts, Zenon DEF PagesInv
    <2> QED
      BY <2>1, <1>2, Zenon
  <1> QED
    BY <1>1, <1>3, QuietSteps

LEMMA HeadStep ==
    ASSUME PagesInv, NEW p \in Opened, NEW c \in Commits, Pages!HeadMoves(p, c) PROVE PagesInv'
  <1>1. /\ Folder[c] = p /\ hHead' = [hHead EXCEPT ![p] = c]
        /\ UNCHANGED <<hShown, hPath, hRepo, hTab, Pages!list, Pages!ghosts>>
        /\ (p = hShown /\ Pages!Request(p, None)) \/ UNCHANGED hJobs
    BY DEF Pages!HeadMoves
  <1>2. {hRepo', hTab'} \subseteq BOOLEAN
    BY <1>1, TypedFacts, Zenon DEF PagesInv
  <1>3. /\ IsBag(hJobs') /\ \A j \in DOMAIN hJobs' : PageTrue(j)
        /\ Pages!RowsOfFolder' /\ Pages!PagesJoin' /\ Pages!LastRowWorks' /\ PageComes'
    <2>1. CASE p = hShown /\ Pages!Request(p, None)
      <3>1. hShown # None
        BY <2>1, PagesFacts
      <3>2. hPath = p /\ Pages!Request(hPath, None)
        BY <2>1, <3>1, ShownIsPath
      <3> QED
        BY <3>2, <1>1, <1>2, AsksFirst
    <2>2. CASE UNCHANGED hJobs
      <3>1. IsBag(hJobs') /\ \A j \in DOMAIN hJobs' : PageTrue(j)
        BY <2>2, TypedFacts DEF PagesInv
      <3>2. Pages!RowsOfFolder' /\ Pages!PagesJoin'
        BY <1>1, ListStays
      <3>3. Pages!Pending(hPath)' = Pages!Pending(hPath)
        BY <1>1, <2>2, PendingIs, PendingIsNext
      <3>4. Pages!LastRowWorks' /\ PageComes'
        BY <1>1, <2>2, <3>3, AwaitedStays
      <3> QED
        BY <3>1, <3>2, <3>4
    <2> QED
      BY <1>1, <2>1, <2>2
  <1>4. PagesTyped'
    <2>1. UNCHANGED <<hPath, hLoaded, hRows, hMore, hOldest, hLoading, hCrossed, hLost>>
      BY <1>1 DEF Pages!list, Pages!ghosts
    <2>2. hHead' \in [Opened -> Commits \cup {None}] /\ HeadsAreOfFolders'
      BY <1>1, TypedFacts DEF PagesInv, HeadsAreOfFolders
    <2>3. hShown' \in {None, hPath'} /\ hPath' \in Opened \cup {None} /\ hRows' \in Seq(Commits)
          /\ hMore' \in {"none", "more", "loading"} /\ hOldest' \in Commits \cup {None}
      BY <1>1, <2>1, TypedFacts DEF PagesInv
    <2>4. {hLoaded', hLoading', hCrossed', hLost'} \subseteq BOOLEAN
      BY <2>1, TypedFacts, Zenon DEF PagesInv
    <2>5. {hRepo', hTab', hLoaded', hLoading', hCrossed', hLost'} \subseteq BOOLEAN
      BY <1>2, <2>4, Zenon
    <2> QED
      BY <2>2, <2>3, <2>5, <1>3, TypedAgain, Zenon
  <1> QED
    BY <1>3, <1>4 DEF PagesInv

\* The last row is clicked: no page is awaited, and the next one is asked for.
LEMMA LoadMoreStep == ASSUME PagesInv, Pages!LoadMore PROVE PagesInv'
  <1>1. /\ hShown # None /\ hMore # "none" /\ ~hLoading /\ hOldest # None
        /\ hLoading' = TRUE /\ hMore' = "loading" /\ Pages!Request(hPath, hOldest)
        /\ UNCHANGED <<hHead, hShown, hPath, hRepo, hTab, hLoaded, hRows, hOldest, hCrossed, hLost>>
    BY DEF Pages!LoadMore, Pages!ghosts
  <1>2. /\ PagesTyped /\ hPath = hShown /\ hPath \in Opened /\ hRows \in Seq(Commits)
        /\ hMore \in {"none", "more", "loading"} /\ hOldest \in Commits \cup {None}
    BY <1>1, ShownIsPath, TypedFacts DEF PagesInv
  <1>3. hMore = "more" /\ hRows # <<>> /\ hOldest = hRows[Len(hRows)]
    BY <1>1, <1>2 DEF PagesInv, Pages!LastRowWorks, Pages!Last
  <1>4. Folder[hOldest] = hPath
    <2>1. Len(hRows) \in DOMAIN hRows
      BY <1>2, <1>3
    <2> QED
      BY <2>1, <1>3 DEF PagesInv, Pages!RowsOfFolder
  <1> DEFINE a == Asked(hPath, hOldest)
  <1>5. /\ IsBag(hJobs') /\ \A j \in DOMAIN hJobs' : PageTrue(j)
        /\ DOMAIN hJobs' = DOMAIN hJobs \cup {a} /\ CountIn(hJobs', a) = CountIn(hJobs, a) + 1
        /\ SameBut(hJobs, hJobs', a)
    BY <1>1, <1>2, <1>4, RequestFacts
  <1>6. a.path = hPath /\ a.after = hOldest
    BY DEF Asked
  <1> HIDE DEF a
  <1>7. Pages!Pending(hPath)' = Pages!Pending(hPath) \cup {a}
    BY <1>1, <1>5, <1>6, PendingIs, PendingIsNext
  <1>8. PagesTyped'
    <2>1. HeadsAreOfFolders'
      BY <1>1, <1>2, TypedFacts DEF HeadsAreOfFolders
    <2>2. hHead' \in [Opened -> Commits \cup {None}] /\ hShown' \in {None, hPath'}
          /\ hPath' \in Opened \cup {None} /\ hRows' \in Seq(Commits)
          /\ hMore' \in {"none", "more", "loading"} /\ hOldest' \in Commits \cup {None}
      BY <1>1, <1>2, TypedFacts
    <2>3. {hRepo', hTab', hLoaded', hCrossed', hLost'} \subseteq BOOLEAN
      BY <1>1, <1>2, TypedFacts, Zenon
    <2>4. {hRepo', hTab', hLoaded', hLoading', hCrossed', hLost'} \subseteq BOOLEAN
      BY <1>1, <2>3, Zenon
    <2> QED
      BY <2>1, <2>2, <2>4, <1>5, TypedAgain, Zenon
  <1>9. Pages!RowsOfFolder'
    BY <1>1 DEF PagesInv, Pages!RowsOfFolder
  <1>10. Pages!LastRowWorks'
    BY <1>1, <1>7 DEF Pages!LastRowWorks
  <1>11. Pages!PagesJoin'
    BY <1>1, <1>3 DEF PagesInv, Pages!PagesJoin, Pages!Complete, Pages!Linear
  <1>12. PageComes'
    <2>1. ASSUME ~hCrossed
          PROVE  /\ Pages!Pending(hPath)' = {a} /\ hJobs'[a] = 1
      <3>1. Pages!Pending(hPath) = {}
        BY <2>1, <1>1, <1>3 DEF PagesInv, PageComes
      <3>2. a \notin DOMAIN hJobs
        BY <3>1, <1>1, <1>6, PendingIs
      <3> QED
        BY <3>1, <3>2, <1>5, <1>7 DEF CountIn
    <2>2. PICK P : P = Pages!Pending(hPath)'
      OBVIOUS
    <2>3. ~hCrossed => P = {a} /\ hJobs'[a] = 1
      BY <2>1, <2>2
    <2> QED
      BY <1>1, <1>3, <1>6, <2>2, <2>3 DEF PageComes
  <1> QED
    BY <1>8, <1>9, <1>10, <1>11, <1>12 DEF PagesInv

\* A page that is read is as much on its way as before.
LEMMA ReadPageStep ==
    ASSUME PagesInv, NEW j \in DOMAIN hJobs, Pages!LoadHistory(j) PROVE PagesInv'
  <1>1. /\ ~j.done
        /\ UNCHANGED <<hHead, hShown, hPath, hRepo, hTab, Pages!list, Pages!ghosts>>
    BY DEF Pages!LoadHistory
  <1>2. PagesTyped
    BY DEF PagesInv
  <1>3. IsBag(hJobs') /\ \A k \in DOMAIN hJobs' : PageTrue(k)
    BY <1>1, <1>2, AnswerFacts
  <1>4. PICK k : /\ k.path = j.path /\ k.after = j.after /\ k \in DOMAIN hJobs' /\ k # j
                 /\ DOMAIN hJobs' \subseteq DOMAIN hJobs \cup {k}
                 /\ DOMAIN hJobs \ {j} \subseteq DOMAIN hJobs'
                 /\ hJobs[j] = 1 => j \notin DOMAIN hJobs'
                 /\ \A e \in DOMAIN hJobs : e \notin {j, k} => hJobs'[e] = hJobs[e]
                 /\ hJobs'[k] = CountIn(hJobs, k) + 1
    BY <1>1, <1>2, AnswerFacts
  <1>5. PagesTyped'
    <2>1. {hRepo', hTab'} \subseteq BOOLEAN
      BY <1>1, <1>2, TypedFacts, Zenon
    <2> QED
      BY <2>1, <1>1, <1>2, <1>3, StillTyped
  <1>6. Pages!RowsOfFolder' /\ Pages!PagesJoin'
    BY <1>1, ListStays
  <1>7. UNCHANGED <<hPath, hRows, hMore, hOldest, hLoading, hCrossed>>
    BY <1>1 DEF Pages!list, Pages!ghosts
  <1>8. PICK P, Q : P = Pages!Pending(hPath) /\ Q = Pages!Pending(hPath)'
    OBVIOUS
  <1>9. /\ P = {e \in DOMAIN hJobs : e.path = hPath /\ e.after # None}
        /\ Q = {e \in DOMAIN hJobs' : e.path = hPath /\ e.after # None}
    BY <1>1, <1>8, PendingIs, PendingIsNext
  <1>10. Pages!LastRowWorks'
    <2>1. P # {} => Q # {}
      <3>1. ASSUME j \in P PROVE k \in Q
        BY <3>1, <1>4, <1>9
      <3>2. ASSUME NEW e \in P, e # j PROVE e \in Q
        BY <3>2, <1>4, <1>9
      <3> QED
        BY <3>1, <3>2
    <2> QED
      BY <2>1, <1>1, <1>7, <1>8 DEF PagesInv, Pages!LastRowWorks, Pages!Last
  <1>11. PageComes'
    <2>1. SUFFICES ASSUME hShown # None, ~hCrossed, NEW e \in Q
                   PROVE  /\ hMore = "loading" /\ hRows # <<>> /\ e.after = hRows[Len(hRows)]
                          /\ hJobs'[e] = 1 /\ \A f \in Q : f = e
      BY <1>1, <1>7, <1>8 DEF PageComes
    <2>2. /\ \A f \in P : /\ hMore = "loading" /\ hRows # <<>> /\ f.after = hRows[Len(hRows)]
                          /\ hJobs[f] = 1
          /\ \A f \in P, g \in P : f = g
      BY <2>1, <1>8 DEF PagesInv, PageComes
    <2>3. CASE j \in P
      <3>1. P = {j} /\ hJobs[j] = 1
        BY <2>2, <2>3
      <3>2. j \notin DOMAIN hJobs' /\ k \in Q
        BY <3>1, <2>3, <1>4, <1>9
      <3>3. Q = {k}
        BY <3>1, <3>2, <1>4, <1>9
      <3>4. k \notin DOMAIN hJobs
        BY <3>1, <3>2, <1>4, <1>9
      <3>5. hJobs'[k] = 1
        BY <3>4, <1>4 DEF CountIn
      <3> QED
        BY <3>3, <3>5, <2>1, <2>2, <2>3, <1>4
    <2>4. CASE j \notin P
      <3>1. ~(j.path = hPath /\ j.after # None) /\ k \notin Q
        BY <2>4, <1>4, <1>9
      <3>2. Q \subseteq P
        BY <3>1, <1>4, <1>9
      <3>3. hJobs'[e] = hJobs[e]
        BY <3>1, <3>2, <2>1, <2>4, <1>4, <1>9
      <3> QED
        BY <3>2, <3>3, <2>1, <2>2
    <2> QED
      BY <2>3, <2>4
  <1> QED
    BY <1>5, <1>6, <1>10, <1>11 DEF PagesInv

\* What is dropped was not awaited.
LEMMA DroppedStep ==
    ASSUME PagesInv, NEW j \in DOMAIN hJobs, Pages!HistoryDropped(j) PROVE PagesInv'
  <1>1. /\ ~(j.path = hPath /\ j.path = hShown)
        /\ hJobs' = Pages!(-)(hJobs, Pages!SetToBag({j}))
        /\ UNCHANGED <<hHead, hShown, hPath, hRepo, hTab, Pages!list, Pages!ghosts>>
    BY DEF Pages!HistoryDropped, Pages!Accepted
  <1>2. PagesTyped
    BY DEF PagesInv
  <1>3. /\ IsBag(hJobs') /\ \A k \in DOMAIN hJobs' : PageTrue(k)
        /\ DOMAIN hJobs' \subseteq DOMAIN hJobs /\ DOMAIN hJobs \ {j} \subseteq DOMAIN hJobs'
        /\ \A e \in DOMAIN hJobs' : e # j => hJobs'[e] = hJobs[e]
    BY <1>1, <1>2, TakenFacts
  <1>4. PagesTyped'
    <2>1. {hRepo', hTab'} \subseteq BOOLEAN
      BY <1>1, <1>2, TypedFacts, Zenon
    <2> QED
      BY <2>1, <1>1, <1>2, <1>3, StillTyped
  <1>5. Pages!RowsOfFolder' /\ Pages!PagesJoin'
    BY <1>1, ListStays
  <1>6. hShown' # None => /\ Pages!Pending(hPath)' = Pages!Pending(hPath)
                          /\ \A e \in Pages!Pending(hPath) : hJobs'[e] = hJobs[e]
    <2>1. SUFFICES ASSUME hShown # None
                   PROVE  /\ Pages!Pending(hPath)' = Pages!Pending(hPath)
                          /\ \A e \in Pages!Pending(hPath) : hJobs'[e] = hJobs[e]
      BY <1>1
    <2>2. j.path # hPath
      BY <2>1, <1>1, ShownIsPath
    <2> QED
      BY <2>2, <1>1, <1>3, PendingIs, PendingIsNext
  <1>7. Pages!LastRowWorks' /\ PageComes'
    BY <1>1, <1>6, AwaitedStays
  <1> QED
    BY <1>4, <1>5, <1>7 DEF PagesInv

LEMMA OpenPagesStep == ASSUME PagesInv, NEW p \in Opened, Pages!OpenFolder(p) PROVE PagesInv'
  <1>1. /\ hShown' = p /\ hPath' = p /\ hRepo' = FALSE /\ hLoaded' = FALSE /\ hRows' = <<>>
        /\ hMore' = "none" /\ hCrossed' = (Pages!Pending(p) # {}) /\ hLost' = FALSE
        /\ UNCHANGED <<hHead, hTab, hOldest, hLoading, hJobs>>
    BY DEF Pages!OpenFolder
  <1>2. PagesTyped /\ <<>> \in Seq(Commits)
    BY DEF PagesInv
  <1>3. PagesTyped'
    <2>1. HeadsAreOfFolders'
      BY <1>1, <1>2, TypedFacts DEF HeadsAreOfFolders
    <2>2. hHead' \in [Opened -> Commits \cup {None}] /\ hShown' \in {None, hPath'}
          /\ hPath' \in Opened \cup {None} /\ hRows' \in Seq(Commits)
          /\ hMore' \in {"none", "more", "loading"} /\ hOldest' \in Commits \cup {None}
          /\ IsBag(hJobs') /\ \A j \in DOMAIN hJobs' : PageTrue(j)
      BY <1>1, <1>2, TypedFacts
    <2>3. {hTab', hLoading'} \subseteq BOOLEAN
      BY <1>1, <1>2, TypedFacts, Zenon
    <2>4. hCrossed' \in BOOLEAN
      BY <1>1, Zenon
    <2>5. {hRepo', hTab', hLoaded', hLoading', hCrossed', hLost'} \subseteq BOOLEAN
      BY <1>1, <2>3, <2>4, Zenon
    <2> QED
      BY <2>1, <2>2, <2>5, TypedAgain, Zenon
  <1>4. Pages!RowsOfFolder'
    BY <1>1 DEF Pages!RowsOfFolder
  <1>5. Pages!LastRowWorks'
    BY <1>1 DEF Pages!LastRowWorks
  <1>6. Pages!PagesJoin'
    BY <1>1 DEF Pages!PagesJoin, Pages!Complete
  <1>7. PageComes'
    <2>1. Pages!Pending(hPath)' = Pages!Pending(p)
      BY <1>1, PendingIs, PendingIsNext
    <2>2. ~hCrossed' => Pages!Pending(p) = {}
      BY <1>1
    <2> QED
      BY <2>1, <2>2 DEF PageComes
  <1> QED
    BY <1>3, <1>4, <1>5, <1>6, <1>7 DEF PagesInv

\* What a page read brings: commits of its folder, the last of them to go on from.
LEMMA PageFacts ==
    ASSUME NEW j, PageTrue(j), j.done, NEW page, page = j.page
    PROVE  /\ page \in Seq(Commits) /\ j.path \in Opened /\ j.after \in Commits \cup {None}
           /\ \A i \in 1..Len(page) : Folder[page[i]] = j.path
           /\ Pages!Sentinel(page) \in {"none", "more"}
           /\ Pages!Sentinel(page) = "more" => page # <<>>
           /\ Pages!Sentinel(page) = "none" => Len(page) < PageSize
  <1>1. /\ page \in Seq(Commits) /\ j.path \in Opened /\ j.after \in Commits \cup {None}
    BY DEF PageTrue, Pages!Job
  <1>2. /\ Pages!Sentinel(page) \in {"none", "more"}
        /\ Pages!Sentinel(page) = "more" => page # <<>>
        /\ Pages!Sentinel(page) = "none" => Len(page) < PageSize
    <2>1. PageSize \in Nat /\ PageSize > 0 /\ Len(page) \in Nat
      BY <1>1, PagesFacts
    <2> QED
      BY <2>1, <1>1 DEF Pages!Sentinel
  <1>3. ASSUME NEW c \in Commits, Folder[c] = j.path, NEW w, w = Pages!Walk(c),
               Starts(page, w) \/ (w # <<>> /\ Starts(page, Tail(w)))
        PROVE  \A i \in 1..Len(page) : Folder[page[i]] = j.path
    <2>1. /\ w \in Seq(Commits) /\ \A i \in 1..Len(w) : Folder[w[i]] = j.path
      BY <1>3, WalkFacts
    <2>2. CASE Starts(page, w)
      BY <2>1, <2>2, <1>1 DEF Starts
    <2>3. CASE w # <<>> /\ Starts(page, Tail(w))
      <3>1. Len(Tail(w)) = Len(w) - 1 /\ \A i \in 1..Len(Tail(w)) : Tail(w)[i] = w[i + 1]
        BY <2>1, <2>3, TailFacts
      <3>2. PICK t : t = Tail(w)
        OBVIOUS
      <3>3. Len(w) \in Nat /\ Len(page) \in Nat
        BY <1>1, <2>1
      <3>4. ASSUME NEW i \in 1..Len(page) PROVE Folder[page[i]] = j.path
        <4>1. i \in 1..Len(t) /\ i + 1 \in 1..Len(w) /\ page[i] = t[i] /\ t[i] = w[i + 1]
          BY <2>3, <3>1, <3>2, <3>3 DEF Starts
        <4> QED
          BY <4>1, <2>1
      <3> QED
        BY <3>4
    <2> QED
      BY <1>3, <2>2, <2>3
  <1>4. \A i \in 1..Len(page) : Folder[page[i]] = j.path
    <2>1. CASE page = <<>>
      BY <2>1
    <2>2. ASSUME NEW h \in Commits, Folder[h] = j.path, page = Pages!FirstPage(Pages!Walk(h))
          PROVE  \A i \in 1..Len(page) : Folder[page[i]] = j.path
      <3>1. Starts(page, Pages!Walk(h))
        BY <2>2, WalkFacts, FirstPageFacts
      <3> QED
        BY <3>1, <2>2, <1>3
    <2>3. CASE j.after # None /\ page = Pages!FirstPage(Tail(Pages!Walk(j.after)))
      <3>1. j.after \in Commits /\ Folder[j.after] = j.path
        BY <2>3, <1>1 DEF PageTrue
      <3>2. PICK w : w = Pages!Walk(j.after)
        OBVIOUS
      <3>3. w \in Seq(Commits) /\ Len(w) > 0
        BY <3>1, <3>2, WalkFacts
      <3>4. w # <<>>
        BY <3>3
      <3>5. Tail(w) \in Seq(Commits)
        BY <3>3, <3>4, TailFacts
      <3>6. Starts(page, Tail(w))
        BY <2>3, <3>2, <3>5, FirstPageFacts
      <3> QED
        BY <3>1, <3>2, <3>4, <3>6, <1>3
    <2> QED
      BY <2>1, <2>2, <2>3 DEF PageTrue
  <1> QED
    BY <1>1, <1>2, <1>4

\* The pending pages once a result is taken.
LEMMA ReadyFacts ==
    ASSUME PagesInv, NEW j \in DOMAIN hJobs, Pages!HistoryReady(j)
    PROVE  /\ j.done /\ j.path = hPath /\ hShown = hPath /\ hPath \in Opened
           /\ PageTrue(j) /\ PagesTyped
           /\ IsBag(hJobs') /\ \A k \in DOMAIN hJobs' : PageTrue(k)
           /\ UNCHANGED <<hHead, hShown, hPath, hRepo, hTab>>
           /\ j.after = None => Pages!Pending(hPath)' = Pages!Pending(hPath)
           /\ j.after # None /\ ~hCrossed => Pages!Pending(hPath)' = {}
  <1>1. /\ j.done /\ j.path = hPath /\ hShown = hPath
        /\ hJobs' = Pages!(-)(hJobs, Pages!SetToBag({j}))
        /\ UNCHANGED <<hHead, hShown, hPath, hRepo, hTab>>
    BY DEF Pages!HistoryReady, Pages!Accepted
  <1>2. PagesTyped
    BY DEF PagesInv
  <1>3. PageTrue(j) /\ hPath \in Opened
    BY <1>1, <1>2, TypedFacts DEF PageTrue, Pages!Job
  <1>4. /\ IsBag(hJobs') /\ \A k \in DOMAIN hJobs' : PageTrue(k)
        /\ DOMAIN hJobs' \subseteq DOMAIN hJobs /\ DOMAIN hJobs \ {j} \subseteq DOMAIN hJobs'
        /\ j \in DOMAIN hJobs' => hJobs[j] > 1
    BY <1>1, <1>2, TakenFacts
  <1>5. PICK P, Q : P = Pages!Pending(hPath) /\ Q = Pages!Pending(hPath)'
    OBVIOUS
  <1>6. /\ P = {e \in DOMAIN hJobs : e.path = hPath /\ e.after # None}
        /\ Q = {e \in DOMAIN hJobs' : e.path = hPath /\ e.after # None}
    BY <1>1, <1>5, PendingIs, PendingIsNext
  <1>7. j.after = None => Q = P
    BY <1>4, <1>6
  <1>8. ASSUME j.after # None, ~hCrossed PROVE Q = {}
    <2>1. j \in P /\ hShown # None
      BY <1>1, <1>3, <1>6, <1>8, PagesFacts
    <2>2. hJobs[j] = 1 /\ \A k \in P : k = j
      BY <2>1, <1>5, <1>8 DEF PagesInv, PageComes
    <2> QED
      BY <2>2, <1>4, <1>6
  <1> QED
    BY <1>1, <1>2, <1>3, <1>4, <1>5, <1>7, <1>8

LEMMA ReadyTyped ==
    ASSUME PagesInv, NEW j \in DOMAIN hJobs, Pages!HistoryReady(j)
    PROVE  PagesTyped'
  <1>1. /\ j.done /\ j.path = hPath /\ hShown = hPath /\ hPath \in Opened /\ PageTrue(j) /\ PagesTyped
        /\ IsBag(hJobs') /\ \A k \in DOMAIN hJobs' : PageTrue(k)
        /\ UNCHANGED <<hHead, hShown, hPath, hRepo, hTab>>
    BY ReadyFacts
  <1>2. PICK page : page = j.page
    OBVIOUS
  <1>3. page \in Seq(Commits) /\ Pages!Sentinel(page) \in {"none", "more"}
    BY <1>1, <1>2, PageFacts
  <1>4. page # <<>> => page[Len(page)] \in Commits
    BY <1>3
  <1>5. hRows \in Seq(Commits) /\ hOldest \in Commits \cup {None}
    BY <1>1, TypedFacts
  <1>6. /\ hRows' \in Seq(Commits) /\ hMore' \in {"none", "more", "loading"}
        /\ hOldest' \in Commits \cup {None} /\ hLoading' = FALSE
        /\ hLoaded' = TRUE \/ UNCHANGED hLoaded
    <2>1. CASE j.after = None
      <3>1. Pages!setHistory(page)
        BY <2>1, <1>2 DEF Pages!HistoryReady
      <3> QED
        BY <3>1, <1>3, <1>4 DEF Pages!setHistory, Pages!Last
    <2>2. CASE j.after # None
      <3>1. Pages!appendHistory(page)
        BY <2>2, <1>2 DEF Pages!HistoryReady
      <3> QED
        BY <3>1, <1>3, <1>4, <1>5 DEF Pages!appendHistory, Pages!Last
    <2> QED
      BY <2>1, <2>2
  <1>7. {hRepo', hTab', hLoaded', hLoading'} \subseteq BOOLEAN
    <2>1. {hRepo', hTab', hLoaded} \subseteq BOOLEAN
      BY <1>1, TypedFacts, Zenon
    <2> QED
      BY <2>1, <1>6, Zenon
  <1>8. {hCrossed', hLost'} \subseteq BOOLEAN
    <2>1. j.failed \in BOOLEAN
      BY <1>1 DEF PageTrue, Pages!Job
    <2>2. {hCrossed, hLost} \subseteq BOOLEAN
      BY <1>1, TypedFacts, Zenon
    <2>3. CASE j.after = None
      <3>1. hCrossed' = (Pages!Pending(hPath) # {}) /\ hLost' = j.failed
        BY <2>3 DEF Pages!HistoryReady
      <3> QED
        BY <2>1, <3>1, Zenon
    <2>4. CASE j.after # None
      <3>1. hCrossed' = hCrossed /\ hLost' = (hLost \/ j.failed)
        BY <2>4 DEF Pages!HistoryReady
      <3> QED
        BY <2>2, <3>1, Zenon
    <2> QED
      BY <2>3, <2>4
  <1>9. {hRepo', hTab', hLoaded', hLoading', hCrossed', hLost'} \subseteq BOOLEAN
    BY <1>7, <1>8, Zenon
  <1>10. HeadsAreOfFolders'
    BY <1>1, TypedFacts DEF HeadsAreOfFolders
  <1>11. hHead' \in [Opened -> Commits \cup {None}] /\ hShown' \in {None, hPath'}
         /\ hPath' \in Opened \cup {None}
    BY <1>1, TypedFacts
  <1> QED
    BY <1>1, <1>6, <1>9, <1>10, <1>11, TypedAgain, Zenon

LEMMA LastOfBoth ==
    ASSUME NEW s \in Seq(Commits), NEW p \in Seq(Commits), p # <<>>
    PROVE  (s \o p) # <<>> /\ (s \o p)[Len(s \o p)] = p[Len(p)]
  OBVIOUS

\* The list is read anew.
LEMMA FirstPageStep ==
    ASSUME PagesInv, NEW j \in DOMAIN hJobs, Pages!HistoryReady(j), j.after = None
    PROVE  PagesInv'
  <1>1. /\ j.done /\ j.path = hPath /\ hShown = hPath /\ hPath \in Opened /\ PageTrue(j)
        /\ UNCHANGED <<hHead, hShown, hPath, hRepo, hTab>>
        /\ Pages!Pending(hPath)' = Pages!Pending(hPath)
    BY ReadyFacts
  <1>2. PICK page : page = j.page
    OBVIOUS
  <1>3. /\ page \in Seq(Commits) /\ \A i \in 1..Len(page) : Folder[page[i]] = j.path
        /\ Pages!Sentinel(page) \in {"none", "more"}
        /\ Pages!Sentinel(page) = "more" => page # <<>>
        /\ Pages!Sentinel(page) = "none" => Len(page) < PageSize
    BY <1>1, <1>2, PageFacts
  <1>4. /\ hRows' = page /\ hMore' = Pages!Sentinel(page) /\ hLoading' = FALSE
        /\ hOldest' = (IF page = <<>> THEN None ELSE page[Len(page)])
        /\ hCrossed' = (Pages!Pending(hPath) # {})
    BY <1>2 DEF Pages!HistoryReady, Pages!setHistory, Pages!Last
  <1>5. Pages!RowsOfFolder'
    BY <1>1, <1>3, <1>4 DEF Pages!RowsOfFolder
  <1>6. Pages!LastRowWorks'
    BY <1>3, <1>4 DEF Pages!LastRowWorks, Pages!Last
  <1>7. PageComes'
    BY <1>1, <1>4 DEF PageComes
  <1>8. Pages!PagesJoin'
    <2>1. SUFFICES ASSUME Pages!Linear, page # <<>>
                   PROVE  /\ Pages!IsPrefix(page, Pages!Walk(Head(page)))
                          /\ hMore' = "none" => Pages!ToSet(page) = Pages!Ancestors[Head(page)]
      BY <1>4 DEF Pages!PagesJoin, Pages!Complete, Pages!Linear
    <2>2. PICK h \in Commits : Folder[h] = j.path /\ page = Pages!FirstPage(Pages!Walk(h))
      BY <2>1, <1>1, <1>2 DEF PageTrue
    <2>3. PICK w : w = Pages!Walk(h)
      OBVIOUS
    <2>4. w \in Seq(Commits) /\ Len(w) > 0 /\ w[1] = h
      BY <2>3, WalkFacts
    <2>5. Starts(page, w) /\ (Len(page) < PageSize => Len(page) = Len(w))
      BY <2>2, <2>3, <2>4, FirstPageFacts
    <2>6. Head(page) = h
      <3>1. 1 \in 1..Len(page) /\ Head(page) = page[1]
        BY <2>1, <1>3
      <3> QED
        BY <3>1, <2>4, <2>5 DEF Starts
    <2>7. Pages!IsPrefix(page, w)
      BY <2>4, <2>5, <1>3, PrefixIsStart
    <2>8. hMore' = "none" => Pages!ToSet(page) = Pages!Ancestors[h]
      BY <2>3, <2>5, <1>3, <1>4, WholeWalk
    <2> QED
      BY <2>3, <2>6, <2>7, <2>8
  <1>9. PagesTyped'
    BY ReadyTyped
  <1> QED
    BY <1>5, <1>6, <1>7, <1>8, <1>9 DEF PagesInv

\* A page is put behind the rows.
LEMMA NextPageStep ==
    ASSUME PagesInv, NEW j \in DOMAIN hJobs, Pages!HistoryReady(j), j.after # None
    PROVE  PagesInv'
  <1>1. /\ j.done /\ j.path = hPath /\ hShown = hPath /\ hPath \in Opened /\ PageTrue(j)
        /\ PagesTyped /\ UNCHANGED <<hHead, hShown, hPath, hRepo, hTab>>
        /\ ~hCrossed => Pages!Pending(hPath)' = {}
    BY ReadyFacts
  <1>2. PICK page : page = j.page
    OBVIOUS
  <1>3. /\ page \in Seq(Commits) /\ \A i \in 1..Len(page) : Folder[page[i]] = j.path
        /\ Pages!Sentinel(page) \in {"none", "more"}
        /\ Pages!Sentinel(page) = "more" => page # <<>>
        /\ Pages!Sentinel(page) = "none" => Len(page) < PageSize
    BY <1>1, <1>2, PageFacts
  <1>4. /\ hRows' = hRows \o page /\ hMore' = Pages!Sentinel(page) /\ hLoading' = FALSE
        /\ hOldest' = (IF page = <<>> THEN hOldest ELSE page[Len(page)])
        /\ hLost' = (hLost \/ j.failed) /\ hCrossed' = hCrossed
    BY <1>2 DEF Pages!HistoryReady, Pages!appendHistory, Pages!Last
  <1>5. hRows \in Seq(Commits) /\ hShown # None
    BY <1>1, TypedFacts, PagesFacts
  <1>6. Pages!RowsOfFolder'
    <2>1. \A i \in 1..Len(hRows) : Folder[hRows[i]] = hPath
      BY <1>5 DEF PagesInv, Pages!RowsOfFolder
    <2>2. ASSUME NEW i \in 1..Len(hRows \o page) PROVE Folder[(hRows \o page)[i]] = hPath
      <3>1. CASE i \in 1..Len(hRows)
        BY <3>1, <2>1, <1>3, <1>5
      <3>2. CASE i \notin 1..Len(hRows)
        <4>1. i - Len(hRows) \in 1..Len(page) /\ (hRows \o page)[i] = page[i - Len(hRows)]
          BY <3>2, <1>3, <1>5
        <4> QED
          BY <4>1, <1>1, <1>3
      <3> QED
        BY <3>1, <3>2
    <2>3. DOMAIN (hRows \o page) = 1..Len(hRows \o page)
      BY <1>3, <1>5
    <2> QED
      BY <2>2, <2>3, <1>1, <1>4 DEF Pages!RowsOfFolder
  <1>7. Pages!LastRowWorks'
    <2>1. CASE page = <<>>
      BY <2>1, <1>3, <1>4 DEF Pages!LastRowWorks
    <2>2. CASE page # <<>>
      <3>1. hRows' # <<>> /\ hRows'[Len(hRows')] = page[Len(page)]
        BY <2>2, <1>3, <1>4, <1>5, LastOfBoth
      <3> QED
        BY <3>1, <2>2, <1>3, <1>4 DEF Pages!LastRowWorks, Pages!Last
    <2> QED
      BY <2>1, <2>2
  <1>8. PageComes'
    BY <1>1, <1>4 DEF PageComes
  <1>9. Pages!PagesJoin'
    <2>1. SUFFICES ASSUME Pages!Linear, ~hCrossed
                   PROVE  /\ Pages!IsPrefix(hRows', Pages!Walk(Head(hRows')))
                          /\ ~hLost' /\ hMore' = "none" =>
                                Pages!ToSet(hRows') = Pages!Ancestors[Head(hRows')]
      BY <1>4 DEF Pages!PagesJoin, Pages!Complete, Pages!Linear
    <2>2. hRows # <<>> /\ j.after = hRows[Len(hRows)]
      <3>1. j \in Pages!Pending(hPath)
        BY <1>1, PendingIs
      <3> QED
        BY <3>1, <2>1, <1>5 DEF PagesInv, PageComes
    <2>3. PICK c : c = Head(hRows)
      OBVIOUS
    <2>4. c \in Commits /\ Head(hRows') = c /\ hRows' \in Seq(Commits)
      BY <2>2, <2>3, <1>3, <1>4, <1>5
    <2>5. PICK w : w = Pages!Walk(c)
      OBVIOUS
    <2>6. w \in Seq(Commits) /\ Starts(hRows, w)
      <3>1. w \in Seq(Commits)
        BY <2>4, <2>5, WalkFacts
      <3>2. Pages!IsPrefix(hRows, w)
        BY <2>1, <2>2, <2>3, <2>5, <1>5 DEF PagesInv, Pages!PagesJoin
      <3> QED
        BY <3>1, <3>2, <1>5, PrefixIsStart
    <2>7. CASE page = Pages!FirstPage(Tail(Pages!Walk(j.after)))
      <3>1. Starts(hRows', w) /\ (Len(page) < PageSize => Len(hRows') = Len(w))
        BY <2>1, <2>2, <2>4, <2>5, <2>6, <2>7, <1>4, <1>5, PageGoesOn
      <3>2. Pages!IsPrefix(hRows', w)
        BY <3>1, <2>4, <2>6, PrefixIsStart
      <3>3. hMore' = "none" => Pages!ToSet(hRows') = Pages!Ancestors[c]
        BY <3>1, <2>4, <2>5, <1>3, <1>4, WholeWalk
      <3> QED
        BY <3>2, <3>3, <2>4, <2>5
    <2>8. CASE page = <<>> /\ j.failed
      <3>1. hLost'
        BY <2>8, <1>4, Zenon
      <3>2. hRows' = hRows
        BY <2>8, <1>4, <1>5
      <3> QED
        BY <3>1, <3>2, <2>1, <2>2, <1>5 DEF PagesInv, Pages!PagesJoin
    <2> QED
      BY <2>7, <2>8, <1>1, <1>2 DEF PageTrue
  <1>10. PagesTyped'
    BY ReadyTyped
  <1> QED
    BY <1>6, <1>7, <1>8, <1>9, <1>10 DEF PagesInv
-----------------------------------------------------------------------------
LEMMA PagesInit == Pages!Init => PagesInv
  <1> SUFFICES ASSUME Pages!Init PROVE PagesInv
    OBVIOUS
  <1>1. /\ hHead \in [Opened -> Commits \cup {None}] /\ HeadsAreOfFolders
        /\ hShown = None /\ hPath = None /\ hRows = <<>> /\ hMore = "none" /\ hOldest = None
        /\ hJobs = Pages!EmptyBag
    BY DEF Pages!Init, HeadsAreOfFolders
  <1>2. DOMAIN hJobs = {}
    BY <1>1 DEF Pages!EmptyBag, Pages!SetToBag
  <1>3. Pages!TypeOK
    <2>1. hRows \in Seq(Commits)
      BY <1>1
    <2>2. {hRepo, hTab, hLoaded, hLoading, hCrossed, hLost} \subseteq BOOLEAN
      BY Zenon DEF Pages!Init
    <2>3. \A j \in Pages!InFlight : j \in Pages!Job
      BY <1>2, PendingIs
    <2>4. hShown \in {None, hPath} /\ hPath \in Opened \cup {None}
          /\ hMore \in {"none", "more", "loading"} /\ hOldest \in Commits \cup {None}
      BY <1>1
    <2> QED
      BY <1>1, <2>1, <2>2, <2>3, <2>4, Zenon DEF Pages!TypeOK
  <1>4. PagesTyped
    BY <1>1, <1>2, <1>3 DEF PagesTyped, HeadsAreOfFolders, IsBag
  <1>5. Pages!RowsOfFolder /\ Pages!LastRowWorks /\ PageComes /\ Pages!PagesJoin
    BY <1>1 DEF Pages!RowsOfFolder, Pages!LastRowWorks, PageComes, Pages!PagesJoin
  <1> QED
    BY <1>4, <1>5 DEF PagesInv

LEMMA PagesNext == PagesInv /\ Pages!Next => PagesInv'
  <1> SUFFICES ASSUME PagesInv, Pages!Next PROVE PagesInv'
    OBVIOUS
  <1>1. CASE Pages!RemoveFolder \/ Pages!StateReady \/ Pages!LeaveTab
    BY <1>1, PanelSteps
  <1>2. CASE Pages!OpenTab
    BY <1>2, TabStep
  <1>3. CASE Pages!HistoryRefreshClicked
    BY <1>3, PagesRefreshStep
  <1>4. CASE Pages!LoadMore
    BY <1>4, LoadMoreStep
  <1>5. ASSUME NEW p \in Opened, Pages!OpenFolder(p) PROVE PagesInv'
    BY <1>5, OpenPagesStep
  <1>6. ASSUME NEW p \in Opened, NEW c \in Commits, Pages!HeadMoves(p, c) PROVE PagesInv'
    BY <1>6, HeadStep
  <1>7. ASSUME NEW j \in DOMAIN hJobs,
               Pages!LoadHistory(j) \/ Pages!HistoryReady(j) \/ Pages!HistoryDropped(j)
        PROVE  PagesInv'
    <2>1. CASE Pages!HistoryReady(j)
      BY <2>1, FirstPageStep, NextPageStep
    <2>2. CASE Pages!LoadHistory(j)
      BY <2>2, ReadPageStep
    <2>3. CASE Pages!HistoryDropped(j)
      BY <2>3, DroppedStep
    <2> QED
      BY <1>7, <2>1, <2>2, <2>3
  <1> QED
    BY <1>1, <1>2, <1>3, <1>4, <1>5, <1>6, <1>7, PendingIs DEF Pages!Next

LEMMA PagesStill == PagesInv /\ UNCHANGED historyVars => PagesInv'
  <1> SUFFICES ASSUME PagesInv, UNCHANGED historyVars PROVE PagesInv'
    OBVIOUS
  <1>1. /\ UNCHANGED <<hHead, hPath, Pages!list, Pages!ghosts, hJobs, hShown>>
        /\ UNCHANGED <<hRepo, hTab>>
    BY DEF historyVars, Pages!list, Pages!ghosts
  <1>2. {hRepo', hTab'} \subseteq BOOLEAN
    BY <1>1, TypedFacts, Zenon DEF PagesInv
  <1> QED
    BY <1>1, <1>2, QuietSteps

-----------------------------------------------------------------------------
(***************************************************************************)
(* Badges.  The invariant says that each row shows what is kept of its     *)
(* commit, and that what is kept or on its way is what the signature       *)
(* deserves.                                                               *)
(***************************************************************************)
LEMMA SignaturesSets ==
    /\ \A S : Signatures!Cardinality(S) = Cardinality(S)
    /\ \A f : Signatures!IsInjective(f) <=> \A x, y \in DOMAIN f : f[x] = f[y] => x = y
  <1>1. ASSUME NEW S PROVE Signatures!Cardinality(S) = Cardinality(S)
    BY DEF Signatures!Cardinality, Cardinality
  <1> QED
    BY <1>1 DEF Signatures!IsInjective

LEMMA SignaturesFacts ==
    /\ LogOf \in [Opened -> Seq(Listed)]
    /\ \A f \in Opened : \A x, y \in DOMAIN LogOf[f] : LogOf[f][x] = LogOf[f][y] => x = y
    /\ Worlds \subseteq [Listed -> Signatures!SignatureIs] \X Signatures!Keys
    /\ Listed \in Filters /\ PageSize \in Nat \ {0} /\ Tall \in Nat \ {0}
  BY SignaturesAssumption, SignaturesSets DEF Signatures!BadgesAssumption

\* The verdict is what the signature and the key deserve, unless it has expired.
LEMMA VerdictFacts ==
    ASSUME NEW c, bSignature[c] \in Signatures!SignatureIs, bKeys \in Signatures!Keys
    PROVE  /\ Signatures!Verdict(c) \in Signatures!Verdicts
           /\ bSignature[c] # "gpgExpired" => Signatures!Verdict(c) = Signatures!Deserved(c)
  <1> DEFINE s == bSignature[c]
  <1>1. CASE s = "none"
    BY <1>1 DEF Signatures!Verdict, Signatures!Deserved, Signatures!Signed, Signatures!Verdicts
  <1>2. CASE s = "other"
    BY <1>2 DEF Signatures!Verdict, Signatures!Deserved, Signatures!Signed, Signatures!Verdicts
  <1>3. CASE s \in {"ssh", "sshAltered"}
    BY <1>3 DEF Signatures!Verdict, Signatures!Deserved, Signatures!Signed, Signatures!Verdicts,
                Signatures!verifySsh, Signatures!Keys
  <1>4. CASE s \in {"gpg", "gpgAltered", "gpgExpired"}
    <2>1. PICK said : said = Signatures!Reported(c)
      OBVIOUS
    <2>2. Signatures!Verdict(c) = Signatures!verifyGpg(said)
      BY <1>4, <2>1 DEF Signatures!Verdict
    <2>3. CASE bKeys = "absent"
      <3>1. said = {"ERRSIG", "NO_PUBKEY"}
        BY <2>1, <2>3 DEF Signatures!Reported
      <3>2. said \cap {"BADSIG", "REVKEYSIG", "EXPKEYSIG", "NO_PUBKEY"} # {}
        BY <3>1
      <3> QED
        BY <3>2, <2>2, <2>3, <1>4 DEF Signatures!verifyGpg, Signatures!Deserved, Signatures!Signed,
           Signatures!Verdicts
    <2>4. CASE bKeys # "absent" /\ s = "gpgAltered"
      <3>1. said = {"BADSIG"}
        BY <2>1, <2>4 DEF Signatures!Reported
      <3>2. said \cap {"BADSIG", "REVKEYSIG", "EXPKEYSIG", "NO_PUBKEY"} # {}
        BY <3>1
      <3> QED
        BY <3>2, <2>2, <2>4, <1>4 DEF Signatures!verifyGpg, Signatures!Deserved, Signatures!Signed,
           Signatures!Verdicts
    <2>5. CASE bKeys = "outdated" /\ s # "gpgAltered"
      <3>1. said = {"REVKEYSIG", "VALIDSIG"}
        BY <2>1, <2>5 DEF Signatures!Reported
      <3>2. said \cap {"BADSIG", "REVKEYSIG", "EXPKEYSIG", "NO_PUBKEY"} # {}
        BY <3>1
      <3> QED
        BY <3>2, <2>2, <2>5, <1>4 DEF Signatures!verifyGpg, Signatures!Deserved, Signatures!Signed,
           Signatures!Verdicts
    <2>6. CASE bKeys \in {"trusted", "untrusted"} /\ s \in {"gpg", "gpgExpired"}
      <3>1. said = {"VALIDSIG"} \cup (IF s = "gpg" THEN {"GOODSIG"} ELSE {"EXPSIG"})
                   \cup (IF bKeys = "trusted" THEN {"TRUST_ULTIMATE"} ELSE {"TRUST_UNDEFINED"})
        BY <2>1, <2>6 DEF Signatures!Reported
      <3>2. said \cap {"BADSIG", "REVKEYSIG", "EXPKEYSIG", "NO_PUBKEY"} = {}
        BY <3>1
      <3>3. said \cap {"GOODSIG", "VALIDSIG"} # {}
        BY <3>1
      <3>4. "TRUST_ULTIMATE" \in said <=> bKeys = "trusted"
        BY <3>1
      <3> QED
        BY <3>2, <3>3, <3>4, <2>2, <2>6, <1>4 DEF Signatures!verifyGpg, Signatures!Deserved,
           Signatures!Signed, Signatures!Verdicts
    <2> QED
      BY <2>3, <2>4, <2>5, <2>6, <1>4 DEF Signatures!Keys
  <1> QED
    BY <1>1, <1>2, <1>3, <1>4 DEF Signatures!SignatureIs
-----------------------------------------------------------------------------
LEMMA ShownFacts ==
    ASSUME NEW rs \in Seq(Signatures!Row)
    PROVE  Cardinality(Signatures!Shown(rs)) \in 0..Len(rs)
  <1>1. PICK n : n = Len(rs)
    OBVIOUS
  <1>2. n \in Nat /\ Signatures!Shown(rs) \in SUBSET (1..n)
    BY <1>1 DEF Signatures!Shown
  <1>3. PICK S : S = Signatures!Shown(rs)
    OBVIOUS
  <1>4. n \in Int /\ 1 \in Int /\ n >= 1 - 1 /\ n - 1 + 1 = n
    BY <1>2
  <1>5. IsFiniteSet(1..n) /\ Cardinality(1..n) = n
    BY <1>2, <1>4, FS_Interval
  <1>6. IsFiniteSet(S) /\ Cardinality(S) <= Cardinality(1..n) /\ Cardinality(S) \in Nat
    BY <1>2, <1>3, <1>5, FS_Subset, FS_CardinalityType
  <1> QED
    BY <1>1, <1>2, <1>3, <1>5, <1>6

LEMMA ClampFacts ==
    ASSUME NEW rs \in Seq(Signatures!Row), NEW t \in Nat, NEW h \in Nat
    PROVE  Signatures!Clamp(rs, t, h) \in 0..Len(rs)
  <1>1. PICK n : n = Cardinality(Signatures!Shown(rs))
    OBVIOUS
  <1>2. n \in 0..Len(rs) /\ Len(rs) \in Nat
    BY <1>1, ShownFacts
  <1>3. Signatures!Clamp(rs, t, h) = IF t + h <= n THEN t ELSE IF h <= n THEN n - h ELSE 0
    BY <1>1, SignaturesSets DEF Signatures!Clamp
  <1> QED
    BY <1>2, <1>3

\* What is in the viewport has a row, and a smaller viewport shows no more.
LEMMA ViewFacts ==
    ASSUME NEW rs \in Seq(Signatures!Row), NEW t \in Nat, NEW h \in Nat
    PROVE  /\ \A c \in Signatures!InView(rs, t, h) : \E i \in 1..Len(rs) : rs[i].commit = c
           /\ \A g \in Nat : g <= h => Signatures!InView(rs, t, g) \subseteq Signatures!InView(rs, t, h)
  <1>1. Signatures!Shown(rs) \subseteq 1..Len(rs)
    BY DEF Signatures!Shown
  <1>2. \A c \in Signatures!InView(rs, t, h) : \E i \in 1..Len(rs) : rs[i].commit = c
    BY <1>1 DEF Signatures!InView
  <1>3. ASSUME NEW g \in Nat, g <= h PROVE t..(t + g - 1) \subseteq t..(t + h - 1)
    BY <1>3
  <1>4. ASSUME NEW g \in Nat, g <= h
        PROVE  Signatures!InView(rs, t, g) \subseteq Signatures!InView(rs, t, h)
    BY <1>3, <1>4 DEF Signatures!InView
  <1> QED
    BY <1>2, <1>4

\* The row of a commit, if it has one.
LEMMA FirstFacts ==
    ASSUME bRows \in Seq(Signatures!Row), NEW c
    PROVE  /\ Signatures!First(c) = 0 => \A i \in DOMAIN bRows : bRows[i].commit # c
           /\ Signatures!First(c) # 0 => /\ Signatures!First(c) \in DOMAIN bRows
                                         /\ bRows[Signatures!First(c)].commit = c
  <1> DEFINE I == {i \in 1..Len(bRows) : bRows[i].commit = c}
  <1>1. Signatures!First(c) = IF I # {} THEN Signatures!Min(I) ELSE 0
    BY DEF Signatures!First, Signatures!SelectInSeq
  <1>2. I \subseteq Nat
    OBVIOUS
  <1>3. bRows \in Seq(Signatures!Row) => DOMAIN bRows = 1..Len(bRows)
    OBVIOUS
  <1>4. ASSUME I # {} PROVE Signatures!Min(I) \in I
    <2> HIDE DEF I
    <2>1. \E x \in I : \A y \in I : x <= y
      BY <1>2, <1>4, LeastOf
    <2> QED
      BY <2>1 DEF Signatures!Min
  <1>5. \A i \in I : i \in 1..Len(bRows) /\ bRows[i].commit = c /\ i # 0
    OBVIOUS
  <1> QED
    BY <1>1, <1>3, <1>4, <1>5

\* What is known of a commit's signature: nothing yet, or what it deserves.
VerdictTrue(c, v) ==
    \/ v = Signatures!Pending \/ c \in bUnsure \/ bSignature[c] = "gpgExpired"
    \/ v = Signatures!Deserved(c)

RowsAreLogged ==
    /\ Len(bRows) <= Len(LogOf[bPath])
    /\ \A i \in 1..Len(bRows) : bRows[i].commit = LogOf[bPath][i]

VerdictsAreTrue ==
    /\ \A c \in Listed : VerdictTrue(c, bCache[c])
    /\ \A j \in bJobs : VerdictTrue(j.commit, j.verdict) /\ Signatures!Signed(j.commit)

\* A row shows what is kept of its commit.
Shows(r, kept) ==
    r.badge = IF Signatures!Signed(r.commit) THEN kept[r.commit] ELSE "Unsigned"

RowsShow == \A i \in 1..Len(bRows) : Shows(bRows[i], bCache)

BadgesInv ==
    /\ Signatures!TypeOK /\ RowsAreLogged /\ VerdictsAreTrue /\ RowsShow
    /\ Signatures!PendingIsAwaited

LEMMA BadgeTypes ==
    ASSUME Signatures!TypeOK
    PROVE  /\ bPath \in Opened /\ bRows \in Seq(Signatures!Row) /\ bFilter \in Filters
           /\ bTop \in 0..Len(bRows) /\ bHeight \in {1, Tall}
           /\ bCache \in [Listed -> Signatures!Verdicts \cup {Signatures!Pending}]
           /\ bJobs \subseteq Signatures!Job /\ bUnsure \subseteq Listed
           /\ <<bSignature, bKeys>> \in Worlds /\ {bDebounce, bGrown} \subseteq BOOLEAN
  BY Zenon DEF Signatures!TypeOK

LEMMA BadgeTypesAgain ==
    ASSUME bPath' \in Opened, bRows' \in Seq(Signatures!Row), bFilter' \in Filters,
           bTop' \in 0..Len(bRows'), bHeight' \in {1, Tall},
           bCache' \in [Listed -> Signatures!Verdicts \cup {Signatures!Pending}],
           bJobs' \subseteq Signatures!Job, bUnsure' \subseteq Listed,
           <<bSignature, bKeys>>' \in Worlds, {bDebounce', bGrown'} \subseteq BOOLEAN
    PROVE  Signatures!TypeOK'
  BY Zenon DEF Signatures!TypeOK

LEMMA WorldFacts ==
    ASSUME Signatures!TypeOK, NEW c \in Listed
    PROVE  bSignature[c] \in Signatures!SignatureIs /\ bKeys \in Signatures!Keys
  BY BadgeTypes, SignaturesFacts

\* The invariant says of each badge what the run checks.
LEMMA BadgesAreTrue == BadgesInv => Signatures!BadgeIsTrue
  <1> SUFFICES ASSUME BadgesInv PROVE Signatures!BadgeIsTrue
    OBVIOUS
  <1>1. bRows \in Seq(Signatures!Row) /\ DOMAIN bRows = 1..Len(bRows)
    BY BadgeTypes DEF BadgesInv
  <1>2. ASSUME NEW i \in 1..Len(bRows), NEW c, c = bRows[i].commit
        PROVE  /\ Signatures!Signed(c) => bRows[i].badge = bCache[c]
               /\ \/ bRows[i].badge = Signatures!Pending \/ c \in bUnsure
                  \/ bSignature[c] = "gpgExpired" \/ bRows[i].badge = Signatures!Deserved(c)
    <2>1. c \in Listed /\ Shows(bRows[i], bCache)
      <3>1. bRows[i] \in Signatures!Row
        BY <1>1
      <3> QED
        BY <3>1, <1>2 DEF BadgesInv, RowsShow, Signatures!Row
    <2>2. VerdictTrue(c, bCache[c])
      BY <2>1 DEF BadgesInv, VerdictsAreTrue
    <2>3. CASE Signatures!Signed(c)
      BY <2>1, <2>2, <2>3, <1>2 DEF Shows, VerdictTrue
    <2>4. CASE ~Signatures!Signed(c)
      BY <2>1, <2>4, <1>2 DEF Shows, Signatures!Deserved
    <2> QED
      BY <2>3, <2>4
  <1> QED
    BY <1>1, <1>2 DEF Signatures!BadgeIsTrue

-----------------------------------------------------------------------------
\* Rows that are asked for: all that is pending in the viewport is then awaited.
LEMMA DispatchFacts ==
    ASSUME BadgesInv, NEW rs \in Seq(Signatures!Row), NEW t \in Nat,
           \A i \in 1..Len(rs) : Shows(rs[i], bCache),
           Signatures!dispatchVerifyForVisibleRows(rs, t)
    PROVE  /\ bJobs' \subseteq Signatures!Job /\ bGrown' = FALSE
           /\ \A j \in bJobs' : j \in bJobs \/ (j.verdict = Signatures!Pending
                                                /\ Signatures!Signed(j.commit))
           /\ \A i \in 1..Len(rs) :
                 rs[i].badge = Signatures!Pending
                 /\ rs[i].commit \in Signatures!InView(rs, t, bHeight) =>
                    \E j \in bJobs' : j.path = bPath /\ j.commit = rs[i].commit
  <1> DEFINE Ask(c) == [path |-> bPath, commit |-> c, verdict |-> Signatures!Pending]
  <1>1. PICK V : V = Signatures!InView(rs, t, bHeight)
    OBVIOUS
  <1>2. PICK A : A = {x \in V : Signatures!Signed(x) /\ bCache[x] = Signatures!Pending}
    OBVIOUS
  <1>3. bJobs' = bJobs \cup {Ask(c) : c \in A} /\ bGrown' = FALSE
    BY <1>1, <1>2 DEF Signatures!dispatchVerifyForVisibleRows
  <1>4. bPath \in Opened /\ bJobs \subseteq Signatures!Job /\ bHeight \in Nat
    <2>1. bPath \in Opened /\ bJobs \subseteq Signatures!Job /\ bHeight \in {1, Tall} /\ Tall \in Nat
      BY BadgeTypes, SignaturesFacts DEF BadgesInv
    <2> QED
      BY <2>1
  <1>5. \A c \in V : c \in Listed
    <2>1. \A c \in V : \E i \in 1..Len(rs) : rs[i].commit = c
      BY <1>1, <1>4, ViewFacts
    <2>2. \A i \in 1..Len(rs) : rs[i].commit \in Listed
      <3>1. \A i \in 1..Len(rs) : rs[i] \in Signatures!Row
        OBVIOUS
      <3> QED
        BY <3>1 DEF Signatures!Row
    <2> QED
      BY <2>1, <2>2
  <1>6. \A c \in A : /\ Ask(c) \in Signatures!Job /\ Ask(c).verdict = Signatures!Pending
                     /\ Ask(c).path = bPath /\ Ask(c).commit = c /\ Signatures!Signed(c)
    BY <1>2, <1>4, <1>5 DEF Signatures!Job
  <1> HIDE DEF Ask
  <1>7. ASSUME NEW i \in 1..Len(rs), rs[i].badge = Signatures!Pending, rs[i].commit \in V
        PROVE  \E j \in bJobs' : j.path = bPath /\ j.commit = rs[i].commit
    <2>1. Shows(rs[i], bCache) /\ Signatures!Pending # "Unsigned"
      BY DEF Signatures!Pending
    <2>2. rs[i].commit \in A
      BY <2>1, <1>2, <1>7 DEF Shows
    <2> QED
      BY <2>2, <1>3, <1>6
  <1> QED
    BY <1>1, <1>3, <1>4, <1>6, <1>7

\* What is known stays known while nothing is learnt of a signature.
LEMMA VerdictsStay ==
    ASSUME BadgesInv, UNCHANGED <<bSignature, bKeys, bCache, bUnsure>>,
           \A j \in bJobs' : j \in bJobs \/ (j.verdict = Signatures!Pending
                                             /\ Signatures!Signed(j.commit))
    PROVE  VerdictsAreTrue'
  <1>1. \A c : (Signatures!Signed(c)' <=> Signatures!Signed(c))
               /\ Signatures!Deserved(c)' = Signatures!Deserved(c)
    BY DEF Signatures!Signed, Signatures!Deserved
  <1>2. ASSUME NEW c, NEW v PROVE VerdictTrue(c, v) => VerdictTrue(c, v)'
    BY <1>1 DEF VerdictTrue
  <1>3. ASSUME NEW c \in Listed PROVE VerdictTrue(c, bCache[c])'
    <2>1. VerdictTrue(c, bCache[c])
      BY DEF BadgesInv, VerdictsAreTrue
    <2> QED
      BY <2>1, <1>1 DEF VerdictTrue
  <1>4. ASSUME NEW j \in bJobs' PROVE VerdictTrue(j.commit, j.verdict)' /\ Signatures!Signed(j.commit)'
    <2>1. CASE j \in bJobs
      <3>1. VerdictTrue(j.commit, j.verdict) /\ Signatures!Signed(j.commit)
        BY <2>1 DEF BadgesInv, VerdictsAreTrue
      <3> QED
        BY <3>1, <1>1 DEF VerdictTrue
    <2>2. CASE j.verdict = Signatures!Pending /\ Signatures!Signed(j.commit)
      BY <2>2, <1>1 DEF VerdictTrue
    <2> QED
      BY <2>1, <2>2, <1>4
  <1> QED
    BY <1>3, <1>4 DEF VerdictsAreTrue

LEMMA ShowsAgain ==
    ASSUME UNCHANGED bSignature
    PROVE  \A r, kept : Shows(r, kept)' <=> Shows(r, kept)
  BY DEF Shows, Signatures!Signed

LEMMA BatchFacts ==
    ASSUME BadgesInv, NEW out, NEW s \in Seq(Listed)
    PROVE  /\ Signatures!RowsOf(s, out) \in Seq(Signatures!Row)
           /\ Len(Signatures!RowsOf(s, out)) = Len(s)
           /\ \A i \in 1..Len(s) : /\ Signatures!RowsOf(s, out)[i].commit = s[i]
                                   /\ Shows(Signatures!RowsOf(s, out)[i], bCache)
  <1> DEFINE R(i) == Signatures!appendCommitRow(s[i], s[i] \in out)
             q == Signatures!RowsOf(s, out)
  <1>1. DOMAIN s = 1..Len(s) /\ Len(s) \in Nat /\ q = [i \in 1..Len(s) |-> R(i)]
    BY DEF Signatures!RowsOf
  <1>2. ASSUME NEW i \in 1..Len(s)
        PROVE  R(i) \in Signatures!Row /\ R(i).commit = s[i] /\ Shows(R(i), bCache)
    <2>1. s[i] \in Listed /\ (s[i] \in out) \in BOOLEAN
      OBVIOUS
    <2>2. bCache[s[i]] \in Signatures!Verdicts \cup {Signatures!Pending}
          /\ "Unsigned" \in Signatures!Verdicts
      BY <2>1, BadgeTypes DEF BadgesInv, Signatures!Verdicts
    <2>3. R(i) \in Signatures!Row
      BY <2>1, <2>2 DEF Signatures!Row, Signatures!appendCommitRow
    <2>4. R(i).commit = s[i] /\ Shows(R(i), bCache)
      BY DEF Signatures!appendCommitRow, Shows
    <2> QED
      BY <2>3, <2>4
  <1> HIDE DEF R
  <1>3. q \in [1..Len(s) -> Signatures!Row]
    BY <1>1, <1>2
  <1>4. q \in Seq(Signatures!Row) /\ Len(q) = Len(s)
    <2> HIDE DEF q
    <2> QED
      BY <1>1, <1>3
  <1> QED
    BY <1>1, <1>2, <1>4

LEMMA PendingIsNotUnsigned == Signatures!Pending # "Unsigned"
  BY DEF Signatures!Pending

LEMMA WorldStays ==
    ASSUME BadgesInv, UNCHANGED <<bSignature, bKeys>> PROVE <<bSignature, bKeys>>' \in Worlds
  BY BadgeTypes DEF BadgesInv

\* A folder is opened: no rows.
LEMMA SetFolderStep ==
    ASSUME BadgesInv, NEW f \in Opened, Signatures!setFolder(f) PROVE BadgesInv'
  <1>1. /\ bPath' = f /\ bRows' = <<>> /\ bFilter' = Listed /\ bTop' = 0
        /\ bDebounce' = (bDebounce \/ bTop # 0 \/ bFilter # Listed)
        /\ UNCHANGED <<bHeight, bCache, bJobs, bSignature, bKeys, bUnsure, bGrown>>
    BY DEF Signatures!setFolder, Signatures!world
  <1>2. Signatures!TypeOK /\ bDebounce' \in BOOLEAN /\ bRows' \in Seq(Signatures!Row) /\ Len(bRows') = 0
    <2>1. bDebounce' \in BOOLEAN
      BY <1>1, Zenon
    <2> QED
      BY <2>1, <1>1 DEF BadgesInv
  <1>3. Signatures!TypeOK'
    <2>1. {bDebounce', bGrown'} \subseteq BOOLEAN
      BY <1>1, <1>2, BadgeTypes, Zenon
    <2>2. /\ bPath' \in Opened /\ bFilter' \in Filters /\ bTop' \in 0..Len(bRows')
          /\ bHeight' \in {1, Tall} /\ bJobs' \subseteq Signatures!Job /\ bUnsure' \subseteq Listed
          /\ bCache' \in [Listed -> Signatures!Verdicts \cup {Signatures!Pending}]
      BY <1>1, <1>2, BadgeTypes, SignaturesFacts
    <2>3. <<bSignature, bKeys>>' \in Worlds
      BY <1>1, WorldStays
    <2> QED
      BY <2>1, <2>2, <2>3, <1>2, BadgeTypesAgain
  <1>4. RowsAreLogged'
    <2>1. Len(LogOf[f]) \in Nat
      BY SignaturesFacts
    <2> QED
      BY <2>1, <1>1, <1>2 DEF RowsAreLogged
  <1>5. VerdictsAreTrue'
    BY <1>1, VerdictsStay
  <1>6. RowsShow' /\ Signatures!PendingIsAwaited'
    BY <1>1 DEF RowsShow, Signatures!PendingIsAwaited
  <1> QED
    BY <1>3, <1>4, <1>5, <1>6 DEF BadgesInv

\* Rows are put into the list, and those in the viewport asked for.
LEMMA ListedStep ==
    ASSUME BadgesInv, NEW rs \in Seq(Signatures!Row), NEW t \in 0..Len(rs),
           Len(rs) <= Len(LogOf[bPath]),
           \A i \in 1..Len(rs) : rs[i].commit = LogOf[bPath][i] /\ Shows(rs[i], bCache),
           bRows' = rs, bTop' = t, bDebounce' \in BOOLEAN,
           Signatures!dispatchVerifyForVisibleRows(rs, t),
           UNCHANGED <<bPath, bFilter, bHeight, bCache, bSignature, bKeys, bUnsure>>
    PROVE  BadgesInv'
  <1>0. t \in Nat
    OBVIOUS
  <1>1. /\ bJobs' \subseteq Signatures!Job /\ bGrown' = FALSE
        /\ \A j \in bJobs' : j \in bJobs \/ (j.verdict = Signatures!Pending
                                             /\ Signatures!Signed(j.commit))
        /\ \A i \in 1..Len(rs) :
              rs[i].badge = Signatures!Pending
              /\ rs[i].commit \in Signatures!InView(rs, t, bHeight) =>
                 \E j \in bJobs' : j.path = bPath /\ j.commit = rs[i].commit
    BY <1>0, DispatchFacts
  <1>2. Signatures!TypeOK'
    <2>1. {bDebounce', bGrown'} \subseteq BOOLEAN
      BY <1>1, Zenon
    <2>2. Signatures!TypeOK
      BY DEF BadgesInv
    <2>3. /\ bPath' \in Opened /\ bFilter' \in Filters /\ bTop' \in 0..Len(bRows')
          /\ bHeight' \in {1, Tall} /\ bUnsure' \subseteq Listed
          /\ bCache' \in [Listed -> Signatures!Verdicts \cup {Signatures!Pending}]
      BY <2>2, BadgeTypes
    <2>4. <<bSignature, bKeys>>' \in Worlds
      BY WorldStays
    <2> QED
      BY <2>1, <2>3, <2>4, <1>1, BadgeTypesAgain
  <1>3. RowsAreLogged'
    BY DEF RowsAreLogged
  <1>4. VerdictsAreTrue'
    BY <1>1, VerdictsStay
  <1>5. RowsShow'
    BY ShowsAgain DEF RowsShow
  <1>6. Signatures!PendingIsAwaited'
    <2>1. DOMAIN rs = 1..Len(rs)
      OBVIOUS
    <2>2. Signatures!InView(rs, t, bHeight)' = Signatures!InView(rs, t, bHeight)
      BY DEF Signatures!InView, Signatures!Shown
    <2>3. \A c : (\E j \in bJobs' : j.path = bPath /\ j.commit = c) => Signatures!Awaited(c)'
      BY DEF Signatures!Awaited
    <2> QED
      BY <1>1, <2>1, <2>2, <2>3 DEF Signatures!PendingIsAwaited
  <1> QED
    BY <1>2, <1>3, <1>4, <1>5, <1>6 DEF BadgesInv

\* The page behind n commits.
LEMMA PageOfLog ==
    ASSUME Signatures!TypeOK, NEW n \in 0..Len(LogOf[bPath])
    PROVE  /\ Signatures!Page(n) \in Seq(Listed) /\ n + Len(Signatures!Page(n)) <= Len(LogOf[bPath])
           /\ \A i \in 1..Len(Signatures!Page(n)) : Signatures!Page(n)[i] = LogOf[bPath][n + i]
  <1>1. PICK l : l = LogOf[bPath]
    OBVIOUS
  <1>2. l \in Seq(Listed) /\ Len(l) \in Nat /\ PageSize \in Nat /\ n \in 0..Len(l) /\ n \in Nat
    BY <1>1, BadgeTypes, SignaturesFacts
  <1>3. PICK m : m = IF n + PageSize < Len(l) THEN n + PageSize ELSE Len(l)
    OBVIOUS
  <1>4. m \in Nat /\ n <= m /\ m <= Len(l)
    BY <1>2, <1>3
  <1>5. PICK p : p = Signatures!Page(n)
    OBVIOUS
  <1>6. p = SubSeq(l, n + 1, m)
    BY <1>1, <1>3, <1>5 DEF Signatures!Page
  <1>7. /\ p \in Seq(Listed) /\ Len(p) = m - n /\ \A i \in 1..Len(p) : p[i] = l[n + i]
    BY <1>2, <1>4, <1>6
  <1> QED
    BY <1>1, <1>2, <1>4, <1>5, <1>7

LEMMA SetHistoryStep == ASSUME BadgesInv, Signatures!setHistory PROVE BadgesInv'
  <1>1. PICK s : s = Signatures!Page(0)
    OBVIOUS
  <1>2. PICK rs : rs = Signatures!RowsOf(s, Listed \ bFilter)
    OBVIOUS
  <1>3. /\ bRows' = rs /\ bTop' = 0 /\ bDebounce' = (bDebounce \/ bTop # 0 \/ bFilter # Listed)
        /\ Signatures!dispatchVerifyForVisibleRows(rs, 0)
        /\ UNCHANGED <<bPath, bFilter, bHeight, bCache, bSignature, bKeys, bUnsure>>
    BY <1>1, <1>2 DEF Signatures!setHistory, Signatures!world
  <1>4. Signatures!TypeOK /\ 0 \in 0..Len(LogOf[bPath])
    <2>1. LogOf[bPath] \in Seq(Listed)
      BY BadgeTypes, SignaturesFacts DEF BadgesInv
    <2> QED
      BY <2>1 DEF BadgesInv
  <1>5. /\ s \in Seq(Listed) /\ 0 + Len(s) <= Len(LogOf[bPath])
        /\ \A i \in 1..Len(s) : s[i] = LogOf[bPath][0 + i]
    BY <1>1, <1>4, PageOfLog
  <1>6. /\ rs \in Seq(Signatures!Row) /\ Len(rs) = Len(s)
        /\ \A i \in 1..Len(s) : rs[i].commit = s[i] /\ Shows(rs[i], bCache)
    BY <1>2, <1>5, BatchFacts
  <1>7. /\ 0 \in 0..Len(rs) /\ Len(rs) <= Len(LogOf[bPath])
        /\ \A i \in 1..Len(rs) : rs[i].commit = LogOf[bPath][i] /\ Shows(rs[i], bCache)
    BY <1>5, <1>6
  <1>8. bDebounce' \in BOOLEAN
    BY <1>3, Zenon
  <1> QED
    BY <1>3, <1>6, <1>7, <1>8, ListedStep

LEMMA AppendHistoryStep == ASSUME BadgesInv, Signatures!appendHistory PROVE BadgesInv'
  <1>1. PICK n, s : n = Len(bRows) /\ s = Signatures!Page(n)
    OBVIOUS
  <1>2. PICK q : q = Signatures!RowsOf(s, {})
    OBVIOUS
  <1>3. PICK rs : rs = bRows \o q
    OBVIOUS
  <1>4. /\ bRows' = rs /\ Signatures!dispatchVerifyForVisibleRows(rs, bTop)
        /\ UNCHANGED <<bPath, bFilter, bTop, bHeight, bDebounce, bCache, bSignature, bKeys, bUnsure>>
    BY <1>1, <1>2, <1>3 DEF Signatures!appendHistory, Signatures!world
  <1>5. /\ Signatures!TypeOK /\ bRows \in Seq(Signatures!Row) /\ n \in Nat /\ bTop \in 0..n
        /\ LogOf[bPath] \in Seq(Listed) /\ n \in 0..Len(LogOf[bPath])
    <2>1. Signatures!TypeOK /\ bRows \in Seq(Signatures!Row) /\ bTop \in 0..n
      BY <1>1, BadgeTypes DEF BadgesInv
    <2>2. LogOf[bPath] \in Seq(Listed)
      BY <2>1, BadgeTypes, SignaturesFacts
    <2>3. n \in Nat /\ n <= Len(LogOf[bPath])
      BY <2>1, <1>1 DEF BadgesInv, RowsAreLogged
    <2> QED
      BY <2>1, <2>2, <2>3
  <1>6. /\ s \in Seq(Listed) /\ n + Len(s) <= Len(LogOf[bPath])
        /\ \A i \in 1..Len(s) : s[i] = LogOf[bPath][n + i]
    BY <1>1, <1>5, PageOfLog
  <1>7. /\ q \in Seq(Signatures!Row) /\ Len(q) = Len(s)
        /\ \A i \in 1..Len(s) : q[i].commit = s[i] /\ Shows(q[i], bCache)
    BY <1>2, <1>6, BatchFacts
  <1>8. /\ rs \in Seq(Signatures!Row) /\ Len(rs) = n + Len(s) /\ Len(s) \in Nat
        /\ \A i \in 1..n : rs[i] = bRows[i]
        /\ \A i \in (n + 1)..(n + Len(s)) : rs[i] = q[i - n]
    <2>1. PICK b : b = bRows
      OBVIOUS
    <2>2. b \in Seq(Signatures!Row) /\ q \in Seq(Signatures!Row) /\ rs = b \o q /\ n = Len(b)
          /\ Len(q) = Len(s) /\ Len(s) \in Nat
      BY <2>1, <1>1, <1>3, <1>5, <1>6, <1>7
    <2>3. rs \in Seq(Signatures!Row) /\ Len(rs) = n + Len(s)
      <3>1. b \o q \in Seq(Signatures!Row)
        BY <2>2
      <3>2. \A x, y \in Seq(Signatures!Row) : Len(x \o y) = Len(x) + Len(y)
        OBVIOUS
      <3> QED
        BY <2>2, <3>1, <3>2
    <2>4. \A i \in 1..(Len(b) + Len(q)) : (b \o q)[i] = IF i <= Len(b) THEN b[i] ELSE q[i - Len(b)]
      BY <2>2
    <2>5. ASSUME NEW i \in 1..n PROVE rs[i] = b[i]
      BY <2>2, <2>4
    <2>6. ASSUME NEW i \in (n + 1)..(n + Len(s)) PROVE rs[i] = q[i - n]
      BY <2>2, <2>4
    <2> QED
      BY <2>1, <2>2, <2>3, <2>5, <2>6
  <1>9. ASSUME NEW i \in 1..Len(rs)
        PROVE  rs[i].commit = LogOf[bPath][i] /\ Shows(rs[i], bCache)
    <2>1. CASE i \in 1..n
      <3>1. bRows[i].commit = LogOf[bPath][i] /\ Shows(bRows[i], bCache)
        BY <2>1, <1>1 DEF BadgesInv, RowsAreLogged, RowsShow
      <3> QED
        BY <2>1, <3>1, <1>8
    <2>2. CASE i \in (n + 1)..(n + Len(s))
      <3>1. i - n \in 1..Len(s) /\ n + (i - n) = i /\ rs[i] = q[i - n]
        BY <2>2, <1>5, <1>8
      <3>2. q[i - n].commit = s[i - n] /\ Shows(q[i - n], bCache)
            /\ s[i - n] = LogOf[bPath][n + (i - n)]
        BY <3>1, <1>6, <1>7
      <3> QED
        BY <3>1, <3>2
    <2> QED
      BY <2>1, <2>2, <1>5, <1>8
  <1>10. bTop \in 0..Len(rs) /\ Len(rs) <= Len(LogOf[bPath])
    BY <1>5, <1>6, <1>8
  <1>11. bDebounce' \in BOOLEAN
    BY <1>4, <1>5, BadgeTypes, Zenon
  <1> QED
    BY <1>4, <1>8, <1>9, <1>10, <1>11, ListedStep

LEMMA PauseStep == ASSUME BadgesInv, Signatures!Pause PROVE BadgesInv'
  <1>1. /\ bDebounce' = FALSE /\ Signatures!dispatchVerifyForVisibleRows(bRows, bTop)
        /\ UNCHANGED <<bPath, bRows, bTop, bFilter, bHeight, bCache, bSignature, bKeys, bUnsure>>
    BY DEF Signatures!Pause, Signatures!list, Signatures!world
  <1>2. bRows \in Seq(Signatures!Row) /\ bTop \in 0..Len(bRows)
    BY BadgeTypes DEF BadgesInv
  <1>3. /\ Len(bRows) <= Len(LogOf[bPath])
        /\ \A i \in 1..Len(bRows) : bRows[i].commit = LogOf[bPath][i] /\ Shows(bRows[i], bCache)
    BY DEF BadgesInv, RowsAreLogged, RowsShow
  <1>4. bRows' = bRows /\ bTop' = bTop /\ bDebounce' \in BOOLEAN
    BY <1>1
  <1> QED
    BY <1>1, <1>2, <1>3, <1>4, ListedStep

\* The list is moved, filtered or resized: what is known of its commits stays.
LEMMA MovedStep ==
    ASSUME BadgesInv, bRows' \in Seq(Signatures!Row), Len(bRows') = Len(bRows),
           \A i \in 1..Len(bRows) : /\ bRows'[i].commit = bRows[i].commit
                                    /\ bRows'[i].badge = bRows[i].badge,
           bFilter' \in Filters, bTop' \in 0..Len(bRows'), bHeight' \in {1, Tall},
           {bDebounce', bGrown'} \subseteq BOOLEAN, Signatures!PendingIsAwaited',
           UNCHANGED <<bPath, bCache, bJobs, bSignature, bKeys, bUnsure>>
    PROVE  BadgesInv'
  <1>1. Signatures!TypeOK'
    <2>1. /\ bPath' \in Opened /\ bJobs' \subseteq Signatures!Job /\ bUnsure' \subseteq Listed
          /\ bCache' \in [Listed -> Signatures!Verdicts \cup {Signatures!Pending}]
      BY BadgeTypes DEF BadgesInv
    <2>2. <<bSignature, bKeys>>' \in Worlds
      BY WorldStays
    <2> QED
      BY <2>1, <2>2, BadgeTypesAgain
  <1>2. RowsAreLogged'
    BY DEF BadgesInv, RowsAreLogged
  <1>3. VerdictsAreTrue'
    BY VerdictsStay
  <1>4. RowsShow'
    <2>1. ASSUME NEW i \in 1..Len(bRows) PROVE Shows(bRows[i], bCache)'
      <3>1. Shows(bRows[i], bCache)
        BY DEF BadgesInv, RowsShow
      <3> QED
        BY <3>1 DEF Shows, Signatures!Signed
    <2> QED
      BY <2>1 DEF RowsShow
  <1> QED
    BY <1>1, <1>2, <1>3, <1>4 DEF BadgesInv

LEMMA DebouncedAwaits == ASSUME bDebounce' = TRUE PROVE Signatures!PendingIsAwaited'
  BY DEF Signatures!PendingIsAwaited, Signatures!Awaited

LEMMA HeightIs == ASSUME Signatures!TypeOK PROVE bHeight \in Nat /\ bTop \in Nat
  <1>1. bHeight \in {1, Tall} /\ Tall \in Nat
    BY BadgeTypes, SignaturesFacts
  <1>2. bRows \in Seq(Signatures!Row) /\ bTop \in 0..Len(bRows)
    BY BadgeTypes
  <1> QED
    BY <1>1, <1>2

LEMMA ScrollStep == ASSUME BadgesInv, Signatures!onHistoryScrolled PROVE BadgesInv'
  <1>1. /\ bTop' \in 0..Len(bRows) /\ bDebounce' = TRUE
        /\ UNCHANGED <<bPath, bRows, bFilter, bHeight, bCache, bJobs, bSignature, bKeys, bUnsure, bGrown>>
    BY DEF Signatures!onHistoryScrolled, Signatures!world
  <1>2. Signatures!TypeOK
    BY DEF BadgesInv
  <1>3. {bDebounce', bGrown'} \subseteq BOOLEAN
    BY <1>1, <1>2, BadgeTypes, Zenon
  <1>4. /\ bRows' \in Seq(Signatures!Row) /\ bFilter' \in Filters /\ bHeight' \in {1, Tall}
        /\ bTop' \in 0..Len(bRows')
    BY <1>1, <1>2, BadgeTypes
  <1>5. Signatures!PendingIsAwaited'
    BY <1>1, DebouncedAwaits
  <1> QED
    BY <1>1, <1>3, <1>4, <1>5, MovedStep

LEMMA FilterStep ==
    ASSUME BadgesInv, NEW S \in Filters, Signatures!onHistoryFilterChanged(S) PROVE BadgesInv'
  <1>1. /\ bFilter' = S /\ bTop' = Signatures!Clamp(bRows', bTop, bHeight) /\ bDebounce' = TRUE
        /\ bRows' = [i \in DOMAIN bRows |-> [bRows[i] EXCEPT !.hidden = bRows[i].commit \notin S]]
        /\ UNCHANGED <<bPath, bHeight, bCache, bJobs, bSignature, bKeys, bUnsure, bGrown>>
    BY DEF Signatures!onHistoryFilterChanged, Signatures!world
  <1>2. Signatures!TypeOK
    BY DEF BadgesInv
  <1>3. /\ bRows' \in Seq(Signatures!Row) /\ Len(bRows') = Len(bRows)
        /\ \A i \in 1..Len(bRows) : /\ bRows'[i].commit = bRows[i].commit
                                    /\ bRows'[i].badge = bRows[i].badge
    <2>1. PICK rs, q : rs = bRows /\ q = bRows'
      OBVIOUS
    <2>2. rs \in Seq(Signatures!Row) /\ Len(rs) \in Nat /\ DOMAIN rs = 1..Len(rs)
      BY <2>1, <1>2, BadgeTypes
    <2> DEFINE H(r) == [r EXCEPT !.hidden = r.commit \notin S]
    <2>3. q = [i \in 1..Len(rs) |-> H(rs[i])]
      BY <1>1, <2>1, <2>2
    <2>4. ASSUME NEW r \in Signatures!Row
          PROVE  H(r) \in Signatures!Row /\ H(r).commit = r.commit /\ H(r).badge = r.badge
      <3>1. (r.commit \notin S) \in BOOLEAN
        OBVIOUS
      <3> QED
        BY <3>1 DEF Signatures!Row
    <2>5. \A i \in 1..Len(rs) : rs[i] \in Signatures!Row
      BY <2>2
    <2> HIDE DEF H
    <2>6. q \in [1..Len(rs) -> Signatures!Row]
      BY <2>3, <2>4, <2>5
    <2>7. q \in Seq(Signatures!Row) /\ Len(q) = Len(rs)
      BY <2>2, <2>6
    <2> QED
      BY <2>1, <2>3, <2>4, <2>5, <2>7
  <1>4. {bDebounce', bGrown'} \subseteq BOOLEAN
    BY <1>1, <1>2, BadgeTypes, Zenon
  <1>5. bTop' \in 0..Len(bRows')
    <2>1. PICK q : q = bRows'
      OBVIOUS
    <2>2. q \in Seq(Signatures!Row) /\ bTop \in Nat /\ bHeight \in Nat
      BY <2>1, <1>2, <1>3, HeightIs
    <2> QED
      BY <2>1, <2>2, <1>1, ClampFacts
  <1>6. bFilter' \in Filters /\ bHeight' \in {1, Tall}
    BY <1>1, <1>2, BadgeTypes
  <1>7. Signatures!PendingIsAwaited'
    BY <1>1, DebouncedAwaits
  <1> QED
    BY <1>1, <1>3, <1>4, <1>5, <1>6, <1>7, MovedStep

LEMMA ResizeStep == ASSUME BadgesInv, Signatures!Resize PROVE BadgesInv'
  <1>1. /\ bHeight' \in {1, Tall} \ {bHeight} /\ bTop' = Signatures!Clamp(bRows, bTop, bHeight')
        /\ bDebounce' = (bDebounce \/ bTop' # bTop)
        /\ bGrown' = (bGrown \/ (bHeight' > bHeight /\ bTop' = bTop))
        /\ UNCHANGED <<bPath, bRows, bFilter, bCache, bJobs, bSignature, bKeys, bUnsure>>
    BY DEF Signatures!Resize, Signatures!world
  <1>2. Signatures!TypeOK /\ bRows \in Seq(Signatures!Row) /\ bTop \in Nat /\ bHeight \in Nat
    BY BadgeTypes, HeightIs DEF BadgesInv
  <1>3. PICK h : h = bHeight'
    OBVIOUS
  <1>4. h \in Nat /\ h # bHeight /\ bTop' \in 0..Len(bRows)
    <2>1. h \in Nat /\ h # bHeight
      BY <1>1, <1>3, SignaturesFacts
    <2> QED
      BY <2>1, <1>1, <1>2, <1>3, ClampFacts
  <1>5. {bDebounce', bGrown'} \subseteq BOOLEAN
    BY <1>1, Zenon
  <1>6. /\ bRows' \in Seq(Signatures!Row) /\ Len(bRows') = Len(bRows) /\ bFilter' \in Filters
        /\ bTop' \in 0..Len(bRows') /\ bHeight' \in {1, Tall}
    BY <1>1, <1>2, <1>4, BadgeTypes
  <1>7. Signatures!PendingIsAwaited'
    <2>1. CASE bTop' # bTop
      <3>1. bDebounce' = TRUE
        BY <2>1, <1>1, Zenon
      <3> QED
        BY <3>1, DebouncedAwaits
    <2>2. CASE bTop' = bTop /\ h > bHeight
      <3>1. bGrown' = TRUE
        BY <2>2, <1>1, <1>3, Zenon
      <3> QED
        BY <3>1 DEF Signatures!PendingIsAwaited
    <2>3. CASE bTop' = bTop /\ ~(h > bHeight)
      <3>1. h <= bHeight
        BY <2>3, <1>2, <1>4
      <3>2. bGrown' = bGrown
        BY <2>3, <1>1, <1>3, BadgeTypes, <1>2, Zenon
      <3>3. bDebounce' = bDebounce
        BY <2>3, <1>1, BadgeTypes, <1>2, Zenon
      <3>4. Signatures!InView(bRows, bTop, h) \subseteq Signatures!InView(bRows, bTop, bHeight)
        BY <3>1, <1>2, <1>4, ViewFacts
      <3>5. Signatures!InView(bRows, bTop, bHeight)' = Signatures!InView(bRows, bTop, h)
        BY <2>3, <1>1, <1>3 DEF Signatures!InView, Signatures!Shown
      <3>6. \A c : Signatures!Awaited(c)' <=> Signatures!Awaited(c)
        BY <3>3, <1>1 DEF Signatures!Awaited
      <3> QED
        BY <3>2, <3>4, <3>5, <3>6, <1>1 DEF BadgesInv, Signatures!PendingIsAwaited
    <2> QED
      BY <2>1, <2>2, <2>3
  <1> QED
    BY <1>1, <1>5, <1>6, <1>7, MovedStep

\* A verification runs, and what it says is true or it has failed.
LEMMA RanStep ==
    ASSUME BadgesInv, NEW j \in bJobs, NEW v \in Signatures!Verdicts, Signatures!Ran(j, v),
           bUnsure' \subseteq Listed, bUnsure \subseteq bUnsure', VerdictTrue(j.commit, v)',
           UNCHANGED <<bPath, bRows, bFilter, bTop, bHeight, bDebounce, bCache, bSignature, bKeys, bGrown>>
    PROVE  BadgesInv'
  <1>1. PICK k : k = [j EXCEPT !.verdict = v]
    OBVIOUS
  <1>2. j \in Signatures!Job
    BY BadgeTypes DEF BadgesInv
  <1>3. k \in Signatures!Job /\ k.path = j.path /\ k.commit = j.commit /\ k.verdict = v
    BY <1>1, <1>2 DEF Signatures!Job
  <1>4. bJobs' = (bJobs \ {j}) \cup {k}
    BY <1>1 DEF Signatures!Ran
  <1>5. Signatures!TypeOK'
    <2>0. Signatures!TypeOK
      BY DEF BadgesInv
    <2>1. {bDebounce', bGrown'} \subseteq BOOLEAN
      BY <2>0, BadgeTypes, Zenon
    <2>2. /\ bPath' \in Opened /\ bRows' \in Seq(Signatures!Row) /\ bFilter' \in Filters
          /\ bTop' \in 0..Len(bRows') /\ bHeight' \in {1, Tall}
          /\ bCache' \in [Listed -> Signatures!Verdicts \cup {Signatures!Pending}]
          /\ bJobs' \subseteq Signatures!Job
      BY <2>0, <1>3, <1>4, BadgeTypes
    <2>3. <<bSignature, bKeys>>' \in Worlds
      BY WorldStays
    <2> QED
      BY <2>1, <2>2, <2>3, BadgeTypesAgain
  <1>6. RowsAreLogged' /\ RowsShow'
    BY ShowsAgain DEF BadgesInv, RowsAreLogged, RowsShow
  <1>7. \A c : (Signatures!Signed(c)' <=> Signatures!Signed(c))
               /\ Signatures!Deserved(c)' = Signatures!Deserved(c)
    BY DEF Signatures!Signed, Signatures!Deserved
  <1>8. VerdictsAreTrue'
    <2>1. ASSUME NEW c \in Listed PROVE VerdictTrue(c, bCache[c])'
      <3>1. VerdictTrue(c, bCache[c])
        BY DEF BadgesInv, VerdictsAreTrue
      <3> QED
        BY <3>1, <1>7 DEF VerdictTrue
    <2>2. ASSUME NEW i \in bJobs' PROVE VerdictTrue(i.commit, i.verdict)' /\ Signatures!Signed(i.commit)'
      <3>1. CASE i \in bJobs
        <4>1. VerdictTrue(i.commit, i.verdict) /\ Signatures!Signed(i.commit)
          BY <3>1 DEF BadgesInv, VerdictsAreTrue
        <4> QED
          BY <4>1, <1>7 DEF VerdictTrue
      <3>2. CASE i = k
        <4>1. Signatures!Signed(j.commit)
          BY DEF BadgesInv, VerdictsAreTrue
        <4> QED
          BY <3>2, <4>1, <1>3, <1>7 DEF VerdictTrue
      <3> QED
        BY <2>2, <3>1, <3>2, <1>4
    <2> QED
      BY <2>1, <2>2 DEF VerdictsAreTrue
  <1>9. Signatures!PendingIsAwaited'
    <2>1. ASSUME NEW c, Signatures!Awaited(c) PROVE Signatures!Awaited(c)'
      <3>1. CASE bDebounce
        BY <3>1 DEF Signatures!Awaited
      <3>2. ASSUME NEW i \in bJobs, i.path = bPath, i.commit = c PROVE Signatures!Awaited(c)'
        <4>1. i \in bJobs' \/ (i = j /\ k \in bJobs')
          BY <3>2, <1>4
        <4> QED
          BY <3>2, <4>1, <1>3 DEF Signatures!Awaited
      <3> QED
        BY <2>1, <3>1, <3>2 DEF Signatures!Awaited
    <2>2. Signatures!InView(bRows, bTop, bHeight)' = Signatures!InView(bRows, bTop, bHeight)
      BY DEF Signatures!InView, Signatures!Shown
    <2> QED
      BY <2>1, <2>2 DEF BadgesInv, Signatures!PendingIsAwaited
  <1> QED
    BY <1>5, <1>6, <1>8, <1>9 DEF BadgesInv

LEMMA CommitIsListed == ASSUME BadgesInv, NEW j \in bJobs PROVE j.commit \in Listed /\ j \in Signatures!Job
  <1>1. j \in Signatures!Job
    BY BadgeTypes DEF BadgesInv
  <1> QED
    BY <1>1 DEF Signatures!Job

LEMMA VerifyStep == ASSUME BadgesInv, NEW j \in bJobs, Signatures!Verify(j) PROVE BadgesInv'
  <1>1. PICK v : v = Signatures!Verdict(j.commit)
    OBVIOUS
  <1>2. /\ Signatures!Ran(j, v)
        /\ UNCHANGED <<bPath, bRows, bFilter, bTop, bHeight, bDebounce, bCache, bSignature, bKeys, bUnsure, bGrown>>
    BY <1>1 DEF Signatures!Verify, Signatures!list, Signatures!world
  <1>3. PICK c : c = j.commit
    OBVIOUS
  <1>4. c \in Listed /\ bSignature[c] \in Signatures!SignatureIs /\ bKeys \in Signatures!Keys
        /\ bUnsure \subseteq Listed
    BY <1>3, CommitIsListed, WorldFacts, BadgeTypes DEF BadgesInv
  <1>5. /\ v \in Signatures!Verdicts
        /\ bSignature[c] # "gpgExpired" => v = Signatures!Deserved(c)
    BY <1>1, <1>3, <1>4, VerdictFacts
  <1>6. VerdictTrue(c, v)'
    <2>1. Signatures!Deserved(c)' = Signatures!Deserved(c)
      BY <1>2 DEF Signatures!Signed, Signatures!Deserved
    <2> QED
      BY <2>1, <1>2, <1>5 DEF VerdictTrue
  <1> QED
    BY <1>2, <1>3, <1>4, <1>5, <1>6, RanStep

LEMMA VerifyFailsStep == ASSUME BadgesInv, NEW j \in bJobs, Signatures!VerifyFails(j) PROVE BadgesInv'
  <1>1. PICK v \in {"Unsigned", "Invalid"} : Signatures!Ran(j, v)
    BY DEF Signatures!VerifyFails
  <1>2. /\ bUnsure' = bUnsure \cup {j.commit}
        /\ UNCHANGED <<bPath, bRows, bFilter, bTop, bHeight, bDebounce, bCache, bSignature, bKeys, bGrown>>
    BY DEF Signatures!VerifyFails, Signatures!list, Signatures!world
  <1>3. v \in Signatures!Verdicts
    BY <1>1 DEF Signatures!Verdicts
  <1>4. bUnsure' \subseteq Listed /\ bUnsure \subseteq bUnsure'
    BY <1>2, CommitIsListed, BadgeTypes DEF BadgesInv
  <1>5. VerdictTrue(j.commit, v)'
    BY <1>2 DEF VerdictTrue
  <1> QED
    BY <1>1, <1>2, <1>3, <1>4, <1>5, RanStep
-----------------------------------------------------------------------------
\* A verdict arrives: it is kept, and the row of its commit shows it.
LEMMA ResultTypes ==
    ASSUME BadgesInv, NEW j \in bJobs, Signatures!setSignatureVerifyResult(j)
    PROVE  /\ Signatures!TypeOK' /\ bJobs' = bJobs \ {j} /\ j.verdict # Signatures!Pending
           /\ UNCHANGED <<bPath, bFilter, bTop, bHeight, bDebounce, bSignature, bKeys, bUnsure, bGrown>>
           /\ bRows' \in Seq(Signatures!Row) /\ Len(bRows') = Len(bRows)
           /\ j.path # bPath => UNCHANGED <<bRows, bCache>>
           /\ j.path = bPath => /\ bCache' = [bCache EXCEPT ![j.commit] = j.verdict]
                                /\ \A i \in 1..Len(bRows) :
                                      /\ bRows'[i].commit = bRows[i].commit
                                      /\ bRows'[i].hidden = bRows[i].hidden
                                      /\ bRows'[i].badge = IF bRows[i].commit = j.commit
                                                           THEN j.verdict ELSE bRows[i].badge
  <1>1. /\ bJobs' = bJobs \ {j} /\ j.verdict # Signatures!Pending
        /\ UNCHANGED <<bPath, bFilter, bTop, bHeight, bDebounce, bSignature, bKeys, bUnsure, bGrown>>
        /\ j.path # bPath => UNCHANGED <<bRows, bCache>>
        /\ j.path = bPath => /\ bCache' = [bCache EXCEPT ![j.commit] = j.verdict]
                             /\ bRows' = IF Signatures!First(j.commit) = 0 THEN bRows
                                ELSE [bRows EXCEPT ![Signatures!First(j.commit)].badge = j.verdict]
    BY DEF Signatures!setSignatureVerifyResult, Signatures!world
  <1>2. PICK c, v : c = j.commit /\ v = j.verdict
    OBVIOUS
  <1>3. c \in Listed /\ v \in Signatures!Verdicts \cup {Signatures!Pending}
    BY <1>2, CommitIsListed DEF Signatures!Job
  <1>4. Signatures!TypeOK
    BY DEF BadgesInv
  <1>5. PICK rs : rs = bRows
    OBVIOUS
  <1>6. rs \in Seq(Signatures!Row) /\ DOMAIN rs = 1..Len(rs) /\ \A i \in 1..Len(rs) : rs[i] \in Signatures!Row
    BY <1>4, <1>5, BadgeTypes
  <1>7. \A i, k \in 1..Len(rs) : rs[i].commit = rs[k].commit => i = k
    <2>1. PICK l : l = LogOf[bPath]
      OBVIOUS
    <2>2. /\ Len(rs) <= Len(l) /\ \A i \in 1..Len(rs) : rs[i].commit = l[i]
      BY <1>5, <2>1 DEF BadgesInv, RowsAreLogged
    <2>3. l \in Seq(Listed) /\ \A x, y \in DOMAIN l : l[x] = l[y] => x = y
      BY <1>4, <2>1, BadgeTypes, SignaturesFacts
    <2>4. Len(rs) \in Nat /\ Len(l) \in Nat /\ DOMAIN l = 1..Len(l)
      BY <1>6, <2>3
    <2>5. \A i \in 1..Len(rs) : i \in DOMAIN l
      BY <2>2, <2>4
    <2> QED
      BY <2>2, <2>3, <2>5
  <1>8. PICK f : f = Signatures!First(c)
    OBVIOUS
  <1>9. /\ f = 0 => \A i \in 1..Len(rs) : rs[i].commit # c
        /\ f # 0 => f \in 1..Len(rs) /\ rs[f].commit = c
    BY <1>4, <1>5, <1>6, <1>8, BadgeTypes, FirstFacts
  <1>10. PICK q : q = bRows'
    OBVIOUS
  <1>11. j.path = bPath => q = IF f = 0 THEN rs ELSE [rs EXCEPT ![f].badge = v]
    BY <1>1, <1>2, <1>5, <1>8, <1>10
  <1>12. ASSUME j.path = bPath
         PROVE  /\ q \in Seq(Signatures!Row) /\ Len(q) = Len(rs)
                /\ \A i \in 1..Len(rs) :
                      /\ q[i].commit = rs[i].commit /\ q[i].hidden = rs[i].hidden
                      /\ q[i].badge = IF rs[i].commit = c THEN v ELSE rs[i].badge
    <2>1. CASE f = 0
      BY <2>1, <1>6, <1>9, <1>11, <1>12
    <2>2. CASE f # 0
      <3>1. PICK r : r = rs[f]
        OBVIOUS
      <3>2. PICK r2 : r2 = [r EXCEPT !.badge = v]
        OBVIOUS
      <3>3. f \in 1..Len(rs) /\ r \in Signatures!Row /\ r.commit = c
        BY <2>2, <3>1, <1>6, <1>9
      <3>4. r2 \in Signatures!Row /\ r2.commit = r.commit /\ r2.hidden = r.hidden /\ r2.badge = v
        BY <3>2, <3>3, <1>3 DEF Signatures!Row
      <3>5. q = [rs EXCEPT ![f] = r2]
        BY <2>2, <3>1, <3>2, <1>11, <1>12
      <3>6. q \in Seq(Signatures!Row) /\ Len(q) = Len(rs)
        BY <3>3, <3>4, <3>5, <1>6
      <3>7. \A i \in 1..Len(rs) : q[i] = IF i = f THEN r2 ELSE rs[i]
        BY <3>3, <3>5, <1>6
      <3>8. \A i \in 1..Len(rs) : rs[i].commit = c <=> i = f
        BY <3>1, <3>3, <1>7
      <3> QED
        BY <3>1, <3>3, <3>4, <3>6, <3>7, <3>8
    <2> QED
      BY <2>1, <2>2
  <1>13. q \in Seq(Signatures!Row) /\ Len(q) = Len(rs)
    BY <1>1, <1>5, <1>6, <1>10, <1>12
  <1>14. Signatures!TypeOK'
    <2>1. {bDebounce', bGrown'} \subseteq BOOLEAN
      BY <1>1, <1>4, BadgeTypes, Zenon
    <2>2. bCache' \in [Listed -> Signatures!Verdicts \cup {Signatures!Pending}]
      BY <1>1, <1>2, <1>3, <1>4, BadgeTypes
    <2>3. /\ bPath' \in Opened /\ bFilter' \in Filters /\ bUnsure' \subseteq Listed
          /\ bTop' \in 0..Len(bRows') /\ bHeight' \in {1, Tall} /\ bJobs' \subseteq Signatures!Job
      BY <1>1, <1>4, <1>5, <1>10, <1>13, BadgeTypes
    <2>4. <<bSignature, bKeys>>' \in Worlds
      BY <1>1, WorldStays
    <2> QED
      BY <2>1, <2>2, <2>3, <2>4, <1>10, <1>13, BadgeTypesAgain
  <1> QED
    BY <1>1, <1>2, <1>5, <1>10, <1>12, <1>13, <1>14

LEMMA ResultStep ==
    ASSUME BadgesInv, NEW j \in bJobs, Signatures!setSignatureVerifyResult(j) PROVE BadgesInv'
  <1>1. /\ Signatures!TypeOK' /\ bJobs' = bJobs \ {j} /\ j.verdict # Signatures!Pending
        /\ UNCHANGED <<bPath, bFilter, bTop, bHeight, bDebounce, bSignature, bKeys, bUnsure, bGrown>>
        /\ bRows' \in Seq(Signatures!Row) /\ Len(bRows') = Len(bRows)
        /\ j.path # bPath => UNCHANGED <<bRows, bCache>>
        /\ j.path = bPath => /\ bCache' = [bCache EXCEPT ![j.commit] = j.verdict]
                             /\ \A i \in 1..Len(bRows) :
                                   /\ bRows'[i].commit = bRows[i].commit
                                   /\ bRows'[i].hidden = bRows[i].hidden
                                   /\ bRows'[i].badge = IF bRows[i].commit = j.commit
                                                        THEN j.verdict ELSE bRows[i].badge
    BY ResultTypes
  <1>2. PICK c, v : c = j.commit /\ v = j.verdict
    OBVIOUS
  <1>3. c \in Listed /\ VerdictTrue(c, v) /\ Signatures!Signed(c)
    BY <1>2, CommitIsListed DEF BadgesInv, VerdictsAreTrue
  <1>4. bCache \in [Listed -> Signatures!Verdicts \cup {Signatures!Pending}]
        /\ bRows \in Seq(Signatures!Row) /\ \A i \in 1..Len(bRows) : bRows[i].commit \in Listed
    <2>1. bCache \in [Listed -> Signatures!Verdicts \cup {Signatures!Pending}]
          /\ bRows \in Seq(Signatures!Row)
      BY BadgeTypes DEF BadgesInv
    <2>2. \A i \in 1..Len(bRows) : bRows[i] \in Signatures!Row
      BY <2>1
    <2> QED
      BY <2>1, <2>2 DEF Signatures!Row
  <1>5. \A x : (Signatures!Signed(x)' <=> Signatures!Signed(x))
               /\ Signatures!Deserved(x)' = Signatures!Deserved(x)
    BY <1>1 DEF Signatures!Signed, Signatures!Deserved
  <1>6. \A i \in 1..Len(bRows) : bRows'[i].commit = bRows[i].commit /\ bRows'[i].hidden = bRows[i].hidden
    BY <1>1
  <1>7. RowsAreLogged'
    BY <1>1, <1>6 DEF BadgesInv, RowsAreLogged
  <1>8. VerdictsAreTrue'
    <2>1. ASSUME NEW x \in Listed PROVE VerdictTrue(x, bCache[x])'
      <3>1. VerdictTrue(x, bCache[x])
        BY DEF BadgesInv, VerdictsAreTrue
      <3>2. bCache'[x] = bCache[x] \/ (x = c /\ bCache'[x] = v)
        BY <1>1, <1>2, <1>4
      <3> QED
        BY <3>1, <3>2, <1>1, <1>3, <1>5 DEF VerdictTrue
    <2>2. ASSUME NEW i \in bJobs' PROVE VerdictTrue(i.commit, i.verdict)' /\ Signatures!Signed(i.commit)'
      <3>1. VerdictTrue(i.commit, i.verdict) /\ Signatures!Signed(i.commit)
        BY <2>2, <1>1 DEF BadgesInv, VerdictsAreTrue
      <3> QED
        BY <3>1, <1>1, <1>5 DEF VerdictTrue
    <2> QED
      BY <2>1, <2>2 DEF VerdictsAreTrue
  <1>9. RowsShow'
    <2>1. ASSUME NEW i \in 1..Len(bRows)
          PROVE  bRows'[i].badge = IF Signatures!Signed(bRows'[i].commit)
                                   THEN bCache'[bRows'[i].commit] ELSE "Unsigned"
      <3>1. bRows[i].badge = IF Signatures!Signed(bRows[i].commit)
                             THEN bCache[bRows[i].commit] ELSE "Unsigned"
        BY DEF BadgesInv, RowsShow, Shows
      <3>2. bRows'[i].commit = bRows[i].commit /\ bRows[i].commit \in Listed
        BY <1>4, <1>6
      <3>3. CASE j.path # bPath
        BY <3>1, <3>3, <1>1
      <3>4. CASE j.path = bPath /\ bRows[i].commit = c
        <4>1. bRows'[i].badge = v /\ bCache'[c] = v
          BY <3>4, <1>1, <1>2, <1>3, <1>4
        <4> QED
          BY <3>2, <3>4, <4>1, <1>3
      <3>5. CASE j.path = bPath /\ bRows[i].commit # c
        <4>1. bRows'[i].badge = bRows[i].badge /\ bCache'[bRows[i].commit] = bCache[bRows[i].commit]
          BY <3>2, <3>5, <1>1, <1>2, <1>4
        <4> QED
          BY <3>1, <3>2, <4>1
      <3> QED
        BY <3>3, <3>4, <3>5
    <2>2. \A r, kept : Shows(r, kept)' <=> r.badge = IF Signatures!Signed(r.commit)
                                                      THEN kept[r.commit] ELSE "Unsigned"
      BY <1>5 DEF Shows
    <2> QED
      BY <2>1, <1>1, <1>5 DEF RowsShow, Shows
  <1>10. Signatures!PendingIsAwaited'
    <2>1. Signatures!InView(bRows, bTop, bHeight)' = Signatures!InView(bRows, bTop, bHeight)
      <3>1. DOMAIN bRows' = DOMAIN bRows /\ DOMAIN bRows = 1..Len(bRows)
        BY <1>1, <1>4
      <3>2. Signatures!Shown(bRows)' = Signatures!Shown(bRows)
        BY <3>1, <1>6 DEF Signatures!Shown
      <3>3. \A i \in Signatures!Shown(bRows) : bRows'[i].commit = bRows[i].commit
        BY <3>1, <1>6 DEF Signatures!Shown
      <3>4. UNCHANGED <<bTop, bHeight>>
        BY <1>1
      <3>5. PICK T : T = {r \in Signatures!Shown(bRows) :
               Signatures!Cardinality({k \in Signatures!Shown(bRows) : k < r}) \in bTop..(bTop + bHeight - 1)}
        OBVIOUS
      <3>6. Signatures!InView(bRows, bTop, bHeight) = {bRows[i].commit : i \in T}
        BY <3>5 DEF Signatures!InView
      <3>7. Signatures!InView(bRows, bTop, bHeight)' = {bRows'[i].commit : i \in T}
        BY <3>2, <3>4, <3>5 DEF Signatures!InView
      <3>8. T \subseteq Signatures!Shown(bRows)
        BY <3>5
      <3> QED
        BY <3>3, <3>6, <3>7, <3>8
    <2>2. SUFFICES ASSUME ~bGrown, NEW i \in 1..Len(bRows), bRows'[i].badge = Signatures!Pending,
                          bRows'[i].commit \in Signatures!InView(bRows, bTop, bHeight)
                   PROVE  Signatures!Awaited(bRows[i].commit)'
      <3>1. DOMAIN bRows' = 1..Len(bRows)
        BY <1>1
      <3> QED
        BY <2>1, <3>1, <1>1 DEF Signatures!PendingIsAwaited
    <2>3. PICK x : x = bRows[i].commit
      OBVIOUS
    <2>4. bRows'[i].commit = x
      BY <2>3, <1>6
    <2>5. bRows[i].badge = Signatures!Pending /\ (j.path = bPath => x # c)
      BY <2>2, <2>3, <1>1, <1>2
    <2>6. Signatures!Awaited(x)
      <3>1. DOMAIN bRows = 1..Len(bRows)
        BY <1>4
      <3> QED
        BY <2>2, <2>3, <2>4, <2>5, <3>1 DEF BadgesInv, Signatures!PendingIsAwaited
    <2>7. Signatures!Awaited(x)'
      BY <2>5, <2>6, <1>1, <1>2 DEF Signatures!Awaited
    <2> QED
      BY <2>4, <2>7 DEF Signatures!Awaited
  <1> QED
    BY <1>1, <1>7, <1>8, <1>9, <1>10 DEF BadgesInv

LEMMA BadgesInit == Signatures!Init => BadgesInv
  <1> SUFFICES ASSUME Signatures!Init PROVE BadgesInv
    OBVIOUS
  <1>1. /\ bPath \in Opened /\ bRows = <<>> /\ bFilter = Listed /\ bTop = 0 /\ bHeight = Tall
        /\ bDebounce = FALSE /\ bCache = [c \in Listed |-> Signatures!Pending]
        /\ bJobs = {} /\ bUnsure = {} /\ bGrown = FALSE
        /\ \E w \in Worlds : bSignature = w[1] /\ bKeys = w[2]
    BY DEF Signatures!Init
  <1>2. bRows \in Seq(Signatures!Row) /\ Len(bRows) = 0
    BY <1>1
  <1>3. Signatures!TypeOK
    <2>1. <<bSignature, bKeys>> \in Worlds
      BY <1>1, SignaturesFacts
    <2>2. /\ bFilter \in Filters /\ bTop \in 0..Len(bRows) /\ bHeight \in {1, Tall}
          /\ bCache \in [Listed -> Signatures!Verdicts \cup {Signatures!Pending}]
          /\ bJobs \subseteq Signatures!Job /\ bUnsure \subseteq Listed
      BY <1>1, <1>2, SignaturesFacts
    <2>3. bDebounce \in BOOLEAN /\ bGrown \in BOOLEAN
      BY <1>1, Zenon
    <2> QED
      BY <1>1, <1>2, <2>1, <2>2, <2>3, Zenon DEF Signatures!TypeOK
  <1>4. RowsAreLogged
    <2>1. Len(LogOf[bPath]) \in Nat
      BY <1>1, SignaturesFacts
    <2> QED
      BY <2>1, <1>2 DEF RowsAreLogged
  <1>5. VerdictsAreTrue /\ RowsShow
    BY <1>1, <1>2 DEF VerdictsAreTrue, VerdictTrue, RowsShow
  <1>6. Signatures!PendingIsAwaited
    BY <1>1 DEF Signatures!PendingIsAwaited
  <1> QED
    BY <1>3, <1>4, <1>5, <1>6 DEF BadgesInv

LEMMA BadgesNext == BadgesInv /\ Signatures!Next => BadgesInv'
  <1> SUFFICES ASSUME BadgesInv, Signatures!Next PROVE BadgesInv'
    OBVIOUS
  <1>1. ASSUME NEW f \in Opened, Signatures!setFolder(f) PROVE BadgesInv'
    BY <1>1, SetFolderStep
  <1>2. ASSUME NEW S \in Filters, Signatures!onHistoryFilterChanged(S) PROVE BadgesInv'
    BY <1>2, FilterStep
  <1>3. CASE Signatures!setHistory
    BY <1>3, SetHistoryStep
  <1>4. CASE Signatures!appendHistory
    BY <1>4, AppendHistoryStep
  <1>5. CASE Signatures!onHistoryScrolled
    BY <1>5, ScrollStep
  <1>6. CASE Signatures!Resize
    BY <1>6, ResizeStep
  <1>7. CASE Signatures!Pause
    BY <1>7, PauseStep
  <1>8. ASSUME NEW j \in bJobs,
               \/ Signatures!Verify(j) \/ Signatures!VerifyFails(j)
               \/ Signatures!setSignatureVerifyResult(j)
        PROVE  BadgesInv'
    BY <1>8, VerifyStep, VerifyFailsStep, ResultStep
  <1> QED
    BY <1>1, <1>2, <1>3, <1>4, <1>5, <1>6, <1>7, <1>8 DEF Signatures!Next

LEMMA BadgesStill == BadgesInv /\ UNCHANGED badgesVars => BadgesInv'
  <1> SUFFICES ASSUME BadgesInv, UNCHANGED badgesVars PROVE BadgesInv'
    OBVIOUS
  <1>1. /\ UNCHANGED <<bPath, bRows, bFilter, bTop, bHeight, bDebounce, bCache, bJobs, bSignature,
                       bKeys, bUnsure, bGrown>>
    BY DEF badgesVars
  <1>2. Signatures!TypeOK
    BY DEF BadgesInv
  <1>3. {bDebounce', bGrown'} \subseteq BOOLEAN
    BY <1>1, <1>2, BadgeTypes, Zenon
  <1>4. /\ bRows' \in Seq(Signatures!Row) /\ bFilter' \in Filters /\ bHeight' \in {1, Tall}
        /\ bTop' \in 0..Len(bRows')
    BY <1>1, <1>2, BadgeTypes
  <1>5. Signatures!PendingIsAwaited'
    <2>1. Signatures!InView(bRows, bTop, bHeight)' = Signatures!InView(bRows, bTop, bHeight)
      BY <1>1 DEF Signatures!InView, Signatures!Shown
    <2>2. \A c : Signatures!Awaited(c)' <=> Signatures!Awaited(c)
      BY <1>1 DEF Signatures!Awaited
    <2> QED
      BY <2>1, <2>2, <1>1 DEF BadgesInv, Signatures!PendingIsAwaited
  <1> QED
    BY <1>1, <1>3, <1>4, <1>5, MovedStep

-----------------------------------------------------------------------------
(***************************************************************************)
(* Workspace.  What holds once nothing is in flight rests on a promise     *)
(* kept while something is: whoever made the controls busy is a job whose  *)
(* result releases them (ReleaseComes), and the newest state of the        *)
(* folder shown is on screen, or on its way there, or will be asked for    *)
(* when a result arrives (ReadingComes).                                   *)
(***************************************************************************)
(***************************************************************************)
(* Theorems about Workspace, for every set of folders and operations and   *)
(* every bound.  Both say what holds once nothing is in flight, and both   *)
(* rest on a promise kept while something is: whoever made the controls    *)
(* busy is a job whose result releases them (ReleaseComes), and the newest *)
(* state of the folder shown is on screen, or on its way there, or will be *)
(* asked for when a result arrives (ReadingComes).                         *)
(***************************************************************************)

\* A stage works or fails, and no more is said of it.
AnyJob ==
    {j \in [kind : AllOps \cup {"state", "infos"}, path : Paths, result : Result, ver : Nat] :
        j.kind = "stage" => j.result \in {"waiting", "ok", "failed"}}

Typed ==
    /\ disk \in [Paths -> Nat] /\ seen \in Nat
    /\ active \in Paths \cup {None} /\ shown \in {None, active}
    /\ view \in [path : Paths, ver : Nat] \cup {None}
    /\ busy \in BOOLEAN /\ bar \in BOOLEAN /\ excused \in BOOLEAN
    /\ IsBag(jobs) /\ InFlight \subseteq AnyJob

\* Nothing read is newer than the folder it was read in.
NothingFromTheFuture ==
    /\ \A j \in InFlight : j.ver <= disk[j.path]
    /\ active # None => seen <= disk[active]

\* Whatever is said to be running is released by the result of a job in flight.
Releases(j, kinds) == j.path = active /\ j.kind \notin kinds

ReleaseComes ==
    /\ busy /\ ~excused =>
          shown # None /\ \E j \in InFlight : Releases(j, {"infos", "reset"})
    /\ bar /\ ~excused =>
          shown # None /\ \E j \in InFlight : Releases(j, {"infos"})

\* A job that brings the newest state of the folder, or whose result asks for it.
BringsNewest(j) ==
    /\ j.path = shown
    /\ \/ j.kind = "state" /\ (j.result = "waiting" \/ j.ver = disk[shown])
       \/ j.kind \in AllOps /\ j.result = "ok"

ReadingComes ==
    shown # None =>
        /\ view = None => \E j \in InFlight : j.kind = "state" /\ j.path = shown
        /\ shown \notin hidden =>
              seen = disk[shown] \/ \E j \in InFlight : BringsNewest(j)

IInv == Typed /\ NothingFromTheFuture /\ ReleaseComes /\ ReadingComes

USE NoneAssumption, OpsAssumption, BoundAssumption
-----------------------------------------------------------------------------
(***************************************************************************)
(* Bags of jobs.                                                           *)
(***************************************************************************)
LEMMA AddFacts ==
    ASSUME NEW b, IsBag(b), NEW c, IsBag(c)
    PROVE  IsBag(b (+) c) /\ BagToSet(b (+) c) = BagToSet(b) \cup BagToSet(c)
  <1>1. DOMAIN (b (+) c) = DOMAIN b \cup DOMAIN c
    BY DEF (+)
  <1>2. \A e \in DOMAIN b \cup DOMAIN c :
           (b (+) c)[e] = (IF e \in DOMAIN b THEN b[e] ELSE 0)
                          + (IF e \in DOMAIN c THEN c[e] ELSE 0)
    BY DEF (+)
  <1> QED
    BY <1>1, <1>2 DEF IsBag, BagToSet

LEMMA TakeFacts ==
    ASSUME NEW b, IsBag(b), NEW j
    PROVE  /\ IsBag(b (-) SetToBag({j}))
           /\ BagToSet(b (-) SetToBag({j})) \subseteq BagToSet(b)
           /\ BagToSet(b) \ {j} \subseteq BagToSet(b (-) SetToBag({j}))
  <1> DEFINE c == SetToBag({j})
  <1> DEFINE d == [e \in DOMAIN b |-> IF e \in DOMAIN c THEN b[e] - c[e] ELSE b[e]]
  <1>1. DOMAIN c = {j} /\ c[j] = 1
    BY DEF SetToBag
  <1>2. DOMAIN d = DOMAIN b
    OBVIOUS
  <1>3. \A e \in DOMAIN b : d[e] = IF e = j THEN b[e] - 1 ELSE b[e]
    BY <1>1
  <1>4. b (-) c = [e \in {x \in DOMAIN d : d[x] > 0} |-> d[e]]
    BY DEF (-)
  <1> HIDE DEF c, d
  <1>5. DOMAIN (b (-) c) = {x \in DOMAIN b : d[x] > 0}
    BY <1>2, <1>4
  <1>6. \A e \in DOMAIN (b (-) c) : (b (-) c)[e] = d[e]
    BY <1>4, <1>5, <1>2
  <1>7. \A e \in DOMAIN b : d[e] \in Nat /\ (e # j => d[e] > 0)
    BY <1>3 DEF IsBag
  <1>8. IsBag(b (-) c)
    BY <1>5, <1>6, <1>7 DEF IsBag
  <1> QED
    BY <1>5, <1>7, <1>8 DEF BagToSet, c

LEMMA OneFacts == ASSUME NEW j PROVE IsBag(SetToBag({j})) /\ BagToSet(SetToBag({j})) = {j}
  BY DEF IsBag, SetToBag, BagToSet

\* What results may ask for: nothing, a reading, or a reading with the branches.
LEMMA MoreFacts ==
    /\ IsBag(EmptyBag) /\ BagToSet(EmptyBag) = {}
    /\ \A k, p : IsBag(Submit(k, p)) /\ BagToSet(Submit(k, p)) = {Waiting(k, p)}
    /\ \A p : /\ IsBag(Refresh(p))
              /\ BagToSet(Refresh(p)) = {Waiting("state", p), Waiting("infos", p)}
  <1>1. IsBag(EmptyBag) /\ BagToSet(EmptyBag) = {}
    BY DEF EmptyBag, SetToBag, IsBag, BagToSet
  <1>2. \A k, p : IsBag(Submit(k, p)) /\ BagToSet(Submit(k, p)) = {Waiting(k, p)}
    BY OneFacts DEF Submit
  <1>3. ASSUME NEW p
        PROVE  /\ IsBag(Refresh(p))
               /\ BagToSet(Refresh(p)) = {Waiting("state", p), Waiting("infos", p)}
    <2>1. /\ IsBag(Submit("state", p)) /\ IsBag(Submit("infos", p))
          /\ BagToSet(Submit("state", p)) = {Waiting("state", p)}
          /\ BagToSet(Submit("infos", p)) = {Waiting("infos", p)}
      BY <1>2
    <2> QED
      BY <2>1, AddFacts DEF Refresh
  <1> QED
    BY <1>1, <1>2, <1>3

LEMMA WaitingFacts ==
    ASSUME NEW k, NEW p \in Paths
    PROVE  /\ Waiting(k, p).kind = k /\ Waiting(k, p).path = p
           /\ Waiting(k, p).result = "waiting" /\ Waiting(k, p).ver = 0
           /\ k \in AllOps \cup {"state", "infos"} => Waiting(k, p) \in AnyJob
  BY DEF Waiting, AnyJob, Result
-----------------------------------------------------------------------------
(***************************************************************************)
(* The user: jobs are only added.                                          *)
(***************************************************************************)
Adds(S) == IsBag(jobs') /\ InFlight' = InFlight \cup S

LEMMA RefreshAdds ==
    ASSUME IsBag(jobs), NEW p, jobs' = jobs (+) Refresh(p)
    PROVE  Adds({Waiting("state", p), Waiting("infos", p)})
  <1>1. IsBag(Refresh(p)) /\ BagToSet(Refresh(p)) = {Waiting("state", p), Waiting("infos", p)}
    BY MoreFacts
  <1> QED
    BY <1>1, AddFacts DEF Adds, InFlight

LEMMA OpenStep == ASSUME IInv, NEW p \in Paths, OpenFolder(p) PROVE IInv'
  <1> USE DEF IInv, Typed
  <1>1. Adds({Waiting("state", p), Waiting("infos", p)})
    BY RefreshAdds DEF OpenFolder
  <1>2. /\ shown' = p /\ active' = p /\ view' = None /\ seen' = 0 /\ p # None
        /\ UNCHANGED <<disk, busy, bar, hidden, excused>>
    BY DEF OpenFolder, ghosts
  <1>3. Waiting("state", p) \in InFlight'
    BY <1>1 DEF Adds
  <1>4. Typed'
    BY <1>1, <1>2, WaitingFacts DEF Adds
  <1>5. NothingFromTheFuture'
    BY <1>1, <1>2, WaitingFacts DEF Adds, NothingFromTheFuture
  <1>6. ReleaseComes' /\ ReadingComes'
    BY <1>2, <1>3, WaitingFacts DEF ReleaseComes, Releases, ReadingComes, BringsNewest
  <1> QED
    BY <1>4, <1>5, <1>6

LEMMA RemoveStep == ASSUME IInv, RemoveFolder PROVE IInv'
  <1>1. InFlight' = InFlight
    BY DEF RemoveFolder, InFlight
  <1> QED
    BY <1>1 DEF RemoveFolder, IInv, Typed, NothingFromTheFuture, ReleaseComes, ReadingComes

\* More jobs of the right type change no promise.
LEMMA MoreJobs ==
    ASSUME IInv, NEW S, Adds(S), S \subseteq AnyJob, \A j \in S : j.ver = 0,
           UNCHANGED <<disk, shown, active, view, seen, hidden, excused>>
    PROVE  /\ NothingFromTheFuture' /\ ReadingComes'
           /\ IsBag(jobs') /\ InFlight' \subseteq AnyJob /\ InFlight \subseteq InFlight'
  <1> USE DEF IInv, Typed
  <1>1. IsBag(jobs') /\ InFlight' \subseteq AnyJob /\ InFlight \subseteq InFlight'
    BY DEF Adds
  <1>2. NothingFromTheFuture'
    BY DEF Adds, NothingFromTheFuture, AnyJob
  <1>3. ReadingComes'
    BY <1>1 DEF ReadingComes, BringsNewest
  <1> QED
    BY <1>1, <1>2, <1>3

LEMMA RefreshStep == ASSUME IInv, RefreshRequested PROVE IInv'
  <1> USE DEF IInv, Typed
  <1>1. active \in Paths /\ UNCHANGED <<disk, shown, active, view, seen, hidden, excused, busy, bar>>
    BY DEF RefreshRequested, screen, ghosts
  <1>2. PICK p \in Paths : p = active /\ jobs' = jobs (+) Refresh(p)
    BY <1>1 DEF RefreshRequested, Refresh, Submit, Waiting
  <1>3. Adds({Waiting("state", p), Waiting("infos", p)})
    BY <1>2, RefreshAdds
  <1>4. /\ NothingFromTheFuture' /\ ReadingComes' /\ IsBag(jobs')
        /\ InFlight' \subseteq AnyJob /\ InFlight \subseteq InFlight'
    BY <1>1, <1>3, WaitingFacts, MoreJobs
  <1>5. ReleaseComes'
    BY <1>1, <1>4 DEF ReleaseComes, Releases
  <1> QED
    BY <1>1, <1>4, <1>5

LEMMA RequestStep == ASSUME IInv, NEW k \in Ops, Request(k) PROVE IInv'
  <1> USE DEF IInv, Typed
  <1>1. /\ shown \in Paths /\ shown = active
        /\ UNCHANGED <<disk, shown, active, view, seen, hidden, excused>>
    BY DEF Request, screen, ghosts
  <1>2. PICK p \in Paths : p = shown /\ jobs' = jobs (+) Submit(k, p)
    BY <1>1 DEF Request, Submit, Waiting
  <1>3. Adds({Waiting(k, p)})
    BY <1>2, MoreFacts, AddFacts DEF Adds, InFlight
  <1>4. k \in AllOps /\ k \notin {"state", "infos"}
    BY DEF AllOps
  <1>5. /\ NothingFromTheFuture' /\ ReadingComes' /\ IsBag(jobs')
        /\ InFlight' \subseteq AnyJob /\ InFlight \subseteq InFlight'
    BY <1>1, <1>3, <1>4, WaitingFacts, MoreJobs
  <1>6. busy' \in BOOLEAN /\ bar' \in BOOLEAN
    BY DEF Request
  <1>7. ReleaseComes'
    <2>1. Waiting(k, p) \in InFlight' /\ Releases(Waiting(k, p), {"infos"})'
      BY <1>1, <1>2, <1>3, <1>4, WaitingFacts DEF Adds, Releases
    <2>2. k # "reset" => Releases(Waiting(k, p), {"infos", "reset"})'
      BY <2>1, WaitingFacts DEF Releases
    <2>3. k = "reset" => busy' = busy
      BY DEF Request, SetsBusy
    <2> QED
      BY <1>1, <1>5, <2>1, <2>2, <2>3 DEF ReleaseComes, Releases
  <1> QED
    BY <1>1, <1>5, <1>6, <1>7
-----------------------------------------------------------------------------
(***************************************************************************)
(* The worker: one job is replaced by the same job with a result.          *)
(***************************************************************************)
RanAs(j, result, ver) == [kind |-> j.kind, path |-> j.path, result |-> result, ver |-> ver]

LEMMA RanFacts ==
    ASSUME IInv, NEW j \in InFlight, NEW result \in Result, NEW ver \in Nat,
           j.kind = "stage" => result \in {"ok", "failed"},
           jobs' = (jobs (-) SetToBag({j})) (+) SetToBag({RanAs(j, result, ver)})
    PROVE  /\ IsBag(jobs') /\ InFlight' \subseteq AnyJob
           /\ InFlight \ {j} \subseteq InFlight' /\ RanAs(j, result, ver) \in InFlight'
           /\ InFlight' \subseteq InFlight \cup {RanAs(j, result, ver)}
  <1>1. RanAs(j, result, ver) \in AnyJob
    BY DEF RanAs, IInv, Typed, AnyJob
  <1>2. /\ IsBag(jobs (-) SetToBag({j}))
        /\ BagToSet(jobs (-) SetToBag({j})) \subseteq InFlight
        /\ InFlight \ {j} \subseteq BagToSet(jobs (-) SetToBag({j}))
    BY TakeFacts DEF IInv, Typed, InFlight
  <1>3. IsBag(jobs')
        /\ InFlight' = BagToSet(jobs (-) SetToBag({j})) \cup {RanAs(j, result, ver)}
    BY <1>2, OneFacts, AddFacts DEF InFlight
  <1> QED
    BY <1>1, <1>2, <1>3 DEF IInv, Typed

\* A job that was waiting released what its result will release.
LEMMA RanReleases ==
    ASSUME IInv, NEW j \in InFlight, NEW k \in InFlight', InFlight \ {j} \subseteq InFlight',
           k.kind = j.kind, k.path = j.path, UNCHANGED <<shown, active, busy, bar, excused>>
    PROVE  ReleaseComes'
  BY DEF IInv, ReleaseComes, Releases

LEMMA PoolStep == ASSUME IInv, Pool PROVE IInv'
  <1> USE DEF IInv, Typed
  <1> PICK j \in InFlight : RunRead(j) \/ RunOp(j) \/ RunHalf(j) \/ RunUnmerged(j)
    BY DEF Pool
  <1>1. j \in AnyJob /\ j.path \in Paths /\ j.result = "waiting" /\ disk[j.path] \in Nat
        /\ UNCHANGED <<shown, active, view, seen, busy, bar, excused>>
    BY DEF AnyJob, RunRead, RunOp, RunHalf, RunUnmerged, screen, ghosts
  <1>2. CASE RunRead(j)
    <2>1. PICK ver \in Nat : ver = disk[j.path]
                             /\ jobs' = (jobs (-) SetToBag({j})) (+) SetToBag({RanAs(j, "ok", ver)})
      BY <1>1, <1>2 DEF RunRead, Ran, RanAs
    <2> DEFINE k == RanAs(j, "ok", ver)
    <2>2. k.kind = "state" /\ k.path = j.path /\ k.result = "ok" /\ k.ver = ver
      BY <1>2 DEF RanAs, RunRead
    <2>3. /\ IsBag(jobs') /\ InFlight' \subseteq AnyJob /\ k \in InFlight'
          /\ InFlight \ {j} \subseteq InFlight' /\ InFlight' \subseteq InFlight \cup {k}
      BY <2>1, RanFacts DEF Result
    <2>4. UNCHANGED disk /\ hidden' = hidden \ {j.path} /\ j.kind = "state"
      BY <1>2 DEF RunRead
    <2> HIDE DEF k
    <2>5. NothingFromTheFuture'
      BY <1>1, <2>1, <2>2, <2>3, <2>4 DEF NothingFromTheFuture
    <2>6. ReadingComes'
      BY <1>1, <2>1, <2>2, <2>3, <2>4 DEF ReadingComes, BringsNewest
    <2> QED
      BY <1>1, <2>2, <2>3, <2>4, <2>5, <2>6, RanReleases
  <1>3. CASE RunOp(j) \/ RunHalf(j) \/ RunUnmerged(j)
    <2>1. PICK result \in Result :
              /\ j.kind = "stage" => result \in {"ok", "failed"}
              /\ jobs' = (jobs (-) SetToBag({j})) (+) SetToBag({RanAs(j, result, 0)})
              /\ \/ UNCHANGED <<disk, hidden>>
                 \/ /\ Changes(j.path)
                    /\ \/ result = "ok" /\ UNCHANGED hidden
                       \/ hidden' = hidden \cup {j.path}
      BY <1>3 DEF RunOp, RunHalf, RunUnmerged, Ran, RanAs, Result, ghosts
    <2> DEFINE k == RanAs(j, result, 0)
    <2>2. k.kind = j.kind /\ k.path = j.path /\ k.result = result /\ k.ver = 0
      BY DEF RanAs
    <2>3. /\ IsBag(jobs') /\ InFlight' \subseteq AnyJob /\ k \in InFlight'
          /\ InFlight \ {j} \subseteq InFlight' /\ InFlight' \subseteq InFlight \cup {k}
      BY <2>1, RanFacts
    <2> HIDE DEF k
    <2>4. disk' \in [Paths -> Nat]
          /\ \A p \in Paths : disk[p] <= disk'[p] /\ (p # j.path => disk'[p] = disk[p])
      BY <1>1, <2>1 DEF Changes
    <2>5. j.kind \in AllOps /\ j.kind # "state"
      BY <1>3 DEF RunOp, RunHalf, RunUnmerged, AllOps
    <2>6. NothingFromTheFuture'
      <3>1. \A i \in InFlight : i.path \in Paths /\ i.ver \in Nat
        BY DEF AnyJob
      <3>2. \A i \in InFlight' : i.ver <= disk'[i.path]
        <4>1. ASSUME NEW i \in InFlight' PROVE i.ver <= disk'[i.path]
          <5>1. CASE i \in InFlight
            BY <2>4, <3>1, <5>1 DEF NothingFromTheFuture
          <5>2. CASE i = k
            BY <1>1, <2>2, <2>4, <5>2
          <5> QED
            BY <2>3, <5>1, <5>2
        <4> QED
          BY <4>1
      <3>3. active # None => seen <= disk'[active]
        BY <2>4 DEF NothingFromTheFuture
      <3> QED
        BY <1>1, <3>2, <3>3 DEF NothingFromTheFuture
    <2>7. ReadingComes'
      <3> SUFFICES ASSUME shown # None PROVE ReadingComes'
        BY <1>1 DEF ReadingComes
      <3>1. view = None => \E i \in InFlight' : i.kind = "state" /\ i.path = shown
        BY <2>3, <2>5 DEF ReadingComes
      <3>2. ASSUME j.path # shown \/ UNCHANGED disk, shown \notin hidden
            PROVE  seen = disk'[shown] \/ \E i \in InFlight' : BringsNewest(i)'
        <4>1. disk'[shown] = disk[shown]
          BY <2>4, <3>2
        <4>2. ASSUME NEW i \in InFlight, BringsNewest(i) PROVE i \in InFlight' /\ BringsNewest(i)'
          BY <1>1, <2>3, <2>5, <4>1, <4>2 DEF BringsNewest
        <4> QED
          BY <3>2, <4>1, <4>2 DEF ReadingComes
      <3>3. ASSUME j.path = shown, result = "ok" PROVE BringsNewest(k)'
        BY <1>1, <2>2, <2>5, <3>3 DEF BringsNewest
      <3> QED
        BY <1>1, <2>1, <2>3, <3>1, <3>2, <3>3 DEF ReadingComes
    <2> QED
      BY <1>1, <2>2, <2>3, <2>4, <2>6, <2>7, RanReleases
  <1> QED
    BY <1>2, <1>3
-----------------------------------------------------------------------------
(***************************************************************************)
(* Results.  All but that of a reading keep what is shown; each asks for   *)
(* a reading of its own folder, or is of another folder, or has changed    *)
(* nothing and releases whatever is said to be running.                    *)
(***************************************************************************)
Replies(j) == {Waiting("state", j.path), Waiting("infos", j.path)}

Reads(j, more) == Waiting("state", j.path) \in BagToSet(more)

Settles(j, more) ==
    /\ j.kind # "state"
    /\ jobs' = (jobs (-) SetToBag({j})) (+) more
    /\ IsBag(more) /\ BagToSet(more) \subseteq Replies(j)
    /\ UNCHANGED <<disk, shown, active, view, seen, hidden>>
    /\ excused' \in BOOLEAN /\ busy' \in BOOLEAN /\ bar' \in BOOLEAN
    /\ excused => excused'
    /\ busy' => busy
    /\ bar' => bar
    /\ j.path = shown /\ ~Reads(j, more) =>
          /\ ~(j.kind \in AllOps /\ j.result = "ok")
          /\ busy' /\ ~excused' => j.kind \in {"infos", "reset"}
          /\ bar' /\ ~excused' => j.kind = "infos"

LEMMA Delivered ==
    ASSUME IInv, NEW j \in InFlight, NEW more, IsBag(more),
           jobs' = (jobs (-) SetToBag({j})) (+) more
    PROVE  /\ IsBag(jobs') /\ InFlight \ {j} \subseteq InFlight'
           /\ BagToSet(more) \subseteq InFlight'
           /\ InFlight' \subseteq InFlight \cup BagToSet(more)
  <1>1. /\ IsBag(jobs (-) SetToBag({j}))
        /\ BagToSet(jobs (-) SetToBag({j})) \subseteq InFlight
        /\ InFlight \ {j} \subseteq BagToSet(jobs (-) SetToBag({j}))
    BY TakeFacts DEF IInv, Typed, InFlight
  <1>2. IsBag(jobs')
        /\ InFlight' = BagToSet(jobs (-) SetToBag({j})) \cup BagToSet(more)
    BY <1>1, AddFacts DEF InFlight
  <1> QED
    BY <1>1, <1>2

LEMMA SettlesKeeps ==
    ASSUME IInv, NEW j \in InFlight, NEW more, Settles(j, more)
    PROVE  IInv'
  <1> USE DEF IInv, Typed
  <1>1. j \in AnyJob /\ j.path \in Paths
    BY DEF AnyJob
  <1>2. /\ IsBag(jobs') /\ InFlight \ {j} \subseteq InFlight'
        /\ BagToSet(more) \subseteq InFlight'
        /\ InFlight' \subseteq InFlight \cup BagToSet(more)
    BY Delivered DEF Settles
  <1>3. \A k \in Replies(j) :
           /\ k.path = j.path /\ k.result = "waiting" /\ k.ver = 0 /\ k \in AnyJob
    BY <1>1, WaitingFacts DEF Replies
  <1>4. BagToSet(more) \subseteq Replies(j)
        /\ UNCHANGED <<disk, shown, active, view, seen, hidden>>
    BY DEF Settles
  <1>5. Typed'
    BY <1>2, <1>3, <1>4 DEF Settles
  <1>6. NothingFromTheFuture'
    <2>1. ASSUME NEW k \in InFlight' PROVE k.ver <= disk[k.path]
      <3>1. CASE k \in InFlight
        BY <3>1 DEF NothingFromTheFuture
      <3>2. CASE k \in Replies(j)
        BY <1>1, <1>3, <3>2
      <3> QED
        BY <1>2, <1>4, <3>1, <3>2
    <2> QED
      BY <1>4, <2>1 DEF NothingFromTheFuture
  <1> DEFINE read == Waiting("state", j.path)
  <1>7. read.kind = "state" /\ read.path = j.path /\ read.result = "waiting"
    BY <1>1, WaitingFacts
  <1>8. Reads(j, more) => read \in InFlight'
    BY <1>2 DEF Reads
  <1> HIDE DEF read
  <1>9. ReleaseComes'
    <2>1. ASSUME busy', ~excused'
          PROVE  shown # None /\ \E i \in InFlight' : Releases(i, {"infos", "reset"})'
      <3>1. PICK i \in InFlight : shown # None /\ Releases(i, {"infos", "reset"})
        BY <2>1 DEF Settles, ReleaseComes
      <3>2. CASE i # j
        BY <1>2, <1>4, <3>1, <3>2 DEF Releases
      <3>3. CASE i = j
        <4>1. Reads(j, more)
          BY <2>1, <3>1, <3>3 DEF Settles, Releases
        <4> QED
          BY <1>4, <1>7, <1>8, <3>1, <3>3, <4>1 DEF Releases
      <3> QED
        BY <3>2, <3>3
    <2>2. ASSUME bar', ~excused'
          PROVE  shown # None /\ \E i \in InFlight' : Releases(i, {"infos"})'
      <3>1. PICK i \in InFlight : shown # None /\ Releases(i, {"infos"})
        BY <2>2 DEF Settles, ReleaseComes
      <3>2. CASE i # j
        BY <1>2, <1>4, <3>1, <3>2 DEF Releases
      <3>3. CASE i = j
        <4>1. Reads(j, more)
          BY <2>2, <3>1, <3>3 DEF Settles, Releases
        <4> QED
          BY <1>4, <1>7, <1>8, <3>1, <3>3, <4>1 DEF Releases
      <3> QED
        BY <3>2, <3>3
    <2> QED
      BY <1>4, <2>1, <2>2 DEF ReleaseComes
  <1>10. ReadingComes'
    <2>1. ASSUME NEW i \in InFlight, i.kind = "state" PROVE i \in InFlight'
      BY <1>2, <2>1 DEF Settles
    <2>2. ASSUME NEW i \in InFlight, BringsNewest(i)
          PROVE  \E k \in InFlight' : BringsNewest(k)'
      <3>1. CASE i # j
        BY <1>2, <1>4, <2>2, <3>1 DEF BringsNewest
      <3>2. CASE i = j
        <4>1. Reads(j, more)
          BY <2>2, <3>2 DEF Settles, BringsNewest
        <4> QED
          BY <1>4, <1>7, <1>8, <2>2, <3>2, <4>1 DEF BringsNewest
      <3> QED
        BY <3>1, <3>2
    <2> QED
      BY <1>4, <2>1, <2>2 DEF ReadingComes
  <1> QED
    BY <1>5, <1>6, <1>9, <1>10

\* What a result may ask for.
LEMMA AskFacts ==
    ASSUME NEW j
    PROVE  /\ IsBag(EmptyBag) /\ BagToSet(EmptyBag) \subseteq Replies(j)
           /\ LET more == Submit("state", j.path)
              IN  IsBag(more) /\ BagToSet(more) \subseteq Replies(j) /\ Reads(j, more)
           /\ LET more == Refresh(j.path)
              IN  IsBag(more) /\ BagToSet(more) \subseteq Replies(j) /\ Reads(j, more)
  BY MoreFacts DEF Replies, Reads

\* Those that compare the folder with activePath_.
LEMMA ControllerSettles ==
    ASSUME IInv, NEW j \in InFlight,
           \/ StageFinished(j) \/ CommitFinished(j) \/ BranchFinished(j)
           \/ BranchDeleted(j) \/ BranchInfosReady(j)
    PROVE  \E more : Settles(j, more)
  <1> USE DEF IInv, Typed
  <1>1. j.path \in Paths /\ j.kind # "state"
        /\ UNCHANGED <<disk, shown, active, view, seen, hidden>>
    BY DEF AnyJob, StageFinished, CommitFinished, BranchFinished, BranchDeleted,
           BranchInfosReady, screen, ghosts
  <1>2. j.path = shown => j.path = active
    BY <1>1
  <1>3. CASE StageFinished(j)
    <2>1. j.result \in {"ok", "failed"} /\ UNCHANGED <<busy, bar>>
          /\ excused' = (excused \/ (j.path = active /\ j.result = "failed"))
      BY <1>3 DEF StageFinished, Drop, Deliver, StillBusy, AnyJob
    <2>2. CASE j.path = active /\ j.result = "ok"
      <3>1. Settles(j, Submit("state", j.path))
        BY <1>1, <1>3, <2>1, <2>2, AskFacts DEF StageFinished, Deliver, IfOk, Settles
      <3> QED
        BY <3>1
    <2>3. CASE j.path # active \/ j.result # "ok"
      <3>1. jobs' = (jobs (-) SetToBag({j})) (+) EmptyBag
        BY <1>3, <2>3 DEF StageFinished, Drop, Deliver, IfOk
      <3>2. Settles(j, EmptyBag)
        BY <1>1, <1>2, <2>1, <2>3, <3>1, AskFacts DEF Settles
      <3> QED
        BY <3>2
    <2> QED
      BY <2>2, <2>3
  <1>4. CASE CommitFinished(j) \/ BranchFinished(j) \/ BranchDeleted(j)
    <2>1. CASE j.path = active
      BY <1>1, <1>4, <2>1, AskFacts
      DEF CommitFinished, BranchFinished, BranchDeleted, Deliver, Idle, IfOk, Settles, ghosts
    <2>2. CASE j.path # active
      BY <1>1, <1>2, <1>4, <2>2, AskFacts
      DEF CommitFinished, BranchFinished, BranchDeleted, Drop, Deliver, StillBusy, Settles, ghosts
    <2> QED
      BY <2>1, <2>2
  <1>5. CASE BranchInfosReady(j)
    BY <1>1, <1>5, AskFacts DEF BranchInfosReady, Deliver, Settles, ghosts, AllOps
  <1> QED
    BY <1>3, <1>4, <1>5

\* Those that compare the folder with activeLocalPath_, or with nothing.
LEMMA WindowSettles ==
    ASSUME IInv, NEW j \in InFlight,
           \/ BranchSwitched(j) \/ RemoteOpFinished(j) \/ PushFinished(j)
           \/ FetchFinished(j) \/ StashOpFinished(j) \/ SoftResetFinished(j)
    PROVE  \E more : Settles(j, more)
  <1> USE DEF IInv, Typed
  <1>1. j.path \in Paths /\ j.kind # "state"
        /\ UNCHANGED <<disk, shown, active, view, seen, hidden, excused>>
    BY DEF AnyJob, BranchSwitched, RemoteOpFinished, PushFinished, FetchFinished,
           StashOpFinished, SoftResetFinished, screen, ghosts
  <1>2. /\ j.path = shown => j.path = active
        /\ excused' \in BOOLEAN /\ (excused => excused')
    BY <1>1
  <1>3. CASE BranchSwitched(j)
    <2>1. PICK a, b : /\ a \in {EmptyBag, Refresh(j.path)} /\ b \in {EmptyBag, Refresh(j.path)}
                      /\ j.path = shown => b = Refresh(j.path)
                      /\ jobs' = (jobs (-) SetToBag({j})) (+) (a (+) b)
      BY <1>3 DEF BranchSwitched, Deliver, IfOk
    <2>2. /\ IsBag(a) /\ BagToSet(a) \subseteq Replies(j)
          /\ IsBag(b) /\ BagToSet(b) \subseteq Replies(j)
          /\ j.path = shown => Reads(j, b)
      BY <2>1, AskFacts
    <2>3. IsBag(a (+) b) /\ BagToSet(a (+) b) = BagToSet(a) \cup BagToSet(b)
      BY <2>2, AddFacts
    <2> QED
      BY <1>1, <1>3, <2>1, <2>2, <2>3 DEF Settles, Reads, BranchSwitched, Idle
  <1>4. CASE RemoteOpFinished(j) \/ PushFinished(j) \/ StashOpFinished(j)
    <2>1. busy' \in BOOLEAN /\ bar' \in BOOLEAN /\ (busy' => busy) /\ (bar' => bar)
      BY <1>4 DEF RemoteOpFinished, PushFinished, StashOpFinished, Drop, Idle, StillBusy
    <2>2. CASE j.path = shown
      <3>1. jobs' = (jobs (-) SetToBag({j})) (+) Submit("state", j.path)
        BY <1>4, <2>2 DEF RemoteOpFinished, PushFinished, StashOpFinished, Deliver
      <3>2. Settles(j, Submit("state", j.path))
        BY <1>1, <1>2, <2>1, <2>2, <3>1, AskFacts DEF Settles
      <3> QED
        BY <3>2
    <2>3. CASE j.path # shown
      <3>1. jobs' = (jobs (-) SetToBag({j})) (+) EmptyBag
        BY <1>4, <2>3 DEF RemoteOpFinished, PushFinished, StashOpFinished, Drop, Deliver
      <3>2. Settles(j, EmptyBag)
        BY <1>1, <1>2, <2>1, <2>3, <3>1, AskFacts DEF Settles
      <3> QED
        BY <3>2
    <2> QED
      BY <2>2, <2>3
  <1>5. CASE FetchFinished(j) \/ SoftResetFinished(j)
    <2>1. CASE j.path = shown
      <3>1. jobs' = (jobs (-) SetToBag({j})) (+) IfOk(j, Refresh(j.path))
        BY <1>2, <1>5, <2>1
        DEF FetchFinished, SoftResetFinished, Deliver, Refresh, Submit, Waiting, IfOk
      <3>2. /\ busy' \in BOOLEAN /\ bar' \in BOOLEAN /\ (busy' => busy) /\ (bar' => bar)
            /\ busy' => j.kind = "reset"
            /\ bar' => FALSE
        BY <1>5, <2>1 DEF FetchFinished, SoftResetFinished, Idle
      <3>3. CASE j.result = "ok"
        <4>1. Settles(j, Refresh(j.path))
          BY <1>1, <1>2, <3>1, <3>2, <3>3, AskFacts DEF IfOk, Settles
        <4> QED
          BY <4>1
      <3>4. CASE j.result # "ok"
        <4>1. Settles(j, EmptyBag)
          BY <1>1, <1>2, <3>1, <3>2, <3>4, AskFacts DEF IfOk, Settles
        <4> QED
          BY <4>1
      <3> QED
        BY <3>3, <3>4
    <2>2. CASE j.path # shown
      <3>1. /\ jobs' = (jobs (-) SetToBag({j})) (+) EmptyBag
            /\ busy' \in BOOLEAN /\ bar' \in BOOLEAN /\ (busy' => busy) /\ (bar' => bar)
        BY <1>5, <2>2 DEF FetchFinished, SoftResetFinished, Drop, Deliver, StillBusy
      <3>2. Settles(j, EmptyBag)
        BY <1>1, <1>2, <2>2, <3>1, AskFacts DEF Settles
      <3> QED
        BY <3>2
    <2> QED
      BY <2>1, <2>2
  <1> QED
    BY <1>3, <1>4, <1>5

\* A reading, which is the only result that changes what is shown.
LEMMA ReadingStep == ASSUME IInv, NEW j \in InFlight, LocalStateReady(j) PROVE IInv'
  <1> USE DEF IInv, Typed
  <1>1. /\ j \in AnyJob /\ j.path \in Paths /\ j.ver \in Nat
        /\ j.kind = "state" /\ j.result # "waiting"
        /\ UNCHANGED <<disk, shown, active, hidden>>
    BY DEF AnyJob, LocalStateReady, Deliver
  <1>2. jobs' = (jobs (-) SetToBag({j})) (+) EmptyBag
    BY DEF LocalStateReady, Deliver
  <1>3. IsBag(jobs') /\ InFlight \ {j} \subseteq InFlight' /\ InFlight' \subseteq InFlight
    BY <1>2, MoreFacts, Delivered
  <1>4. \A i \in InFlight : i.path # j.path => i \in InFlight'
    BY <1>3
  <1>5. CASE j.path = active
    <2>1. ~busy' /\ ~bar' /\ busy' \in BOOLEAN /\ bar' \in BOOLEAN /\ excused' \in BOOLEAN
      BY <1>5 DEF LocalStateReady, Idle
    <2>2. j.ver <= disk[active] /\ seen <= disk[active] /\ disk[active] \in Nat
      BY <1>1, <1>5 DEF NothingFromTheFuture
    <2>3. CASE j.path = shown
      <3>1. /\ view' = [path |-> j.path, ver |-> j.ver]
            /\ seen' = IF j.ver > seen THEN j.ver ELSE seen
        BY <1>5, <2>3 DEF LocalStateReady
      <3>2. view' \in [path : Paths, ver : Nat] /\ view' # None /\ seen' \in Nat
        BY <1>1, <3>1
      <3>3. NothingFromTheFuture'
        BY <1>1, <1>3, <2>2, <3>1 DEF NothingFromTheFuture
      <3>4. ASSUME seen = disk[shown] PROVE seen' = disk[shown]
        BY <1>1, <1>5, <2>2, <2>3, <3>1, <3>4
      <3>5. ASSUME NEW i \in InFlight, BringsNewest(i)
            PROVE  seen' = disk[shown] \/ \E k \in InFlight' : BringsNewest(k)'
        <4>1. CASE i = j
          <5>1. j.ver = disk[shown]
            BY <1>1, <3>5, <4>1 DEF BringsNewest, AllOps
          <5> QED
            BY <1>1, <1>5, <2>2, <2>3, <3>1, <5>1
        <4>2. CASE i # j
          BY <1>1, <1>3, <3>5, <4>2 DEF BringsNewest
        <4> QED
          BY <4>1, <4>2
      <3>6. ReadingComes'
        BY <1>1, <3>2, <3>4, <3>5 DEF ReadingComes
      <3> QED
        BY <1>1, <1>3, <2>1, <3>2, <3>3, <3>6 DEF ReleaseComes
    <2>4. CASE j.path # shown
      <3>1. UNCHANGED <<view, seen>> /\ shown = None
        BY <1>5, <2>4 DEF LocalStateReady
      <3> QED
        BY <1>1, <1>3, <2>1, <3>1 DEF ReleaseComes, ReadingComes, NothingFromTheFuture
    <2> QED
      BY <2>3, <2>4
  <1>6. CASE j.path # active
    <2>1. UNCHANGED <<view, seen, busy, bar, excused>>
      BY <1>6 DEF LocalStateReady, StillBusy
    <2>2. j.path # shown
      BY <1>1, <1>6
    <2>3. NothingFromTheFuture'
      BY <1>1, <1>3, <2>1 DEF NothingFromTheFuture
    <2>4. ReleaseComes'
      BY <1>1, <1>4, <1>6, <2>1 DEF ReleaseComes, Releases
    <2>5. ReadingComes'
      BY <1>1, <1>4, <2>1, <2>2 DEF ReadingComes, BringsNewest
    <2> QED
      BY <1>1, <1>3, <2>1, <2>3, <2>4, <2>5
  <1> QED
    BY <1>5, <1>6
-----------------------------------------------------------------------------
LEMMA InitInv == Init => IInv
  <1> SUFFICES ASSUME Init PROVE IInv
    OBVIOUS
  <1>1. IsBag(jobs) /\ InFlight = {}
    BY MoreFacts DEF Init, InFlight
  <1> QED
    BY <1>1 DEF Init, IInv, Typed, NothingFromTheFuture, ReleaseComes, ReadingComes

LEMMA NextInv == IInv /\ [Next]_vars => IInv'
  <1> SUFFICES ASSUME IInv, [Next]_vars PROVE IInv'
    OBVIOUS
  <1>1. CASE User
    BY <1>1, OpenStep, RemoveStep, RefreshStep, RequestStep DEF User
  <1>2. CASE Pool
    BY <1>2, PoolStep
  <1>3. CASE Results
    <2> PICK j \in InFlight :
            \/ LocalStateReady(j) \/ BranchInfosReady(j)
            \/ StageFinished(j) \/ CommitFinished(j) \/ BranchFinished(j)
            \/ BranchDeleted(j) \/ BranchSwitched(j) \/ RemoteOpFinished(j)
            \/ PushFinished(j) \/ FetchFinished(j) \/ StashOpFinished(j)
            \/ SoftResetFinished(j)
      BY <1>3 DEF Results
    <2>1. CASE LocalStateReady(j)
      BY <2>1, ReadingStep
    <2>2. CASE ~LocalStateReady(j)
      <3>1. \E more : Settles(j, more)
        BY <2>2, ControllerSettles, WindowSettles
      <3> QED
        BY <3>1, SettlesKeeps
    <2> QED
      BY <2>1, <2>2
  <1>4. CASE UNCHANGED vars
    BY <1>4 DEF vars, screen, ghosts, IInv, Typed, NothingFromTheFuture, ReleaseComes,
                ReadingComes, InFlight, Releases, BringsNewest
  <1> QED
    BY <1>1, <1>2, <1>3, <1>4 DEF Next

LEMMA Inductive == Spec => []IInv
  BY InitInv, NextInv, PTL DEF Spec

\* Once nothing is in flight, nothing is said to be running: each of the ways
\* an operation can end enables the controls and hides the progress bar.
THEOREM ControlsAreReleased == Spec => []QuietIsIdle
  <1>1. IInv => QuietIsIdle
    BY DEF IInv, Typed, ReleaseComes, QuietIsIdle, Quiet
  <1> QED
    BY <1>1, Inductive, PTL

\* Once nothing is in flight, all that was done in the folder shown is shown:
\* whoever is told of a change reads it back.
THEOREM EveryChangeIsReadBack == Spec => []ChangesAreShown
  <1>1. IInv => ChangesAreShown
    BY DEF IInv, Typed, ReadingComes, ChangesAreShown, Quiet
  <1> QED
    BY <1>1, Inductive, PTL

LEMMA ViewInit == Init => ViewOfShown
  BY DEF Init, ViewOfShown

LEMMA ViewNext == ASSUME IInv, ViewOfShown, [Next]_vars PROVE ViewOfShown'
  <1>1. CASE UNCHANGED <<view, active, seen>>
    BY <1>1 DEF ViewOfShown
  <1>2. ASSUME NEW p \in Paths, OpenFolder(p) PROVE ViewOfShown'
    BY <1>2 DEF OpenFolder, ViewOfShown
  <1>3. ASSUME NEW j \in InFlight, LocalStateReady(j) PROVE ViewOfShown'
    <2>1. j.ver \in Nat /\ seen \in Nat /\ UNCHANGED active
      BY <1>3 DEF IInv, Typed, AnyJob, LocalStateReady
    <2>2. CASE j.path = active /\ j.path = shown
      BY <1>3, <2>1, <2>2 DEF LocalStateReady, ViewOfShown
    <2>3. CASE ~(j.path = active /\ j.path = shown)
      BY <1>3, <2>1, <2>3 DEF LocalStateReady, ViewOfShown
    <2> QED
      BY <2>2, <2>3
  <1>4. ASSUME NEW j \in InFlight, \E more : Settles(j, more) PROVE UNCHANGED <<view, active, seen>>
    BY <1>4 DEF Settles
  <1>5. CASE Results
    <2> PICK j \in InFlight :
            \/ LocalStateReady(j) \/ BranchInfosReady(j)
            \/ StageFinished(j) \/ CommitFinished(j) \/ BranchFinished(j)
            \/ BranchDeleted(j) \/ BranchSwitched(j) \/ RemoteOpFinished(j)
            \/ PushFinished(j) \/ FetchFinished(j) \/ StashOpFinished(j)
            \/ SoftResetFinished(j)
      BY <1>5 DEF Results
    <2>1. LocalStateReady(j) \/ \E more : Settles(j, more)
      BY ControllerSettles, WindowSettles
    <2> QED
      BY <1>1, <1>3, <1>4, <2>1
  <1>6. CASE User \/ Pool \/ UNCHANGED vars
    BY <1>1, <1>2, <1>6 DEF User, RemoveFolder, RefreshRequested, Request, Pool, RunRead,
       RunOp, RunHalf, RunUnmerged, vars, screen
  <1> QED
    BY <1>5, <1>6 DEF Next

\* What is shown of a folder was read in it, however late results arrive.
THEOREM ViewIsOfShown == Spec => []ViewOfShown
  <1>1. IInv /\ ViewOfShown /\ [Next]_vars => ViewOfShown'
    BY ViewNext
  <1> QED
    BY <1>1, ViewInit, Inductive, PTL DEF Spec

\* The menu is of a folder, and so are the changes not read.
NamesFolders == menu \in Paths \cup {None} /\ hidden \subseteq Paths

LEMMA FoldersInit == Init => NamesFolders
  BY DEF Init, NamesFolders

LEMMA FoldersNext == ASSUME IInv, NamesFolders, [Next]_vars PROVE NamesFolders'
  <1>1. ASSUME NEW j \in InFlight PROVE j.path \in Paths
    BY DEF IInv, Typed, AnyJob
  <1>2. CASE User \/ UNCHANGED vars
    BY <1>2 DEF User, RemoveFolder, RefreshRequested, OpenFolder, Request, vars, screen, ghosts,
       NamesFolders
  <1>3. CASE Pool
    <2>1. PICK j \in InFlight : RunRead(j) \/ RunOp(j) \/ RunHalf(j) \/ RunUnmerged(j)
      BY <1>3 DEF Pool
    <2>2. UNCHANGED menu /\ hidden' \subseteq hidden \cup {j.path}
      BY <2>1 DEF RunRead, RunOp, RunHalf, RunUnmerged, screen, ghosts
    <2> QED
      BY <2>2, <1>1 DEF NamesFolders
  <1>4. CASE Results
    <2> PICK j \in InFlight :
            \/ LocalStateReady(j) \/ BranchInfosReady(j)
            \/ StageFinished(j) \/ CommitFinished(j) \/ BranchFinished(j)
            \/ BranchDeleted(j) \/ BranchSwitched(j) \/ RemoteOpFinished(j)
            \/ PushFinished(j) \/ FetchFinished(j) \/ StashOpFinished(j)
            \/ SoftResetFinished(j)
      BY <1>4 DEF Results
    <2>1. UNCHANGED hidden /\ menu' \in {menu, j.path}
      BY DEF LocalStateReady, BranchInfosReady, StageFinished, CommitFinished, BranchFinished,
         BranchDeleted, BranchSwitched, RemoteOpFinished, PushFinished, FetchFinished,
         StashOpFinished, SoftResetFinished, screen, ghosts
    <2> QED
      BY <2>1, <1>1 DEF NamesFolders
  <1> QED
    BY <1>2, <1>3, <1>4 DEF Next

-----------------------------------------------------------------------------
(***************************************************************************)
(* All of them.                                                            *)
(***************************************************************************)
WorkInv == IInv /\ ViewOfShown /\ NamesFolders

LocalInv == WorkInv /\ PagesInv /\ BadgesInv

LEMMA WorkNext == WorkInv /\ [Next]_vars => WorkInv'
  BY NextInv, ViewNext, FoldersNext DEF WorkInv

LEMMA LocalFirst == LocalInit => LocalInv
  BY InitInv, ViewInit, FoldersInit, PagesInit, BadgesInit DEF LocalInit, LocalInv, WorkInv

LEMMA LocalStep == LocalInv /\ [LocalNext]_<<moving, vars, historyVars, badgesVars>> => LocalInv'
  <1> SUFFICES ASSUME LocalInv, [LocalNext]_<<moving, vars, historyVars, badgesVars>>
               PROVE  LocalInv'
    OBVIOUS
  <1>1. /\ UNCHANGED vars => WorkInv'
        /\ UNCHANGED historyVars => PagesInv'
        /\ UNCHANGED badgesVars => BadgesInv'
    BY WorkNext, PagesStill, BadgesStill DEF LocalInv
  <1>2. CASE Next /\ UNCHANGED <<historyVars, badgesVars>>
    BY <1>1, <1>2, WorkNext DEF LocalInv
  <1>3. CASE Pages!Next /\ UNCHANGED <<vars, badgesVars>>
    BY <1>1, <1>3, PagesNext DEF LocalInv
  <1>4. CASE Signatures!Next /\ UNCHANGED <<vars, historyVars>>
    BY <1>1, <1>4, BadgesNext DEF LocalInv
  <1>5. CASE UNCHANGED <<moving, vars, historyVars, badgesVars>>
    BY <1>1, <1>5 DEF LocalInv
  <1> QED
    BY <1>2, <1>3, <1>4, <1>5 DEF LocalNext

LEMMA LocalInvariance == LocalSpec => []LocalInv
  BY LocalFirst, LocalStep, PTL DEF LocalSpec

\* Every variable of the panel of a local folder stays in its range.
THEOREM LocalTypes == LocalSpec => []AllTypesOK
  <1>1. IInv /\ NamesFolders => TypeOK
    <2> SUFFICES ASSUME IInv, NamesFolders PROVE TypeOK
      OBVIOUS
    <2>1. InFlight \subseteq Job
      BY DEF IInv, Typed, AnyJob, Job
    <2>2. /\ disk \in [Paths -> Nat] /\ shown \in {None, active} /\ active \in Paths \cup {None}
          /\ view \in View \cup {None} /\ seen \in Nat
      BY DEF IInv, Typed, View
    <2>3. busy \in BOOLEAN /\ bar \in BOOLEAN /\ excused \in BOOLEAN
      BY Zenon DEF IInv, Typed
    <2>4. menu \in Paths \cup {None} /\ hidden \subseteq Paths
      BY DEF NamesFolders
    <2> QED
      BY <2>1, <2>2, <2>3, <2>4, Zenon DEF TypeOK
  <1>2. LocalInv => AllTypesOK
    BY <1>1, Zenon DEF LocalInv, WorkInv, PagesInv, PagesTyped, BadgesInv, AllTypesOK
  <1> QED
    BY <1>2, LocalInvariance, PTL

\* The state and the commits shown are those of the folder on screen, however
\* late those of another arrive (activePath_, activeLocalPath_).
THEOREM LocalShown == LocalSpec => []ShownIsOfFolder
  <1>1. LocalInv => ShownIsOfFolder
    BY DEF LocalInv, WorkInv, PagesInv, ShownIsOfFolder
  <1> QED
    BY <1>1, LocalInvariance, PTL

\* Behind a last row that was clicked a page is on its way, behind a badge
\* pending in the viewport a verification, and a last row that offers more is
\* heard: however many pages there are, and however loads, refreshes, folders,
\* scrolling, filters and answers overtake one another.
THEOREM LocalAwaited == LocalSpec => []RowsAreAwaited
  <1>1. LocalInv => RowsAreAwaited
    BY DEF LocalInv, PagesInv, BadgesInv, RowsAreAwaited
  <1> QED
    BY <1>1, LocalInvariance, PTL

\* Pages follow one another without a gap or a repetition to the end of the
\* history, for every history that is a line and every size of a page, and each
\* badge is what the signature and the key deserve, in every world.
THEOREM LocalRows == LocalSpec => []RowsAreTrue
  <1>1. LocalInv => RowsAreTrue
    BY BadgesAreTrue DEF LocalInv, PagesInv, RowsAreTrue
  <1> QED
    BY <1>1, LocalInvariance, PTL

\* In the panel as a whole too: once nothing is in flight, nothing is said to be
\* running (QuietIsIdle) and every change is on screen (ChangesAreShown).
THEOREM LocalQuiet == LocalSpec => [](QuietIsIdle /\ ChangesAreShown)
  <1>1. IInv => QuietIsIdle /\ ChangesAreShown
    BY DEF IInv, Typed, ReleaseComes, ReadingComes, QuietIsIdle, ChangesAreShown, Quiet
  <1>2. LocalInv => QuietIsIdle /\ ChangesAreShown
    BY <1>1 DEF LocalInv, WorkInv
  <1> QED
    BY <1>2, LocalInvariance, PTL
=============================================================================
