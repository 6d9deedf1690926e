--------------------------- MODULE PublishProofs ---------------------------
(***************************************************************************)
(* Theorems about PublishDialog, for folder names of every length, and     *)
(* about Publish, for every set of folders and repositories and every      *)
(* bound.                                                                  *)
(*                                                                         *)
(* The dialog: what the loop of suggestRepoName has read after each        *)
(* character (Scanned), by the least number of characters for which it     *)
(* would be wrong; and DialogInv, the invariant that makes what the dialog *)
(* returns usable.  The flow: IInv is the inductive invariant, the types,  *)
(* the agreement of the controller with its timer and with the calls of    *)
(* start(), and the fact that the widget shows a state only of a folder    *)
(* that is open.                                                           *)
(***************************************************************************)
EXTENDS MCPublish, Sequences, FiniteSetTheorems, WellFoundedInduction, TLAPS
-----------------------------------------------------------------------------

(***************************************************************************)
(* The dialog.                                                             *)
(***************************************************************************)
\* A set of numbers that has one has a least one.
LEMMA LeastOf == ASSUME NEW T, T \subseteq Nat, T # {} PROVE \E x \in T : \A y \in T : x <= y
  <1> DEFINE R == OpToRel(<, Nat)
  <1>1. IsWellFoundedOn(R, Nat)
    BY NatLessThanWellFounded
  <1>2. R = {ss \in Nat \X Nat : ss[1] < ss[2]}
    BY DEF OpToRel
  <1> HIDE DEF R
  <1>3. \A x \in Nat, y \in Nat : y < x => <<y, x>> \in R
    BY <1>2
  <1>4. PICK x \in T : \A y \in T : ~(<<y, x>> \in R)
    BY <1>1, WFMin
  <1>5. ASSUME NEW y \in T PROVE x <= y
    <2>1. x \in Nat /\ y \in Nat /\ ~(y < x)
      BY <1>3, <1>4
    <2> QED
      BY <2>1
  <1> QED
    BY <1>5

\* A set of numbers with 0, and with n + 1 whenever it has n < m, has all up to m.
LEMMA UpTo ==
    ASSUME NEW m \in Nat, NEW G, 0 \in G, \A n \in Nat : n < m /\ n \in G => n + 1 \in G
    PROVE  \A n \in 0..m : n \in G
  <1> DEFINE Bad == {n \in 0..m : n \notin G}
  <1> SUFFICES ASSUME Bad # {} PROVE FALSE
    OBVIOUS
  <1>1. PICK x \in Bad : \A y \in Bad : x <= y
    <2>1. Bad \subseteq Nat
      OBVIOUS
    <2> HIDE DEF Bad
    <2> QED
      BY <2>1, LeastOf
  <1>2. x \in Nat /\ x <= m /\ x # 0 /\ x \notin G
    BY <1>1
  <1>3. x - 1 \in Nat /\ x - 1 < m /\ x - 1 \in 0..m /\ ~(x <= x - 1) /\ (x - 1) + 1 = x
    BY <1>2
  <1>4. x - 1 \in G
    BY <1>1, <1>3
  <1> QED
    BY <1>2, <1>3, <1>4

\* How many of K there are up to i.
Count(K, i) == Cardinality(K \cap (1..i))

\* One number more to count.
LEMMA CountStep ==
    ASSUME NEW K, NEW i \in Nat
    PROVE  /\ Count(K, i) \in Nat /\ Count(K, 0) = 0
           /\ Count(K, i + 1) = IF i + 1 \in K THEN Count(K, i) + 1 ELSE Count(K, i)
  <1>1. 1..0 = {} /\ 1..(i + 1) = (1..i) \cup {i + 1} /\ i + 1 \notin 1..i
    OBVIOUS
  <1>2. Count(K, 0) = 0
    BY <1>1, FS_EmptySet DEF Count
  <1> DEFINE A == K \cap (1..i)
  <1>3. IsFiniteSet(A) /\ Cardinality(A) \in Nat
    <2>1. i \in Int /\ 1 \in Int
      OBVIOUS
    <2>2. IsFiniteSet(1..i)
      BY <2>1, FS_Interval
    <2>3. A \in SUBSET (1..i)
      OBVIOUS
    <2> QED
      BY <2>2, <2>3, FS_Subset, FS_CardinalityType
  <1>4. CASE i + 1 \in K
    <2>1. K \cap (1..(i + 1)) = A \cup {i + 1} /\ i + 1 \notin A
      BY <1>1, <1>4
    <2> HIDE DEF A
    <2>2. Cardinality(A \cup {i + 1}) = Cardinality(A) + 1
      BY <1>3, <2>1, FS_AddElement
    <2> QED
      BY <1>2, <1>3, <1>4, <2>1, <2>2 DEF Count, A
  <1>5. CASE i + 1 \notin K
    <2>1. K \cap (1..(i + 1)) = A
      BY <1>1, <1>5
    <2> QED
      BY <1>2, <1>3, <1>5, <2>1 DEF Count
  <1> QED
    BY <1>4, <1>5

\* A count does not fall, and grows by one at a time.
LEMMA CountGrows ==
    ASSUME NEW K, NEW m \in Nat, NEW j \in 0..m
    PROVE  /\ Count(K, j) \in Nat /\ Count(K, m) \in Nat /\ Count(K, j) <= Count(K, m)
           /\ Count(K, m) - Count(K, j) <= m - j
  <1> DEFINE G == {n \in Nat : j <= n => /\ Count(K, j) <= Count(K, n)
                                         /\ Count(K, n) - Count(K, j) <= n - j}
  <1>0. j \in Nat /\ j <= m /\ \A n \in Nat : Count(K, n) \in Nat
    BY CountStep
  <1>1. 0 \in G
    BY <1>0
  <1>2. ASSUME NEW n \in Nat, n \in G PROVE n + 1 \in G
    <2>1. Count(K, n + 1) = Count(K, n) + 1 \/ Count(K, n + 1) = Count(K, n)
      BY CountStep
    <2>2. Count(K, n) \in Nat /\ Count(K, j) \in Nat
      BY <1>0
    <2>3. CASE j = n + 1
      BY <2>2, <2>3, <1>0
    <2>4. CASE j <= n
      BY <1>2, <2>1, <2>2, <2>4, <1>0
    <2>5. CASE ~(j <= n + 1)
      BY <2>5
    <2> QED
      BY <1>0, <2>3, <2>4, <2>5
  <1> HIDE DEF G
  <1>3. m \in G
    <2>1. \A n \in 0..m : n \in G
      BY <1>1, <1>2, UpTo
    <2> QED
      BY <2>1
  <1> QED
    BY <1>0, <1>3 DEF G

\* A member counts itself.
LEMMA CountOwn ==
    ASSUME NEW K, NEW m \in Nat, NEW j \in 1..m, j \in K
    PROVE  /\ Count(K, j) \in 1..Count(K, m) /\ Count(K, j) = Count(K, j - 1) + 1
           /\ \A i \in 0..m : i < j => Count(K, i) < Count(K, j)
  <1>1. j - 1 \in Nat /\ j \in Nat /\ j \in 0..m /\ (j - 1) + 1 = j
    OBVIOUS
  <1>2. Count(K, j) = Count(K, j - 1) + 1 /\ Count(K, j - 1) \in Nat
    BY <1>1, CountStep
  <1>3. Count(K, j) <= Count(K, m) /\ Count(K, m) \in Nat
    BY <1>1, CountGrows
  <1>4. ASSUME NEW i \in 0..m, i < j PROVE Count(K, i) < Count(K, j)
    <2>1. i \in 0..(j - 1)
      BY <1>4
    <2>2. Count(K, i) <= Count(K, j - 1) /\ Count(K, i) \in Nat
      BY <1>1, <2>1, CountGrows
    <2> QED
      BY <1>2, <2>2
  <1> QED
    BY <1>2, <1>3, <1>4

\* Whatever is counted is some member's count.
LEMMA CountOnto ==
    ASSUME NEW K, NEW m \in Nat, NEW k \in 1..Count(K, m)
    PROVE  \E j \in 1..m : j \in K /\ Count(K, j) = k
  <1> DEFINE G == {n \in Nat : \A c \in 1..Count(K, n) : \E j \in 1..n : j \in K /\ Count(K, j) = c}
  <1>1. 0 \in G
    BY CountStep
  <1>2. ASSUME NEW n \in Nat, n \in G PROVE n + 1 \in G
    <2>1. ASSUME NEW c \in 1..Count(K, n + 1)
          PROVE  \E j \in 1..(n + 1) : j \in K /\ Count(K, j) = c
      <3>1. Count(K, n) \in Nat
        BY CountStep
      <3>2. CASE c \in 1..Count(K, n)
        BY <1>2, <3>2
      <3>3. CASE c \notin 1..Count(K, n)
        <4>1. n + 1 \in K /\ Count(K, n + 1) = Count(K, n) + 1 /\ c = Count(K, n + 1)
          BY <2>1, <3>1, <3>3, CountStep
        <4> QED
          BY <4>1
      <3> QED
        BY <3>2, <3>3
    <2> QED
      BY <2>1
  <1> HIDE DEF G
  <1>3. m \in G
    <2>1. \A n \in 0..m : n \in G
      BY <1>1, <1>2, UpTo
    <2> QED
      BY <2>1
  <1> QED
    BY <1>3 DEF G

\* What the loop makes of a character it does not drop, and which it does not.
Put(s, i) == IF s[i] = " " THEN "-" ELSE s[i]
Stay(s) == {i \in 1..Len(s) : s[i] # " " \/ (i > 1 /\ s[i - 1] \notin {" ", "-"})}

ScanStep(g, s, i) ==
    IF i = 0 THEN [out |-> <<>>, hyphen |-> FALSE] ELSE Inputs!Add(g[i - 1], s[i])

\* The loop is defined by what it does with one character more.
LEMMA ScanIs ==
    ASSUME NEW S, NEW s \in Seq(S)
    PROVE  /\ Inputs!Scan(s)[0] = [out |-> <<>>, hyphen |-> FALSE]
           /\ \A i \in 1..Len(s) : Inputs!Scan(s)[i] = Inputs!Add(Inputs!Scan(s)[i - 1], s[i])
  <1> DEFINE n == Len(s)
             Scans(g, m) == g = [i \in 0..m |-> ScanStep(g, s, i)]
             G == {m \in Nat : \E g : Scans(g, m)}
  <1>0. n \in Nat
    OBVIOUS
  <1>1. 0 \in G
    <2> DEFINE g == [i \in 0..0 |-> [out |-> <<>>, hyphen |-> FALSE]]
    <2>1. \A i \in 0..0 : ScanStep(g, s, i) = [out |-> <<>>, hyphen |-> FALSE]
      BY DEF ScanStep
    <2>2. Scans(g, 0)
      BY <2>1
    <2> QED
      BY <2>2
  <1>2. ASSUME NEW m \in Nat, m \in G PROVE m + 1 \in G
    <2>1. PICK g : Scans(g, m)
      BY <1>2
    <2> DEFINE h == [i \in 0..(m + 1) |-> IF i = m + 1 THEN Inputs!Add(g[m], s[m + 1]) ELSE g[i]]
    <2>2. ASSUME NEW i \in 0..(m + 1) PROVE h[i] = ScanStep(h, s, i)
      <3>1. CASE i = m + 1
        <4>1. i # 0 /\ i - 1 = m /\ m \in 0..(m + 1) /\ m # m + 1
          BY <3>1
        <4>2. h[m] = g[m]
          BY <4>1
        <4> HIDE DEF h
        <4>3. ScanStep(h, s, i) = Inputs!Add(g[m], s[m + 1])
          BY <3>1, <4>1, <4>2 DEF ScanStep
        <4> QED
          BY <3>1, <4>3 DEF h
      <3>2. CASE i # m + 1
        <4>1. i \in 0..m
          BY <3>2
        <4>2. h[i] = g[i] /\ g[i] = ScanStep(g, s, i)
          BY <2>1, <3>2, <4>1
        <4>3. i # 0 => i - 1 \in 0..(m + 1) /\ i - 1 # m + 1
          BY <4>1
        <4>4. i # 0 => h[i - 1] = g[i - 1]
          BY <4>3
        <4> HIDE DEF h
        <4> QED
          BY <4>2, <4>4 DEF ScanStep
      <3> QED
        BY <3>1, <3>2
    <2>3. Scans(h, m + 1)
      <3>1. h = [i \in 0..(m + 1) |-> h[i]]
        OBVIOUS
      <3> HIDE DEF h
      <3> QED
        BY <2>2, <3>1
    <2> HIDE DEF h, Scans
    <2> QED
      BY <2>3
  <1>3. \E g : Scans(g, n)
    <2> HIDE DEF G, Scans
    <2>1. \A m \in 0..n : m \in G
      BY <1>0, <1>1, <1>2, UpTo
    <2>2. n \in G
      BY <1>0, <2>1
    <2> QED
      BY <2>2 DEF G
  <1>4. Inputs!Scan(s) = CHOOSE g : Scans(g, n)
    BY DEF Inputs!Scan, ScanStep
  <1>5. Scans(Inputs!Scan(s), n)
    <2> HIDE DEF Scans
    <2> QED
      BY <1>3, <1>4
  <1>6. \A i \in 0..n : Inputs!Scan(s)[i] = ScanStep(Inputs!Scan(s), s, i)
    BY <1>5
  <1>7. 0 \in 0..n /\ \A i \in 1..n : i \in 0..n /\ i # 0
    BY <1>0
  <1> QED
    BY <1>6, <1>7 DEF ScanStep

\* What the loop has after i characters.
Scanned(s, i, acc) ==
    /\ acc.out \in Seq(((Inputs!Kinds \cup {"LETTER"}) \ {" "}))
    /\ acc.hyphen = IF i > 0 /\ s[i] \in {" ", "-"} THEN TRUE ELSE FALSE
    /\ Len(acc.out) = Count(Stay(s), i)
    /\ \A j \in Stay(s) : j <= i => acc.out[Count(Stay(s), j)] = Put(s, j)

\* The places that stay are places.
LEMMA StayIs ==
    ASSUME NEW S, NEW s \in Seq(S)
    PROVE  /\ \A j \in Stay(s) : j \in 1..Len(s) /\ j \in Nat /\ j > 0 /\ ~(j <= 0)
           /\ \A j \in 1..Len(s) :
                 (j > 1 /\ s[j - 1] \notin {" ", "-"}) \/ s[j] # " " => j \in Stay(s)
  <1>1. PICK n \in Nat : n = Len(s)
    OBVIOUS
  <1>2. Stay(s) = {i \in 1..n : s[i] # " " \/ (i > 1 /\ s[i - 1] \notin {" ", "-"})}
    BY <1>1 DEF Stay
  <1>3. \A j \in 1..n : j \in Nat /\ j > 0 /\ ~(j <= 0)
    OBVIOUS
  <1>4. ASSUME NEW j \in Stay(s) PROVE j \in 1..n
    BY <1>2
  <1>5. ASSUME NEW j \in 1..n, (j > 1 /\ s[j - 1] \notin {" ", "-"}) \/ s[j] # " "
        PROVE  j \in Stay(s)
    BY <1>2, <1>5
  <1> QED
    BY <1>1, <1>3, <1>4, <1>5

\* What the loop does with a character, said case by case.
LEMMA AddIs ==
    ASSUME NEW acc, NEW c
    PROVE  /\ c # " " => Inputs!Add(acc, c).out = Append(acc.out, c)
           /\ c = " " /\ (acc.hyphen = TRUE \/ acc.out = <<>>) =>
                 Inputs!Add(acc, c).out = acc.out
           /\ c = " " /\ acc.hyphen = FALSE /\ acc.out # <<>> =>
                 Inputs!Add(acc, c).out = Append(acc.out, "-")
           /\ Inputs!Add(acc, c).hyphen = IF c \in {" ", "-"} THEN TRUE ELSE FALSE
  <1>1. CASE c # " "
    <2>1. Inputs!Add(acc, c).hyphen = (c = "-") /\ Inputs!Add(acc, c).out = Append(acc.out, c)
      BY <1>1 DEF Inputs!Add
    <2>2. c \in {" ", "-"} <=> c = "-"
      BY <1>1
    <2> QED
      BY <1>1, <2>1, <2>2
  <1>2. CASE c = " "
    <2>1. /\ Inputs!Add(acc, c).hyphen = TRUE
          /\ Inputs!Add(acc, c).out = IF acc.hyphen \/ acc.out = <<>> THEN acc.out
                                      ELSE Append(acc.out, "-")
      BY <1>2 DEF Inputs!Add
    <2>2. c \in {" ", "-"}
      BY <1>2
    <2> QED
      BY <1>2, <2>1, <2>2
  <1> QED
    BY <1>1, <1>2

\* The next character keeps the account of the loop true.
LEMMA ScanGoesOn ==
    ASSUME NEW s \in Seq(Inputs!Kinds \cup {"LETTER"}), NEW i \in 1..Len(s), NEW acc,
           Scanned(s, i - 1, acc)
    PROVE  Scanned(s, i, Inputs!Add(acc, s[i]))
  <1> DEFINE S == Inputs!Kinds \cup {"LETTER"}
             T == S \ {" "}
             K == Stay(s)
             o == acc.out
             new == Inputs!Add(acc, s[i])
  <1>1. /\ i \in Nat /\ i - 1 \in Nat /\ i > 0 /\ (i - 1) + 1 = i /\ Len(s) \in Nat
        /\ s[i] \in S /\ "-" \in T /\ "-" # " " /\ i <= Len(s)
    <2>1. Len(s) \in Nat /\ s[i] \in S /\ i <= Len(s)
      OBVIOUS
    <2>2. "-" \in T /\ "-" # " "
      BY DEF Inputs!Kinds
    <2>3. i \in Nat /\ i - 1 \in Nat /\ i > 0 /\ (i - 1) + 1 = i
      BY <2>1
    <2> QED
      BY <2>1, <2>2, <2>3
  <1>2. /\ o \in Seq(T) /\ Len(o) = Count(K, i - 1)
        /\ acc.hyphen = IF i - 1 > 0 /\ s[i - 1] \in {" ", "-"} THEN TRUE ELSE FALSE
        /\ \A j \in K : j <= i - 1 => o[Count(K, j)] = Put(s, j)
    BY DEF Scanned
  <1>3. new.hyphen = IF s[i] \in {" ", "-"} THEN TRUE ELSE FALSE
    BY AddIs
  <1>4. K \subseteq 1..Len(s) /\ \A j \in K : j \in Nat /\ j > 0
    <2>1. \A j \in Stay(s) : j \in 1..Len(s) /\ j \in Nat /\ j > 0
      BY StayIs
    <2> HIDE DEF K
    <2> QED
      BY <2>1 DEF K
  <1>5. ASSUME i \in K PROVE new.out = Append(o, Put(s, i))
    <2>1. CASE s[i] # " "
      BY <2>1, AddIs DEF Put
    <2>2. CASE s[i] = " "
      <3>1. i > 1 /\ s[i - 1] \notin {" ", "-"}
        BY <1>5, <2>2 DEF Stay
      <3>2. i - 1 \in K /\ i - 1 \in 1..(i - 1)
        <4>0. i > 1 /\ i <= Len(s)
          BY <1>1, <3>1, Zenon
        <4>1. i - 1 \in 1..Len(s) /\ i - 1 \in 1..(i - 1)
          <5> HIDE <3>1
          <5>1. PICK n \in Nat : n = Len(s)
            BY <1>1
          <5> QED
            BY <1>1, <4>0, <5>1
        <4>2. s[i - 1] # " "
          BY <3>1
        <4> QED
          BY <4>1, <4>2, StayIs
      <3>3. Count(K, i - 1) >= 1
        <4>1. Count(K, i - 1) \in 1..Count(K, i - 1)
          BY <1>1, <3>2, CountOwn
        <4> QED
          BY <4>1
      <3>4. o # <<>>
        <4>1. Len(o) >= 1
          BY <1>2, <3>3
        <4>2. Len(<<>>) = 0
          OBVIOUS
        <4>3. ~(0 >= 1)
          OBVIOUS
        <4> QED
          BY <4>1, <4>2, <4>3
      <3>5. acc.hyphen = FALSE
        BY <1>2, <3>1
      <3> QED
        BY <2>2, <3>4, <3>5, AddIs DEF Put
    <2> QED
      BY <2>1, <2>2
  <1>6. ASSUME i \notin K PROVE new.out = o
    <2>1. s[i] = " " /\ (i > 1 => s[i - 1] \in {" ", "-"})
      BY <1>1, <1>6 DEF Stay
    <2>2. CASE i > 1
      <3>1. i - 1 > 0
        BY <1>1, <2>2
      <3>2. acc.hyphen = TRUE
        BY <1>2, <2>1, <2>2, <3>1
      <3> QED
        BY <2>1, <3>2, AddIs
    <2>3. CASE ~(i > 1)
      <3>1. i = 1
        BY <1>1, <2>3
      <3>2. Len(o) = 0
        <4>1. Count(K, 0) = 0 /\ i - 1 = 0
          BY <3>1, CountStep
        <4> QED
          BY <1>2, <4>1
      <3>3. o = <<>>
        <4>1. o \in Seq(T) /\ Len(o) = 0
          BY <1>2, <3>2
        <4> HIDE DEF o, T
        <4> QED
          BY <4>1
      <3> QED
        BY <2>1, <3>3, AddIs
    <2> QED
      BY <2>2, <2>3
  <1>7. Put(s, i) \in T
    BY <1>1 DEF Put
  <1> HIDE DEF K, T, S, o, new
  <1>8. CASE i \in K
    <2>1. PICK p \in T : p = Put(s, i)
      BY <1>7
    <2>2. new.out = Append(o, p)
      BY <1>5, <1>8, <2>1
    <2>3. Count(K, i) = Count(K, i - 1) + 1 /\ Count(K, i - 1) \in Nat
      BY <1>1, <1>8, CountStep
    <2>4. /\ new.out \in Seq(T) /\ Len(new.out) = Count(K, i) /\ new.out[Count(K, i)] = p
          /\ \A k \in 1..Count(K, i - 1) : new.out[k] = o[k]
      <3>1. o \in Seq(T) /\ Len(o) = Count(K, i - 1)
        BY <1>2
      <3>2. /\ Append(o, p) \in Seq(T) /\ Len(Append(o, p)) = Len(o) + 1
            /\ Append(o, p)[Len(o) + 1] = p /\ \A k \in 1..Len(o) : Append(o, p)[k] = o[k]
        BY <3>1
      <3> QED
        BY <2>2, <2>3, <3>1, <3>2
    <2>5. ASSUME NEW j \in K, j <= i PROVE new.out[Count(K, j)] = Put(s, j)
      <3>1. CASE j = i
        BY <2>1, <2>4, <3>1
      <3>2. CASE j # i
        <4>1. j \in 1..(i - 1) /\ j <= i - 1
          BY <1>1, <1>4, <2>5, <3>2
        <4>2. Count(K, j) \in 1..Count(K, i - 1)
          BY <1>1, <4>1, CountOwn
        <4> QED
          BY <1>2, <2>4, <4>1, <4>2
      <3> QED
        BY <3>1, <3>2
    <2> QED
      BY <1>1, <1>3, <2>4, <2>5 DEF Scanned, K, T, S, new
  <1>9. CASE i \notin K
    <2>1. new.out = o /\ Count(K, i) = Count(K, i - 1)
      BY <1>1, <1>6, <1>9, CountStep
    <2>2. ASSUME NEW j \in K, j <= i PROVE new.out[Count(K, j)] = Put(s, j)
      <3>1. j <= i - 1
        BY <1>1, <1>4, <1>9, <2>2
      <3> QED
        BY <1>2, <2>1, <3>1
    <2> QED
      BY <1>1, <1>2, <1>3, <2>1, <2>2 DEF Scanned, K, T, S, new
  <1> QED
    BY <1>8, <1>9

\* So it is true after every character.
LEMMA ScanFacts ==
    ASSUME NEW s \in Seq(Inputs!Kinds \cup {"LETTER"})
    PROVE  \A i \in 0..Len(s) : Scanned(s, i, Inputs!Scan(s)[i])
  <1> DEFINE f == Inputs!Scan(s)
             G == {i \in Nat : i <= Len(s) => Scanned(s, i, f[i])}
  <1>1. Len(s) \in Nat
    OBVIOUS
  <1>2. f[0] = [out |-> <<>>, hyphen |-> FALSE]
        /\ \A i \in 1..Len(s) : f[i] = Inputs!Add(f[i - 1], s[i])
    BY ScanIs
  <1> HIDE DEF f
  <1>3. 0 \in G
    <2>1. Count(Stay(s), 0) = 0
      BY CountStep
    <2>2. \A j \in Stay(s) : ~(j <= 0)
      BY StayIs
    <2>3. PICK acc : acc = [out |-> <<>>, hyphen |-> FALSE]
      OBVIOUS
    <2>4. /\ acc.out = <<>> /\ acc.hyphen = FALSE /\ Len(acc.out) = 0
          /\ acc.out \in Seq((Inputs!Kinds \cup {"LETTER"}) \ {" "})
      BY <2>3
    <2>5. Scanned(s, 0, acc)
      <3>1. acc.hyphen = IF 0 > 0 /\ s[0] \in {" ", "-"} THEN TRUE ELSE FALSE
        <4>1. ~(0 > 0)
          OBVIOUS
        <4> QED
          BY <2>4, <4>1, Zenon
      <3>2. \A j \in Stay(s) : j <= 0 => acc.out[Count(Stay(s), j)] = Put(s, j)
        BY <2>2
      <3> QED
        BY <2>1, <2>4, <3>1, <3>2 DEF Scanned
    <2> QED
      BY <1>2, <2>3, <2>5
  <1>4. ASSUME NEW n \in Nat, n < Len(s), n \in G PROVE n + 1 \in G
    <2>1. n + 1 \in 1..Len(s) /\ (n + 1) - 1 = n /\ n <= Len(s)
      BY <1>1, <1>4
    <2>2. Scanned(s, (n + 1) - 1, f[n])
      BY <1>4, <2>1
    <2>3. f[n + 1] = Inputs!Add(f[n], s[n + 1])
      BY <1>2, <2>1
    <2>4. Scanned(s, n + 1, Inputs!Add(f[n], s[n + 1]))
      BY <2>1, <2>2, ScanGoesOn
    <2> QED
      BY <2>3, <2>4
  <1> HIDE DEF G
  <1>5. \A i \in 0..Len(s) : i \in G
    BY <1>1, <1>3, <1>4, UpTo
  <1> QED
    BY <1>5 DEF G, f

Core(s, edge) == {i \in DOMAIN s : s[i] \notin edge}

\* The ends of a set of numbers.
LEMMA EndsOf ==
    ASSUME NEW m \in Nat, NEW C \in SUBSET (1..m), C # {}
    PROVE  /\ Inputs!Min(C) \in C /\ \A i \in C : Inputs!Min(C) <= i
           /\ Inputs!Max(C) \in C /\ \A i \in C : i <= Inputs!Max(C)
  <1>1. \A i \in C : i \in Nat /\ i <= m
    OBVIOUS
  <1>2. \E x \in C : \A y \in C : x <= y
    BY <1>1, LeastOf
  <1>3. \E x \in C : \A y \in C : x >= y
    <2> DEFINE D == {m - i : i \in C}
    <2>1. D \subseteq Nat /\ D # {}
      <3>1. \A i \in C : m - i \in Nat
        BY <1>1
      <3>2. PICK i : i \in C
        OBVIOUS
      <3>3. m - i \in D
        BY <3>2
      <3> QED
        BY <3>1, <3>3
    <2>2. PICK d \in D : \A e \in D : d <= e
      <3> HIDE DEF D
      <3> QED
        BY <2>1, LeastOf
    <2>3. PICK x \in C : d = m - x
      BY <2>2
    <2>4. ASSUME NEW y \in C PROVE x >= y
      <3>1. m - y \in D
        OBVIOUS
      <3>2. m - x <= m - y
        BY <2>2, <2>3, <3>1
      <3> QED
        BY <1>1, <3>2
    <2> QED
      BY <2>4
  <1>4. Inputs!Min(C) = CHOOSE x \in C : \A y \in C : x <= y
    BY DEF Inputs!Min
  <1>5. Inputs!Max(C) = CHOOSE x \in C : \A y \in C : x >= y
    BY DEF Inputs!Max
  <1>6. Inputs!Min(C) \in C /\ \A i \in C : Inputs!Min(C) <= i
    BY <1>2, <1>4
  <1>7. Inputs!Max(C) \in C /\ \A i \in C : Inputs!Max(C) >= i
    BY <1>3, <1>5
  <1> QED
    BY <1>1, <1>6, <1>7

\* The places outside the edge.
LEMMA CoreIs ==
    ASSUME NEW S, NEW s \in Seq(S), NEW edge
    PROVE  /\ Core(s, edge) \in SUBSET (1..Len(s))
           /\ \A i \in 1..Len(s) : i \in Core(s, edge) <=> s[i] \notin edge
  BY DEF Core

\* a and b are the first and the last place of s outside the edge.
Between(s, edge, a, b) ==
    /\ a \in Core(s, edge) /\ b \in Core(s, edge)
    /\ a \in 1..Len(s) /\ b \in 1..Len(s) /\ a <= b
    /\ \A i \in Core(s, edge) : a <= i /\ i <= b

\* What is left of a text between its first and its last place outside the edge.
LEMMA StripIs ==
    ASSUME NEW S, NEW s \in Seq(S), NEW edge
    PROVE  /\ Core(s, edge) = {} => Inputs!Strip(s, edge) = <<>>
           /\ Core(s, edge) # {} =>
                 Between(s, edge, Inputs!Min(Core(s, edge)), Inputs!Max(Core(s, edge)))
           /\ \A a, b \in 1..Len(s) : Between(s, edge, a, b) =>
                 /\ Inputs!Strip(s, edge) \in Seq(S)
                 /\ Len(Inputs!Strip(s, edge)) = b - a + 1
                 /\ \A k \in 1..(b - a + 1) : Inputs!Strip(s, edge)[k] = s[k + a - 1]
  <1> DEFINE C == Core(s, edge)
  <1>1. PICK n \in Nat : n = Len(s)
    OBVIOUS
  <1>2. C \in SUBSET (1..n)
    BY <1>1, CoreIs
  <1>3. Inputs!Strip(s, edge) = IF C = {} THEN <<>> ELSE SubSeq(s, Inputs!Min(C), Inputs!Max(C))
    BY DEF Inputs!Strip, Core
  <1> HIDE DEF C
  <1>4. ASSUME C # {} PROVE Between(s, edge, Inputs!Min(C), Inputs!Max(C))
    <2>1. /\ Inputs!Min(C) \in C /\ \A i \in C : Inputs!Min(C) <= i
          /\ Inputs!Max(C) \in C /\ \A i \in C : i <= Inputs!Max(C)
      BY <1>2, <1>4, EndsOf
    <2> QED
      BY <1>1, <1>2, <2>1 DEF Between, C
  <1>5. ASSUME NEW a \in 1..n, NEW b \in 1..n, Between(s, edge, a, b)
        PROVE  /\ Inputs!Strip(s, edge) \in Seq(S)
               /\ Len(Inputs!Strip(s, edge)) = b - a + 1
               /\ \A k \in 1..(b - a + 1) : Inputs!Strip(s, edge)[k] = s[k + a - 1]
    <2>1. a \in C /\ b \in C /\ a <= b /\ \A i \in C : a <= i /\ i <= b
      BY <1>5 DEF Between, C
    <2>2. /\ Inputs!Min(C) \in C /\ \A i \in C : Inputs!Min(C) <= i
          /\ Inputs!Max(C) \in C /\ \A i \in C : i <= Inputs!Max(C)
      BY <1>2, <2>1, EndsOf
    <2>3. a = Inputs!Min(C) /\ b = Inputs!Max(C)
      <3>1. PICK x \in 1..n, y \in 1..n : x = Inputs!Min(C) /\ y = Inputs!Max(C)
        BY <1>2, <2>2
      <3>2. a <= x /\ x <= a /\ b <= y /\ y <= b
        BY <2>1, <2>2, <3>1
      <3> QED
        BY <3>1, <3>2
    <2>4. Inputs!Strip(s, edge) = SubSeq(s, a, b)
      BY <1>3, <2>1, <2>3
    <2>5. /\ SubSeq(s, a, b) \in Seq(S) /\ Len(SubSeq(s, a, b)) = b - a + 1
          /\ \A k \in 1..(b - a + 1) : SubSeq(s, a, b)[k] = s[k + a - 1]
      BY <1>1, <2>1
    <2> QED
      BY <2>4, <2>5
  <1> QED
    BY <1>1, <1>3, <1>4, <1>5 DEF C

\* A text with nothing of the edge at its ends stays as it is.
LEMMA StripFixes ==
    ASSUME NEW S, NEW s \in Seq(S), NEW edge,
           s # <<>> => s[1] \notin edge /\ s[Len(s)] \notin edge
    PROVE  Inputs!Strip(s, edge) = s
  <1>1. PICK n \in Nat : n = Len(s)
    OBVIOUS
  <1>2. CASE n = 0
    <2>0. Len(s) = 0
      BY <1>1, <1>2
    <2>1. s = <<>>
      BY <2>0
    <2>2. Core(s, edge) \in SUBSET (1..0)
      <3>1. Core(s, edge) \in SUBSET (1..Len(s))
        BY CoreIs
      <3> QED
        BY <2>0, <3>1
    <2>4. 1..0 = {}
      OBVIOUS
    <2>3. Core(s, edge) = {}
      BY <2>2, <2>4
    <2> QED
      BY <2>1, <2>3, StripIs
  <1>3. CASE n # 0
    <2>1. s # <<>> /\ 1 \in 1..n /\ n \in 1..n
      BY <1>1, <1>3
    <2>2. Between(s, edge, 1, n)
      <3>1. 1 \in Core(s, edge) /\ n \in Core(s, edge)
        BY <1>1, <2>1, CoreIs
      <3>2. \A i \in Core(s, edge) : 1 <= i /\ i <= n
        BY <1>1, CoreIs
      <3> QED
        BY <1>1, <2>1, <3>1, <3>2 DEF Between
    <2> DEFINE t == Inputs!Strip(s, edge)
    <2>3. /\ t \in Seq(S) /\ Len(t) = n - 1 + 1 /\ \A k \in 1..(n - 1 + 1) : t[k] = s[k + 1 - 1]
      BY <1>1, <2>1, <2>2, StripIs
    <2> HIDE DEF t
    <2>4. Len(t) = n /\ \A k \in 1..n : t[k] = s[k]
      BY <2>3
    <2>5. t = [k \in 1..n |-> t[k]] /\ s = [k \in 1..n |-> s[k]]
      BY <1>1, <2>3, <2>4
    <2>6. [k \in 1..n |-> t[k]] = [k \in 1..n |-> s[k]]
      BY <2>4
    <2> QED
      BY <2>5, <2>6 DEF t
  <1> QED
    BY <1>2, <1>3

Chars == Inputs!Kinds \cup {"LETTER"}
Ends == {"-", "."}
Read(s) == Inputs!Scan(s)[Len(s)].out

NoBlank(s) == \A i \in 1..Len(s) : s[i] # " "

\* What the loop makes of a text: the characters that stay, in their order.
LEMMA ReadIs ==
    ASSUME NEW s \in Seq(Chars)
    PROVE  /\ Read(s) \in Seq(Chars) /\ NoBlank(Read(s))
           /\ Len(Read(s)) = Count(Stay(s), Len(s)) /\ Len(Read(s)) <= Len(s)
           /\ \A j \in Stay(s) : /\ j \in 1..Len(s) /\ Count(Stay(s), j) \in 1..Len(Read(s))
                                 /\ Read(s)[Count(Stay(s), j)] = Put(s, j)
           /\ \A k \in 1..Len(Read(s)) :
                 \E j \in Stay(s) : Count(Stay(s), j) = k /\ Read(s)[k] = Put(s, j)
  <1> DEFINE K == Stay(s)
             r == Read(s)
  <1>1. PICK n \in Nat : n = Len(s)
    OBVIOUS
  <1>2. Scanned(s, n, Inputs!Scan(s)[n])
    <2>1. n \in 0..Len(s)
      BY <1>1
    <2> QED
      BY <2>1, ScanFacts DEF Chars
  <1>3. /\ r \in Seq(Chars \ {" "}) /\ Len(r) = Count(K, n)
        /\ \A j \in K : j <= n => r[Count(K, j)] = Put(s, j)
    BY <1>1, <1>2 DEF Scanned, Chars, Read
  <1> HIDE DEF r
  <1>4. \A j \in K : j \in 1..n
    BY <1>1, StayIs
  <1>10. PICK T : T = Chars \ {" "}
    OBVIOUS
  <1>11. r \in Seq(T)
    BY <1>3, <1>10
  <1>12. T \subseteq Chars /\ " " \notin T
    BY <1>10
  <1>13. r \in Seq(Chars) /\ \A k \in 1..Len(r) : r[k] # " "
    <2>0. PICK C : C = Chars
      OBVIOUS
    <2>1. \A k \in 1..Len(r) : r[k] \in T
      BY <1>11
    <2>2. T \subseteq C
      BY <1>12, <2>0
    <2>3. r \in Seq(C)
      BY <1>11, <2>2
    <2> QED
      BY <1>12, <2>0, <2>1, <2>3
  <1> HIDE DEF K
  <1>5. \A j \in K : Count(K, j) \in 1..Count(K, n)
    BY <1>4, CountOwn
  <1>6. Count(K, n) \in Nat /\ Count(K, n) <= n
    <2>1. 0 \in 0..n
      OBVIOUS
    <2>2. Count(K, 0) = 0
      BY CountStep
    <2>3. Count(K, n) \in Nat /\ Count(K, n) - Count(K, 0) <= n - 0
      BY <2>1, CountGrows
    <2> QED
      BY <2>2, <2>3
  <1>7. \A k \in 1..Count(K, n) : \E j \in 1..n : j \in K /\ Count(K, j) = k
    BY CountOnto
  <1>8. \A k \in 1..Len(r) : \E j \in K : Count(K, j) = k /\ r[k] = Put(s, j)
    <2> SUFFICES ASSUME NEW k \in 1..Len(r) PROVE \E j \in K : Count(K, j) = k /\ r[k] = Put(s, j)
      OBVIOUS
    <2>1. PICK j \in 1..n : j \in K /\ Count(K, j) = k
      BY <1>3, <1>7
    <2>2. j <= n
      BY <2>1
    <2> QED
      BY <1>3, <2>1, <2>2
  <1>9. \A j \in K : j \in 1..n /\ j <= n
    BY <1>4
  <1> QED
    BY <1>1, <1>3, <1>13, <1>5, <1>6, <1>8, <1>9 DEF K, r, NoBlank

\* A text without blanks is read as it is.
LEMMA ReadFixes ==
    ASSUME NEW s \in Seq(Chars), NoBlank(s)
    PROVE  Read(s) = s
  <1> DEFINE K == Stay(s)
             r == Read(s)
  <1>1. PICK n \in Nat : n = Len(s)
    OBVIOUS
  <1>2. \A i \in 1..n : s[i] # " " /\ Put(s, i) = s[i]
    BY <1>1 DEF Put, NoBlank
  <1>3. \A i \in 1..n : i \in K
    BY <1>1, <1>2, StayIs
  <1>4. /\ r \in Seq(Chars) /\ Len(r) = Count(K, n)
        /\ \A j \in K : r[Count(K, j)] = Put(s, j)
    <2> HIDE DEF K, r
    <2> QED
      BY <1>1, <1>2, ReadIs DEF K, r
  <1> HIDE DEF K, r
  <1> DEFINE G == {i \in Nat : i <= n => Count(K, i) = i}
  <1>5. 0 \in G
    BY CountStep
  <1>6. ASSUME NEW i \in Nat, i < n, i \in G PROVE i + 1 \in G
    <2>1. i + 1 \in 1..n /\ i <= n
      BY <1>1, <1>6
    <2>2. Count(K, i + 1) = Count(K, i) + 1
      BY <1>3, <2>1, CountStep
    <2> QED
      BY <1>6, <2>1, <2>2
  <1> HIDE DEF G
  <1>7. \A i \in 0..n : i \in G
    BY <1>5, <1>6, UpTo
  <1>8. \A i \in 0..n : Count(K, i) = i
    BY <1>7 DEF G
  <1>9. Len(r) = n /\ \A i \in 1..n : r[i] = s[i]
    <2>1. Count(K, n) = n
      BY <1>8
    <2>2. ASSUME NEW i \in 1..n PROVE r[i] = s[i]
      <3>1. i \in 0..n
        OBVIOUS
      <3> QED
        BY <1>2, <1>3, <1>4, <1>8, <3>1
    <2> QED
      BY <1>4, <2>1, <2>2
  <1>10. r = [i \in 1..n |-> r[i]] /\ s = [i \in 1..n |-> s[i]]
    BY <1>1, <1>4, <1>9
  <1>11. [i \in 1..n |-> r[i]] = [i \in 1..n |-> s[i]]
    BY <1>9
  <1> QED
    BY <1>10, <1>11 DEF r

\* The dialog counts as everybody does.
LEMMA SameCardinality == ASSUME NEW S PROVE Inputs!Cardinality(S) = Cardinality(S)
  BY DEF Inputs!Cardinality, Cardinality

\* Those of K from a on.
LEMMA CountFrom ==
    ASSUME NEW K, NEW a \in Nat \ {0}, NEW i \in Nat, a <= i
    PROVE  Inputs!Cardinality(K \cap (a..i)) = Count(K, i) - Count(K, a - 1)
  <1> DEFINE A == K \cap (1..(a - 1))
             B == K \cap (a..i)
  <1>1. i \in Int /\ a \in Int /\ 1 \in Int /\ a - 1 \in Int
    OBVIOUS
  <1>2. IsFiniteSet(A) /\ IsFiniteSet(B)
    <2>1. IsFiniteSet(a..i) /\ IsFiniteSet(1..(a - 1))
      BY <1>1, FS_Interval
    <2>2. A \in SUBSET (1..(a - 1)) /\ B \in SUBSET (a..i)
      OBVIOUS
    <2> HIDE DEF A, B
    <2> QED
      BY <2>1, <2>2, FS_Subset
  <1>3. K \cap (1..i) = A \cup B /\ A \cap B = {}
    <2>1. 1..i = (1..(a - 1)) \cup (a..i) /\ (1..(a - 1)) \cap (a..i) = {}
      OBVIOUS
    <2> QED
      BY <2>1
  <1> HIDE DEF A, B
  <1>4. Cardinality(A \cup B) = Cardinality(A) + Cardinality(B) - Cardinality(A \cap B)
    BY <1>2, FS_Union
  <1>5. Cardinality(A \cap B) = 0
    BY <1>3, FS_EmptySet
  <1>6. Cardinality(A) \in Nat /\ Cardinality(B) \in Nat
    BY <1>2, FS_CardinalityType
  <1>7. Cardinality(A \cup B) = Count(K, i) /\ Cardinality(A) = Count(K, a - 1)
    BY <1>3 DEF Count, A
  <1>8. Inputs!Cardinality(K \cap (a..i)) = Cardinality(B)
    BY SameCardinality DEF B
  <1> QED
    BY <1>4, <1>5, <1>6, <1>7, <1>8

\* The suggestion is a part of what is read, from one p to one q.
LEMMA SuggestionIs ==
    ASSUME NEW s \in Seq(Chars)
    PROVE  /\ Core(Read(s), Ends) = {} => Inputs!suggestRepoName(s) = <<>>
           /\ Core(Read(s), Ends) # {} =>
                 \E p, q \in 1..Len(Read(s)) : Between(Read(s), Ends, p, q)
           /\ \A p, q \in 1..Len(Read(s)) : Between(Read(s), Ends, p, q) =>
                 /\ Inputs!suggestRepoName(s) \in Seq(Chars)
                 /\ Len(Inputs!suggestRepoName(s)) = q - p + 1
                 /\ \A k \in 1..(q - p + 1) :
                        Inputs!suggestRepoName(s)[k] = Read(s)[k + p - 1]
  <1> DEFINE r == Read(s)
  <1>1. r \in Seq(Chars)
    BY ReadIs
  <1>2. Inputs!suggestRepoName(s) = Inputs!Strip(r, Ends)
    BY DEF Inputs!suggestRepoName, Read, Ends
  <1> HIDE DEF r
  <1>3. Core(r, Ends) # {} => \E p, q \in 1..Len(r) : Between(r, Ends, p, q)
    <2> SUFFICES ASSUME Core(r, Ends) # {} PROVE \E p, q \in 1..Len(r) : Between(r, Ends, p, q)
      OBVIOUS
    <2>1. PICK p, q : p = Inputs!Min(Core(r, Ends)) /\ q = Inputs!Max(Core(r, Ends))
      OBVIOUS
    <2>2. Between(r, Ends, p, q)
      BY <1>1, <2>1, StripIs
    <2>3. p \in 1..Len(r) /\ q \in 1..Len(r)
      BY <2>2 DEF Between
    <2> QED
      BY <2>2, <2>3
  <1> QED
    BY <1>1, <1>2, <1>3, StripIs DEF r

\* Its ends are not of the edge, and it has no blank.
LEMMA SuggestionHas ==
    ASSUME NEW s \in Seq(Chars)
    PROVE  /\ Inputs!suggestRepoName(s) \in Seq(Chars)
           /\ Len(Inputs!suggestRepoName(s)) \in Nat
           /\ Len(Inputs!suggestRepoName(s)) <= Len(s)
           /\ NoBlank(Inputs!suggestRepoName(s))
           /\ Inputs!suggestRepoName(s) # <<>> =>
                 /\ Inputs!suggestRepoName(s)[1] \notin Ends
                 /\ Inputs!suggestRepoName(s)[Len(Inputs!suggestRepoName(s))] \notin Ends
           /\ \A k \in 1..Len(Inputs!suggestRepoName(s)) :
                 \E j \in 1..Len(s) : Inputs!suggestRepoName(s)[k] = Put(s, j)
  <1> DEFINE r == Read(s)
             t == Inputs!suggestRepoName(s)
  <1>1. /\ r \in Seq(Chars) /\ NoBlank(r) /\ Len(r) <= Len(s)
        /\ \A k \in 1..Len(r) : \E j \in Stay(s) : j \in 1..Len(s) /\ r[k] = Put(s, j)
    BY ReadIs
  <1>2. /\ Core(r, Ends) = {} => t = <<>>
        /\ Core(r, Ends) # {} => \E p, q \in 1..Len(r) : Between(r, Ends, p, q)
        /\ \A p, q \in 1..Len(r) : Between(r, Ends, p, q) =>
               /\ t \in Seq(Chars) /\ Len(t) = q - p + 1
               /\ \A k \in 1..(q - p + 1) : t[k] = r[k + p - 1]
    BY SuggestionIs
  <1>3. Len(r) \in Nat /\ Len(s) \in Nat
    BY <1>1
  <1>4. ASSUME NEW k \in 1..Len(r) PROVE r[k] # " "
    BY <1>1 DEF NoBlank
  <1> HIDE DEF r, t
  <1>5. CASE Core(r, Ends) = {}
    <2>1. t = <<>>
      BY <1>2, <1>5
    <2>2. Len(t) = 0 /\ t \in Seq(Chars)
      BY <2>1
    <2>4. \A k \in 1..Len(t) : FALSE
      BY <2>2
    <2>3. NoBlank(t)
      BY <2>4, Zenon DEF NoBlank
    <2> QED
      BY <1>3, <2>1, <2>2, <2>3, <2>4 DEF t
  <1>6. CASE Core(r, Ends) # {}
    <2>1. PICK p \in 1..Len(r), q \in 1..Len(r) : Between(r, Ends, p, q)
      BY <1>2, <1>6
    <2>2. /\ t \in Seq(Chars) /\ Len(t) = q - p + 1
          /\ \A k \in 1..(q - p + 1) : t[k] = r[k + p - 1]
      BY <1>2, <2>1
    <2>3. p <= q /\ p \in Nat /\ q \in Nat /\ p >= 1 /\ q <= Len(r)
      BY <1>3, <2>1 DEF Between
    <2>4. Len(t) \in Nat /\ Len(t) <= Len(s) /\ Len(t) >= 1
      BY <1>1, <1>3, <2>2, <2>3
    <2>5. \A k \in 1..Len(t) : k + p - 1 \in 1..Len(r) /\ t[k] = r[k + p - 1]
      BY <1>3, <2>2, <2>3
    <2>6. NoBlank(t)
      <3>1. ASSUME NEW k \in 1..Len(t) PROVE t[k] # " "
        <4>1. PICK m \in 1..Len(r) : t[k] = r[m]
          BY <2>5
        <4> QED
          BY <1>4, <4>1
      <3> QED
        BY <3>1 DEF NoBlank
    <2>7. \A k \in 1..Len(t) : \E j \in 1..Len(s) : t[k] = Put(s, j)
      BY <1>1, <2>5
    <2>8. t[1] \notin Ends /\ t[Len(t)] \notin Ends
      <3>1. p \in Core(r, Ends) /\ q \in Core(r, Ends)
        BY <2>1 DEF Between
      <3>2. r[p] \notin Ends /\ r[q] \notin Ends
        BY <1>1, <2>1, <3>1, CoreIs DEF r
      <3>3. 1 \in 1..Len(t) /\ Len(t) \in 1..Len(t) /\ 1 + p - 1 = p /\ Len(t) + p - 1 = q
        BY <2>2, <2>3, <2>4
      <3> QED
        BY <2>5, <3>2, <3>3
    <2> QED
      BY <2>2, <2>4, <2>6, <2>7, <2>8 DEF t
  <1> QED
    BY <1>5, <1>6

\* Suggesting again changes nothing.
LEMMA SuggestionStays ==
    ASSUME NEW s \in Seq(Chars)
    PROVE  Inputs!suggestRepoName(Inputs!suggestRepoName(s)) = Inputs!suggestRepoName(s)
  <1>1. PICK t : t = Inputs!suggestRepoName(s)
    OBVIOUS
  <1>2. t \in Seq(Chars) /\ NoBlank(t) /\ (t # <<>> => t[1] \notin Ends /\ t[Len(t)] \notin Ends)
    BY <1>1, SuggestionHas
  <1>3. Read(t) = t
    BY <1>2, ReadFixes
  <1>4. Inputs!Strip(t, Ends) = t
    BY <1>2, StripFixes
  <1>5. Inputs!suggestRepoName(t) = Inputs!Strip(Read(t), Ends)
    BY DEF Inputs!suggestRepoName, Read, Ends
  <1> QED
    BY <1>1, <1>3, <1>4, <1>5

Letters == {"letter", "foreign"}

\* What a place of a folder's name has.
LEMMA PlaceIs ==
    ASSUME NEW s \in Seq(Inputs!Kinds), NEW i \in 1..Len(s)
    PROVE  /\ s[i] \notin Letters => s[i] = " " \/ s[i] \in Ends
           /\ s[i] \in Letters => s[i] # " " /\ s[i] \notin Ends
           /\ s[i] \in Letters \cup {"."} <=> s[i] \notin {" ", "-"}
  <1>1. s[i] \in Inputs!Kinds
    OBVIOUS
  <1>2. PICK c : c = s[i]
    OBVIOUS
  <1>3. c \in Inputs!Kinds
    BY <1>1, <1>2
  <1>4. /\ c \notin Letters => c = " " \/ c \in Ends
        /\ c \in Letters => c # " " /\ c \notin Ends
        /\ c \in Letters \cup {"."} <=> c \notin {" ", "-"}
    BY <1>3 DEF Inputs!Kinds, Letters, Ends
  <1> QED
    BY <1>2, <1>4

\* The part that is kept is the one from the first letter to the last.
LEMMA KeptIs ==
    ASSUME NEW s \in Seq(Inputs!Kinds), NEW L, L = {i \in 1..Len(s) : s[i] \in Letters}
    PROVE  /\ L = {} => Core(Read(s), Ends) = {}
           /\ \A a, b \in L : (\A i \in L : a <= i /\ i <= b) =>
                 /\ Count(Stay(s), a) \in 1..Len(Read(s))
                 /\ Count(Stay(s), b) \in 1..Len(Read(s))
                 /\ Between(Read(s), Ends, Count(Stay(s), a), Count(Stay(s), b))
  <1> DEFINE K == Stay(s)
             r == Read(s)
  <1>1. PICK n \in Nat : n = Len(s)
    OBVIOUS
  <1>2. s \in Seq(Chars)
    <2>1. Inputs!Kinds \subseteq Chars
      BY DEF Chars
    <2> QED
      BY <2>1
  <1>3. /\ r \in Seq(Chars)
        /\ \A j \in K : /\ j \in 1..n /\ Count(K, j) \in 1..Len(r) /\ r[Count(K, j)] = Put(s, j)
        /\ \A k \in 1..Len(r) : \E j \in K : Count(K, j) = k /\ r[k] = Put(s, j)
    BY <1>1, <1>2, ReadIs
  <1>4. \A i \in L : i \in 1..n /\ s[i] \in Letters /\ s[i] # " " /\ s[i] \notin Ends
    <2>1. \A i \in L : i \in 1..n /\ s[i] \in Letters
      BY <1>1
    <2> QED
      BY <1>1, <2>1, PlaceIs
  <1>5. \A i \in L : i \in K
    BY <1>1, <1>2, <1>4, StayIs
  <1> HIDE DEF K, r
  <1>6. Len(r) \in Nat
    BY <1>3
  <1>7. ASSUME NEW i \in L PROVE Count(K, i) \in 1..Len(r) /\ Count(K, i) \in Core(r, Ends)
    <2>1. Count(K, i) \in 1..Len(r) /\ r[Count(K, i)] = s[i]
      BY <1>3, <1>4, <1>5 DEF Put
    <2>2. r[Count(K, i)] \notin Ends
      BY <1>4, <2>1
    <2> QED
      BY <1>3, <2>1, <2>2, CoreIs
  <1>8. ASSUME NEW k \in Core(r, Ends) PROVE \E j \in L : Count(K, j) = k
    <2>1. k \in 1..Len(r) /\ r[k] \notin Ends
      <3>1. k \in 1..Len(r)
        BY <1>3, CoreIs
      <3> QED
        BY <1>3, <3>1, CoreIs
    <2>2. PICK j \in K : Count(K, j) = k /\ r[k] = Put(s, j)
      BY <1>3, <2>1
    <2>3. j \in 1..n
      BY <1>3
    <2>4. s[j] # " " /\ s[j] \notin Ends
      BY <2>1, <2>2 DEF Put, Ends
    <2>5. s[j] \in Letters
      BY <1>1, <2>3, <2>4, PlaceIs
    <2>6. j \in L
      BY <1>1, <2>3, <2>5
    <2> QED
      BY <2>2, <2>6
  <1>9. ASSUME NEW a \in L, NEW b \in L, \A i \in L : a <= i /\ i <= b
        PROVE  Between(r, Ends, Count(K, a), Count(K, b))
    <2>1. \A i, j \in 1..n : i <= j => Count(K, i) <= Count(K, j)
      <3> SUFFICES ASSUME NEW i \in 1..n, NEW j \in 1..n, i <= j PROVE Count(K, i) <= Count(K, j)
        OBVIOUS
      <3>1. j \in Nat /\ i \in 0..j
        OBVIOUS
      <3> QED
        BY <3>1, CountGrows
    <2>2. ASSUME NEW k \in Core(r, Ends) PROVE Count(K, a) <= k /\ k <= Count(K, b)
      <3>1. PICK j \in L : Count(K, j) = k
        BY <1>8
      <3>2. a <= j /\ j <= b /\ a \in 1..n /\ b \in 1..n /\ j \in 1..n
        BY <1>4, <1>9
      <3> QED
        BY <2>1, <3>1, <3>2
    <2>3. Count(K, a) <= Count(K, b)
      BY <1>4, <1>9, <2>1
    <2> QED
      BY <1>7, <2>2, <2>3 DEF Between
  <1> QED
    BY <1>7, <1>8, <1>9 DEF K, r

\* The places that stay between the first letter and the last.
Stays(s, i) == s[i] # " " \/ s[i - 1] \in Letters \cup {"."}

LEMMA PlacesAre ==
    ASSUME NEW s \in Seq(Inputs!Kinds), NEW a \in 1..Len(s), NEW b \in 1..Len(s),
           s[a] \in Letters
    PROVE  {i \in a..b : Stays(s, i)} = Stay(s) \cap (a..b)
  <1>1. PICK n \in Nat : n = Len(s)
    OBVIOUS
  <1>2. ASSUME NEW i \in a..b PROVE Stays(s, i) <=> i \in Stay(s)
    <2>1. i \in 1..n /\ i >= a /\ a >= 1
      BY <1>1
    <2>2. CASE s[i] # " "
      BY <1>1, <2>1, <2>2 DEF Stays, Stay
    <2>3. CASE s[i] = " "
      <3>1. i # a
        <4>1. s[a] # " "
          BY PlaceIs
        <4> QED
          BY <2>3, <4>1
      <3>2. i > 1 /\ i - 1 \in 1..n
        BY <1>1, <2>1, <3>1
      <3>3. s[i - 1] \in Letters \cup {"."} <=> s[i - 1] \notin {" ", "-"}
        BY <1>1, <3>2, PlaceIs
      <3> QED
        BY <1>1, <2>1, <2>3, <3>2, <3>3 DEF Stays, Stay
    <2> QED
      BY <2>2, <2>3
  <1> QED
    BY <1>2

\* A suggestion for a name in ASCII is empty or one GitHub takes.
LEMMA SuggestionIsValid ==
    ASSUME NEW s \in Seq(Inputs!Kinds), \A i \in 1..Len(s) : s[i] # "foreign"
    PROVE  Inputs!suggestRepoName(s) = <<>> \/ Inputs!isValidGithubName(Inputs!suggestRepoName(s))
  <1>1. PICK t : t = Inputs!suggestRepoName(s)
    OBVIOUS
  <1>2. s \in Seq(Chars)
    <2>1. Inputs!Kinds \subseteq Chars
      BY DEF Chars
    <2> QED
      BY <2>1
  <1>3. /\ t \in Seq(Chars) /\ NoBlank(t) /\ (t # <<>> => t[1] \notin Ends)
        /\ \A k \in 1..Len(t) : \E j \in 1..Len(s) : t[k] = Put(s, j)
    BY <1>1, <1>2, SuggestionHas
  <1>4. ASSUME NEW k \in 1..Len(t) PROVE t[k] \in {"letter", "LETTER", "-", "."}
    <2>1. PICK j \in 1..Len(s) : t[k] = Put(s, j)
      BY <1>3
    <2>2. PICK c : c = s[j]
      OBVIOUS
    <2>3. c \in Inputs!Kinds /\ c # "foreign"
      BY <2>2
    <2>4. t[k] = IF c = " " THEN "-" ELSE c
      BY <2>1, <2>2 DEF Put
    <2> QED
      BY <2>3, <2>4 DEF Inputs!Kinds
  <1>5. Inputs!ToSet(t) \subseteq {"letter", "LETTER", "-", "."}
    <2>1. DOMAIN t = 1..Len(t)
      BY <1>3
    <2>2. Inputs!ToSet(t) = {t[i] : i \in DOMAIN t}
      BY DEF Inputs!ToSet
    <2> QED
      BY <1>4, <2>1, <2>2
  <1>6. t # <<>> => t \notin {<<".">>, <<".", ".">>}
    <2>1. t # <<>> => t[1] # "."
      BY <1>3 DEF Ends
    <2>2. <<".">>[1] = "." /\ <<".", ".">>[1] = "."
      OBVIOUS
    <2> QED
      BY <2>1, <2>2
  <1> QED
    BY <1>1, <1>5, <1>6 DEF Inputs!isValidGithubName

LettersOf(s) == {i \in 1..Len(s) : s[i] \in Letters}
PlacesOf(s, L) == {i \in Inputs!Min(L)..Inputs!Max(L) : Stays(s, i)}

\* It keeps the places that stay, in their order.
LEMMA SuggestionKeeps ==
    ASSUME NEW s \in Seq(Inputs!Kinds), NEW L, L = LettersOf(s),
           NEW places, places = PlacesOf(s, L)
    PROVE  IF L = {} THEN Inputs!suggestRepoName(s) = <<>>
           ELSE /\ Len(Inputs!suggestRepoName(s)) = Inputs!Cardinality(places)
                /\ \A i \in places :
                      Inputs!suggestRepoName(s)[Inputs!Cardinality(places \cap (1..i))] = Put(s, i)
  <1> DEFINE K == Stay(s)
             r == Read(s)
             t == Inputs!suggestRepoName(s)
  <1>0. L = {i \in 1..Len(s) : s[i] \in Letters}
    BY DEF LettersOf
  <1>5. places = {i \in Inputs!Min(L)..Inputs!Max(L) : Stays(s, i)}
    BY DEF PlacesOf
  <1>1. PICK n \in Nat : n = Len(s)
    OBVIOUS
  <1>2. s \in Seq(Chars)
    <2>1. Inputs!Kinds \subseteq Chars
      BY DEF Chars
    <2> QED
      BY <2>1
  <1>3. CASE L = {}
    <2>1. Core(r, Ends) = {}
      BY <1>0, <1>3, KeptIs
    <2> QED
      BY <1>2, <1>3, <2>1, SuggestionIs
  <1>4. CASE L # {}
    <2>0. PICK a, b : a = Inputs!Min(L) /\ b = Inputs!Max(L)
      OBVIOUS
    <2>1. a \in L /\ b \in L /\ \A i \in L : a <= i /\ i <= b
      <3>1. L \in SUBSET (1..n)
        BY <1>0, <1>1
      <3> QED
        BY <1>4, <2>0, <3>1, EndsOf
    <2>2. a \in 1..n /\ b \in 1..n /\ a <= b /\ s[a] \in Letters /\ s[b] \in Letters
      BY <1>0, <1>1, <2>1
    <2>3. PICK p, q : p = Count(K, a) /\ q = Count(K, b)
      OBVIOUS
    <2>4. p \in 1..Len(r) /\ q \in 1..Len(r) /\ Between(r, Ends, p, q)
      BY <1>0, <2>1, <2>3, KeptIs
    <2>5. Len(t) = q - p + 1 /\ \A k \in 1..(q - p + 1) : t[k] = r[k + p - 1]
      BY <1>2, <2>4, SuggestionIs
    <2>6. places = K \cap (a..b)
      <3>1. {i \in a..b : Stays(s, i)} = Stay(s) \cap (a..b)
        BY <1>1, <2>2, PlacesAre
      <3> QED
        BY <1>5, <2>0, <3>1
    <2>7. /\ \A j \in K : /\ j \in 1..n /\ Count(K, j) \in 1..Len(r)
                          /\ r[Count(K, j)] = Put(s, j)
          /\ r \in Seq(Chars)
      BY <1>1, <1>2, ReadIs
    <2>8. a \in K
      <3>1. s[a] # " "
        BY <1>1, <2>2, PlaceIs
      <3> QED
        BY <1>1, <1>2, <2>2, <3>1, StayIs
    <2> HIDE DEF K, r, t
    <2>9. p = Count(K, a - 1) + 1 /\ Count(K, a - 1) \in Nat
      <3>1. p = Count(K, a - 1) + 1
        BY <2>2, <2>3, <2>8, CountOwn
      <3>2. a - 1 \in Nat
        BY <2>2
      <3> QED
        BY <3>1, <3>2, CountStep
    <2>10. a \in Nat \ {0} /\ b \in Nat
      BY <2>2
    <2>11. Inputs!Cardinality(places) = q - (p - 1)
      <3>1. Inputs!Cardinality(K \cap (a..b)) = Count(K, b) - Count(K, a - 1)
        BY <2>2, <2>10, CountFrom
      <3>2. Inputs!Cardinality(places) = Inputs!Cardinality(K \cap (a..b))
        BY <2>6
      <3>3. Count(K, a - 1) = p - 1 /\ Count(K, b) = q
        BY <2>3, <2>9
      <3> QED
        BY <3>1, <3>2, <3>3, Zenon
    <2>12. ASSUME NEW i \in places PROVE t[Inputs!Cardinality(places \cap (1..i))] = Put(s, i)
      <3>1. i \in K /\ i \in a..b /\ i \in Nat /\ a <= i
        BY <2>6, <2>10
      <3>2. places \cap (1..i) = K \cap (a..i)
        <4>1. (a..b) \cap (1..i) = a..i
          BY <2>10, <3>1
        <4> QED
          BY <2>6, <4>1
      <3>3. Inputs!Cardinality(K \cap (a..i)) = Count(K, i) - Count(K, a - 1)
        BY <2>10, <3>1, CountFrom
      <3>4. PICK c \in Nat : c = Count(K, i)
        BY <3>1, CountStep
      <3>5. p <= c /\ c <= q
        <4>1. a \in 0..i /\ i \in 0..b
          BY <2>10, <3>1
        <4>2. Count(K, a) <= Count(K, i) /\ Count(K, i) <= Count(K, b)
          BY <2>10, <3>1, <4>1, CountGrows
        <4> QED
          BY <2>3, <3>4, <4>2
      <3>6. PICK k : k = c - (p - 1)
        OBVIOUS
      <3>7. p \in Nat /\ q \in Nat /\ c \in Nat
        BY <2>4, <3>4
      <3>8. k \in 1..(q - p + 1) /\ k + p - 1 = c
        BY <3>5, <3>6, <3>7
      <3>9. t[k] = r[c]
        BY <2>5, <3>8
      <3>10. r[c] = Put(s, i)
        BY <2>7, <3>1, <3>4
      <3>11. Inputs!Cardinality(places \cap (1..i)) = k
        <4>1. Count(K, a - 1) = p - 1 /\ Count(K, i) = c
          BY <2>9, <3>4
        <4> QED
          BY <3>2, <3>3, <3>6, <4>1, Zenon
      <3> QED
        BY <3>9, <3>10, <3>11
    <2>13. Len(t) = Inputs!Cardinality(places)
      <3>1. p \in Nat /\ q \in Nat
        BY <2>4
      <3> QED
        BY <2>5, <2>11, <3>1
    <2> QED
      BY <1>4, <2>12, <2>13 DEF t
  <1> QED
    BY <1>3, <1>4

\* What the dialog suggests, for a folder's name of any length.
LEMMA SuggestionUsable ==
    ASSUME dFolder \in Seq(Inputs!Kinds)
    PROVE  Inputs!SuggestionIsUsable
  <1> DEFINE s == dFolder
             L == {i \in DOMAIN s : s[i] \in {"letter", "foreign"}}
             St(i) == s[i] # " " \/ s[i - 1] \in {"letter", "foreign"} \cup {"."}
             places == {i \in Inputs!Min(L)..Inputs!Max(L) : St(i)}
  <1>1. DOMAIN s = 1..Len(s)
    OBVIOUS
  <1>2. s \in Seq(Chars)
    <2>1. Inputs!Kinds \subseteq Chars
      BY DEF Chars
    <2> QED
      BY <2>1
  <1>3. Inputs!suggestRepoName(Inputs!suggestRepoName(s)) = Inputs!suggestRepoName(s)
    BY <1>2, SuggestionStays
  <1>4. "foreign" \notin Inputs!ToSet(s) =>
            Inputs!suggestRepoName(s) = <<>> \/ Inputs!isValidGithubName(Inputs!suggestRepoName(s))
    <2> SUFFICES ASSUME "foreign" \notin Inputs!ToSet(s)
                 PROVE  \/ Inputs!suggestRepoName(s) = <<>>
                        \/ Inputs!isValidGithubName(Inputs!suggestRepoName(s))
      OBVIOUS
    <2>1. \A i \in 1..Len(s) : s[i] # "foreign"
      BY <1>1 DEF Inputs!ToSet
    <2> QED
      BY <2>1, SuggestionIsValid
  <1>5. L = {i \in 1..Len(s) : s[i] \in Letters}
    BY <1>1 DEF Letters
  <1>6. places = {i \in Inputs!Min(L)..Inputs!Max(L) : Stays(s, i)}
    BY DEF Stays, Letters
  <1>7. IF L = {} THEN Inputs!suggestRepoName(s) = <<>>
        ELSE /\ Len(Inputs!suggestRepoName(s)) = Inputs!Cardinality(places)
             /\ \A i \in places :
                   Inputs!suggestRepoName(s)[Inputs!Cardinality(places \cap (1..i))] = Put(s, i)
    <2> HIDE DEF L, places
    <2>1. L = LettersOf(s) /\ places = PlacesOf(s, L)
      BY <1>5, <1>6 DEF LettersOf, PlacesOf
    <2> QED
      BY <2>1, SuggestionKeeps
  <1> QED
    BY <1>3, <1>4, <1>7, Zenon DEF Inputs!SuggestionIsUsable, Put

\* A text is a sequence of at most MaxFolder characters.
LEMMA TextsAre ==
    ASSUME MaxFolder \in Nat
    PROVE  \A s : s \in Inputs!Texts <=> s \in Seq(Chars) /\ Len(s) <= MaxFolder
  <1>1. Inputs!Texts = UNION {[1..n -> Chars] : n \in 0..MaxFolder}
    BY DEF Inputs!Texts, Chars
  <1> SUFFICES ASSUME NEW s
               PROVE  s \in Inputs!Texts <=> s \in Seq(Chars) /\ Len(s) <= MaxFolder
    OBVIOUS
  <1>2. ASSUME s \in Inputs!Texts PROVE s \in Seq(Chars) /\ Len(s) <= MaxFolder
    <2>1. PICK n \in 0..MaxFolder : s \in [1..n -> Chars]
      BY <1>1, <1>2
    <2>2. n \in Nat /\ n <= MaxFolder
      BY <2>1
    <2>3. s \in Seq(Chars) /\ Len(s) = n
      BY <2>1, <2>2
    <2> QED
      BY <2>2, <2>3
  <1>3. ASSUME s \in Seq(Chars), Len(s) <= MaxFolder PROVE s \in Inputs!Texts
    <2>1. PICK n \in Nat : n = Len(s)
      BY <1>3
    <2>2. s \in [1..n -> Chars] /\ n \in 0..MaxFolder
      BY <1>3, <2>1
    <2> QED
      BY <1>1, <2>2
  <1> QED
    BY <1>2, <1>3

\* So is a folder's name.
LEMMA FoldersAre ==
    ASSUME MaxFolder \in Nat,
           NEW s \in UNION {[1..n -> Inputs!Kinds] : n \in 0..MaxFolder}
    PROVE  s \in Seq(Inputs!Kinds) /\ Len(s) <= MaxFolder
  <1>1. PICK n \in 0..MaxFolder : s \in [1..n -> Inputs!Kinds]
    OBVIOUS
  <1>2. n \in Nat /\ n <= MaxFolder
    BY <1>1
  <1>3. s \in Seq(Inputs!Kinds) /\ Len(s) = n
    BY <1>1, <1>2
  <1> QED
    BY <1>2, <1>3

\* The suggestion for a folder is a text too.
LEMMA FolderIsText ==
    ASSUME MaxFolder \in Nat, NEW s \in Seq(Inputs!Kinds), Len(s) <= MaxFolder
    PROVE  s \in Seq(Chars) /\ s \in Inputs!Texts /\ Inputs!suggestRepoName(s) \in Inputs!Texts
  <1>1. Inputs!Kinds \subseteq Chars
    BY DEF Chars
  <1>2. s \in Seq(Chars)
    BY <1>1
  <1>3. PICK t : t = Inputs!suggestRepoName(s)
    OBVIOUS
  <1>4. t \in Seq(Chars) /\ Len(t) \in Nat /\ Len(t) <= Len(s)
    BY <1>2, <1>3, SuggestionHas
  <1>5. Len(t) <= MaxFolder
    BY <1>4
  <1> QED
    BY <1>2, <1>3, <1>4, <1>5, TextsAre

\* The suggestion has no blank to trim.
LEMMA SuggestionIsTrimmed ==
    ASSUME NEW s \in Seq(Chars)
    PROVE  Inputs!trimmed(Inputs!suggestRepoName(s)) = Inputs!suggestRepoName(s)
  <1>1. PICK t : t = Inputs!suggestRepoName(s)
    OBVIOUS
  <1>2. t \in Seq(Chars) /\ NoBlank(t) /\ Len(t) \in Nat
    BY <1>1, SuggestionHas
  <1>3. t # <<>> => t[1] \notin {" "} /\ t[Len(t)] \notin {" "}
    <2> SUFFICES ASSUME t # <<>> PROVE t[1] \notin {" "} /\ t[Len(t)] \notin {" "}
      OBVIOUS
    <2>1. Len(t) # 0
      BY <1>2
    <2>2. 1 \in 1..Len(t) /\ Len(t) \in 1..Len(t)
      BY <1>2, <2>1
    <2> QED
      BY <1>2, <2>2 DEF NoBlank
  <1>4. Inputs!Strip(t, {" "}) = t
    BY <1>2, <1>3, StripFixes
  <1> QED
    BY <1>1, <1>4 DEF Inputs!trimmed

\* The rows that may be current.
LEMMA AtMostOne ==
    /\ Inputs!Cardinality({}) <= 1
    /\ \A r : Inputs!Cardinality({r}) <= 1
  <1>1. Cardinality({}) = 0 /\ \A r : Cardinality({r}) = 1
    BY FS_EmptySet, FS_Singleton
  <1>2. Inputs!Cardinality({}) = 0 /\ \A r : Inputs!Cardinality({r}) = 1
    BY <1>1, SameCardinality
  <1>3. 0 <= 1 /\ 1 <= 1
    OBVIOUS
  <1> QED
    BY <1>2, <1>3, Zenon

Accounts == {<<"letter">>, <<"letter", "-", "letter">>}
Names == {<<>>, <<"LETTER">>, <<"letter", ".">>, <<" ", "letter", " ">>,
          <<"foreign">>, <<".", ".">>}

\* What the user types is a text.
LEMMA TypedAreTexts == MaxFolder \in Nat /\ Names \subseteq Inputs!Texts
  BY InputsAssumption DEF Inputs!PublishDialogAssumption, Names

\* What holds of the dialog in every state.
DialogInv ==
    /\ Inputs!TypeOK
    /\ dFolder \in Seq(Inputs!Kinds)
    /\ dState = "accepted" => dOk /\ Inputs!Acceptable
    /\ dMode = "CreateNew" /\ dTouched /\ dOk => dWarning = "none"
    /\ dWarning = "none" => ~Inputs!Collides(Inputs!trimmed(dName))
    /\ dCurrent \subseteq dSearch

\* The label has one of its four states, and without one the name is free.
LEMMA WarningIs ==
    \A n, chosen : /\ Inputs!WarningFor(n, chosen) \in {"none", "collision", "invalid", "template"}
                   /\ Inputs!WarningFor(n, chosen) = "none" => ~Inputs!Collides(n)
  BY Zenon DEF Inputs!WarningFor

\* The button is enabled or it is not.
LEMMA OkIs ==
    \A m, n, labelled, row : Inputs!OkFor(m, n, labelled, row) \in BOOLEAN
  BY Zenon DEF Inputs!OkFor, Inputs!isValidGithubName

\* It is not enabled for a name with a label.
LEMMA OkIsUnlabelled ==
    \A m, n, labelled, row : m = "CreateNew" /\ Inputs!OkFor(m, n, labelled, row) => ~labelled
  BY Zenon DEF Inputs!OkFor

\* The invariant holds of the dialog when it opens ...
LEMMA DialogInvInit == Inputs!Init => DialogInv
  <1> SUFFICES ASSUME Inputs!Init PROVE DialogInv
    OBVIOUS
  <1>0. MaxFolder \in Nat
    BY TypedAreTexts
  <1>1. dFolder \in Seq(Inputs!Kinds) /\ Len(dFolder) <= MaxFolder
    BY <1>0, FoldersAre DEF Inputs!Init
  <1>2. dFolder \in Seq(Chars) /\ dFolder \in Inputs!Texts /\ dName \in Inputs!Texts
    BY <1>0, <1>1, FolderIsText DEF Inputs!Init
  <1>3. Inputs!trimmed(dName) = dName
    BY <1>2, SuggestionIsTrimmed DEF Inputs!Init
  <1>4. /\ dWarning \in {"none", "collision", "invalid", "template"}
        /\ dWarning = "none" => ~Inputs!Collides(Inputs!trimmed(dName))
    BY <1>3, WarningIs, Zenon DEF Inputs!Init
  <1>5. dOk \in BOOLEAN
    <2>1. dOk = Inputs!OkFor("CreateNew", dName, FALSE, {})
      BY Zenon DEF Inputs!Init
    <2>2. Inputs!OkFor("CreateNew", dName, FALSE, {}) \in BOOLEAN
      BY OkIs, Zenon
    <2> HIDE DEF Inputs!OkFor
    <2> QED
      BY <2>1, <2>2
  <1>6. Inputs!TypeOK
    BY <1>2, <1>4, <1>5, AtMostOne DEF Inputs!Init, Inputs!TypeOK
  <1> QED
    BY <1>1, <1>4, <1>6 DEF DialogInv, Inputs!Init

\* What a change of the button's inputs keeps.
LEMMA UpdateKeeps ==
    ASSUME dMode' \in {"CreateNew", "LinkExisting"}, Inputs!UpdateOkState
    PROVE  dOk' \in BOOLEAN /\ (dMode' = "CreateNew" /\ dOk' => dWarning' = "none")
  <1>1. (dWarning' # "none") \in BOOLEAN
    OBVIOUS
  <1>2. dOk' = Inputs!OkFor(dMode', Inputs!trimmed(dName'), dWarning' # "none", dCurrent')
    BY Zenon DEF Inputs!UpdateOkState
  <1>3. dOk' \in BOOLEAN
    <2>1. Inputs!OkFor(dMode', Inputs!trimmed(dName'), dWarning' # "none", dCurrent') \in BOOLEAN
      BY OkIs, Zenon
    <2> QED
      BY <1>2, <2>1
  <1>4. dMode' = "CreateNew" /\ dOk' => ~(dWarning' # "none")
    BY <1>2, OkIsUnlabelled, Zenon
  <1> QED
    BY <1>3, <1>4

\* A change of the name or of a template keeps the invariant.
LEMMA PreviewKeeps ==
    ASSUME DialogInv, dState = "open", Inputs!refreshPreview, dName' \in Inputs!Texts,
           dTemplate' \in BOOLEAN
    PROVE  DialogInv'
  <1>1. /\ dMode' = dMode /\ dSearch' = dSearch /\ dCurrent' = dCurrent /\ dState' = dState
        /\ dTouched' = TRUE /\ dFolder' = <<>>
        /\ dWarning' = Inputs!WarningFor(Inputs!trimmed(dName'), dTemplate')
        /\ Inputs!UpdateOkState
    BY DEF Inputs!refreshPreview, Inputs!Touch
  <1>2. dWarning' \in {"none", "collision", "invalid", "template"}
        /\ (dWarning' = "none" => ~Inputs!Collides(Inputs!trimmed(dName')))
    BY <1>1, WarningIs, Zenon
  <1>3. dMode \in {"CreateNew", "LinkExisting"}
    BY DEF DialogInv, Inputs!TypeOK
  <1>4. dOk' \in BOOLEAN /\ (dMode' = "CreateNew" /\ dOk' => dWarning' = "none")
    BY <1>1, <1>3, UpdateKeeps
  <1>5. dFolder' \in Seq(Inputs!Kinds) /\ dFolder' \in Inputs!Texts
    <2>1. <<>> \in Seq(Inputs!Kinds) /\ <<>> \in Seq(Chars) /\ Len(<<>>) = 0
      OBVIOUS
    <2>2. 0 <= MaxFolder
      BY TypedAreTexts
    <2>3. <<>> \in Inputs!Texts
      BY <2>1, <2>2, TypedAreTexts, TextsAre
    <2> QED
      BY <1>1, <2>1, <2>3
  <1>6. Inputs!TypeOK'
    BY <1>1, <1>2, <1>4, <1>5 DEF DialogInv, Inputs!TypeOK
  <1> QED
    BY <1>1, <1>2, <1>4, <1>5, <1>6 DEF DialogInv

\* ... and every step of the dialog keeps it.
LEMMA DialogInvNext == DialogInv /\ [Inputs!Next]_dialogVars => DialogInv'
  <1> SUFFICES ASSUME DialogInv, [Inputs!Next]_dialogVars PROVE DialogInv'
    OBVIOUS
  <1>1. CASE Inputs!NameChanged
    <2>1. dName' \in Names /\ dTemplate' = dTemplate /\ dState = "open" /\ Inputs!refreshPreview
      BY <1>1 DEF Inputs!NameChanged, Names
    <2>2. dName' \in Inputs!Texts
      BY <2>1, TypedAreTexts
    <2>3. dTemplate' \in BOOLEAN
      BY <2>1 DEF DialogInv, Inputs!TypeOK
    <2> QED
      BY <2>1, <2>2, <2>3, PreviewKeeps
  <1>2. CASE Inputs!TemplateChanged
    <2>1. dName' = dName /\ dTemplate' = ~dTemplate /\ dState = "open" /\ Inputs!refreshPreview
      BY <1>2 DEF Inputs!TemplateChanged
    <2>2. dName' \in Inputs!Texts /\ dTemplate' \in BOOLEAN
      BY <2>1 DEF DialogInv, Inputs!TypeOK
    <2> QED
      BY <2>1, <2>2, PreviewKeeps
  <1>3. CASE Inputs!onModeChanged
    <2>1. /\ dState = "open" /\ dMode' \in {"CreateNew", "LinkExisting"}
          /\ dTouched' = TRUE /\ dFolder' = <<>>
          /\ dName' = dName /\ dTemplate' = dTemplate /\ dWarning' = dWarning
          /\ dSearch' = dSearch /\ dCurrent' = dCurrent /\ dState' = dState
          /\ Inputs!UpdateOkState
      BY <1>3 DEF Inputs!onModeChanged, Inputs!Touch
    <2>2. dOk' \in BOOLEAN /\ (dMode' = "CreateNew" /\ dOk' => dWarning' = "none")
      BY <2>1, UpdateKeeps
    <2>3. dFolder' \in Seq(Inputs!Kinds) /\ dFolder' \in Inputs!Texts
      <3>1. <<>> \in Seq(Inputs!Kinds) /\ <<>> \in Seq(Chars) /\ Len(<<>>) = 0
        OBVIOUS
      <3>2. 0 <= MaxFolder
        BY TypedAreTexts
      <3>3. <<>> \in Inputs!Texts
        BY <3>1, <3>2, TypedAreTexts, TextsAre
      <3> QED
        BY <2>1, <3>1, <3>3
    <2>4. Inputs!TypeOK'
      BY <2>1, <2>2, <2>3 DEF DialogInv, Inputs!TypeOK
    <2> QED
      BY <2>1, <2>2, <2>3, <2>4 DEF DialogInv
  <1>4. CASE Inputs!onSearchChanged
    <2>1. /\ dState = "open" /\ dMode = "LinkExisting" /\ dCurrent' = {}
          /\ dSearch' \in SUBSET Accounts
          /\ UNCHANGED <<dFolder, dMode, dName, dTemplate, dWarning, dOk, dState, dTouched>>
      BY <1>4 DEF Inputs!onSearchChanged, Accounts
    <2>2. Inputs!TypeOK'
      BY <2>1, AtMostOne DEF DialogInv, Inputs!TypeOK, Accounts
    <2>3. dCurrent' \subseteq dSearch'
      BY <2>1
    <2> QED
      BY <2>1, <2>2, <2>3 DEF DialogInv
  <1>5. CASE Inputs!onExistingSelectionChanged
    <2>1. /\ dState = "open" /\ dMode = "LinkExisting"
          /\ \E r \in dSearch : dCurrent' = {r}
          /\ UNCHANGED <<dFolder, dMode, dName, dTemplate, dWarning, dSearch, dState, dTouched>>
          /\ Inputs!UpdateOkState
      BY <1>5 DEF Inputs!onExistingSelectionChanged
    <2>2. dOk' \in BOOLEAN
      BY <2>1, UpdateKeeps
    <2>3. PICK r \in dSearch : dCurrent' = {r}
      BY <2>1
    <2>4. Inputs!Cardinality(dCurrent') <= 1
      BY <2>3, AtMostOne
    <2>5. Inputs!TypeOK'
      BY <2>1, <2>2, <2>3, <2>4 DEF DialogInv, Inputs!TypeOK
    <2>6. dCurrent' \subseteq dSearch'
      BY <2>1, <2>3
    <2> QED
      BY <2>1, <2>5, <2>6 DEF DialogInv
  <1>6. CASE Inputs!onAccept
    <2>1. /\ dOk /\ Inputs!Acceptable /\ dState' = "accepted"
          /\ UNCHANGED <<dFolder, dMode, dName, dTemplate, dWarning, dSearch, dCurrent, dOk,
                      dTouched>>
      BY <1>6 DEF Inputs!onAccept
    <2>2. Inputs!TypeOK'
      BY <2>1 DEF DialogInv, Inputs!TypeOK
    <2>3. Inputs!Acceptable'
      BY <2>1 DEF Inputs!Acceptable
    <2> QED
      BY <2>1, <2>2, <2>3 DEF DialogInv
  <1>7. CASE Inputs!reject
    <2>1. /\ dState' = "rejected"
          /\ UNCHANGED <<dFolder, dMode, dName, dTemplate, dWarning, dSearch, dCurrent, dOk,
                      dTouched>>
      BY <1>7 DEF Inputs!reject
    <2>2. Inputs!TypeOK'
      BY <2>1 DEF DialogInv, Inputs!TypeOK
    <2> QED
      BY <2>1, <2>2 DEF DialogInv
  <1>8. CASE UNCHANGED dialogVars
    <2>1. UNCHANGED <<dFolder, dMode, dName, dTemplate, dWarning, dSearch, dCurrent, dOk, dState,
                      dTouched>>
      BY <1>8 DEF dialogVars
    <2>2. Inputs!TypeOK' /\ Inputs!Acceptable' = Inputs!Acceptable
      BY <2>1 DEF DialogInv, Inputs!TypeOK, Inputs!Acceptable
    <2> QED
      BY <2>1, <2>2 DEF DialogInv
  <1> QED
    BY <1>1, <1>2, <1>3, <1>4, <1>5, <1>6, <1>7, <1>8 DEF Inputs!Next

\* What the invariant says of the inputs.
LEMMA DialogInvUsable == DialogInv => InputsAreUsable
  <1> SUFFICES ASSUME DialogInv PROVE InputsAreUsable
    OBVIOUS
  <1>1. Inputs!SuggestionIsUsable
    BY SuggestionUsable DEF DialogInv
  <1>2. Inputs!AcceptedIsUsable
    BY DEF DialogInv, Inputs!AcceptedIsUsable, Inputs!Acceptable
  <1> QED
    BY <1>1, <1>2 DEF InputsAreUsable, DialogInv

\* The dialog's inputs: see InputsAreUsable.  For names of any length.
THEOREM DialogInputs == PublishSpec => []InputsAreUsable
  <1>1. PublishInit => DialogInv
    BY DialogInvInit DEF PublishInit
  <1>2. DialogInv /\ [PublishNext]_<<moving, vars, dialogVars>> => DialogInv'
    <2> SUFFICES ASSUME DialogInv, [PublishNext]_<<moving, vars, dialogVars>> PROVE DialogInv'
      OBVIOUS
    <2>1. [Inputs!Next]_dialogVars
      <3>1. CASE PublishNext
        BY <3>1 DEF PublishNext
      <3>2. CASE UNCHANGED <<moving, vars, dialogVars>>
        BY <3>2
      <3> QED
        BY <3>1, <3>2
    <2> QED
      BY <2>1, DialogInvNext
  <1> QED
    BY <1>1, <1>2, DialogInvUsable, PTL DEF PublishSpec

\* MCPublish moves the flow, or leaves it, as Publish says.
THEOREM PublishSpecImplements == PublishSpec => Spec
  <1>1. PublishInit => Init
    BY DEF PublishInit
  <1>2. [PublishNext]_<<moving, vars, dialogVars>> => [Next]_vars
    BY DEF PublishNext
  <1> QED
    BY <1>1, <1>2, PTL DEF PublishSpec, Spec
-----------------------------------------------------------------------------
(***************************************************************************)
(* The flow.                                                               *)
(***************************************************************************)
ViewOfFolder == view.known => active # NoFolder

IInv == TypeOK /\ FlowConsistent /\ ViewOfFolder

USE NoFolderAssumption, NoRepoAssumption, BoundAssumption

\* The jobs in the pool after a submission, and after a result was taken out.
LEMMA SubmitSet ==
    ASSUME NEW p, NEW S
    PROVE  BagToSet(Submit(p, S)) = BagToSet(p) \cup S
  BY DEF Submit, BagToSet, SetToBag, (+)

LEMMA WithoutSet ==
    ASSUME NEW j
    PROVE  BagToSet(Without(j)) \subseteq Jobs
  BY DEF Without, Jobs, BagToSet, SetToBag, (-)

\* A job made by the controller or the window is a job.
LEMMA NewJobType ==
    ASSUME NEW op \in {"addRemote", "removeRemote", "refresh", "push"},
           NEW f \in Folders, NEW r \in Repos \cup {NoRepo},
           NEW n \in 0..MaxStarts
    PROVE  NewJob(op, f, r, n) \in Job
  BY DEF NewJob, Job

LEMMA RefreshType ==
    ASSUME NEW f \in Folders, NEW n \in 0..MaxStarts
    PROVE  Refresh(f, n) \in Job
  BY NewJobType DEF Refresh

THEOREM InitInv == Init => IInv
  <1> SUFFICES ASSUME Init PROVE IInv
    OBVIOUS
  <1>1. Jobs = {}
    BY DEF Init, Jobs, BagToSet, EmptyBag, SetToBag
  <1>2. NoFlow \in Flow /\ NoView \in View /\ NoAttempt \in Attempt
    BY DEF NoFlow, Flow, Steps, NoView, View, NoAttempt, Attempt, Outcomes
  <1>5. TypeOK
    <2>1. /\ flow \in Flow /\ watchdog \in BOOLEAN /\ view \in View
          /\ attempts \in [1..MaxStarts -> Attempt]
      BY <1>2 DEF Init
    <2>2. /\ requests \subseteq Request /\ query \in BOOLEAN /\ github \subseteq Repos
          /\ Jobs \subseteq Job /\ pushed \subseteq Folders \X Repos
          /\ head \in [Folders -> Heads]
      BY <1>1 DEF Init
    <2>3. /\ origin \in [Folders -> Repos \cup {NoRepo}]
          /\ active \in Folders \cup {NoFolder} /\ busy \in BOOLEAN
          /\ localPathOf \in [Repos -> Folders \cup {NoFolder}]
      BY DEF Init
    <2>4. started \in 0..MaxStarts /\ userOps \in 0..MaxUserOps
      BY DEF Init
    <2> QED
      BY <2>1, <2>2, <2>3, <2>4 DEF TypeOK
  <1>3. FlowConsistent
    BY DEF Init, FlowConsistent, NoFlow, NoAttempt, isActive
  <1>4. ViewOfFolder
    BY DEF Init, ViewOfFolder, NoView
  <1> QED
    BY <1>5, <1>3, <1>4 DEF IInv

\* TypeOK in two parts: the flow, and everything around it.
FlowType ==
    flow \in Flow /\ watchdog \in BOOLEAN /\ attempts \in [1..MaxStarts -> Attempt]

RestType ==
    /\ requests \subseteq Request /\ query \in BOOLEAN /\ github \subseteq Repos
    /\ Jobs \subseteq Job
    /\ origin \in [Folders -> Repos \cup {NoRepo}]
    /\ head \in [Folders -> Heads] /\ pushed \subseteq Folders \X Repos
    /\ active \in Folders \cup {NoFolder} /\ busy \in BOOLEAN /\ view \in View
    /\ localPathOf \in [Repos -> Folders \cup {NoFolder}]
    /\ started \in 0..MaxStarts /\ userOps \in 0..MaxUserOps

\* How each of the ways a handler treats the flow preserves its part of IInv.
LEMMA FinishLemma ==
    ASSUME TypeOK, FlowConsistent, isActive, started' = started,
           NEW result \in Outcomes \ {"pending"}, NEW stray \in BOOLEAN,
           Finish(result, stray)
    PROVE  FlowType' /\ FlowConsistent'
  <1> USE DEF Finish, Reset, TypeOK
  <1>1. flow' \in Flow /\ watchdog' \in BOOLEAN
    BY DEF NoFlow, Flow, Steps
  <1>2. flow.repo \in Repos \cup {NoRepo} /\ attempts[started] \in Attempt
        /\ started \in 1..MaxStarts
    BY DEF FlowConsistent, Flow
  <1>3. attempts' \in [1..MaxStarts -> Attempt]
    BY <1>2 DEF Attempt, Outcomes
  <1>4. \A n \in 1..MaxStarts : attempts'[n].outcome = "pending" <=> n > started
    BY <1>2 DEF FlowConsistent, Attempt
  <1>5. FlowConsistent'
    BY <1>4 DEF FlowConsistent, isActive, NoFlow
  <1> QED
    BY <1>1, <1>3, <1>5 DEF FlowType

LEMMA AdvanceLemma ==
    ASSUME TypeOK, FlowConsistent, isActive, started' = started,
           NEW next \in Steps \ {"Idle"}, NEW repo \in Repos, NEW stray \in BOOLEAN,
           Advance(next, repo, stray),
           localPathOf'[repo] = flow.path,
           next \in {"RefreshingState", "Pushing"} => flow.pushAfter
    PROVE  FlowType' /\ FlowConsistent'
  <1> USE DEF Advance, TransitionTo, TypeOK
  <1>1. flow' \in Flow /\ watchdog' \in BOOLEAN
    BY DEF Flow
  <1>2. flow'.step = next /\ flow'.repo = repo /\ flow'.path = flow.path
        /\ flow'.pushAfter = flow.pushAfter
    BY DEF Flow
  <1>3. attempts[started] \in Attempt /\ started \in 1..MaxStarts
    BY DEF FlowConsistent
  <1>4. attempts' \in [1..MaxStarts -> Attempt]
    BY <1>3 DEF Attempt
  <1>5. \A n \in 1..MaxStarts :
                              /\ attempts'[n].outcome = attempts[n].outcome
                              /\ attempts'[n].folder = attempts[n].folder
                              /\ attempts'[n].pushAfter = attempts[n].pushAfter
    BY <1>3 DEF Attempt
  <1>6. FlowConsistent'
    BY <1>2, <1>3, <1>5 DEF FlowConsistent, isActive
  <1> QED
    BY <1>1, <1>4, <1>6 DEF FlowType

LEMMA IgnoredLemma ==
    ASSUME TypeOK, FlowConsistent, UNCHANGED <<flowVars, started, localPathOf>>
    PROVE  FlowType' /\ FlowConsistent'
  BY DEF TypeOK, FlowType, FlowConsistent, isActive, flowVars

LEMMA BeginLemma ==
    ASSUME IInv, NEW step \in Steps \ {"Idle"}, NEW r \in Repos \cup {NoRepo},
           NEW p \in BOOLEAN, Begin(step, r, p),
           step \notin {"RefreshingState", "Pushing"},
           step = "AddingRemote" => r \in Repos /\ localPathOf'[r] = active
    PROVE  /\ FlowType' /\ FlowConsistent' /\ active \in Folders
           /\ started' \in 1..MaxStarts /\ busy' \in BOOLEAN
  <1> USE DEF Begin, MayStart, IInv, TypeOK
  <1>1. active \in Folders /\ started' \in 1..MaxStarts /\ started' = started + 1
    BY DEF ViewOfFolder
  <1>2. NewAttempt(p) \in Attempt /\ NewAttempt(p).outcome = "pending"
        /\ NewAttempt(p).folder = active /\ NewAttempt(p).pushAfter = p
    BY <1>1 DEF NewAttempt, NoAttempt, Attempt, Outcomes
  <1>3. FlowType'
    BY <1>1, <1>2 DEF FlowType, Flow
  <1>4. \A n \in 1..MaxStarts : n # started' => attempts'[n] = attempts[n]
    BY <1>1
  <1>5. \A n \in 1..MaxStarts : attempts[n].outcome = "pending" <=> n > started
    BY DEF FlowConsistent
  <1>6. attempts'[started'] = NewAttempt(p)
    BY <1>1
  <1>7. \A n \in 1..MaxStarts : attempts'[n].outcome = "pending" <=> n >= started'
    BY <1>1, <1>2, <1>4, <1>5, <1>6
  <1>8. FlowConsistent'
    BY <1>1, <1>2, <1>6, <1>7 DEF FlowConsistent, isActive
  <1> QED
    BY <1>1, <1>3, <1>8

\* The step lemma of every action: the flow part comes from the lemmas above,
\* the rest from the ranges of the action's parameters.
LEMMA Combine ==
    ASSUME FlowType', FlowConsistent', RestType', ViewOfFolder'
    PROVE  IInv'
  BY DEF IInv, TypeOK, FlowType, RestType

LEMMA StartStep == ASSUME IInv, Start PROVE IInv'
  <1> USE DEF IInv
  <1>1. ASSUME NEW r \in Repos, NEW p \in BOOLEAN, StartCreate(r, p) PROVE IInv'
    <2>1. FlowType' /\ FlowConsistent' /\ active \in Folders
          /\ started' \in 1..MaxStarts /\ busy' \in BOOLEAN
      BY <1>1, BeginLemma DEF StartCreate, Steps
    <2>2. [by |-> started + 1, repo |-> r, res |-> "sent"] \in Request
      BY <1>1, <2>1 DEF StartCreate, Begin, Request
    <2>3. requests' \subseteq Request
      BY <1>1, <2>2 DEF StartCreate, TypeOK
    <2>4. RestType'
      <3>1. UNCHANGED <<query, github, Jobs, origin, head, pushed, active, view,
                        localPathOf, userOps>>
        BY <1>1 DEF StartCreate, gitVars, Jobs
      <3> QED
        BY <2>1, <2>3, <3>1 DEF TypeOK, RestType
    <2> QED
      BY <1>1, <2>1, <2>4, Combine DEF StartCreate, ViewOfFolder
  <1>2. ASSUME NEW r \in Repos, NEW p \in BOOLEAN, StartExisting(r, p) PROVE IInv'
    <2>0. localPathOf'[r] = active
      BY <1>2 DEF StartExisting, RememberLocalPath, TypeOK
    <2>1. FlowType' /\ FlowConsistent' /\ active \in Folders
          /\ started' \in 1..MaxStarts /\ busy' \in BOOLEAN
      BY <1>2, <2>0, BeginLemma DEF StartExisting, Steps
    <2>2. started' = started + 1
      BY <1>2 DEF StartExisting, Begin
    <2>3. NewJob("addRemote", active, r, started + 1) \in Job
      BY <2>1, <2>2, NewJobType
    <2>4. Jobs' \subseteq Job
      BY <1>2, <2>3, SubmitSet DEF StartExisting, TypeOK, Jobs
    <2>5. RestType'
      BY <1>2, <2>1, <2>4 DEF StartExisting, RememberLocalPath, TypeOK, RestType,
                              gitVars, netVars
    <2> QED
      BY <1>2, <2>1, <2>5, Combine DEF StartExisting, ViewOfFolder
  <1>3. ASSUME StartRejected PROVE IInv'
    <2> USE <1>3 DEF StartRejected, MayStart
    <2>1. active \in Folders /\ started' \in 1..MaxStarts /\ started' = started + 1
      BY DEF ViewOfFolder, TypeOK
    <2>2. [NewAttempt(TRUE) EXCEPT !.outcome = "rejected"] \in Attempt
          /\ [NewAttempt(TRUE) EXCEPT !.outcome = "rejected"].outcome = "rejected"
      BY <2>1 DEF NewAttempt, NoAttempt, Attempt, Outcomes
    <2>3. FlowType'
      BY <2>1, <2>2 DEF TypeOK, FlowType
    <2>4. \A n \in 1..MaxStarts : attempts'[n].outcome = "pending" <=> n > started'
      BY <2>1, <2>2 DEF TypeOK, FlowConsistent
    <2>5. FlowConsistent'
      BY <2>1, <2>4 DEF FlowConsistent, TypeOK, isActive
    <2>6. Jobs' \subseteq Job
      BY <2>1, RefreshType, SubmitSet DEF TypeOK, Jobs
    <2>7. /\ UNCHANGED <<requests, query, github, origin, head, pushed, active, view,
                          localPathOf, userOps>>
          /\ busy' \in BOOLEAN
      BY DEF gitVars, netVars
    <2> HIDE <1>3 DEF StartRejected, MayStart
    <2>8. RestType'
      BY <2>1, <2>6, <2>7 DEF TypeOK, RestType
    <2> QED
      BY <2>3, <2>5, <2>7, <2>8, Combine DEF ViewOfFolder
  <1> QED
    BY <1>1, <1>2, <1>3 DEF Start

LEMMA GitHubStep == ASSUME IInv, GitHub PROVE IInv'
  <1> PICK q \in requests : GitHubCreates(q) \/ GitHubRefuses(q)
    BY DEF GitHub
  <1> USE DEF IInv
  <1>1. UNCHANGED <<flowVars, pool, gitVars, uiVars, localPathOf, started, userOps, query>>
    BY DEF GitHubCreates, GitHubRefuses
  <1>2. requests' \subseteq Request /\ github' \subseteq Repos
    BY DEF GitHubCreates, GitHubRefuses, Answer, TypeOK, Request
  <1>3. FlowType' /\ FlowConsistent'
    BY <1>1, IgnoredLemma
  <1>4. RestType'
    BY <1>1, <1>2 DEF TypeOK, RestType, Jobs, gitVars, uiVars
  <1>5. ViewOfFolder'
    BY <1>1 DEF ViewOfFolder, uiVars
  <1> QED
    BY <1>3, <1>4, <1>5, Combine

\* The jobs MainWindow submits when a flow has ended.
LEMMA FinishJobsType ==
    ASSUME IInv, isActive PROVE FinishJobs \subseteq Job
  BY RefreshType DEF IInv, TypeOK, Flow, isActive, FinishJobs

LEMMA NetworkErrorLemma ==
    ASSUME IInv, NEW own \in BOOLEAN, NetworkErrorInFlow(own),
           UNCHANGED <<started, localPathOf>>
    PROVE  FlowType' /\ FlowConsistent' /\ Jobs' \subseteq Job /\ busy' \in BOOLEAN
  <1> USE DEF IInv
  <1>1. CASE flow.step = "CreatingRepo"
    <2>1. isActive
      BY <1>1 DEF FlowConsistent
    <2>2. Finish("createFailed", ~own) /\ pool' = Submit(pool, FinishJobs) /\ busy' = FALSE
      BY <1>1 DEF NetworkErrorInFlow
    <2>3. FlowType' /\ FlowConsistent'
      BY <2>1, <2>2, FinishLemma DEF Outcomes
    <2> QED
      BY <2>1, <2>2, <2>3, FinishJobsType, SubmitSet DEF TypeOK, Jobs
  <1>2. CASE flow.step # "CreatingRepo"
    BY <1>2, IgnoredLemma DEF NetworkErrorInFlow, TypeOK, Jobs
  <1> QED
    BY <1>1, <1>2

LEMMA ReplyStep == ASSUME IInv, Reply PROVE IInv'
  <1> USE DEF IInv
  <1>1. ASSUME NEW q \in requests, RepositoryCreated(q) PROVE IInv'
    <2> USE <1>1 DEF RepositoryCreated
    <2>1. q \in Request
      BY DEF TypeOK
    <2>2. /\ FlowType' /\ FlowConsistent' /\ Jobs' \subseteq Job /\ busy' \in BOOLEAN
          /\ localPathOf' \in [Repos -> Folders \cup {NoFolder}]
      <3>1. CASE flow.step # "CreatingRepo"
        BY <3>1, IgnoredLemma DEF TypeOK, Jobs
      <3>2. CASE flow.step = "CreatingRepo" /\ q.res = "malformed"
        <4>1. isActive
          BY <3>2 DEF FlowConsistent
        <4>2. FlowType' /\ FlowConsistent'
          BY <3>2, <4>1, FinishLemma DEF Outcomes
        <4> QED
          BY <3>2, <4>1, <4>2, FinishJobsType, SubmitSet DEF TypeOK, Jobs
      <3>3. CASE flow.step = "CreatingRepo" /\ q.res = "created"
        <4>1. isActive /\ flow.path \in Folders /\ q.repo \in Repos
          BY <2>1, <3>3 DEF FlowConsistent, isActive, TypeOK, Flow, Request
        <4>2. localPathOf'[q.repo] = flow.path
              /\ localPathOf' \in [Repos -> Folders \cup {NoFolder}]
          BY <3>3, <4>1 DEF RememberLocalPath, TypeOK
        <4>3. FlowType' /\ FlowConsistent'
          BY <3>3, <4>1, <4>2, AdvanceLemma DEF Steps
        <4>4. Jobs' \subseteq Job
          BY <3>3, <4>1, NewJobType, SubmitSet DEF TypeOK, Jobs
        <4> QED
          BY <3>3, <4>2, <4>3, <4>4 DEF TypeOK
      <3> QED
        BY <3>1, <3>2, <3>3
    <2>3. RestType'
      BY <2>2 DEF TypeOK, RestType, gitVars
    <2> QED
      BY <2>2, <2>3, Combine DEF ViewOfFolder
  <1>2. ASSUME NEW q \in requests, CreateFails(q) PROVE IInv'
    <2> USE <1>2 DEF CreateFails
    <2>1. FlowType' /\ FlowConsistent' /\ Jobs' \subseteq Job /\ busy' \in BOOLEAN
      BY NetworkErrorLemma
    <2>2. RestType'
      BY <2>1 DEF TypeOK, RestType, gitVars
    <2> QED
      BY <2>1, <2>2, Combine DEF ViewOfFolder
  <1>3. ASSUME QueryFails PROVE IInv'
    <2> USE <1>3 DEF QueryFails
    <2>1. FlowType' /\ FlowConsistent' /\ Jobs' \subseteq Job /\ busy' \in BOOLEAN
      BY NetworkErrorLemma
    <2>2. RestType'
      BY <2>1 DEF TypeOK, RestType, gitVars
    <2> QED
      BY <2>1, <2>2, Combine DEF ViewOfFolder
  <1>4. ASSUME QuerySucceeds PROVE IInv'
    <2> USE <1>4 DEF QuerySucceeds
    <2>1. FlowType' /\ FlowConsistent'
      BY IgnoredLemma
    <2>2. RestType'
      BY DEF TypeOK, RestType, gitVars, uiVars, Jobs
    <2> QED
      BY <2>1, <2>2, Combine DEF ViewOfFolder, uiVars
  <1> QED
    BY <1>1, <1>2, <1>3, <1>4 DEF Reply

\* A job that takes effect stays a job, and Meddle marks the newest attempt only.
LEMMA ExecutedType ==
    ASSUME TypeOK, NEW j \in Jobs,
           NEW res \in {"ok", "error", "upstreamError"},
           NEW r \in Repos \cup {NoRepo}, NEW b \in BOOLEAN
    PROVE  /\ [j EXCEPT !.res = res] \in Job
           /\ [j EXCEPT !.res = res, !.repo = r] \in Job
           /\ [j EXCEPT !.res = res, !.repo = r, !.named = b] \in Job
  <1>1. j \in Job
    BY DEF TypeOK
  <1> QED
    BY <1>1 DEF Job

LEMMA ReportType ==
    ASSUME TypeOK, NEW j, NEW k \in Job, Report(j, k)
    PROVE  Jobs' \subseteq Job
  BY SubmitSet, WithoutSet DEF Report, TypeOK, Jobs

LEMMA MeddleLemma ==
    ASSUME TypeOK, FlowConsistent, NEW j \in Jobs, Meddle(j),
           UNCHANGED <<flow, watchdog, started, localPathOf>>
    PROVE  FlowType' /\ FlowConsistent'
  <1> USE DEF TypeOK
  <1>1. CASE isActive /\ flow.path = j.folder /\ j.by # started
    <2>1. started \in 1..MaxStarts
      BY <1>1 DEF FlowConsistent
    <2>2. attempts' = [attempts EXCEPT ![started].meddled = TRUE]
      BY <1>1 DEF Meddle
    <2>3. attempts' \in [1..MaxStarts -> Attempt]
      BY <2>1, <2>2 DEF Attempt
    <2>4. \A n \in 1..MaxStarts :
                                /\ attempts'[n].outcome = attempts[n].outcome
                                /\ attempts'[n].folder = attempts[n].folder
                                /\ attempts'[n].pushAfter = attempts[n].pushAfter
      BY <2>1, <2>2 DEF Attempt
    <2>5. FlowConsistent'
      BY <2>1, <2>4 DEF FlowConsistent, isActive
    <2> QED
      BY <2>3, <2>5 DEF FlowType
  <1>2. CASE ~(isActive /\ flow.path = j.folder /\ j.by # started)
    BY <1>2, IgnoredLemma DEF Meddle, flowVars
  <1> QED
    BY <1>1, <1>2

LEMMA WorkerStep == ASSUME IInv, Worker PROVE IInv'
  <1> PICK j \in Jobs : Execute(j)
    BY DEF Worker
  <1> USE DEF IInv
  <1>1. j \in Job
    BY DEF TypeOK
  <1>2. j.folder \in Folders /\ j.repo \in Repos \cup {NoRepo}
    BY <1>1 DEF Job
  <1>3. ASSUME ExecAddRemote(j) \/ ExecRemoveRemote(j) PROVE IInv'
    <2>1. /\ UNCHANGED <<flow, watchdog, netVars, head, pushed, uiVars, localPathOf,
                         started, userOps>>
          /\ \E res \in {"ok", "error"} : Report(j, [j EXCEPT !.res = res])
          /\ Meddle(j) \/ UNCHANGED attempts
      BY <1>3 DEF ExecAddRemote, ExecRemoveRemote
    <2>2. origin' \in [Folders -> Repos \cup {NoRepo}]
      BY <1>2, <1>3 DEF ExecAddRemote, ExecRemoveRemote, TypeOK
    <2>3. Jobs' \subseteq Job
      BY <2>1, ExecutedType, ReportType
    <2>4. FlowType' /\ FlowConsistent'
      BY <2>1, MeddleLemma, IgnoredLemma DEF flowVars
    <2>5. RestType'
      BY <2>1, <2>2, <2>3 DEF TypeOK, RestType, netVars, uiVars
    <2> QED
      BY <2>1, <2>4, <2>5, Combine DEF ViewOfFolder, uiVars
  <1>4. ASSUME ExecRefresh(j) PROVE IInv'
    <2> USE <1>4 DEF ExecRefresh
    <2>1. origin[j.folder] \in Repos \cup {NoRepo} /\ HeadIsNamed(head[j.folder]) \in BOOLEAN
      BY <1>2 DEF TypeOK, HeadIsNamed
    <2>2. [j EXCEPT !.res = "ok", !.repo = origin[j.folder],
                    !.named = HeadIsNamed(head[j.folder])] \in Job
      BY <1>1, <2>1 DEF Job
    <2>3. Jobs' \subseteq Job
      BY <2>2, ReportType
    <2>4. FlowType' /\ FlowConsistent'
      BY IgnoredLemma
    <2>5. RestType'
      BY <2>3 DEF TypeOK, RestType, netVars, uiVars, gitVars
    <2> QED
      BY <2>4, <2>5, Combine DEF ViewOfFolder, uiVars
  <1>5. ASSUME ExecPush(j) PROVE IInv'
    <2> USE <1>5 DEF ExecPush
    <2>1. origin[j.folder] \in Repos \cup {NoRepo}
      BY <1>2 DEF TypeOK
    <2>2. Jobs' \subseteq Job
      BY <2>1, ExecutedType, ReportType
    <2>3. pushed' \subseteq Folders \X Repos
      BY <1>2, <2>1 DEF TypeOK
    <2>4. FlowType' /\ FlowConsistent'
      BY IgnoredLemma
    <2>5. RestType'
      BY <2>2, <2>3 DEF TypeOK, RestType, netVars, uiVars
    <2> QED
      BY <2>4, <2>5, Combine DEF ViewOfFolder, uiVars
  <1> QED
    BY <1>3, <1>4, <1>5 DEF Execute

LEMMA UserStep == ASSUME IInv, User PROVE IInv'
  <1> USE DEF IInv, User
  <1>1. UNCHANGED <<flowVars, started, localPathOf>> /\ UserOp
    BY DEF ActivateFolder, FirstCommit, ManualRemoteOp, ManualPush, ManualRefresh,
           OtherRequest
  <1>2. FlowType' /\ FlowConsistent'
    BY <1>1, IgnoredLemma
  <1>3. userOps' \in 0..MaxUserOps
    BY <1>1 DEF UserOp, TypeOK
  <1>4. ASSUME NEW f \in Folders, ActivateFolder(f) \/ FirstCommit(f) PROVE IInv'
    <2>1. Jobs' \subseteq Job
      BY <1>4, RefreshType, SubmitSet DEF ActivateFolder, FirstCommit, TypeOK, Jobs
    <2>2. NoView \in View /\ ~NoView.known
      BY DEF NoView, View
    <2>3. ASSUME ActivateFolder(f) PROVE RestType' /\ ViewOfFolder'
      BY <1>1, <1>3, <2>1, <2>2, <2>3 DEF ActivateFolder, TypeOK, RestType, netVars,
         gitVars, ViewOfFolder
    <2>4. ASSUME FirstCommit(f) PROVE RestType' /\ ViewOfFolder'
      <3>1. head' \in [Folders -> Heads]
        BY <2>4 DEF FirstCommit, TypeOK, Heads
      <3> QED
        BY <1>1, <1>3, <2>1, <2>4, <3>1 DEF FirstCommit, TypeOK, RestType, netVars,
           uiVars, ViewOfFolder
    <2> QED
      BY <1>2, <1>4, <2>3, <2>4, Combine
  <1>5. ASSUME NEW r \in Repos \cup {NoRepo}, NEW op \in {"addRemote", "removeRemote"},
               ManualRemoteOp(op, r)
        PROVE  IInv'
    <2>1. active \in Folders
      BY <1>5 DEF ManualRemoteOp, ViewOfFolder, TypeOK
    <2>2. Jobs' \subseteq Job
      BY <1>5, <2>1, NewJobType, SubmitSet DEF ManualRemoteOp, TypeOK, Jobs
    <2>3. RestType' /\ ViewOfFolder'
      BY <1>1, <1>3, <1>5, <2>2 DEF ManualRemoteOp, TypeOK, RestType, netVars, gitVars,
         ViewOfFolder
    <2> QED
      BY <1>2, <2>3, Combine
  <1>6. ASSUME ManualPush \/ ManualRefresh PROVE IInv'
    <2>1. active \in Folders
      BY <1>6 DEF ManualPush, ManualRefresh, ViewOfFolder, TypeOK
    <2>2. NewJob("push", active, NoRepo, 0) \in Job /\ Refresh(active, 0) \in Job
      BY <2>1, NewJobType, RefreshType
    <2>3. Jobs' \subseteq Job
      BY <1>6, <2>2, SubmitSet DEF ManualPush, ManualRefresh, TypeOK, Jobs
    <2>4. RestType' /\ ViewOfFolder'
      BY <1>1, <1>3, <1>6, <2>3 DEF ManualPush, ManualRefresh, TypeOK, RestType,
         netVars, gitVars, uiVars, ViewOfFolder
    <2> QED
      BY <1>2, <2>4, Combine
  <1>7. ASSUME OtherRequest PROVE IInv'
    <2>1. RestType' /\ ViewOfFolder'
      BY <1>1, <1>3, <1>7 DEF OtherRequest, TypeOK, RestType, Jobs, gitVars, uiVars,
         ViewOfFolder
    <2> QED
      BY <1>2, <2>1, Combine
  <1> QED
    BY <1>4, <1>5, <1>6, <1>7

LEMMA WatchdogStep == ASSUME IInv, WatchdogTimeout PROVE IInv'
  <1> USE DEF IInv, WatchdogTimeout
  <1>1. isActive
    BY DEF FlowConsistent
  <1>2. FlowType' /\ FlowConsistent'
    BY <1>1, FinishLemma DEF Outcomes
  <1>3. Jobs' \subseteq Job
    BY <1>1, FinishJobsType, SubmitSet DEF TypeOK, Jobs
  <1>4. RestType'
    BY <1>3 DEF TypeOK, RestType, netVars, gitVars
  <1> QED
    BY <1>2, <1>4, Combine DEF ViewOfFolder

\* The three handlers of worker results.
LEMMA FlowHandlers ==
    ASSUME IInv, NEW j \in Jobs, UNCHANGED <<started, localPathOf>>
    PROVE  /\ FlowRemoteOp(j) => FlowType' /\ FlowConsistent'
           /\ FlowLocalState(j) => FlowType' /\ FlowConsistent'
           /\ FlowPush(j) => FlowType' /\ FlowConsistent'
  <1> USE DEF IInv
  <1>1. ASSUME flow.step # "Idle"
        PROVE  isActive
    BY <1>1 DEF FlowConsistent
  <1>2. ASSUME flow.step \in {"AddingRemote", "RefreshingState"}
        PROVE  flow.repo \in Repos /\ localPathOf'[flow.repo] = flow.path
    BY <1>2 DEF FlowConsistent, TypeOK, Flow
  <1>3. ASSUME FlowRemoteOp(j) PROVE FlowType' /\ FlowConsistent'
    <2>1. CASE Ignored
      BY <2>1, IgnoredLemma DEF Ignored
    <2>2. CASE \E o \in {"linkFailed", "connected"} :
                  flow.step # "Idle" /\ Finish(o, j.by # started)
      BY <2>2, <1>1, FinishLemma DEF Outcomes
    <2>3. CASE flow.step = "AddingRemote" /\ flow.pushAfter
               /\ Advance("RefreshingState", flow.repo, j.by # started)
      BY <2>3, <1>1, <1>2, AdvanceLemma DEF Steps
    <2> QED
      BY <1>3, <2>1, <2>2, <2>3 DEF FlowRemoteOp
  <1>4. ASSUME FlowLocalState(j) PROVE FlowType' /\ FlowConsistent'
    <2>1. CASE Ignored
      BY <2>1, IgnoredLemma DEF Ignored
    <2>2. CASE flow.step # "Idle" /\ Finish("connected", j.by # started)
      BY <2>2, <1>1, FinishLemma DEF Outcomes
    <2>3. CASE flow.step = "RefreshingState"
               /\ Advance("Pushing", flow.repo, j.by # started)
      <3>1. flow.pushAfter
        BY <2>3 DEF FlowConsistent
      <3> QED
        BY <2>3, <3>1, <1>1, <1>2, AdvanceLemma DEF Steps
    <2> QED
      BY <1>4, <2>1, <2>2, <2>3 DEF FlowLocalState
  <1>5. ASSUME FlowPush(j) PROVE FlowType' /\ FlowConsistent'
    <2>1. CASE Ignored
      BY <2>1, IgnoredLemma DEF Ignored
    <2>2. CASE \E o \in {"pushed", "pushFailed"} :
                  flow.step # "Idle" /\ Finish(o, j.by # started)
      BY <2>2, <1>1, FinishLemma DEF Outcomes
    <2> QED
      BY <1>5, <2>1, <2>2 DEF FlowPush
  <1> QED
    BY <1>3, <1>4, <1>5

\* What the flow and the window submit when a result is handled.
LEMMA ResultStep == ASSUME IInv, Results PROVE IInv'
  <1> PICK j \in Jobs : Deliver(j)
    BY DEF Results
  <1> USE DEF IInv
  <1>1. j \in Job
    BY DEF TypeOK
  <1>2. j.folder \in Folders /\ j.repo \in Repos \cup {NoRepo} /\ j.named \in BOOLEAN
        /\ started \in 0..MaxStarts
    BY <1>1 DEF Job, TypeOK
  <1>3. UNCHANGED <<started, localPathOf>>
    BY DEF Deliver, DeliverRemoteOp, DeliverLocalState, DeliverPush
  <1>4. FlowType' /\ FlowConsistent'
    BY <1>3, FlowHandlers DEF Deliver, DeliverRemoteOp, DeliverLocalState, DeliverPush
  <1>5. Ended => FinishJobs \subseteq Job
    BY FinishJobsType DEF Ended
  <1>6. WindowJobs(j) \subseteq Job
    BY <1>2, RefreshType DEF WindowJobs
  <1>7. flow.step # "Idle" => flow.path \in Folders
    BY DEF FlowConsistent, TypeOK, Flow, isActive
  <1>8. ASSUME DeliverRemoteOp(j) PROVE IInv'
    <2>1. flow'.step = "RefreshingState" /\ flow.step # flow'.step => flow.step # "Idle"
      BY <1>8 DEF DeliverRemoteOp, FlowRemoteOp, Ignored, flowVars
    <2>2. (IF Ended THEN FinishJobs
           ELSE IF flow'.step = "RefreshingState" /\ flow.step # flow'.step
                THEN {Refresh(flow.path, started)} ELSE {}) \subseteq Job
      BY <1>2, <1>5, <1>7, <2>1, RefreshType
    <2>3. Jobs' \subseteq Job
      BY <1>8, <1>6, <2>2, SubmitSet, WithoutSet DEF DeliverRemoteOp, TypeOK, Jobs
    <2>4. busy' \in BOOLEAN
      BY <1>8 DEF DeliverRemoteOp
    <2>5. RestType'
      BY <1>8, <2>3, <2>4 DEF DeliverRemoteOp, TypeOK, RestType, netVars, gitVars
    <2> QED
      BY <1>8, <1>4, <2>5, Combine DEF DeliverRemoteOp, ViewOfFolder
  <1>9. ASSUME DeliverLocalState(j) PROVE IInv'
    <2>1. flow'.step = "Pushing" /\ flow.step # flow'.step => flow.step # "Idle"
      BY <1>9 DEF DeliverLocalState, FlowLocalState, Ignored, flowVars
    <2>2. (IF Ended THEN FinishJobs
           ELSE IF flow'.step = "Pushing" /\ flow.step # flow'.step
                THEN {NewJob("push", flow.path, NoRepo, started)} ELSE {}) \subseteq Job
      BY <1>2, <1>5, <1>7, <2>1, NewJobType
    <2>3. Jobs' \subseteq Job
      BY <1>9, <2>2, SubmitSet, WithoutSet DEF DeliverLocalState, TypeOK, Jobs
    <2>4. busy' \in BOOLEAN
      BY <1>9 DEF DeliverLocalState
    <2>5. [known |-> TRUE, named |-> j.named, origin |-> j.repo] \in View
      BY <1>2 DEF View
    <2>6. view' \in View /\ ViewOfFolder'
      BY <1>2, <1>9, <2>5 DEF DeliverLocalState, TypeOK, ViewOfFolder
    <2>7. RestType'
      BY <1>9, <2>3, <2>4, <2>6 DEF DeliverLocalState, TypeOK, RestType, netVars, gitVars
    <2> QED
      BY <1>4, <2>6, <2>7, Combine
  <1>10. ASSUME DeliverPush(j) PROVE IInv'
    <2>1. Jobs' \subseteq Job
      BY <1>10, <1>5, <1>6, SubmitSet, WithoutSet DEF DeliverPush, TypeOK, Jobs
    <2>2. busy' \in BOOLEAN
      BY <1>10 DEF DeliverPush
    <2>3. RestType'
      BY <1>10, <2>1, <2>2 DEF DeliverPush, TypeOK, RestType, netVars, gitVars
    <2> QED
      BY <1>10, <1>4, <2>3, Combine DEF DeliverPush, ViewOfFolder
  <1> QED
    BY <1>8, <1>9, <1>10 DEF Deliver

\* Every step preserves the inductive invariant.
LEMMA NextInv == ASSUME IInv, [Next]_vars PROVE IInv'
  <1>1. CASE UNCHANGED vars
    BY <1>1 DEF vars, flowVars, netVars, gitVars, uiVars, IInv, TypeOK, FlowConsistent,
                ViewOfFolder, isActive, Jobs
  <1> QED
    BY <1>1, StartStep, GitHubStep, ReplyStep, WorkerStep, ResultStep, WatchdogStep,
       UserStep DEF Next

\* In every reachable state of every instance the variables have their types
\* and the controller agrees with its timer and with the calls of start().
THEOREM FlowIsConsistent == Spec => [](TypeOK /\ FlowConsistent)
  <1>1. Spec => []IInv
    BY InitInv, NextInv, PTL DEF Spec
  <1>2. IInv => TypeOK /\ FlowConsistent
    BY DEF IInv
  <1> QED
    BY <1>1, <1>2, PTL
-----------------------------------------------------------------------------
(***************************************************************************)
(* Refinement: seen through isActive and the outcomes, a step of Publish   *)
(* is a start, an end or a stutter of PublishPromise.  The flow is touched *)
(* by Begin, StartRejected, Finish and Advance only.                       *)
(***************************************************************************)
LEMMA FinishEnds ==
    ASSUME IInv, isActive, started' = started,
           NEW o \in Outcomes \ {"pending"}, NEW stray, Finish(o, stray)
    PROVE  Promise!End
  <1> USE DEF IInv
  <1>1. started \in 1..MaxStarts /\ ~isActive'
    BY DEF Finish, Reset, NoFlow, isActive, FlowConsistent, TypeOK
  <1>2. \A n \in 1..MaxStarts :
           attempts'[n].outcome = IF n = started THEN o ELSE attempts[n].outcome
    BY <1>1 DEF Finish, TypeOK, Attempt
  <1>3. [n \in 1..MaxStarts |-> attempts'[n].outcome] =
           [[n \in 1..MaxStarts |-> attempts[n].outcome] EXCEPT ![started] = o]
    BY <1>1, <1>2
  <1> QED
    BY <1>1, <1>3 DEF Promise!End, isActive

LEMMA AdvanceStutters ==
    ASSUME IInv, started' = started, isActive,
           NEW next, NEW repo, NEW stray, Advance(next, repo, stray)
    PROVE  UNCHANGED Promise!vars
  <1> USE DEF IInv
  <1>1. isActive' = isActive
    BY DEF Advance, TransitionTo, isActive, TypeOK, Flow
  <1>2. \A n \in 1..MaxStarts : attempts'[n].outcome = attempts[n].outcome
    BY DEF Advance, TypeOK, Attempt
  <1> QED
    BY <1>1, <1>2 DEF Promise!vars

LEMMA IgnoredStutters ==
    ASSUME UNCHANGED <<flow, started, attempts>>
    PROVE  UNCHANGED Promise!vars
  BY DEF Promise!vars, isActive

LEMMA StartRefines == ASSUME IInv, Start PROVE Promise!Begin
  <1> USE DEF IInv
  <1>1. started \in 0..MaxStarts /\ started < MaxStarts /\ ~isActive
        /\ started' = started + 1 /\ active \in Folders
    BY DEF Start, StartCreate, StartExisting, StartRejected, Begin, MayStart, TypeOK,
           ViewOfFolder
  <1>2. attempts[started + 1].outcome = "pending"
    BY <1>1 DEF FlowConsistent
  <1>3. ASSUME NEW step, NEW r, NEW p \in BOOLEAN, Begin(step, r, p) PROVE Promise!Begin
    <2>1. isActive'
      BY <1>1, <1>3 DEF Begin, isActive
    <2>2. NewAttempt(p).outcome = "pending"
      BY DEF NewAttempt, NoAttempt
    <2>3. \A n \in 1..MaxStarts : attempts'[n].outcome = attempts[n].outcome
      BY <1>1, <1>2, <1>3, <2>2 DEF Begin, TypeOK
    <2> QED
      BY <1>1, <2>1, <2>3 DEF Promise!Begin, isActive
  <1>4. ASSUME StartRejected PROVE Promise!Begin
    <2>1. ~isActive'
      BY <1>1, <1>4 DEF StartRejected, isActive
    <2>2. [NewAttempt(TRUE) EXCEPT !.outcome = "rejected"].outcome = "rejected"
      BY DEF NewAttempt, NoAttempt
    <2>3. \A n \in 1..MaxStarts : attempts'[n].outcome =
             IF n = started + 1 THEN "rejected" ELSE attempts[n].outcome
      BY <1>1, <1>4, <2>2 DEF StartRejected, TypeOK
    <2>4. [n \in 1..MaxStarts |-> attempts'[n].outcome] =
             [[n \in 1..MaxStarts |-> attempts[n].outcome] EXCEPT ![started + 1] = "rejected"]
      BY <1>1, <2>3
    <2> QED
      BY <1>1, <2>1, <2>4 DEF Promise!Begin, Outcomes, isActive
  <1> QED
    BY <1>3, <1>4 DEF Start, StartCreate, StartExisting

LEMMA NextRefines ==
    ASSUME IInv, [Next]_vars PROVE [Promise!Next]_(Promise!vars)
  <1> USE DEF IInv
  <1>1. flow.step # "Idle" => isActive
    BY DEF FlowConsistent
  <1>2. CASE Start
    BY <1>2, StartRefines DEF Promise!Next
  <1>3. ASSUME started' = started,
               \/ \E o \in Outcomes \ {"pending"}, stray \in BOOLEAN :
                     isActive /\ Finish(o, stray)
               \/ \E next \in Steps, repo \in Repos \cup {NoRepo}, stray \in BOOLEAN :
                     isActive /\ Advance(next, repo, stray)
               \/ UNCHANGED <<flow, attempts>>
        PROVE  [Promise!Next]_(Promise!vars)
    BY <1>3, FinishEnds, AdvanceStutters, IgnoredStutters DEF Promise!Next
  <1>4. CASE GitHub \/ User \/ UNCHANGED vars
    <2>1. UNCHANGED <<flow, attempts, started>>
      BY <1>4 DEF GitHub, GitHubCreates, GitHubRefuses, User, ActivateFolder, FirstCommit,
         ManualRemoteOp, ManualPush, ManualRefresh, OtherRequest, vars, flowVars
    <2> QED
      BY <2>1, <1>3
  <1>5. CASE Reply
    <2>1. ASSUME NEW q \in requests, RepositoryCreated(q) PROVE [Promise!Next]_(Promise!vars)
      <3>1. q.repo \in Repos
        BY DEF TypeOK, Request
      <3> QED
        BY <2>1, <3>1, <1>1, <1>3 DEF RepositoryCreated, Outcomes, Steps, flowVars
    <2>2. ASSUME NEW own \in BOOLEAN, NetworkErrorInFlow(own), started' = started
          PROVE  [Promise!Next]_(Promise!vars)
      BY <2>2, <1>1, <1>3 DEF NetworkErrorInFlow, Outcomes, flowVars
    <2>3. ASSUME QuerySucceeds PROVE [Promise!Next]_(Promise!vars)
      BY <2>3, <1>3 DEF QuerySucceeds, flowVars
    <2> QED
      BY <1>5, <2>1, <2>2, <2>3 DEF Reply, CreateFails, QueryFails
  <1>6. CASE Worker
    <2> PICK j \in Jobs : Execute(j)
      BY <1>6 DEF Worker
    <2>1. CASE UNCHANGED attempts
      <3>1. UNCHANGED <<flow, started>>
        BY DEF Execute, ExecAddRemote, ExecRemoveRemote, ExecRefresh, ExecPush, flowVars
      <3> QED
        BY <2>1, <3>1, <1>3
    <2>2. CASE attempts' = [attempts EXCEPT ![started].meddled = TRUE]
      <3>1. UNCHANGED <<flow, started>>
        BY DEF Execute, ExecAddRemote, ExecRemoveRemote, ExecRefresh, ExecPush, flowVars
      <3>2. \A n \in 1..MaxStarts : attempts'[n].outcome = attempts[n].outcome
        BY <2>2 DEF TypeOK, Attempt
      <3> QED
        BY <3>1, <3>2 DEF Promise!vars, isActive
    <2>3. UNCHANGED attempts \/ attempts' = [attempts EXCEPT ![started].meddled = TRUE]
      BY DEF Execute, ExecAddRemote, ExecRemoveRemote, ExecRefresh, ExecPush, flowVars, Meddle
    <2> QED
      BY <2>1, <2>2, <2>3
  <1>7. CASE Results
    <2> PICK j \in Jobs : Deliver(j)
      BY <1>7 DEF Results
    <2>1. started' = started
      BY DEF Deliver, DeliverRemoteOp, DeliverLocalState, DeliverPush
    <2>2. flow.repo \in Repos \cup {NoRepo} /\ (j.by # started) \in BOOLEAN
      BY DEF TypeOK, Flow
    <2>3. ASSUME FlowRemoteOp(j) PROVE [Promise!Next]_(Promise!vars)
      BY <2>1, <2>2, <2>3, <1>1, <1>3 DEF FlowRemoteOp, Ignored, flowVars, Outcomes, Steps
    <2>4. ASSUME FlowLocalState(j) PROVE [Promise!Next]_(Promise!vars)
      BY <2>1, <2>2, <2>4, <1>1, <1>3 DEF FlowLocalState, Ignored, flowVars, Outcomes, Steps
    <2>5. ASSUME FlowPush(j) PROVE [Promise!Next]_(Promise!vars)
      BY <2>1, <2>2, <2>5, <1>1, <1>3 DEF FlowPush, Ignored, flowVars, Outcomes
    <2> QED
      BY <2>3, <2>4, <2>5 DEF Deliver, DeliverRemoteOp, DeliverLocalState, DeliverPush
  <1>8. CASE WatchdogTimeout
    <2>1. isActive
      BY <1>8 DEF WatchdogTimeout, FlowConsistent
    <2> QED
      BY <1>8, <2>1, <1>3 DEF WatchdogTimeout, Outcomes
  <1> QED
    BY <1>2, <1>4, <1>5, <1>6, <1>7, <1>8 DEF Next

\* Publish implements PublishPromise: a start is accepted only when no flow
\* runs, and it gets one terminal signal, once.
THEOREM PublishImplementsPromise == Spec => KeepsPromise
  <1>1. Init => Promise!Init
    BY DEF Init, Promise!Init, isActive, NoFlow, NoAttempt
  <1>2. Spec => []IInv
    BY InitInv, NextInv, PTL DEF Spec
  <1> QED
    BY <1>1, <1>2, NextRefines, PTL DEF Spec, KeepsPromise, Promise!Safety
-----------------------------------------------------------------------------
(***************************************************************************)
(* What is submitted, and in whose name.  A job is new when the running    *)
(* flow, or nobody's flow, asks for it; a worker only writes its result.   *)
(***************************************************************************)
Lawful(k) ==
    \/ k \in Jobs
    \/ k.res # "queued" /\ \E j \in Jobs : k.op = j.op /\ k.by = j.by
    \/ k.by = 0
    \/ k.by = started' /\ isActive' /\ (k.op = "push" => flow'.pushAfter)

LEMMA WindowIsNobody ==
    ASSUME NEW j PROVE \A k \in FinishJobs \cup WindowJobs(j) : k.by = 0
  BY DEF FinishJobs, WindowJobs, Refresh, NewJob

LEMMA StartLawful == ASSUME IInv, Start PROVE \A k \in Jobs' : Lawful(k)
  <1>1. ASSUME NEW r \in Repos, NEW p \in BOOLEAN, StartCreate(r, p)
        PROVE  \A k \in Jobs' : Lawful(k)
    BY <1>1 DEF StartCreate, Jobs, Lawful
  <1>2. ASSUME NEW r \in Repos, NEW p \in BOOLEAN, StartExisting(r, p)
        PROVE  \A k \in Jobs' : Lawful(k)
    <2>1. isActive' /\ started' = started + 1
      BY <1>2 DEF StartExisting, Begin, MayStart, isActive, IInv, ViewOfFolder
    <2>2. Jobs' = Jobs \cup {NewJob("addRemote", active, r, started')}
      BY <1>2, <2>1, SubmitSet DEF StartExisting, Jobs
    <2> QED
      BY <2>1, <2>2 DEF Lawful, NewJob
  <1>3. ASSUME StartRejected PROVE \A k \in Jobs' : Lawful(k)
    <2>1. Jobs' = Jobs \cup {Refresh(active, 0)}
      BY <1>3, SubmitSet DEF StartRejected, Jobs
    <2> QED
      BY <2>1 DEF Lawful, Refresh, NewJob
  <1> QED
    BY <1>1, <1>2, <1>3 DEF Start

LEMMA ReplyLawful == ASSUME IInv, Reply PROVE \A k \in Jobs' : Lawful(k)
  <1>1. Jobs' \subseteq Jobs \cup FinishJobs => \A k \in Jobs' : Lawful(k)
    BY WindowIsNobody DEF Lawful
  <1>2. ASSUME NEW own, NetworkErrorInFlow(own) PROVE Jobs' \subseteq Jobs \cup FinishJobs
    BY <1>2, SubmitSet DEF NetworkErrorInFlow, Jobs
  <1>3. ASSUME NEW q \in requests, RepositoryCreated(q) PROVE \A k \in Jobs' : Lawful(k)
    <2>1. CASE pool' = pool \/ pool' = Submit(pool, FinishJobs)
      BY <2>1, <1>1, SubmitSet DEF Jobs
    <2>2. CASE /\ flow.step = "CreatingRepo"
               /\ Advance("AddingRemote", q.repo, q.by # started)
               /\ pool' = Submit(pool, {NewJob("addRemote", flow.path, q.repo, started)})
      <3>1. isActive' /\ started' = started
        BY <1>3, <2>2 DEF RepositoryCreated, Advance, TransitionTo, isActive, IInv,
           TypeOK, Flow, FlowConsistent
      <3>2. Jobs' = Jobs \cup {NewJob("addRemote", flow.path, q.repo, started)}
        BY <2>2, SubmitSet DEF Jobs
      <3> QED
        BY <3>1, <3>2 DEF Lawful, NewJob
    <2> QED
      BY <1>3, <2>1, <2>2 DEF RepositoryCreated
  <1>4. CASE QuerySucceeds
    BY <1>1, <1>4 DEF QuerySucceeds, Jobs
  <1> QED
    BY <1>1, <1>2, <1>3, <1>4 DEF Reply, CreateFails, QueryFails

LEMMA WorkerLawful == ASSUME IInv, Worker PROVE \A k \in Jobs' : Lawful(k)
  <1> PICK j \in Jobs : Execute(j)
    BY DEF Worker
  <1>1. j \in Job
    BY DEF IInv, TypeOK
  <1> DEFINE Done(k) == k.res # "queued" /\ k.op = j.op /\ k.by = j.by
  <1>2. ASSUME NEW res \in {"ok", "error", "upstreamError"}, NEW r, NEW b
        PROVE  /\ Done([j EXCEPT !.res = res])
               /\ Done([j EXCEPT !.res = res, !.repo = r])
               /\ Done([j EXCEPT !.res = res, !.repo = r, !.named = b])
    BY <1>1 DEF Job
  <1> HIDE DEF Done
  <1>4. PICK k : Report(j, k) /\ Done(k)
    BY <1>2 DEF Execute, ExecAddRemote, ExecRemoveRemote, ExecRefresh, ExecPush
  <1>3. Jobs' \subseteq Jobs \cup {k}
    BY <1>4, SubmitSet, WithoutSet DEF Report, Jobs
  <1> QED
    BY <1>4, <1>3 DEF Lawful, Done

LEMMA ResultLawful == ASSUME IInv, Results PROVE \A k \in Jobs' : Lawful(k)
  <1> PICK j \in Jobs : Deliver(j)
    BY DEF Results
  <1>1. started' = started
    BY DEF Deliver, DeliverRemoteOp, DeliverLocalState, DeliverPush
  <1>2. ASSUME NEW new, Jobs' \subseteq Jobs \cup FinishJobs \cup WindowJobs(j) \cup new,
               \A k \in new : k.by = started /\ isActive' /\ (k.op = "push" => flow'.pushAfter)
        PROVE  \A k \in Jobs' : Lawful(k)
    BY <1>1, <1>2, WindowIsNobody DEF Lawful
  <1>3. ASSUME NEW next, NEW stray, Advance(next, flow.repo, stray), flow.step # "Idle"
        PROVE  isActive' /\ flow'.pushAfter = flow.pushAfter
    BY <1>3 DEF Advance, TransitionTo, isActive, IInv, TypeOK, Flow, FlowConsistent
  <1>4. CASE DeliverRemoteOp(j)
    <2> DEFINE new == IF flow'.step = "RefreshingState" /\ flow.step # flow'.step
                      THEN {Refresh(flow.path, started)} ELSE {}
    <2>1. Jobs' \subseteq Jobs \cup FinishJobs \cup WindowJobs(j) \cup new
      BY <1>4, SubmitSet, WithoutSet DEF DeliverRemoteOp, Jobs
    <2>2. new # {} => isActive'
      BY <1>3, <1>4 DEF DeliverRemoteOp, FlowRemoteOp, Ignored, flowVars, Finish, Reset, NoFlow
    <2>3. \A k \in new : k.by = started /\ k.op = "refresh"
      BY DEF Refresh, NewJob
    <2> HIDE DEF new
    <2> QED
      BY <1>2, <2>1, <2>2, <2>3
  <1>5. CASE DeliverLocalState(j)
    <2> DEFINE new == IF flow'.step = "Pushing" /\ flow.step # flow'.step
                      THEN {NewJob("push", flow.path, NoRepo, started)} ELSE {}
    <2>1. Jobs' \subseteq Jobs \cup FinishJobs \cup WindowJobs(j) \cup new
      BY <1>5, SubmitSet, WithoutSet DEF DeliverLocalState, Jobs
    <2>2. new # {} => isActive' /\ flow'.pushAfter
      BY <1>3, <1>5 DEF DeliverLocalState, FlowLocalState, Ignored, flowVars, Finish,
         Reset, NoFlow, IInv, FlowConsistent
    <2>3. \A k \in new : k.by = started
      BY DEF NewJob
    <2> HIDE DEF new
    <2> QED
      BY <1>2, <2>1, <2>2, <2>3
  <1>6. CASE DeliverPush(j)
    <2>1. Jobs' \subseteq Jobs \cup FinishJobs \cup WindowJobs(j)
      BY <1>6, SubmitSet, WithoutSet DEF DeliverPush, Jobs
    <2> QED
      BY <2>1, WindowIsNobody DEF Lawful
  <1> QED
    BY <1>4, <1>5, <1>6 DEF Deliver

LEMMA UserLawful == ASSUME User PROVE \A k \in Jobs' : Lawful(k)
  <1>1. ASSUME NEW k, k.by = 0, pool' = Submit(pool, {k}) PROVE \A i \in Jobs' : Lawful(i)
    BY <1>1, SubmitSet DEF Jobs, Lawful
  <1>2. ASSUME UNCHANGED pool PROVE \A i \in Jobs' : Lawful(i)
    BY <1>2 DEF Jobs, Lawful
  <1>3. \A op, f, r : NewJob(op, f, r, 0).by = 0 /\ Refresh(f, 0).by = 0
    BY DEF NewJob, Refresh
  <1> QED
    BY <1>1, <1>2, <1>3 DEF User, ActivateFolder, FirstCommit, ManualRemoteOp, ManualPush,
       ManualRefresh, OtherRequest

LEMMA NextLawful == ASSUME IInv, [Next]_vars PROVE \A k \in Jobs' : Lawful(k)
  <1>1. CASE UNCHANGED pool
    BY <1>1 DEF Jobs, Lawful
  <1>2. CASE WatchdogTimeout
    <2>1. Jobs' = Jobs \cup FinishJobs
      BY <1>2, SubmitSet DEF WatchdogTimeout, Jobs
    <2> QED
      BY <2>1, WindowIsNobody DEF Lawful
  <1> QED
    BY <1>1, <1>2, StartLawful, ReplyLawful, WorkerLawful, ResultLawful, UserLawful
       DEF Next, GitHub, GitHubCreates, GitHubRefuses, vars

\* What a start was asked to do is never rewritten.
LEMMA ConsentStays ==
    ASSUME IInv, [Next]_vars
    PROVE  /\ started' \in {started, started + 1}
           /\ \A n \in 1..started : attempts'[n].pushAfter = attempts[n].pushAfter
  <1> USE DEF IInv
  <1>1. CASE Start
    <2>1. started' = started + 1
      BY <1>1 DEF Start, StartCreate, StartExisting, StartRejected, Begin
    <2>2. \E a : attempts' = [attempts EXCEPT ![started + 1] = a]
      BY <1>1 DEF Start, StartCreate, StartExisting, StartRejected, Begin
    <2>3. started \in Nat /\ \A n \in 1..started : n # started + 1
      BY DEF TypeOK
    <2> QED
      BY <2>1, <2>2, <2>3 DEF TypeOK
  <1>2. ASSUME started' = started,
               \/ UNCHANGED attempts
               \/ \E o, b : Finish(o, b)
               \/ \E s, r, b : Advance(s, r, b)
               \/ \E j : Meddle(j)
        PROVE  \A n \in 1..started : attempts'[n].pushAfter = attempts[n].pushAfter
    <2>1. CASE UNCHANGED attempts
      BY <2>1
    <2>2. ASSUME NEW o, NEW b, Finish(o, b)
          PROVE  \A n \in 1..started : attempts'[n].pushAfter = attempts[n].pushAfter
      BY <2>2 DEF Finish, TypeOK, Attempt
    <2>3. ASSUME NEW s, NEW r, NEW b, Advance(s, r, b)
          PROVE  \A n \in 1..started : attempts'[n].pushAfter = attempts[n].pushAfter
      BY <2>3 DEF Advance, TypeOK, Attempt
    <2>4. ASSUME NEW j, Meddle(j)
          PROVE  \A n \in 1..started : attempts'[n].pushAfter = attempts[n].pushAfter
      BY <2>4 DEF Meddle, TypeOK, Attempt
    <2> QED
      BY <1>2, <2>1, <2>2, <2>3, <2>4
  <1>3. CASE Worker
    BY <1>2, <1>3 DEF Worker, Execute, ExecAddRemote, ExecRemoveRemote, ExecRefresh,
       ExecPush, flowVars
  <1>4. CASE Results
    BY <1>2, <1>4 DEF Results, Deliver, DeliverRemoteOp, DeliverLocalState, DeliverPush,
       FlowRemoteOp, FlowLocalState, FlowPush, Ignored, flowVars
  <1>5. CASE Reply
    BY <1>2, <1>5 DEF Reply, RepositoryCreated, CreateFails, QueryFails, QuerySucceeds,
       NetworkErrorInFlow, flowVars
  <1>6. CASE WatchdogTimeout
    BY <1>2, <1>6 DEF WatchdogTimeout
  <1>7. CASE GitHub \/ User \/ UNCHANGED vars
    BY <1>2, <1>7 DEF GitHub, GitHubCreates, GitHubRefuses, User, ActivateFolder,
       FirstCommit, ManualRemoteOp, ManualPush, ManualRefresh, OtherRequest, vars, flowVars
  <1> QED
    BY <1>1, <1>2, <1>3, <1>4, <1>5, <1>6, <1>7 DEF Next, Worker, Execute, ExecAddRemote

\* No job is of a start to come.
JobsOfStarts == \A j \in Jobs : j.by <= started

LEMMA NextConsent ==
    ASSUME IInv, JobsOfStarts, NoPushWithoutConsent, [Next]_vars
    PROVE  JobsOfStarts' /\ NoPushWithoutConsent'
  <1>1. IInv'
    BY NextInv
  <1>2. started \in Nat /\ started' \in Nat /\ started <= started'
    BY <1>1, ConsentStays DEF IInv, TypeOK
  <1>3. ASSUME NEW k \in Jobs'
        PROVE  k.by <= started' /\ (k.op = "push" /\ k.by > 0 => attempts'[k.by].pushAfter)
    <2>1. k.by \in Nat
      BY <1>1 DEF IInv, TypeOK, Job
    <2>2. ASSUME NEW j \in Jobs, k.op = j.op, k.by = j.by
          PROVE  k.by <= started' /\ (k.op = "push" /\ k.by > 0 => attempts'[k.by].pushAfter)
      <3>1. k.by <= started
        BY <2>2 DEF JobsOfStarts
      <3>2. k.op = "push" /\ k.by > 0 => attempts[k.by].pushAfter
        BY <2>2 DEF NoPushWithoutConsent
      <3>3. k.by > 0 => k.by \in 1..started
        BY <1>2, <2>1, <3>1
      <3> QED
        BY <1>2, <2>1, <3>1, <3>2, <3>3, ConsentStays
    <2>3. CASE k.by = started' /\ isActive' /\ (k.op = "push" => flow'.pushAfter)
      BY <1>1, <1>2, <2>3 DEF IInv, FlowConsistent
    <2> QED
      BY <1>2, <2>2, <2>3, NextLawful DEF Lawful
  <1> QED
    BY <1>3 DEF JobsOfStarts, NoPushWithoutConsent

\* A flow started without "push after publishing" uploads nothing, in whatever
\* order the results of its own and of other operations arrive.
THEOREM ConsentIsKept == Spec => []NoPushWithoutConsent
  <1>1. Init => JobsOfStarts /\ NoPushWithoutConsent
    BY DEF Init, JobsOfStarts, NoPushWithoutConsent, Jobs, BagToSet, EmptyBag, SetToBag
  <1> QED
    BY <1>1, InitInv, NextInv, NextConsent, PTL DEF Spec

\* A flow that has ended submits nothing more, neither to the worker nor to GitHub.
THEOREM EndedFlowsAreSilent == Spec => DeadFlowsSubmitNothing
  <1>1. ASSUME IInv, [Next]_vars
        PROVE  \A j \in BagToSet(pool') \ Jobs :
                  j.by > 0 /\ j.res = "queued" => flow'.path # NoFolder /\ j.by = started'
    BY <1>1, NextLawful DEF Lawful, Jobs, isActive
  <1>2. ASSUME IInv, [Next]_vars
        PROVE  \A q \in requests' \ requests : q.res = "sent" => q.by = started'
    <2>1. ASSUME NEW r \in Repos, NEW p \in BOOLEAN, StartCreate(r, p)
          PROVE  \A q \in requests' \ requests : q.by = started'
      BY <2>1 DEF StartCreate, Begin
    <2>2. CASE GitHub
      <3>1. PICK q \in requests : GitHubCreates(q) \/ GitHubRefuses(q)
        BY <2>2 DEF GitHub
      <3>2. q \in Request
        BY <1>2 DEF IInv, TypeOK
      <3>3. \E res \in {"created", "malformed", "failed"} : Answer(q, res)
        BY <3>1 DEF GitHubCreates, GitHubRefuses
      <3> QED
        BY <3>2, <3>3 DEF Answer, Request
    <2>3. CASE requests' \subseteq requests
      BY <2>3
    <2>4. Reply \/ Worker \/ Results \/ WatchdogTimeout \/ User \/ UNCHANGED vars
             => requests' \subseteq requests
      BY DEF Reply, RepositoryCreated, CreateFails, QueryFails, QuerySucceeds, Worker,
         Execute, ExecAddRemote, ExecRemoveRemote, ExecRefresh, ExecPush, Results, Deliver,
         DeliverRemoteOp, DeliverLocalState, DeliverPush, WatchdogTimeout, User,
         ActivateFolder, FirstCommit, ManualRemoteOp, ManualPush, ManualRefresh,
         OtherRequest, netVars, vars
    <2> QED
      BY <1>2, <2>1, <2>2, <2>3, <2>4 DEF Next, Start, StartExisting, StartRejected, netVars
  <1>3. IInv /\ [Next]_vars =>
           [/\ \A j \in BagToSet(pool') \ Jobs :
                 j.by > 0 /\ j.res = "queued" => flow'.path # NoFolder /\ j.by = started'
            /\ \A q \in requests' \ requests : q.res = "sent" => q.by = started']_vars
    BY <1>1, <1>2
  <1> QED
    BY <1>3, InitInv, NextInv, PTL DEF Spec, DeadFlowsSubmitNothing
-----------------------------------------------------------------------------
(***************************************************************************)
(* The truth of a report.  As long as the flow moved on its own results    *)
(* and nobody else touched the origin of its folder (Clean), the jobs that *)
(* are its own are what it asked for, and what they report is so.          *)
(***************************************************************************)
Clean == isActive /\ ~attempts[started].stray /\ ~attempts[started].meddled

Linked == origin[flow.path] = flow.repo

OwnJob(j) ==
    /\ j.folder = flow.path
    /\ \/ j.op = "addRemote" /\ flow.step # "CreatingRepo" /\ j.repo = flow.repo
          /\ (j.res = "ok" => Linked)
       \/ j.op = "refresh"
       \/ j.op = "push" /\ flow.step = "Pushing"
          /\ (j.res = "ok" => <<flow.path, flow.repo>> \in pushed)

CleanFlow ==
    Clean => /\ flow.step \in {"RefreshingState", "Pushing"} => Linked
             /\ \A j \in Jobs : j.by = started => OwnJob(j)

Truth == JobsOfStarts /\ CleanFlow /\ CleanSuccessIsTrue

\* While a flow runs, a job of nobody is not its own.
LEMMA ActiveFacts ==
    ASSUME IInv, isActive
    PROVE  /\ started \in 1..MaxStarts /\ started # 0 /\ flow \in Flow
           /\ attempts \in [1..MaxStarts -> Attempt] /\ attempts[started] \in Attempt
           /\ attempts[started].outcome = "pending"
           /\ attempts[started].folder = flow.path
  BY DEF IInv, TypeOK, FlowConsistent

LEMMA EndTrue ==
    ASSUME IInv, Truth, isActive, NEW result \in Outcomes \ {"pending"}, NEW stray \in BOOLEAN,
           Finish(result, stray), UNCHANGED <<started, pushed>>,
           result = "pushed" /\ ~stray /\ Clean => <<flow.path, flow.repo>> \in pushed
    PROVE  CleanFlow' /\ CleanSuccessIsTrue'
  <1>1. ~isActive'
    BY DEF Finish, Reset, NoFlow, isActive
  <1>2. CleanFlow'
    BY <1>1 DEF CleanFlow, Clean
  <1>3. \A n \in 1..MaxStarts : n # started => attempts'[n] = attempts[n]
    BY ActiveFacts DEF Finish
  <1>4. /\ attempts'[started].outcome = result
        /\ attempts'[started].folder = flow.path
        /\ attempts'[started].repo = flow.repo
        /\ ~attempts'[started].meddled => ~attempts[started].meddled
        /\ ~attempts'[started].stray => ~attempts[started].stray /\ ~stray
    BY ActiveFacts DEF Finish, Attempt
  <1>5. ASSUME NEW n \in 1..started, attempts'[n].outcome = "pushed",
               ~attempts'[n].stray, ~attempts'[n].meddled
        PROVE  <<attempts'[n].folder, attempts'[n].repo>> \in pushed
    <2>1. CASE n = started
      BY <1>4, <1>5, <2>1 DEF Clean
    <2>2. CASE n # started
      <3>1. n \in 1..MaxStarts
        BY ActiveFacts
      <3> QED
        BY <1>3, <1>5, <2>2, <3>1 DEF Truth, CleanSuccessIsTrue
    <2> QED
      BY <2>1, <2>2
  <1>6. CleanSuccessIsTrue'
    BY <1>5 DEF CleanSuccessIsTrue
  <1> QED
    BY <1>2, <1>6

\* Jobs of nobody, and readings, change no truth.
LEMMA StayTrue ==
    ASSUME IInv, Truth, UNCHANGED <<flow, attempts, started, origin, pushed>>,
           \A k \in Jobs' : \/ k \in Jobs
                            \/ k.by = 0
                            \/ k.op = "refresh" /\ \E j \in Jobs : j.by = k.by /\ j.folder = k.folder
                            \/ k.res # "ok" /\ \E j \in Jobs : /\ j.by = k.by /\ j.folder = k.folder
                                                             /\ j.op = k.op /\ j.repo = k.repo
    PROVE  CleanFlow' /\ CleanSuccessIsTrue'
  <1>1. CleanSuccessIsTrue'
    BY DEF Truth, CleanSuccessIsTrue
  <1>2. ASSUME Clean' PROVE Clean /\ (Linked' <=> Linked)
    BY <1>2 DEF Clean, isActive, Linked
  <1>3. ASSUME Clean', NEW k \in Jobs', k.by = started' PROVE OwnJob(k)'
    BY <1>2, <1>3, ActiveFacts DEF Truth, CleanFlow, OwnJob, Clean, Linked
  <1> QED
    BY <1>1, <1>2, <1>3 DEF Truth, CleanFlow

LEMMA AdvanceTrue ==
    ASSUME IInv, Truth, isActive, NEW next \in Steps \ {"Idle"}, NEW repo,
           NEW stray \in BOOLEAN, Advance(next, repo, stray), UNCHANGED <<started, origin, pushed>>
    PROVE  /\ CleanSuccessIsTrue'
           /\ flow'.step = next /\ flow'.repo = repo /\ flow'.path = flow.path
           /\ Clean' => Clean /\ ~stray
  <1>1. \A n \in 1..MaxStarts : n # started => attempts'[n] = attempts[n]
    BY ActiveFacts DEF Advance
  <1>2. /\ attempts'[started].outcome = "pending"
        /\ attempts'[started].meddled = attempts[started].meddled
        /\ attempts'[started].stray = (attempts[started].stray \/ stray)
    BY ActiveFacts DEF Advance, Attempt
  <1>3. CleanSuccessIsTrue'
    BY <1>1, <1>2, ActiveFacts DEF Truth, CleanSuccessIsTrue
  <1>4. flow'.step = next /\ flow'.repo = repo /\ flow'.path = flow.path
    BY ActiveFacts DEF Advance, TransitionTo, Flow
  <1> QED
    BY <1>2, <1>3, <1>4 DEF Clean

LEMMA StartTrue == ASSUME IInv, Truth, Start PROVE CleanFlow' /\ CleanSuccessIsTrue'
  <1>0. /\ MayStart /\ started' = started + 1 /\ UNCHANGED <<origin, pushed>>
        /\ \/ \E p \in BOOLEAN : attempts' = [attempts EXCEPT ![started + 1] = NewAttempt(p)]
           \/ attempts' = [attempts EXCEPT ![started + 1] =
                                [NewAttempt(TRUE) EXCEPT !.outcome = "rejected"]]
    BY DEF Start, StartCreate, StartExisting, StartRejected, Begin, gitVars
  <1>1. PICK a : /\ attempts' = [attempts EXCEPT ![started + 1] = a] /\ started' = started + 1
                 /\ a.outcome # "pushed" /\ UNCHANGED <<origin, pushed>>
    <2>1. \A p \in BOOLEAN : NewAttempt(p).outcome = "pending"
      BY DEF NewAttempt, NoAttempt
    <2>2. [NewAttempt(TRUE) EXCEPT !.outcome = "rejected"].outcome = "rejected"
      BY DEF NewAttempt, NoAttempt
    <2> QED
      BY <1>0, <2>1, <2>2
  <1>2. started \in Nat /\ started + 1 \in 1..MaxStarts /\ attempts \in [1..MaxStarts -> Attempt]
    BY <1>0 DEF IInv, TypeOK, MayStart
  <1>3. CleanSuccessIsTrue'
    BY <1>1, <1>2 DEF Truth, CleanSuccessIsTrue
  <1>4. \A j \in Jobs : j.by # started + 1
    BY <1>2 DEF Truth, JobsOfStarts, IInv, TypeOK, Job
  <1>5. ASSUME StartRejected PROVE ~isActive'
    BY <1>5 DEF StartRejected, MayStart, isActive
  <1>6. ASSUME NEW r \in Repos, NEW p \in BOOLEAN, StartCreate(r, p) PROVE CleanFlow'
    <2>1. flow'.step = "CreatingRepo" /\ Jobs' = Jobs
      BY <1>6 DEF StartCreate, Begin, Jobs
    <2> QED
      BY <1>1, <1>4, <2>1 DEF CleanFlow
  <1>7. ASSUME NEW r \in Repos, NEW p \in BOOLEAN, StartExisting(r, p) PROVE CleanFlow'
    <2>1. flow'.step = "AddingRemote" /\ flow'.path = active /\ flow'.repo = r
      BY <1>7 DEF StartExisting, Begin
    <2>2. PICK k : /\ k.op = "addRemote" /\ k.folder = active /\ k.repo = r /\ k.res = "queued"
                   /\ Jobs' = Jobs \cup {k}
      BY <1>7, SubmitSet DEF StartExisting, Jobs, NewJob
    <2>3. OwnJob(k)'
      BY <2>1, <2>2 DEF OwnJob
    <2> QED
      BY <1>1, <1>4, <2>1, <2>2, <2>3 DEF CleanFlow
  <1> QED
    BY <1>3, <1>5, <1>6, <1>7 DEF Start, CleanFlow, Clean

LEMMA NetworkErrorTrue ==
    ASSUME IInv, Truth, NEW own \in BOOLEAN, NetworkErrorInFlow(own),
           UNCHANGED <<started, origin, pushed>>
    PROVE  CleanFlow' /\ CleanSuccessIsTrue'
  <1>1. CASE flow.step = "CreatingRepo" /\ Finish("createFailed", ~own)
    BY <1>1, EndTrue DEF IInv, FlowConsistent, Outcomes
  <1>2. CASE UNCHANGED <<flowVars, pool>>
    BY <1>2, StayTrue DEF flowVars, Jobs
  <1> QED
    BY <1>1, <1>2 DEF NetworkErrorInFlow

LEMMA ReplyTrue == ASSUME IInv, Truth, Reply PROVE CleanFlow' /\ CleanSuccessIsTrue'
  <1>1. UNCHANGED <<started, origin, pushed>>
    BY DEF Reply, RepositoryCreated, CreateFails, QueryFails, QuerySucceeds, gitVars
  <1>2. ASSUME NEW q \in requests, RepositoryCreated(q)
        PROVE  CleanFlow' /\ CleanSuccessIsTrue'
    <2>1. CASE UNCHANGED <<flowVars, pool>>
      BY <1>1, <2>1, StayTrue DEF flowVars, Jobs
    <2>2. CASE flow.step = "CreatingRepo" /\ Finish("createFailed", q.by # started)
      BY <1>1, <2>2, EndTrue DEF IInv, FlowConsistent, Outcomes
    <2>3. CASE /\ flow.step = "CreatingRepo"
               /\ Advance("AddingRemote", q.repo, q.by # started)
               /\ pool' = Submit(pool, {NewJob("addRemote", flow.path, q.repo, started)})
      <3>1. isActive
        BY <2>3 DEF IInv, FlowConsistent
      <3>2. /\ CleanSuccessIsTrue' /\ (Clean' => Clean)
            /\ flow'.step = "AddingRemote" /\ flow'.repo = q.repo /\ flow'.path = flow.path
        BY <1>1, <2>3, <3>1, AdvanceTrue DEF Steps
      <3>3. PICK k : /\ k.op = "addRemote" /\ k.folder = flow.path /\ k.repo = q.repo
                     /\ k.res = "queued" /\ Jobs' = Jobs \cup {k}
        BY <2>3, SubmitSet DEF Jobs, NewJob
      <3>4. OwnJob(k)'
        BY <3>2, <3>3 DEF OwnJob
      <3>5. ASSUME Clean', NEW j \in Jobs, j.by = started PROVE OwnJob(j)'
        <4>1. OwnJob(j)
          BY <3>2, <3>5 DEF Truth, CleanFlow
        <4>2. j.op = "refresh" /\ j.folder = flow.path
          BY <2>3, <4>1 DEF OwnJob
        <4> QED
          BY <3>2, <4>2 DEF OwnJob
      <3>6. CleanFlow'
        BY <1>1, <3>2, <3>3, <3>4, <3>5 DEF CleanFlow
      <3> QED
        BY <3>2, <3>6
    <2> QED
      BY <1>2, <2>1, <2>2, <2>3 DEF RepositoryCreated
  <1>3. CASE (\E q \in requests : CreateFails(q)) \/ QueryFails
    BY <1>1, <1>3, NetworkErrorTrue DEF CreateFails, QueryFails
  <1>4. CASE QuerySucceeds
    BY <1>1, <1>4, StayTrue DEF QuerySucceeds, flowVars, Jobs
  <1> QED
    BY <1>2, <1>3, <1>4 DEF Reply

\* The worker: what others do to the folder of the flow is recorded as meddling.
LEMMA WorkerTrue == ASSUME IInv, Truth, Worker PROVE CleanFlow' /\ CleanSuccessIsTrue'
  <1> PICK j \in Jobs : Execute(j)
    BY DEF Worker
  <1>1. j \in Job /\ UNCHANGED <<flow, started>>
    BY DEF IInv, TypeOK, Execute, ExecAddRemote, ExecRemoveRemote, ExecRefresh, ExecPush, flowVars
  <1>2. PICK k :
           /\ k.op = j.op /\ k.by = j.by /\ k.folder = j.folder /\ Jobs' \subseteq Jobs \cup {k}
           /\ \/ UNCHANGED <<origin, attempts, pushed>>
                 /\ (j.op = "refresh" \/ (k.res # "ok" /\ k.repo = j.repo))
              \/ /\ j.op = "addRemote" /\ k.repo = j.repo /\ Meddle(j) /\ UNCHANGED pushed
                 /\ origin' = [origin EXCEPT ![j.folder] = j.repo]
              \/ /\ j.op = "removeRemote" /\ Meddle(j) /\ UNCHANGED pushed
                 /\ origin' = [origin EXCEPT ![j.folder] = NoRepo]
              \/ /\ j.op = "push" /\ UNCHANGED <<origin, attempts>>
                 /\ pushed' = pushed \cup {<<j.folder, origin[j.folder]>>}
    <2>1. ASSUME NEW k, Report(j, k) PROVE Jobs' \subseteq Jobs \cup {k}
      BY <2>1, SubmitSet, WithoutSet DEF Report, Jobs
    <2>2. CASE ExecAddRemote(j) \/ ExecRemoveRemote(j)
      <3>1. PICK res \in {"ok", "error"} :
              /\ Report(j, [j EXCEPT !.res = res]) /\ UNCHANGED pushed
              /\ \/ res = "error" /\ UNCHANGED <<origin, attempts>>
                 \/ /\ j.op = "addRemote" /\ Meddle(j)
                    /\ origin' = [origin EXCEPT ![j.folder] = j.repo]
                 \/ /\ j.op = "removeRemote" /\ Meddle(j)
                    /\ origin' = [origin EXCEPT ![j.folder] = NoRepo]
        BY <2>2 DEF ExecAddRemote, ExecRemoveRemote
      <3> DEFINE k == [j EXCEPT !.res = res]
      <3>2. k.op = j.op /\ k.by = j.by /\ k.folder = j.folder /\ k.repo = j.repo /\ k.res = res
        BY <1>1 DEF Job
      <3>3. Jobs' \subseteq Jobs \cup {k}
        BY <2>1, <3>1
      <3> HIDE DEF k
      <3> QED
        BY <3>1, <3>2, <3>3
    <2>3. CASE ExecRefresh(j)
      <3>1. j.op = "refresh" /\ UNCHANGED <<origin, attempts, pushed>>
            /\ Report(j, [j EXCEPT !.res = "ok", !.repo = origin[j.folder],
                                   !.named = HeadIsNamed(head[j.folder])])
        BY <2>3 DEF ExecRefresh, flowVars, gitVars
      <3> DEFINE k == [j EXCEPT !.res = "ok", !.repo = origin[j.folder],
                                !.named = HeadIsNamed(head[j.folder])]
      <3>2. k.op = j.op /\ k.by = j.by /\ k.folder = j.folder
        BY <1>1 DEF Job
      <3>3. Jobs' \subseteq Jobs \cup {k}
        BY <2>1, <3>1
      <3> HIDE DEF k
      <3> QED
        BY <3>1, <3>2, <3>3
    <2>4. CASE ExecPush(j)
      <3>1. j.op = "push" /\ UNCHANGED <<origin, attempts>>
        BY <2>4 DEF ExecPush, flowVars
      <3>2. CASE Report(j, [j EXCEPT !.res = "error"]) /\ UNCHANGED pushed
        <4> DEFINE k == [j EXCEPT !.res = "error"]
        <4>1. /\ k.op = j.op /\ k.by = j.by /\ k.folder = j.folder /\ k.repo = j.repo
              /\ k.res = "error"
          BY <1>1 DEF Job
        <4>2. Jobs' \subseteq Jobs \cup {k}
          BY <2>1, <3>2
        <4> HIDE DEF k
        <4> QED
          BY <3>1, <3>2, <4>1, <4>2
      <3>3. CASE ~(Report(j, [j EXCEPT !.res = "error"]) /\ UNCHANGED pushed)
        <4>1. PICK res : /\ Report(j, [j EXCEPT !.res = res, !.repo = origin[j.folder]])
                         /\ pushed' = pushed \cup {<<j.folder, origin[j.folder]>>}
          BY <2>4, <3>3 DEF ExecPush
        <4> DEFINE k == [j EXCEPT !.res = res, !.repo = origin[j.folder]]
        <4>2. k.op = j.op /\ k.by = j.by /\ k.folder = j.folder
          BY <1>1 DEF Job
        <4>3. Jobs' \subseteq Jobs \cup {k}
          BY <2>1, <4>1
        <4> HIDE DEF k
        <4> QED
          BY <3>1, <4>1, <4>2, <4>3
      <3> QED
        BY <3>2, <3>3
    <2> QED
      BY <2>2, <2>3, <2>4 DEF Execute
  <1>3. CASE UNCHANGED <<origin, attempts, pushed>>
             /\ (j.op = "refresh" \/ (k.res # "ok" /\ k.repo = j.repo))
    BY <1>1, <1>2, <1>3, StayTrue
  <1>4. CASE j.op = "push" /\ UNCHANGED <<origin, attempts>>
             /\ pushed' = pushed \cup {<<j.folder, origin[j.folder]>>}
    <2>1. CleanSuccessIsTrue'
      BY <1>1, <1>4 DEF Truth, CleanSuccessIsTrue
    <2>2. Clean' => Clean
      BY <1>1, <1>4 DEF Clean, isActive
    <2>3. ASSUME Clean, NEW i \in Jobs, i.by = started PROVE OwnJob(i) /\ OwnJob(i)'
      BY <1>1, <1>4, <2>3 DEF Truth, CleanFlow, OwnJob, Linked
    <2>4. ASSUME Clean, k.by = started PROVE OwnJob(k)'
      <3>1. OwnJob(j) /\ flow.step = "Pushing" /\ Linked
        BY <1>2, <1>4, <2>3, <2>4 DEF OwnJob, Truth, CleanFlow
      <3> QED
        BY <1>1, <1>2, <1>4, <3>1 DEF OwnJob, Linked
    <2>5. CleanFlow'
      BY <1>1, <1>2, <1>4, <2>2, <2>3, <2>4 DEF Truth, CleanFlow, Linked
    <2> QED
      BY <2>1, <2>5
  <1>5. ASSUME NEW r, origin' = [origin EXCEPT ![j.folder] = r], Meddle(j), UNCHANGED pushed,
               (j.op = "addRemote" /\ r = j.repo /\ k.repo = j.repo) \/ j.op = "removeRemote"
        PROVE  CleanFlow' /\ CleanSuccessIsTrue'
    <2>1. CASE isActive /\ flow.path = j.folder /\ j.by # started
      <3>1. attempts' = [attempts EXCEPT ![started].meddled = TRUE]
        BY <1>5, <2>1 DEF Meddle
      <3>2. \A n \in 1..started : n # started => attempts'[n] = attempts[n]
        BY <2>1, <3>1, ActiveFacts
      <3>3. attempts'[started].meddled = TRUE
        BY <2>1, <3>1, ActiveFacts DEF Attempt
      <3>4. CleanSuccessIsTrue'
        BY <1>1, <1>5, <3>2, <3>3 DEF Truth, CleanSuccessIsTrue
      <3>5. CleanFlow'
        BY <1>1, <3>3 DEF CleanFlow, Clean
      <3> QED
        BY <3>4, <3>5
    <2>2. CASE ~(isActive /\ flow.path = j.folder /\ j.by # started)
      <3>1. attempts' = attempts
        BY <1>5, <2>2 DEF Meddle
      <3>2. CleanSuccessIsTrue'
        BY <1>1, <1>5, <3>1 DEF Truth, CleanSuccessIsTrue
      <3>3. Clean' => Clean
        BY <1>1, <3>1 DEF Clean, isActive
      <3>4. ASSUME Clean, j.by = started
            PROVE  j.op = "addRemote" /\ j.folder = flow.path /\ Linked' /\ OwnJob(k)'
        <4>1. j.op = "addRemote" /\ j.folder = flow.path /\ j.repo = flow.repo
              /\ flow.step # "CreatingRepo"
          BY <1>5, <3>4 DEF Truth, CleanFlow, OwnJob
        <4>2. j.folder \in Folders /\ origin \in [Folders -> Repos \cup {NoRepo}]
          BY <1>1 DEF Job, IInv, TypeOK
        <4>3. Linked'
          BY <1>1, <1>5, <4>1, <4>2 DEF Linked
        <4> QED
          BY <1>1, <1>2, <1>5, <4>1, <4>3 DEF OwnJob
      <3>5. ASSUME Clean, Linked PROVE Linked'
        <4>1. CASE j.by = started
          BY <3>4, <3>5, <4>1
        <4>2. CASE j.by # started
          <5>1. flow.path # j.folder
            BY <2>2, <3>5, <4>2 DEF Clean
          <5>2. flow.path \in Folders /\ origin \in [Folders -> Repos \cup {NoRepo}]
            BY <3>5 DEF Clean, isActive, IInv, TypeOK, Flow
          <5> QED
            BY <1>1, <1>5, <3>5, <5>1, <5>2 DEF Linked
        <4> QED
          BY <4>1, <4>2
      <3>6. ASSUME Clean, NEW i \in Jobs, i.by = started PROVE OwnJob(i)'
        <4>1. OwnJob(i)
          BY <3>6 DEF Truth, CleanFlow
        <4> QED
          BY <1>1, <1>5, <3>5, <3>6, <4>1 DEF OwnJob
      <3>7. CleanFlow'
        BY <1>1, <1>2, <3>3, <3>4, <3>5, <3>6 DEF Truth, CleanFlow
      <3> QED
        BY <3>2, <3>7
    <2> QED
      BY <2>1, <2>2
  <1> QED
    BY <1>2, <1>3, <1>4, <1>5

\* The two steps a result can take the flow to.
LEMMA StepTrue ==
    ASSUME IInv, Truth, NEW j \in Jobs, NEW k, isActive, UNCHANGED <<started, origin, pushed>>,
           \A i \in Jobs' : i \in Jobs \/ i.by = 0 \/ i = k,
           \/ /\ flow.step = "AddingRemote" /\ Advance("RefreshingState", flow.repo, j.by # started)
              /\ j.op \in {"addRemote", "removeRemote"} /\ j.res = "ok"
              /\ k.op = "refresh" /\ k.folder = flow.path
           \/ /\ flow.step = "RefreshingState" /\ Advance("Pushing", flow.repo, j.by # started)
              /\ k.op = "push" /\ k.folder = flow.path /\ k.res = "queued"
    PROVE  CleanFlow' /\ CleanSuccessIsTrue'
  <1>1. /\ CleanSuccessIsTrue' /\ flow'.repo = flow.repo /\ flow'.path = flow.path
        /\ flow'.step \in {"RefreshingState", "Pushing"}
        /\ Clean' => Clean /\ j.by = started
        /\ flow.step = "RefreshingState" => flow'.step = "Pushing"
    <2>1. CASE Advance("RefreshingState", flow.repo, j.by # started) /\ flow.step = "AddingRemote"
      BY <2>1, AdvanceTrue DEF Steps
    <2>2. CASE Advance("Pushing", flow.repo, j.by # started)
      BY <2>2, AdvanceTrue DEF Steps
    <2> QED
      BY <2>1, <2>2
  <1>2. ASSUME Clean' PROVE Linked /\ Linked'
    <2>1. Linked
      BY <1>1, <1>2 DEF Truth, CleanFlow, OwnJob
    <2> QED
      BY <1>1, <2>1 DEF Linked
  <1>3. ASSUME Clean', NEW i \in Jobs', i.by = started PROVE OwnJob(i)'
    <2>1. CASE i = k
      BY <1>1, <1>2, <2>1 DEF OwnJob
    <2>2. CASE i \in Jobs
      <3>1. OwnJob(i)
        BY <1>1, <1>3, <2>2 DEF Truth, CleanFlow
      <3> QED
        BY <1>1, <1>2, <1>3, <3>1 DEF OwnJob
    <2> QED
      BY <1>3, <2>1, <2>2, ActiveFacts
  <1>4. CleanFlow'
    BY <1>1, <1>2, <1>3 DEF CleanFlow
  <1> QED
    BY <1>1, <1>4

LEMMA ResultTrue == ASSUME IInv, Truth, Results PROVE CleanFlow' /\ CleanSuccessIsTrue'
  <1> PICK j \in Jobs : Deliver(j)
    BY DEF Results
  <1>1. UNCHANGED <<started, origin, pushed>>
    BY DEF Deliver, DeliverRemoteOp, DeliverLocalState, DeliverPush, gitVars
  <1>2. \A k \in FinishJobs \cup WindowJobs(j) : k.by = 0
    BY WindowIsNobody
  <1>3. ASSUME UNCHANGED flowVars, \A k \in Jobs' : k \in Jobs \/ k.by = 0
        PROVE  CleanFlow' /\ CleanSuccessIsTrue'
    BY <1>1, <1>3, StayTrue DEF flowVars
  <1>4. ASSUME flow.step # "Idle" PROVE isActive
    BY <1>4 DEF IInv, FlowConsistent
  <1>5. CASE DeliverRemoteOp(j)
    <2>1. j.op \in {"addRemote", "removeRemote"} /\ FlowRemoteOp(j)
      BY <1>5 DEF DeliverRemoteOp
    <2>2. CASE Ignored
      <3>1. Jobs' \subseteq Jobs \cup FinishJobs \cup WindowJobs(j)
        BY <1>5, <2>2, SubmitSet, WithoutSet DEF DeliverRemoteOp, Ignored, flowVars, Jobs
      <3> QED
        BY <1>2, <1>3, <2>2, <3>1 DEF Ignored
    <2>3. CASE \E result \in {"linkFailed", "connected"} :
                  flow.step # "Idle" /\ Finish(result, j.by # started)
      BY <1>1, <1>4, <2>3, EndTrue DEF Outcomes
    <2>4. CASE /\ flow.step = "AddingRemote" /\ j.res = "ok"
               /\ Advance("RefreshingState", flow.repo, j.by # started)
      <3>1. PICK k : /\ k.op = "refresh" /\ k.folder = flow.path
                     /\ Jobs' \subseteq Jobs \cup FinishJobs \cup WindowJobs(j) \cup {k}
        <4>1. Jobs' \subseteq Jobs \cup FinishJobs \cup WindowJobs(j)
                              \cup {Refresh(flow.path, started)}
          BY <1>5, SubmitSet, WithoutSet DEF DeliverRemoteOp, Jobs
        <4>2. Refresh(flow.path, started).op = "refresh"
              /\ Refresh(flow.path, started).folder = flow.path
          BY DEF Refresh, NewJob
        <4> QED
          BY <4>1, <4>2
      <3>2. \A i \in Jobs' : i \in Jobs \/ i.by = 0 \/ i = k
        BY <1>2, <3>1
      <3> QED
        BY <1>1, <1>4, <2>1, <2>4, <3>1, <3>2, StepTrue
    <2> QED
      BY <2>1, <2>2, <2>3, <2>4 DEF FlowRemoteOp
  <1>6. CASE DeliverLocalState(j)
    <2>1. FlowLocalState(j)
      BY <1>6 DEF DeliverLocalState
    <2>2. CASE Ignored
      <3>1. Jobs' \subseteq Jobs \cup FinishJobs
        BY <1>6, <2>2, SubmitSet, WithoutSet DEF DeliverLocalState, Ignored, flowVars, Jobs
      <3> QED
        BY <1>2, <1>3, <2>2, <3>1 DEF Ignored
    <2>3. CASE flow.step # "Idle" /\ Finish("connected", j.by # started)
      BY <1>1, <1>4, <2>3, EndTrue DEF Outcomes
    <2>4. CASE flow.step = "RefreshingState" /\ Advance("Pushing", flow.repo, j.by # started)
      <3>1. PICK k : /\ k.op = "push" /\ k.folder = flow.path /\ k.res = "queued"
                     /\ Jobs' \subseteq Jobs \cup FinishJobs \cup {k}
        <4> DEFINE new == NewJob("push", flow.path, NoRepo, started)
        <4>1. Jobs' \subseteq Jobs \cup FinishJobs \cup {new}
          BY <1>6, SubmitSet, WithoutSet DEF DeliverLocalState, Jobs
        <4>2. new.op = "push" /\ new.folder = flow.path /\ new.res = "queued"
          BY DEF NewJob
        <4> QED
          BY <4>1, <4>2
      <3>2. \A i \in Jobs' : i \in Jobs \/ i.by = 0 \/ i = k
        BY <1>2, <3>1
      <3> QED
        BY <1>1, <1>4, <2>4, <3>1, <3>2, StepTrue
    <2> QED
      BY <2>1, <2>2, <2>3, <2>4 DEF FlowLocalState
  <1>7. CASE DeliverPush(j)
    <2>1. FlowPush(j) /\ j.op = "push"
      BY <1>7 DEF DeliverPush
    <2>2. CASE Ignored
      <3>1. Jobs' \subseteq Jobs \cup FinishJobs \cup WindowJobs(j)
        BY <1>7, <2>2, SubmitSet, WithoutSet DEF DeliverPush, Ignored, flowVars, Jobs
      <3> QED
        BY <1>2, <1>3, <2>2, <3>1 DEF Ignored
    <2>3. CASE /\ flow.step = "Pushing"
               /\ Finish(IF j.res = "ok" THEN "pushed" ELSE "pushFailed", j.by # started)
      <3>1. ASSUME j.res = "ok", ~(j.by # started), Clean
            PROVE  <<flow.path, flow.repo>> \in pushed
        BY <2>1, <3>1 DEF Truth, CleanFlow, OwnJob
      <3>2. CASE j.res = "ok"
        <4>1. Finish("pushed", j.by # started)
          BY <2>3, <3>2
        <4> QED
          BY <1>1, <1>4, <2>3, <3>1, <3>2, <4>1, EndTrue DEF Outcomes
      <3>3. CASE j.res # "ok"
        <4>1. Finish("pushFailed", j.by # started)
          BY <2>3, <3>3
        <4> QED
          BY <1>1, <1>4, <2>3, <4>1, EndTrue DEF Outcomes
      <3> QED
        BY <3>2, <3>3
    <2> QED
      BY <2>1, <2>2, <2>3 DEF FlowPush
  <1> QED
    BY <1>5, <1>6, <1>7 DEF Deliver

LEMMA UserTrue == ASSUME IInv, Truth, User PROVE CleanFlow' /\ CleanSuccessIsTrue'
  <1>1. UNCHANGED <<flow, attempts, started, origin, pushed>>
    BY DEF User, ActivateFolder, FirstCommit, ManualRemoteOp, ManualPush, ManualRefresh,
       OtherRequest, flowVars, gitVars
  <1>2. ASSUME NEW k, k.by = 0, pool' = Submit(pool, {k})
        PROVE  \A i \in Jobs' : i \in Jobs \/ i.by = 0
    BY <1>2, SubmitSet DEF Jobs
  <1>3. \A op, f, r : NewJob(op, f, r, 0).by = 0 /\ Refresh(f, 0).by = 0
    BY DEF NewJob, Refresh
  <1>4. ASSUME UNCHANGED pool PROVE \A i \in Jobs' : i \in Jobs \/ i.by = 0
    BY <1>4 DEF Jobs
  <1>5. \A i \in Jobs' : i \in Jobs \/ i.by = 0
    BY <1>2, <1>3, <1>4 DEF User, ActivateFolder, FirstCommit, ManualRemoteOp, ManualPush,
       ManualRefresh, OtherRequest
  <1> QED
    BY <1>1, <1>5, StayTrue

LEMMA NextTrue ==
    ASSUME IInv, NoPushWithoutConsent, Truth, [Next]_vars
    PROVE  Truth'
  <1>1. JobsOfStarts'
    BY NextConsent DEF Truth
  <1>2. ASSUME GitHub \/ UNCHANGED vars PROVE CleanFlow' /\ CleanSuccessIsTrue'
    BY <1>2, StayTrue DEF GitHub, GitHubCreates, GitHubRefuses, flowVars, gitVars, vars, Jobs
  <1>3. ASSUME WatchdogTimeout PROVE CleanFlow' /\ CleanSuccessIsTrue'
    BY <1>3, EndTrue DEF WatchdogTimeout, gitVars, Outcomes, IInv, FlowConsistent
  <1>4. CleanFlow' /\ CleanSuccessIsTrue'
    BY <1>2, <1>3, StartTrue, ReplyTrue, WorkerTrue, ResultTrue, UserTrue DEF Next
  <1> QED
    BY <1>1, <1>4 DEF Truth

\* A report that the flow has pushed is true if nothing but its own results moved
\* it and nobody else changed the origin of its folder: what was in the folder is
\* in the repository it was published to.
THEOREM CleanReportsAreTrue == Spec => []CleanSuccessIsTrue
  <1>1. Init => NoPushWithoutConsent /\ Truth
    <2> SUFFICES ASSUME Init PROVE NoPushWithoutConsent /\ Truth
      OBVIOUS
    <2>1. Jobs = {}
      BY DEF Init, Jobs, BagToSet, EmptyBag, SetToBag
    <2>2. ~isActive /\ started = 0
      BY DEF Init, NoFlow, isActive
    <2> QED
      BY <2>1, <2>2 DEF NoPushWithoutConsent, Truth, JobsOfStarts, CleanFlow, Clean,
         CleanSuccessIsTrue
  <1>2. IInv /\ NoPushWithoutConsent /\ Truth /\ [Next]_vars
           => NoPushWithoutConsent' /\ Truth'
    BY NextConsent, NextTrue DEF Truth
  <1>3. Truth => CleanSuccessIsTrue
    BY DEF Truth
  <1> QED
    BY <1>1, <1>2, <1>3, InitInv, NextInv, PTL DEF Spec
=============================================================================
