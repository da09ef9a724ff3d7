------------------------- MODULE LocalDevicesProofs -------------------------
(***************************************************************************)
(* Proof that get_local_devices lists what ListedAsConfigured says, for    *)
(* every directory of driver files and for settings of every length.  The  *)
(* loops of the function are folds over lists; what they compute is shown  *)
(* by induction on how far they have come.  The library states induction   *)
(* for an operator, which the provers cannot instantiate; here it is       *)
(* stated for a set.                                                       *)
(***************************************************************************)
EXTENDS MCLocalDevices, TLAPS, FiniteSetTheorems, FunctionTheorems, SequenceTheorems

-----------------------------------------------------------------------------
(* Induction and folds.                                                      *)

\* Natural numbers have a least among them.
LEMMA MinOf ==
  ASSUME NEW X \in SUBSET Nat, X # {}
  PROVE  Min(X) \in X /\ \A x \in X : Min(X) <= x
<1> DEFINE Less == OpToRel(<, Nat)
<1>1. PICK n \in X : \A m \in X : ~(<<m, n>> \in Less)
  <2> HIDE DEF Less
  <2>1. IsWellFoundedOn(Less, Nat)
    BY NatLessThanWellFounded DEF Less
  <2>2. X \subseteq Nat
    OBVIOUS
  <2>3. QED
    BY <2>1, <2>2, WFMin, Zenon
<1>2. \A m \in X : ~(m < n)
  BY <1>1 DEF OpToRel
<1>3. \A m \in X : n <= m
  BY <1>2
<1>4. QED
  BY <1>3 DEF Min

\* A set that has 0 and the successors of its numbers has them all: otherwise
\* the least that is missing would follow one that is not.
LEMMA NatSetInduction ==
  ASSUME NEW T, 0 \in T, \A n \in Nat : n \in T => n + 1 \in T
  PROVE  Nat \subseteq T
<1> DEFINE Missing == Nat \ T
           n == Min(Missing)
<1> SUFFICES ASSUME Missing # {} PROVE FALSE
  OBVIOUS
<1>1. n \in Missing /\ \A m \in Missing : n <= m
  <2>1. Missing \in SUBSET Nat
    OBVIOUS
  <2> HIDE DEF Missing
  <2>2. QED
    BY <2>1, MinOf
<1> HIDE DEF n
<1>2. n # 0 /\ n - 1 \in Nat
  BY <1>1
<1>3. n - 1 \in T
  BY <1>1, <1>2
<1>4. QED
  BY <1>1, <1>2, <1>3

\* The same for the numbers up to a bound.
LEMMA IntervalInduction ==
  ASSUME NEW T, NEW n \in Nat, 0 \in T, \A k \in 1 .. n : k - 1 \in T => k \in T
  PROVE  0 .. n \subseteq T
<1> DEFINE U == T \cup {k \in Nat : k > n}
<1>1. \A k \in Nat : k \in U => k + 1 \in U
  <2> SUFFICES ASSUME NEW k \in Nat, k \in T, k + 1 <= n PROVE k + 1 \in T
    OBVIOUS
  <2>1. k + 1 \in 1 .. n /\ (k + 1) - 1 = k
    OBVIOUS
  <2>2. QED
    BY <2>1
<1>2. Nat \subseteq U
  <2>1. 0 \in U
    OBVIOUS
  <2> HIDE DEF U
  <2>2. QED
    BY <1>1, <2>1, NatSetInduction
<1>3. QED
  BY <1>2

\* Numbers below a bound have a largest.
LEMMA MaxOf ==
  ASSUME NEW n \in Nat, NEW X \in SUBSET (1 .. n), X # {}
  PROVE  Max(X) \in X /\ \A x \in X : x <= Max(X)
<1> DEFINE T == {m \in Nat : \A Y \in SUBSET (1 .. m) : Y # {} => \E y \in Y : \A z \in Y : y >= z}
<1>1. 0 \in T
  <2>1. \A Y \in SUBSET (1 .. 0) : Y = {}
    OBVIOUS
  <2>2. QED
    BY <2>1
<1>2. ASSUME NEW m \in Nat, m \in T PROVE m + 1 \in T
  <2> SUFFICES ASSUME NEW Y \in SUBSET (1 .. m + 1), Y # {}
               PROVE  \E y \in Y : \A z \in Y : y >= z
    OBVIOUS
  <2>1. CASE m + 1 \in Y
    BY <2>1
  <2>2. CASE m + 1 \notin Y
    <3>1. Y \in SUBSET (1 .. m)
      BY <2>2
    <3>2. QED
      BY <1>2, <3>1
  <2>3. QED
    BY <2>1, <2>2
<1>3. n \in T
  <2> HIDE DEF T
  <2>1. QED
    BY <1>1, <1>2, NatSetInduction
<1>4. \E x \in X : \A y \in X : x >= y
  BY <1>3
<1>5. Max(X) \in X /\ \A y \in X : Max(X) >= y
  BY <1>4 DEF Max
<1>6. QED
  BY <1>5

\* The largest of the first k numbers.
LEMMA MaxOfInterval ==
  ASSUME NEW k \in Nat \ {0}
  PROVE  Max(1 .. k) = k /\ (1 .. k) \ {k} = 1 .. (k - 1)
<1>1. k \in Nat /\ 1 .. k \in SUBSET (1 .. k) /\ 1 .. k # {}
  OBVIOUS
<1>2. Max(1 .. k) \in 1 .. k /\ \A x \in 1 .. k : x <= Max(1 .. k)
  BY <1>1, MaxOf, Zenon
<1>3. QED
  BY <1>2

\* f is the fold of step over the sets of indices up to n, the largest last.
IsFold(f, base, n, step) ==
  \A X \in SUBSET (1 .. n) :
    f[X] = IF X = {} THEN base ELSE step[<<Max(X), f[X \ {Max(X)}]>>]

\* Whatever a step makes of a value, there is a function on the sets of indices
\* that applies it to their largest first, as MapThenFoldSet wants it.
LEMMA FoldExists ==
  ASSUME NEW V, NEW base \in V, NEW n \in Nat, NEW step \in [(1 .. n) \X V -> V]
  PROVE  \E f \in [SUBSET (1 .. n) -> V] : IsFold(f, base, n, step)
<1> USE DEF IsFold
<1> DEFINE Folds(m, f) == IsFold(f, base, m, step)
           T == {m \in Nat : \E f \in [SUBSET (1 .. m) -> V] : Folds(m, f)}
<1>1. 0 \in T
  <2>1. SUBSET (1 .. 0) = {{}}
    OBVIOUS
  <2>2. [X \in SUBSET (1 .. 0) |-> base] \in [SUBSET (1 .. 0) -> V]
    OBVIOUS
  <2>3. Folds(0, [X \in SUBSET (1 .. 0) |-> base])
    BY <2>1
  <2>4. QED
    BY <2>2, <2>3
<1>2. ASSUME NEW k \in 1 .. n, k - 1 \in T PROVE k \in T
  <2>1. PICK f \in [SUBSET (1 .. (k - 1)) -> V] : Folds(k - 1, f)
    BY <1>2
  <2> DEFINE g == [X \in SUBSET (1 .. k) |-> IF k \in X THEN step[<<k, f[X \ {k}]>>] ELSE f[X]]
  <2>2. \A X \in SUBSET (1 .. k) : X \ {k} \in SUBSET (1 .. (k - 1))
    OBVIOUS
  <2>3. g \in [SUBSET (1 .. k) -> V]
    <3>1. ASSUME NEW X \in SUBSET (1 .. k) PROVE f[X \ {k}] \in V
      BY <2>1, <2>2
    <3>2. ASSUME NEW X \in SUBSET (1 .. k), k \notin X PROVE f[X] \in V
      <4>1. X = X \ {k}
        BY <3>2
      <4>2. QED
        BY <3>1, <4>1
    <3>3. ASSUME NEW X \in SUBSET (1 .. k) PROVE step[<<k, f[X \ {k}]>>] \in V
      BY <3>1
    <3>4. QED
      BY <3>2, <3>3
  <2>4. Folds(k, g)
    <3> SUFFICES ASSUME NEW X \in SUBSET (1 .. k)
                 PROVE  g[X] = IF X = {} THEN base ELSE step[<<Max(X), g[X \ {Max(X)}]>>]
      OBVIOUS
    <3>1. CASE k \in X
      <4>1. Max(X) = k
        <5>1. k \in Nat /\ X # {}
          BY <3>1
        <5>2. Max(X) \in X /\ \A x \in X : x <= Max(X)
          BY <5>1, MaxOf, Zenon
        <5>3. Max(X) \in 1 .. k /\ k <= Max(X)
          BY <3>1, <5>2
        <5>4. QED
          BY <5>3
      <4>2. g[X \ {k}] = f[X \ {k}]
        BY <2>2
      <4>3. g[X] = step[<<k, f[X \ {k}]>>]
        BY <3>1
      <4>4. QED
        BY <3>1, <4>1, <4>2, <4>3
    <3>2. CASE k \notin X
      <4>0. X \subseteq 1 .. (k - 1)
        BY <3>2
      <4>1. X \in SUBSET (1 .. (k - 1)) /\ X \ {Max(X)} \in SUBSET (1 .. (k - 1))
        BY <4>0, Zenon
      <4>2. g[X] = f[X] /\ g[X \ {Max(X)}] = f[X \ {Max(X)}]
        BY <3>2, <4>1
      <4>3. QED
        BY <2>1, <4>1, <4>2
    <3>3. QED
      BY <3>1, <3>2
  <2>5. k \in Nat /\ \E h \in [SUBSET (1 .. k) -> V] : Folds(k, h)
    <3> HIDE DEF g, Folds
    <3>1. QED
      BY <2>3, <2>4
  <2>6. QED
    BY <2>5
<1>3. n \in T
  <2> HIDE DEF T
  <2>1. QED
    BY <1>1, <1>2, IntervalInduction
<1>4. QED
  BY <1>3

-----------------------------------------------------------------------------
(* How often a name is in a list.                                            *)

LEMMA TimesType ==
  ASSUME NEW s \in Seq(Name), NEW n
  PROVE  /\ Times(n, s) \in Nat
         /\ Times(n, s) > 0 <=> \E i \in 1 .. Len(s) : s[i] = n
<1> DEFINE At == {i \in 1 .. Len(s) : s[i] = n}
<1>1. DOMAIN s = 1 .. Len(s) /\ Len(s) \in Nat
  BY LenProperties
<1>2. IsFiniteSet(At)
  <2>1. IsFiniteSet(1 .. Len(s)) /\ At \in SUBSET (1 .. Len(s))
    BY <1>1, FS_Interval
  <2>2. QED
    BY <2>1, FS_Subset
<1>3. Times(n, s) = Cardinality(At)
  BY <1>1 DEF Times
<1>4. Cardinality(At) \in Nat /\ (Cardinality(At) = 0 <=> At = {})
  BY <1>2, FS_CardinalityType, FS_EmptySet
<1>5. QED
  BY <1>3, <1>4

LEMMA TimesOne ==
  ASSUME NEW e \in Name, NEW n
  PROVE  <<e>> \in Seq(Name) /\ Times(n, <<e>>) = IF e = n THEN 1 ELSE 0
<1>1. DOMAIN <<e>> = {1}
  OBVIOUS
<1>2. {i \in DOMAIN <<e>> : <<e>>[i] = n} = IF e = n THEN {1} ELSE {}
  BY <1>1
<1>3. QED
  BY <1>2, FS_Singleton, FS_EmptySet DEF Times

LEMMA TimesConcat ==
  ASSUME NEW s \in Seq(Name), NEW t \in Seq(Name), NEW n
  PROVE  s \o t \in Seq(Name) /\ Times(n, s \o t) = Times(n, s) + Times(n, t)
<1> DEFINE p == Len(s)
           q == Len(t)
           A == {i \in 1 .. p : s[i] = n}
           B == {i \in 1 .. q : t[i] = n}
           C == {i \in 1 .. p + q : (s \o t)[i] = n}
           D == {i \in p + 1 .. p + q : t[i - p] = n}
<1>1. /\ p \in Nat /\ q \in Nat
      /\ DOMAIN s = 1 .. p /\ DOMAIN t = 1 .. q /\ DOMAIN (s \o t) = 1 .. p + q
      /\ s \o t \in Seq(Name)
  BY LenProperties, ConcatProperties
<1>2. C = A \cup D
  <2>1. \A i \in 1 .. p + q : (s \o t)[i] = IF i <= p THEN s[i] ELSE t[i - p]
    BY ConcatProperties
  <2>2. QED
    BY <1>1, <2>1
<1>3. A \cap D = {}
  BY <1>1
<1>4. IsFiniteSet(A) /\ IsFiniteSet(B)
  <2>1. IsFiniteSet(1 .. p) /\ IsFiniteSet(1 .. q)
    BY <1>1, FS_Interval
  <2>2. A \in SUBSET (1 .. p) /\ B \in SUBSET (1 .. q)
    OBVIOUS
  <2>3. QED
    BY <2>1, <2>2, FS_Subset
<1>5. IsFiniteSet(D) /\ Cardinality(D) = Cardinality(B)
  <2> DEFINE f == [i \in B |-> i + p]
  <2>1. f \in [B -> D]
    BY <1>1
  <2>2. \A i, j \in B : f[i] = f[j] => i = j
    BY <1>1
  <2>3. \A d \in D : \E i \in B : f[i] = d
    <3> SUFFICES ASSUME NEW d \in D PROVE d - p \in B /\ f[d - p] = d
      OBVIOUS
    <3>1. QED
      BY <1>1
  <2>4. f \in Bijection(B, D)
    <3> HIDE DEF B, D, f
    <3>1. QED
      BY <2>1, <2>2, <2>3 DEF Bijection, Injection, Surjection, IsInjective
  <2>5. ExistsBijection(B, D)
    BY <2>4 DEF ExistsBijection
  <2>6. QED
    BY <1>4, <2>5, FS_Bijection
<1>6. Cardinality(C) = Cardinality(A) + Cardinality(B)
  <2> HIDE DEF A, B, C, D
  <2>1. Cardinality(A \cup D) = Cardinality(A) + Cardinality(D) - Cardinality(A \cap D)
    BY <1>4, <1>5, FS_Union
  <2>2. Cardinality(A) \in Nat /\ Cardinality(D) \in Nat /\ Cardinality(A \cap D) = 0
    BY <1>3, <1>4, <1>5, FS_CardinalityType, FS_EmptySet
  <2>3. QED
    BY <1>2, <1>5, <2>1, <2>2
<1>7. QED
  BY <1>1, <1>6 DEF Times

LEMMA TimesAppend ==
  ASSUME NEW s \in Seq(Name), NEW e \in Name, NEW n
  PROVE  /\ Append(s, e) \in Seq(Name)
         /\ Times(n, Append(s, e)) = Times(n, s) + (IF e = n THEN 1 ELSE 0)
<1> DEFINE one == <<e>>
<1>1. Append(s, e) = s \o one
  BY AppendIsConcat
<1>2. one \in Seq(Name) /\ Times(n, one) = IF e = n THEN 1 ELSE 0
  BY TimesOne
<1> HIDE DEF one
<1>3. s \o one \in Seq(Name) /\ Times(n, s \o one) = Times(n, s) + Times(n, one)
  BY <1>2, TimesConcat
<1>4. QED
  BY <1>1, <1>2, <1>3

\* list.remove takes one occurrence away, if there is one.
LEMMA TimesIgnore ==
  ASSUME NEW s \in Seq(Name), NEW e, NEW n
  PROVE  /\ Ignore(s, e) \in Seq(Name)
         /\ Times(n, Ignore(s, e)) =
              IF n = e /\ Times(n, s) > 0 THEN Times(n, s) - 1 ELSE Times(n, s)
<1>1. CASE \E i \in 1 .. Len(s) : s[i] = e
  <2> DEFINE I == {j \in 1 .. Len(s) : s[j] = e}
             i == SelectInSeq(s, LAMBDA v : v = e)
             before == SubSeq(s, 1, i - 1)
             after  == SubSeq(s, i + 1, Len(s))
  <2>0. Len(s) \in Nat /\ s \in [1 .. Len(s) -> Name]
    BY LenProperties
  <2>1. i = Min(I)
    BY <1>1 DEF SelectInSeq
  <2>2. i \in 1 .. Len(s) /\ s[i] = e
    <3>1. I \in SUBSET Nat /\ I # {}
      BY <1>1
    <3>2. Min(I) \in I
      <4> HIDE DEF I
      <4>1. QED
        BY <3>1, MinOf
    <3>3. QED
      BY <2>1, <3>2
  <2>3. Ignore(s, e) = before \o after
    BY <1>1 DEF Ignore, RemoveFirst, RemoveAt
  <2> HIDE DEF i
  <2>4. /\ before \in Seq(Name) /\ Len(before) = i - 1
        /\ \A j \in 1 .. i - 1 : before[j] = s[j]
    <3>1. 1 \in Int /\ i - 1 \in Int /\ \A j \in 1 .. i - 1 : s[j] \in Name
      BY <2>0, <2>2
    <3>2. /\ before \in Seq(Name)
          /\ Len(before) = IF 1 <= i - 1 THEN (i - 1) - 1 + 1 ELSE 0
          /\ \A j \in 1 .. (i - 1) - 1 + 1 : before[j] = s[1 + j - 1]
      BY <3>1, SubSeqProperties
    <3> HIDE DEF before
    <3>3. QED
      BY <2>0, <2>2, <3>2
  <2>5. /\ after \in Seq(Name) /\ Len(after) = Len(s) - i
        /\ \A j \in 1 .. Len(s) - i : after[j] = s[i + j]
    <3>1. i + 1 \in Int /\ Len(s) \in Int /\ \A j \in i + 1 .. Len(s) : s[j] \in Name
      BY <2>0, <2>2
    <3>2. /\ after \in Seq(Name)
          /\ Len(after) = IF i + 1 <= Len(s) THEN Len(s) - (i + 1) + 1 ELSE 0
          /\ \A j \in 1 .. Len(s) - (i + 1) + 1 : after[j] = s[(i + 1) + j - 1]
      BY <3>1, SubSeqProperties
    <3> HIDE DEF after
    <3>3. Len(after) = Len(s) - i
      <4>1. Len(after) = IF i + 1 <= Len(s) THEN Len(s) - (i + 1) + 1 ELSE 0
        BY <3>2
      <4>2. i \in Nat /\ i <= Len(s) /\ Len(s) \in Nat
        BY <2>0, <2>2
      <4>3. QED
        BY <4>1, <4>2
    <3>4. ASSUME NEW j \in 1 .. Len(s) - i PROVE after[j] = s[i + j]
      <4>1. j \in 1 .. Len(s) - (i + 1) + 1 /\ (i + 1) + j - 1 = i + j
        BY <2>0, <2>2
      <4>2. QED
        BY <3>2, <4>1
    <3>5. QED
      BY <3>2, <3>3, <3>4
  <2> HIDE DEF before, after
  <2> DEFINE r == before \o after
  <2>6. /\ r \in Seq(Name) /\ Len(r) = Len(s) - 1
        /\ \A j \in 1 .. Len(s) - 1 : r[j] = IF j < i THEN s[j] ELSE s[j + 1]
    <3>1. /\ r \in Seq(Name) /\ Len(r) = Len(before) + Len(after)
          /\ \A j \in 1 .. Len(before) + Len(after) :
               r[j] = IF j <= Len(before) THEN before[j] ELSE after[j - Len(before)]
      BY <2>4, <2>5, ConcatProperties
    <3> HIDE DEF r
    <3>2. Len(r) = Len(s) - 1
      BY <2>0, <2>2, <2>4, <2>5, <3>1
    <3>3. ASSUME NEW j \in 1 .. Len(s) - 1 PROVE r[j] = IF j < i THEN s[j] ELSE s[j + 1]
      <4>1. CASE j < i
        BY <2>0, <2>2, <2>4, <2>5, <3>1, <4>1
      <4>2. CASE j >= i
        <5>1. j - (i - 1) \in 1 .. Len(s) - i /\ i + (j - (i - 1)) = j + 1
          BY <2>0, <2>2, <4>2
        <5>2. r[j] = after[j - (i - 1)]
          <6>1. Len(before) = i - 1 /\ j \in 1 .. Len(before) + Len(after) /\ ~(j <= Len(before))
            BY <2>0, <2>2, <2>4, <2>5, <4>2
          <6>2. QED
            BY <3>1, <6>1
        <5>3. QED
          BY <2>2, <2>5, <4>2, <5>1, <5>2
      <4>3. QED
        BY <2>0, <2>2, <4>1, <4>2
    <3>4. QED
      BY <3>1, <3>2, <3>3
  <2> HIDE DEF r
  <2> DEFINE Old == {j \in 1 .. Len(s) : s[j] = n}
             New == {j \in 1 .. Len(s) - 1 : r[j] = n}
             f == [j \in New |-> IF j < i THEN j ELSE j + 1]
  <2>7. f \in Bijection(New, Old \ {i})
    <3>1. f \in [New -> Old \ {i}]
      BY <2>0, <2>2, <2>6
    <3>2. \A j, k \in New : f[j] = f[k] => j = k
      BY <2>0, <2>2
    <3>3. ASSUME NEW k \in Old \ {i} PROVE \E j \in New : f[j] = k
      <4>1. CASE k < i
        <5>1. k \in New /\ f[k] = k
          BY <2>0, <2>2, <2>6, <4>1
        <5>2. QED
          BY <5>1
      <4>2. CASE k > i
        <5>1. k - 1 \in New /\ f[k - 1] = k
          BY <2>0, <2>2, <2>6, <4>2
        <5>2. QED
          BY <5>1
      <4>3. QED
        BY <2>0, <2>2, <4>1, <4>2
    <3> HIDE DEF f, Old, New
    <3>4. QED
      BY <3>1, <3>2, <3>3 DEF Bijection, Injection, Surjection, IsInjective
  <2>8. IsFiniteSet(Old)
    <3>1. IsFiniteSet(1 .. Len(s)) /\ Old \in SUBSET (1 .. Len(s))
      BY <2>0, FS_Interval
    <3>2. QED
      BY <3>1, FS_Subset
  <2>9. Times(n, s) = Cardinality(Old) /\ Times(n, r) = Cardinality(New)
    <3>1. DOMAIN s = 1 .. Len(s) /\ DOMAIN r = 1 .. Len(s) - 1
      BY <2>6, LenProperties
    <3>2. QED
      BY <3>1 DEF Times
  <2>10. i \in Old <=> n = e
    BY <2>2
  <2> HIDE DEF Old, New, f
  <2>11. IsFiniteSet(New) /\ Cardinality(New) = Cardinality(Old \ {i})
    <3>1. IsFiniteSet(Old \ {i})
      BY <2>8, FS_RemoveElement
    <3>2. ExistsBijection(New, Old \ {i})
      BY <2>7 DEF ExistsBijection
    <3>3. ExistsBijection(Old \ {i}, New)
      BY <3>2, Fun_ExistsBijSymmetric
    <3>4. QED
      BY <3>1, <3>3, FS_Bijection
  <2>12. Times(n, r) = IF n = e THEN Times(n, s) - 1 ELSE Times(n, s)
    BY <2>8, <2>9, <2>10, <2>11, FS_RemoveElement
  <2>13. n = e => Times(n, s) > 0
    BY <1>1, TimesType
  <2>14. QED
    BY <2>3, <2>6, <2>12, <2>13 DEF r
<1>2. CASE ~\E i \in 1 .. Len(s) : s[i] = e
  <2>1. Ignore(s, e) = s
    BY <1>2 DEF Ignore, RemoveFirst
  <2>2. ~(Times(e, s) > 0)
    BY <1>2, TimesType
  <2>3. QED
    BY <2>1, <2>2
<1>3. QED
  BY <1>1, <1>2

\* An alias is appended when its real name is listed.
LEMMA TimesAddAlias ==
  ASSUME NEW s \in Seq(Name), NEW pair \in Name \X Name, NEW n
  PROVE  /\ AddAlias(s, pair) \in Seq(Name)
         /\ Times(n, AddAlias(s, pair)) =
              Times(n, s) + (IF Times(pair[2], s) > 0 /\ pair[1] = n THEN 1 ELSE 0)
<1>0. Times(n, s) \in Nat
  BY TimesType
<1>1. Contains(s, pair[2]) <=> Times(pair[2], s) > 0
  BY TimesType DEF Contains
<1>2. CASE Contains(s, pair[2])
  <2>1. AddAlias(s, pair) = Append(s, pair[1]) /\ pair[1] \in Name
    BY <1>2 DEF AddAlias
  <2>2. QED
    BY <1>0, <1>1, <1>2, <2>1, TimesAppend
<1>3. CASE ~Contains(s, pair[2])
  BY <1>0, <1>1, <1>3 DEF AddAlias
<1>4. QED
  BY <1>2, <1>3

\* How often a name is among the first k of a list: from none to all of them.
LEMMA PrefixEnds ==
  ASSUME NEW s \in Seq(Name), NEW n
  PROVE  Times(n, SubSeq(s, 1, 0)) = 0 /\ Times(n, SubSeq(s, 1, Len(s))) = Times(n, s)
<1>1. Times(n, SubSeq(s, 1, 0)) = 0
  <2>1. SubSeq(s, 1, 0) = <<>>
    BY SubSeqEmpty
  <2>2. {i \in DOMAIN <<>> : <<>>[i] = n} = {}
    OBVIOUS
  <2>3. QED
    BY <2>1, <2>2, FS_EmptySet DEF Times
<1>2. SubSeq(s, 1, Len(s)) = s
  BY SubSeqFull
<1>3. QED
  BY <1>1, <1>2

\* The k-th adds itself.
LEMMA PrefixTimes ==
  ASSUME NEW s \in Seq(Name), NEW n, NEW k \in 1 .. Len(s)
  PROVE  /\ Times(n, SubSeq(s, 1, k - 1)) \in Nat
         /\ Times(n, SubSeq(s, 1, k)) =
              Times(n, SubSeq(s, 1, k - 1)) + (IF s[k] = n THEN 1 ELSE 0)
<1> DEFINE pre == SubSeq(s, 1, k - 1)
<1>1. Len(s) \in Nat /\ s \in [1 .. Len(s) -> Name]
  BY LenProperties
<1>2. pre \in Seq(Name) /\ s[k] \in Name
  <2>1. 1 \in Int /\ k - 1 \in Int /\ \A i \in 1 .. k - 1 : s[i] \in Name
    BY <1>1
  <2>2. QED
    BY <1>1, <2>1, SubSeqProperties
<1>3. SubSeq(s, 1, k) = Append(pre, s[k])
  BY <1>1, SubSeqRecursiveSecond
<1> HIDE DEF pre
<1>4. Times(n, pre) \in Nat
  BY <1>2, TimesType
<1>5. Times(n, Append(pre, s[k])) = Times(n, pre) + (IF s[k] = n THEN 1 ELSE 0)
  BY <1>2, TimesAppend
<1>6. QED
  BY <1>3, <1>4, <1>5 DEF pre

\* A name is listed when it is in the list at least once.
LEMMA TimesListed ==
  ASSUME NEW s \in Seq(Name), NEW n
  PROVE  n \in ToSet(s) <=> Times(n, s) > 0
<1>1. DOMAIN s = 1 .. Len(s)
  BY LenProperties
<1>2. QED
  BY <1>1, TimesType DEF ToSet

\* The files of a directory are listed once each, in some order.
LEMMA TimesFiles ==
  ASSUME NEW S \in SUBSET Name, IsFiniteSet(S), NEW n
  PROVE  /\ SetToSeq(S) \in Seq(Name)
         /\ Times(n, SetToSeq(S)) = IF n \in S THEN 1 ELSE 0
<1> DEFINE c == Cardinality(S)
           list == SetToSeq(S)
<1>1. c \in Nat /\ Bijection(1 .. c, S) # {}
  BY FS_CardinalityType DEF ExistsBijection
<1>2. \E f \in [1 .. c -> S] : IsInjective(f)
  BY <1>1 DEF Bijection, Injection
<1>3. list \in [1 .. c -> S] /\ IsInjective(list)
  BY <1>2 DEF SetToSeq
<1> HIDE DEF list
<1>4. list \in Seq(Name) /\ DOMAIN list = 1 .. c
  <2>1. list \in [1 .. c -> Name]
    BY <1>3
  <2>2. QED
    BY <1>1, <2>1
<1>5. \A x \in S : \E i \in 1 .. c : list[i] = x
  <2>1. list \in Injection(1 .. c, S)
    BY <1>3 DEF Injection
  <2>2. Cardinality(1 .. c) = c
    BY <1>1, FS_Interval
  <2>3. list \in Surjection(1 .. c, S)
    BY <2>1, <2>2, FS_Injection
  <2>4. QED
    BY <2>3 DEF Surjection
<1>6. CASE n \in S
  <2>1. PICK i \in 1 .. c : list[i] = n
    BY <1>5, <1>6
  <2>2. {j \in DOMAIN list : list[j] = n} = {i}
    BY <1>3, <1>4, <2>1 DEF IsInjective
  <2>3. QED
    BY <1>4, <1>6, <2>2, FS_Singleton DEF Times, list
<1>7. CASE n \notin S
  <2>1. {j \in DOMAIN list : list[j] = n} = {}
    BY <1>3, <1>4, <1>7
  <2>2. QED
    BY <1>4, <1>7, <2>1, FS_EmptySet DEF Times, list
<1>8. QED
  BY <1>6, <1>7

-----------------------------------------------------------------------------
(* The two loops.                                                            *)

\* The list after k names of the ignored ones.
LEMMA IgnoreLoop ==
  ASSUME NEW base \in Seq(Name), NEW s \in Seq(Name)
  PROVE  \E acc :
           /\ acc[0] = base
           /\ \A k \in 1 .. Len(s) : acc[k] = Ignore(acc[k - 1], s[k])
           /\ FoldLeft(Ignore, base, s) = acc[Len(s)]
<1> DEFINE n == Len(s)
           step == [x \in (1 .. n) \X Seq(Name) |-> Ignore(x[2], s[x[1]])]
           Def(f) == [X \in SUBSET DOMAIN s |->
                        IF X = {} THEN base ELSE Ignore(f[X \ {Max(X)}], s[Max(X)])]
           f == CHOOSE g : g = Def(g)
           acc == [k \in 0 .. n |-> f[1 .. k]]
<1>1. n \in Nat /\ DOMAIN s = 1 .. n
  BY LenProperties
<1>2. step \in [(1 .. n) \X Seq(Name) -> Seq(Name)]
  BY TimesIgnore
<1>3. \E g : g = Def(g)
  <2> HIDE DEF step
  <2>1. PICK g \in [SUBSET (1 .. n) -> Seq(Name)] :
          IsFold(g, base, n, step)
    <3>1. base \in Seq(Name)
      OBVIOUS
    <3> HIDE DEF n
    <3>2. QED
      BY <1>1, <1>2, <3>1, FoldExists, Zenon
  <2>2. ASSUME NEW X \in SUBSET (1 .. n), X # {}
        PROVE  g[X] = Ignore(g[X \ {Max(X)}], s[Max(X)])
    <3>1. Max(X) \in 1 .. n
      BY <1>1, <2>2, MaxOf
    <3>2. X \ {Max(X)} \in SUBSET (1 .. n)
      OBVIOUS
    <3>3. <<Max(X), g[X \ {Max(X)}]>> \in (1 .. n) \X Seq(Name)
      BY <2>1, <3>1, <3>2
    <3>4. step[<<Max(X), g[X \ {Max(X)}]>>] = Ignore(g[X \ {Max(X)}], s[Max(X)])
      BY <3>3 DEF step
    <3>5. QED
      BY <2>1, <2>2, <3>4 DEF IsFold
  <2>3. g = Def(g)
    BY <1>1, <2>1, <2>2 DEF IsFold
  <2>4. QED
    BY <2>3
<1>4. f = Def(f)
  <2> HIDE DEF Def
  <2>1. QED
    BY <1>3
<1>5. FoldLeft(Ignore, base, s) = f[1 .. n]
  BY <1>1 DEF FoldLeft, MapThenFoldSet
<1> HIDE DEF f
<1>6. acc[0] = base
  <2>1. 1 .. 0 = {} /\ {} \in SUBSET DOMAIN s
    OBVIOUS
  <2>2. f[{}] = base
    BY <1>4, <2>1
  <2>3. QED
    BY <1>1, <2>1, <2>2
<1>7. ASSUME NEW k \in 1 .. n PROVE acc[k] = Ignore(acc[k - 1], s[k])
  <2>1. k \in Nat \ {0} /\ 1 .. k \in SUBSET DOMAIN s /\ 1 .. k # {}
    <3>1. k \in Nat \ {0} /\ k <= n
      BY <1>1
    <3>2. \A i \in 1 .. k : i \in DOMAIN s
      BY <1>1, <3>1
    <3>3. 1 \in 1 .. k
      BY <3>1
    <3>4. QED
      BY <3>1, <3>2, <3>3, Zenon
  <2>2. Max(1 .. k) = k /\ (1 .. k) \ {k} = 1 .. (k - 1)
    BY <2>1, MaxOfInterval
  <2>3. f[1 .. k] = Ignore(f[1 .. (k - 1)], s[k])
    BY <1>4, <2>1, <2>2
  <2>4. QED
    BY <1>1, <2>3
<1>8. QED
  <2>1. acc[n] = f[1 .. n]
    BY <1>1
  <2> HIDE DEF acc
  <2>2. QED
    BY <1>5, <1>6, <1>7, <2>1

\* The list after k of the aliases.
LEMMA AliasLoop ==
  ASSUME NEW base \in Seq(Name), NEW s \in Seq(Name \X Name)
  PROVE  \E acc :
           /\ acc[0] = base
           /\ \A k \in 1 .. Len(s) : acc[k] = AddAlias(acc[k - 1], s[k])
           /\ FoldLeft(AddAlias, base, s) = acc[Len(s)]
<1> DEFINE n == Len(s)
           step == [x \in (1 .. n) \X Seq(Name) |-> AddAlias(x[2], s[x[1]])]
           Def(f) == [X \in SUBSET DOMAIN s |->
                        IF X = {} THEN base ELSE AddAlias(f[X \ {Max(X)}], s[Max(X)])]
           f == CHOOSE g : g = Def(g)
           acc == [k \in 0 .. n |-> f[1 .. k]]
<1>1. n \in Nat /\ DOMAIN s = 1 .. n
  BY LenProperties
<1>2. step \in [(1 .. n) \X Seq(Name) -> Seq(Name)]
  <2> SUFFICES ASSUME NEW k \in 1 .. n, NEW list \in Seq(Name)
               PROVE  AddAlias(list, s[k]) \in Seq(Name)
    OBVIOUS
  <2>1. s[k] \in Name \X Name
    BY <1>1
  <2>2. QED
    BY <2>1, TimesAddAlias
<1>3. \E g : g = Def(g)
  <2> HIDE DEF step
  <2>1. PICK g \in [SUBSET (1 .. n) -> Seq(Name)] :
          IsFold(g, base, n, step)
    <3>1. base \in Seq(Name)
      OBVIOUS
    <3> HIDE DEF n
    <3>2. QED
      BY <1>1, <1>2, <3>1, FoldExists, Zenon
  <2>2. ASSUME NEW X \in SUBSET (1 .. n), X # {}
        PROVE  g[X] = AddAlias(g[X \ {Max(X)}], s[Max(X)])
    <3>1. Max(X) \in 1 .. n
      BY <1>1, <2>2, MaxOf
    <3>2. X \ {Max(X)} \in SUBSET (1 .. n)
      OBVIOUS
    <3>3. <<Max(X), g[X \ {Max(X)}]>> \in (1 .. n) \X Seq(Name)
      BY <2>1, <3>1, <3>2
    <3>4. step[<<Max(X), g[X \ {Max(X)}]>>] = AddAlias(g[X \ {Max(X)}], s[Max(X)])
      BY <3>3 DEF step
    <3>5. QED
      BY <2>1, <2>2, <3>4 DEF IsFold
  <2>3. g = Def(g)
    BY <1>1, <2>1, <2>2 DEF IsFold
  <2>4. QED
    BY <2>3
<1>4. f = Def(f)
  <2> HIDE DEF Def
  <2>1. QED
    BY <1>3
<1>5. FoldLeft(AddAlias, base, s) = f[1 .. n]
  BY <1>1 DEF FoldLeft, MapThenFoldSet
<1> HIDE DEF f
<1>6. acc[0] = base
  <2>1. 1 .. 0 = {} /\ {} \in SUBSET DOMAIN s
    OBVIOUS
  <2>2. f[{}] = base
    BY <1>4, <2>1
  <2>3. QED
    BY <1>1, <2>1, <2>2
<1>7. ASSUME NEW k \in 1 .. n PROVE acc[k] = AddAlias(acc[k - 1], s[k])
  <2>1. k \in Nat \ {0} /\ 1 .. k \in SUBSET DOMAIN s /\ 1 .. k # {}
    <3>1. k \in Nat \ {0} /\ k <= n
      BY <1>1
    <3>2. \A i \in 1 .. k : i \in DOMAIN s
      BY <1>1, <3>1
    <3>3. 1 \in 1 .. k
      BY <3>1
    <3>4. QED
      BY <3>1, <3>2, <3>3, Zenon
  <2>2. Max(1 .. k) = k /\ (1 .. k) \ {k} = 1 .. (k - 1)
    BY <2>1, MaxOfInterval
  <2>3. f[1 .. k] = AddAlias(f[1 .. (k - 1)], s[k])
    BY <1>4, <2>1, <2>2
  <2>4. QED
    BY <1>1, <2>3
<1>8. QED
  <2>1. acc[n] = f[1 .. n]
    BY <1>1
  <2> HIDE DEF acc
  <2>2. QED
    BY <1>5, <1>6, <1>7, <2>1

\* Ignoring takes away as many occurrences as there are, at most.
LEMMA IgnoreCounts ==
  ASSUME NEW base \in Seq(Name), NEW s \in Seq(Name), NEW n
  PROVE  /\ FoldLeft(Ignore, base, s) \in Seq(Name)
         /\ Times(n, FoldLeft(Ignore, base, s)) > 0 <=> Times(n, base) > Times(n, s)
<1>1. PICK acc :
        /\ acc[0] = base
        /\ \A k \in 1 .. Len(s) : acc[k] = Ignore(acc[k - 1], s[k])
        /\ FoldLeft(Ignore, base, s) = acc[Len(s)]
  BY IgnoreLoop
<1> DEFINE Left(k) == Times(n, SubSeq(s, 1, k))
           T == {k \in 0 .. Len(s) :
                   /\ acc[k] \in Seq(Name)
                   /\ Times(n, acc[k]) =
                        IF Times(n, base) > Left(k) THEN Times(n, base) - Left(k) ELSE 0}
<1>2. Len(s) \in Nat /\ Times(n, base) \in Nat
  BY LenProperties, TimesType
<1>3. Left(0) = 0 /\ Left(Len(s)) = Times(n, s) /\ Times(n, s) \in Nat
  BY PrefixEnds, TimesType
<1>4. ASSUME NEW k \in 1 .. Len(s)
      PROVE  Left(k - 1) \in Nat /\ Left(k) = Left(k - 1) + (IF s[k] = n THEN 1 ELSE 0)
  BY PrefixTimes, Zenon
<1> HIDE DEF Left
<1>5. 0 \in T
  BY <1>1, <1>2, <1>3
<1>6. ASSUME NEW k \in 1 .. Len(s), k - 1 \in T PROVE k \in T
  <2>1. acc[k - 1] \in Seq(Name) /\ acc[k] = Ignore(acc[k - 1], s[k])
    BY <1>1, <1>6
  <2>2. /\ acc[k] \in Seq(Name)
        /\ Times(n, acc[k]) = IF n = s[k] /\ Times(n, acc[k - 1]) > 0
                                THEN Times(n, acc[k - 1]) - 1 ELSE Times(n, acc[k - 1])
    BY <2>1, TimesIgnore
  <2>3. Times(n, acc[k - 1]) =
          IF Times(n, base) > Left(k - 1) THEN Times(n, base) - Left(k - 1) ELSE 0
    BY <1>6
  <2>4. Times(n, acc[k]) =
          IF Times(n, base) > Left(k) THEN Times(n, base) - Left(k) ELSE 0
    BY <1>2, <1>4, <2>2, <2>3
  <2>5. k \in 0 .. Len(s)
    BY <1>2
  <2>6. QED
    BY <2>2, <2>4, <2>5
<1>7. Len(s) \in T
  <2> HIDE DEF T
  <2>1. 0 .. Len(s) \subseteq T
    BY <1>2, <1>5, <1>6, IntervalInduction
  <2>2. QED
    BY <1>2, <2>1
<1>8. QED
  BY <1>1, <1>2, <1>3, <1>7

-----------------------------------------------------------------------------
(* Chains of aliases.                                                        *)

\* The alias at place i leads to a device with a driver.
Leads(i) == \E S \in SUBSET (1 .. i) : i \in S /\ Chain(S)

\* What a chain asks of the place i where it passes.
Link(S, i) ==
  IF {j \in S : j < i} = {} THEN config.alias[i][2] \in Base
  ELSE config.alias[i][2] = config.alias[Max({j \in S : j < i})][1]

\* An alias leads to a device when its real name is one, or is an alias before
\* it that does.
LEMMA LeadsStep ==
  ASSUME NEW i \in Nat \ {0}
  PROVE  Leads(i) <=> \/ config.alias[i][2] \in Base
                      \/ \E j \in 1 .. i - 1 : config.alias[j][1] = config.alias[i][2] /\ Leads(j)
<1>1. \A S : Chain(S) <=> \A j \in S : Link(S, j)
  BY DEF Chain, Link
<1>2. ASSUME NEW S \in SUBSET (1 .. i), i \in S, Chain(S), config.alias[i][2] \notin Base
      PROVE  \E j \in 1 .. i - 1 : config.alias[j][1] = config.alias[i][2] /\ Leads(j)
  <2> DEFINE before == {j \in S : j < i}
             m == Max(before)
             R == {j \in S : j <= m}
  <2>0. \A j \in S : j \in 1 .. i
    OBVIOUS
  <2>1. before # {} /\ config.alias[i][2] = config.alias[m][1]
    BY <1>1, <1>2 DEF Link
  <2>2. m \in before /\ m \in 1 .. i - 1 /\ m \in S
    <3>1. before \in SUBSET (1 .. i)
      OBVIOUS
    <3>2. m \in before
      <4> HIDE DEF before
      <4>1. QED
        BY <2>1, <3>1, MaxOf
    <3> HIDE DEF m
    <3>3. m \in S /\ m < i
      BY <3>2
    <3>4. QED
      BY <2>0, <3>2, <3>3
  <2> HIDE DEF m
  <2>3. R \in SUBSET (1 .. m) /\ m \in R
    <3>1. \A j \in R : j \in 1 .. m
      BY <2>0, <2>2
    <3>2. m \in R
      BY <2>2
    <3>3. QED
      BY <3>1, <3>2, Zenon
  <2>4. ASSUME NEW k \in R PROVE Link(R, k)
    <3>1. {j \in R : j < k} = {j \in S : j < k}
      <4>1. k \in S /\ k <= m
        OBVIOUS
      <4>2. \A j \in S : j < k => j <= m
        BY <2>0, <2>2, <4>1
      <4>3. QED
        BY <4>2, Zenon
    <3>2. Link(S, k)
      BY <1>1, <1>2
    <3> HIDE DEF R
    <3>3. QED
      BY <3>1, <3>2 DEF Link
  <2>5. Leads(m)
    <3>1. Chain(R)
      BY <1>1, <2>4
    <3> HIDE DEF R
    <3>2. QED
      BY <2>3, <3>1 DEF Leads
  <2>6. QED
    BY <2>1, <2>2, <2>5
<1>3. ASSUME config.alias[i][2] \in Base PROVE Leads(i)
  <2>1. {j \in {i} : j < i} = {}
    OBVIOUS
  <2>2. Chain({i})
    BY <1>1, <1>3, <2>1 DEF Link
  <2>3. {i} \in SUBSET (1 .. i)
    OBVIOUS
  <2>4. QED
    BY <2>2, <2>3 DEF Leads
<1>4. ASSUME NEW j \in 1 .. i - 1, config.alias[j][1] = config.alias[i][2], Leads(j)
      PROVE  Leads(i)
  <2>1. PICK S \in SUBSET (1 .. j) : j \in S /\ Chain(S)
    BY <1>4 DEF Leads
  <2> DEFINE R == S \cup {i}
  <2>2. {k \in R : k < i} = S
    <3>1. \A k \in S : k \in 1 .. j
      OBVIOUS
    <3>2. (\A k \in S : k < i) /\ ~(i < i)
      BY <3>1
    <3>3. QED
      BY <3>2, Zenon
  <2>3. Max(S) = j
    <3>1. j \in Nat /\ S # {}
      BY <2>1
    <3>2. Max(S) \in S /\ \A x \in S : x <= Max(S)
      BY <3>1, MaxOf
    <3>3. Max(S) \in 1 .. j /\ j <= Max(S)
      BY <2>1, <3>2
    <3>4. QED
      BY <3>3
  <2>4. Link(R, i)
    <3> HIDE DEF R
    <3>1. QED
      BY <1>4, <2>1, <2>2, <2>3 DEF Link
  <2>5. ASSUME NEW k \in S PROVE Link(R, k)
    <3>1. {l \in R : l < k} = {l \in S : l < k}
      OBVIOUS
    <3>2. Link(S, k)
      BY <1>1, <2>1
    <3> HIDE DEF R
    <3>3. QED
      BY <3>1, <3>2 DEF Link
  <2>6. Chain(R)
    BY <1>1, <2>4, <2>5
  <2>7. R \in SUBSET (1 .. i) /\ i \in R
    OBVIOUS
  <2> HIDE DEF R
  <2>8. QED
    BY <2>6, <2>7 DEF Leads
<1>5. QED
  BY <1>2, <1>3, <1>4 DEF Leads

-----------------------------------------------------------------------------
(* What the service is given, and what it lists.                             *)

TypeOK == config \in Config /\ dev \in SUBSET File

\* Whatever the bounds, the settings are lists, and an alias is there once.
LEMMA ConfigType ==
  ASSUME TypeOK
  PROVE  /\ config.extra \in Seq(Name) /\ config.ignore \in Seq(Name)
         /\ config.alias \in Seq(Name \X Name) /\ DOMAIN config.alias = 1 .. Len(config.alias)
         /\ \A i, j \in 1 .. Len(config.alias) :
              config.alias[i][1] = config.alias[j][1] => i = j
<1>1. ASSUME NEW S, NEW b \in Nat PROVE BoundedSeq(S, b) \subseteq Seq(S)
  <2> SUFFICES ASSUME NEW m \in 0 .. b, NEW s \in [1 .. m -> S] PROVE s \in Seq(S)
    BY DEF BoundedSeq, SeqOf
  <2>1. m \in Nat
    OBVIOUS
  <2>2. QED
    BY <2>1
<1>2. /\ config.extra \in Seq(Name) /\ config.ignore \in Seq(Name)
      /\ config.alias \in Seq(Name \X Name)
  <2>1. /\ config.extra \in BoundedSeq(Name, MaxExtra)
        /\ config.ignore \in BoundedSeq(Name, MaxIgnore)
        /\ config.alias \in BoundedSeq(Name \X Name, MaxAlias)
    BY DEF TypeOK, Config
  <2>2. MaxExtra \in Nat /\ MaxIgnore \in Nat /\ MaxAlias \in Nat
    BY BoundAssumption
  <2>3. QED
    BY <1>1, <2>1, <2>2, Zenon
<1>3. DOMAIN config.alias = 1 .. Len(config.alias)
  BY <1>2, LenProperties
<1>4. \A i, j \in DOMAIN config.alias : config.alias[i][1] = config.alias[j][1] => i = j
  BY DEF TypeOK, Config
<1>5. QED
  BY <1>2, <1>3, <1>4

\* The list the aliases are added to holds the names of Base.
LEMMA BaseCounts ==
  ASSUME TypeOK, NEW n
  PROVE  LET base == FzDeviceFileList(dev) \o config.extra
         IN /\ base \in Seq(Name)
            /\ Times(n, base) = (IF n \in dev \cap FzName THEN 1 ELSE 0) + Times(n, config.extra)
            /\ Times(n, base) \in Nat
            /\ Times(n, base) > 0 <=> n \in Base
<1> DEFINE files == FzDeviceFileList(dev)
<1>1. files \in Seq(Name) /\ Times(n, files) = IF n \in dev \cap FzName THEN 1 ELSE 0
  <2>1. dev \cap FzName \in SUBSET Name /\ IsFiniteSet(dev \cap FzName)
    <3>1. dev \cap FzName \in SUBSET File /\ IsFiniteSet(File)
      BY FileAssumption DEF TypeOK
    <3>2. IsFiniteSet(dev \cap FzName)
      BY <3>1, FS_Subset
    <3>3. QED
      BY <3>1, <3>2, FileAssumption
  <2>2. QED
    BY <2>1, TimesFiles DEF FzDeviceFileList
<1>2. config.extra \in Seq(Name)
  BY ConfigType
<1>3. Times(n, config.extra) \in Nat /\ (n \in ToSet(config.extra) <=> Times(n, config.extra) > 0)
  BY <1>2, TimesListed, TimesType
<1> HIDE DEF files
<1>4. /\ files \o config.extra \in Seq(Name)
      /\ Times(n, files \o config.extra) = Times(n, files) + Times(n, config.extra)
  BY <1>1, <1>2, TimesConcat
<1>5. QED
  BY <1>1, <1>3, <1>4 DEF files, Base

\* The loop over the aliases adds those that lead to a device, once each.
LEMMA AliasCounts ==
  ASSUME TypeOK, NEW n
  PROVE  LET list == FoldLeft(AddAlias, FzDeviceFileList(dev) \o config.extra, config.alias)
         IN list \in Seq(Name) /\ Times(n, list) = Occurrences(n)
<1> DEFINE base == FzDeviceFileList(dev) \o config.extra
           s == config.alias
           Got(m, k) == \E i \in 1 .. k : s[i][1] = m /\ Leads(i)
<1>1. /\ s \in Seq(Name \X Name) /\ Len(s) \in Nat /\ DOMAIN s = 1 .. Len(s)
      /\ \A i \in 1 .. Len(s) : s[i] \in Name \X Name
      /\ \A i, j \in 1 .. Len(s) : s[i][1] = s[j][1] => i = j
  BY ConfigType, LenProperties
<1>2. /\ base \in Seq(Name)
      /\ \A m : Times(m, base) \in Nat /\ (Times(m, base) > 0 <=> m \in Base)
  BY BaseCounts
<1>3. Times(n, base) = (IF n \in dev \cap FzName THEN 1 ELSE 0) + Times(n, config.extra)
  BY BaseCounts
<1>4. AliasOn(n) <=> Got(n, Len(s))
  BY <1>1 DEF AliasOn, Leads
<1> HIDE DEF base
<1>5. PICK acc :
        /\ acc[0] = base
        /\ \A k \in 1 .. Len(s) : acc[k] = AddAlias(acc[k - 1], s[k])
        /\ FoldLeft(AddAlias, base, s) = acc[Len(s)]
  BY <1>1, <1>2, AliasLoop
<1> DEFINE Counts(k) == \A m : Times(m, acc[k]) = Times(m, base) + (IF Got(m, k) THEN 1 ELSE 0)
           T == {k \in 0 .. Len(s) : acc[k] \in Seq(Name) /\ Counts(k)}
<1>6. 0 \in T
  <2>1. \A m : ~Got(m, 0)
    OBVIOUS
  <2> HIDE DEF Got
  <2>2. Counts(0)
    BY <1>2, <1>5, <2>1
  <2>3. QED
    BY <1>1, <1>2, <1>5, <2>2
<1>7. ASSUME NEW k \in 1 .. Len(s), k - 1 \in T PROVE k \in T
  <2>1. acc[k - 1] \in Seq(Name) /\ Counts(k - 1) /\ acc[k] = AddAlias(acc[k - 1], s[k])
    BY <1>5, <1>7
  <2>2. s[k] \in Name \X Name /\ k \in Nat \ {0}
    BY <1>1
  <2>3. Leads(k) <=> s[k][2] \in Base \/ Got(s[k][2], k - 1)
    BY <2>2, LeadsStep
  <2>4. Times(s[k][2], acc[k - 1]) > 0 <=> Leads(k)
    <3> HIDE DEF Got, s
    <3>1. Times(s[k][2], acc[k - 1]) =
            Times(s[k][2], base) + (IF Got(s[k][2], k - 1) THEN 1 ELSE 0)
      BY <2>1
    <3>2. Times(s[k][2], base) \in Nat /\ (Times(s[k][2], base) > 0 <=> s[k][2] \in Base)
      BY <1>2
    <3>3. QED
      BY <2>3, <3>1, <3>2
  <2>5. ASSUME NEW m PROVE Times(m, acc[k]) = Times(m, base) + (IF Got(m, k) THEN 1 ELSE 0)
    <3>1. /\ acc[k] \in Seq(Name)
          /\ Times(m, acc[k]) = Times(m, acc[k - 1])
                                  + (IF Times(s[k][2], acc[k - 1]) > 0 /\ s[k][1] = m THEN 1 ELSE 0)
      <4> HIDE DEF s
      <4>1. QED
        BY <2>1, <2>2, TimesAddAlias
    <3>2. Times(m, acc[k - 1]) = Times(m, base) + (IF Got(m, k - 1) THEN 1 ELSE 0)
      BY <2>1
    <3>3. Got(m, k) <=> Got(m, k - 1) \/ (Leads(k) /\ s[k][1] = m)
      <4> HIDE DEF s
      <4>1. \A i : i \in 1 .. k <=> i \in 1 .. k - 1 \/ i = k
        BY <2>2
      <4>2. QED
        BY <4>1
    <3>4. ~(Got(m, k - 1) /\ s[k][1] = m)
      <4> HIDE DEF s
      <4>1. \A i \in 1 .. k - 1 : i \in 1 .. Len(s) /\ i # k
        BY <1>1
      <4>2. QED
        BY <1>1, <4>1
    <3>5. Times(m, base) \in Nat
      BY <1>2
    <3> HIDE DEF Got, s
    <3>6. QED
      BY <2>4, <3>1, <3>2, <3>3, <3>4, <3>5
  <2>6. acc[k] \in Seq(Name)
    <3> HIDE DEF s
    <3>1. QED
      BY <2>1, <2>2, TimesAddAlias
  <2> HIDE DEF Got
  <2>7. Counts(k)
    BY <2>5
  <2>8. k \in 0 .. Len(s)
    BY <1>1
  <2> HIDE DEF Counts
  <2>9. QED
    BY <2>6, <2>7, <2>8
<1>8. Len(s) \in T
  <2> HIDE DEF T, s
  <2>1. 0 .. Len(s) \subseteq T
    BY <1>1, <1>6, <1>7, IntervalInduction
  <2>2. QED
    BY <1>1, <2>1
<1>9. FoldLeft(AddAlias, base, s) \in Seq(Name)
  BY <1>5, <1>8
<1>10. Times(n, FoldLeft(AddAlias, base, s)) = Times(n, base) + (IF AliasOn(n) THEN 1 ELSE 0)
  <2> HIDE DEF Got, s
  <2>1. QED
    BY <1>4, <1>5, <1>8
<1>11. QED
  BY <1>3, <1>9, <1>10 DEF Occurrences, base

\* get_local_devices: the names that occur more often than they are ignored.
LEMMA ListedCorrect ==
  ASSUME TypeOK
  PROVE  ListedAsConfigured
<1> DEFINE list == FoldLeft(AddAlias, FzDeviceFileList(dev) \o config.extra, config.alias)
           result == FoldLeft(Ignore, list, config.ignore)
<1>1. list \in Seq(Name) /\ \A n : Times(n, list) = Occurrences(n)
  BY AliasCounts
<1>2. config.ignore \in Seq(Name)
  BY ConfigType
<1>3. Listed = ToSet(result)
  BY DEF Listed, GetLocalDevices
<1> HIDE DEF list
<1>4. /\ result \in Seq(Name)
      /\ \A n : Times(n, result) > 0 <=> Times(n, list) > Times(n, config.ignore)
  BY <1>1, <1>2, IgnoreCounts
<1> HIDE DEF result
<1>5. \A n : n \in ToSet(result) <=> Occurrences(n) > Times(n, config.ignore)
  BY <1>1, <1>4, TimesListed
<1>6. ToSet(result) \subseteq Name
  BY <1>4, LenProperties DEF ToSet
<1>7. QED
  BY <1>3, <1>5, <1>6 DEF ListedAsConfigured

\* The configuration is read once, when the service starts, and the directory
\* holds driver files only.
THEOREM TypeCorrect == Spec => []TypeOK
<1>1. Init => TypeOK
  BY DEF Init, TypeOK
<1>2. TypeOK /\ [Next]_vars => TypeOK'
  BY DEF TypeOK, Next, DriverComesOrGoes, vars
<1>3. QED
  BY <1>1, <1>2, PTL DEF Spec

\* Whatever the settings and whichever drivers come and go, get_local_devices
\* lists a name when it occurs more often, as a file, an extra device or an alias
\* that leads to one, than DEVICES_IGNORE names it.
THEOREM ListsAsConfigured == Spec => []ListedAsConfigured
<1>1. TypeOK => ListedAsConfigured
  BY ListedCorrect
<1>2. QED
  BY <1>1, TypeCorrect, PTL

=============================================================================
