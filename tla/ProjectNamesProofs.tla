------------------------- MODULE ProjectNamesProofs -------------------------
(* Lemmas about names, of any length and made of any tokens: what is left  *)
(* of a sequence when only some of its positions are kept, and that what   *)
(* SanitizeFilename returns is changed no more by SanitizeFilepath.        *)
EXTENDS ProjectNames, FiniteSetTheorems, TLAPS

-----------------------------------------------------------------------------
(* Kept                                                                    *)

\* A set has more elements than a part of it that lacks one, and at least one if
\* it has any.
LEMMA PartIsSmaller ==
    ASSUME NEW T, IsFiniteSet(T), NEW S \in SUBSET T, NEW x \in T, x \notin S
    PROVE  /\ Cardinality(S) \in Nat /\ Cardinality(T) \in Nat
           /\ Cardinality(S) < Cardinality(T)
<1>1. /\ IsFiniteSet(S) /\ Cardinality(S) <= Cardinality(T)
      /\ Cardinality(S) # Cardinality(T)
  BY FS_Subset
<1>2. Cardinality(S) \in Nat /\ Cardinality(T) \in Nat
  BY <1>1, FS_CardinalityType
<1> QED
  BY ONLY <1>1, <1>2

\* How many of K are k or less.
Rank(K, k) == Cardinality({j \in K : j <= k})

LEMMA RankIsNumber ==
    ASSUME NEW n \in Nat, NEW K \in SUBSET (1..n)
    PROVE  /\ IsFiniteSet(K) /\ Cardinality(K) \in Nat
           /\ \A k \in K : Rank(K, k) \in 1..Cardinality(K)
           /\ \A k, l \in K : k < l => Rank(K, k) < Rank(K, l)
<1>1. IsFiniteSet(1..n)
  BY FS_Interval
<1>2. IsFiniteSet(K) /\ Cardinality(K) \in Nat
  BY <1>1, FS_Subset, FS_CardinalityType
<1>3. ASSUME NEW k \in K
      PROVE  /\ IsFiniteSet({j \in K : j <= k})
             /\ Rank(K, k) \in Nat
             /\ Rank(K, k) <= Cardinality(K)
  BY <1>2, FS_Subset, FS_CardinalityType DEF Rank
<1>4. ASSUME NEW k \in K PROVE Rank(K, k) # 0
  <2> DEFINE T == {j \in K : j <= k}
  <2>1. T # {} /\ IsFiniteSet(T)
    BY <1>3
  <2> HIDE DEF T
  <2>2. Cardinality(T) # 0
    BY ONLY <2>1, FS_EmptySet
  <2> QED
    BY <2>2 DEF T, Rank
<1>5. ASSUME NEW k \in K, NEW l \in K, k < l PROVE Rank(K, k) < Rank(K, l)
  <2> DEFINE S == {j \in K : j <= k}
             T == {j \in K : j <= l}
  <2>1. S \in SUBSET T /\ l \in T /\ l \notin S
    <3>1. k \in Nat /\ l \in Nat /\ k < l
      BY ONLY <1>5, n \in Nat, K \in SUBSET (1..n), k \in K, l \in K
    <3>2. ASSUME NEW j \in K, j <= k PROVE j <= l
      BY ONLY <3>1, <3>2, n \in Nat, K \in SUBSET (1..n), j \in K
    <3>3. S \in SUBSET T
      BY <3>2
    <3>4. l \in T /\ l \notin S
      BY <3>1, l \in K
    <3> QED
      BY ONLY <3>3, <3>4
  <2>2. IsFiniteSet(T)
    BY <1>3
  <2> HIDE DEF S, T
  <2>3. Cardinality(S) < Cardinality(T)
    BY <2>1, <2>2, PartIsSmaller
  <2> QED
    BY <2>3 DEF S, T, Rank
<1>6. ASSUME NEW k \in K PROVE Rank(K, k) \in 1..Cardinality(K)
  <2>1. /\ Rank(K, k) \in Nat /\ Rank(K, k) <= Cardinality(K) /\ Rank(K, k) # 0
        /\ Cardinality(K) \in Nat
    BY <1>2, <1>3, <1>4
  <2> QED
    BY ONLY <2>1
<1> QED
  BY <1>2, <1>5, <1>6

\* Where the elements of Kept(s, K) come from: in order, all of K, nothing skipped.
ComesFrom(s, K, c, at) ==
    /\ c \in Nat /\ c = Cardinality(K)
    /\ at \in [1..c -> K]
    /\ Kept(s, K) = [i \in 1..c |-> s[at[i]]]
    /\ \A i, j \in 1..c : i < j <=> at[i] < at[j]
    /\ \A k \in K : \E i \in 1..c : at[i] = k
    /\ \A i \in 1..c : Rank(K, at[i]) = i

LEMMA KeptInOrder ==
    ASSUME NEW s, NEW n \in Nat, NEW K \in SUBSET (1..n)
    PROVE  \E c, at : ComesFrom(s, K, c, at)
<1> DEFINE c == Cardinality(K)
           rank == [k \in K |-> Rank(K, k)]
           at == [i \in 1..c |-> CHOOSE k \in K : Rank(K, k) = i]
<1>1. /\ IsFiniteSet(K) /\ c \in Nat
      /\ \A k \in K : Rank(K, k) \in 1..c
      /\ \A k, l \in K : k < l => Rank(K, k) < Rank(K, l)
  BY RankIsNumber
<1>2. rank \in Injection(K, 1..c)
  <2>1. rank \in [K -> 1..c]
    BY <1>1
  <2>2. ASSUME NEW k \in K, NEW l \in K, k # l PROVE rank[k] # rank[l]
    <3>1. k < l \/ l < k
      BY <2>2
    <3> QED
      BY <1>1, <3>1
  <2> QED
    BY <2>1, <2>2 DEF Injection, IsInjective
<1>3. IsFiniteSet(1..c) /\ Cardinality(1..c) = c
  BY <1>1, FS_Interval
<1>4. rank \in Surjection(K, 1..c)
  BY <1>2, <1>3, FS_Injection
<1>5. ASSUME NEW i \in 1..c PROVE at[i] \in K /\ Rank(K, at[i]) = i
  BY <1>4, <1>5 DEF Surjection
<1>6. ASSUME NEW i \in 1..c, NEW j \in 1..c PROVE i < j <=> at[i] < at[j]
  <2>1. /\ at[i] \in 1..n /\ at[j] \in 1..n
        /\ Rank(K, at[i]) = i /\ Rank(K, at[j]) = j
        /\ at[i] < at[j] => i < j
        /\ at[j] < at[i] => j < i
    <3>1. /\ at[i] \in K /\ at[j] \in K /\ Rank(K, at[i]) = i /\ Rank(K, at[j]) = j
      BY <1>5
    <3> HIDE DEF at
    <3> QED
      BY <1>1, <3>1
  <2>2. at[i] = at[j] => i = j
    BY ONLY <2>1
  <2> QED
    BY ONLY <2>1, <2>2, <1>1
<1>7. ASSUME NEW k \in K PROVE \E i \in 1..c : at[i] = k
  <2>1. PICK i \in 1..c : i = Rank(K, k)
    BY <1>1
  <2>2. at[i] \in K /\ Rank(K, at[i]) = Rank(K, k)
    BY <1>5, <2>1
  <2>3. at[i] = k
    BY <1>2, <2>2 DEF Injection, IsInjective
  <2> QED
    BY <2>3
<1>8. Kept(s, K) = [i \in 1..c |-> s[at[i]]]
  BY DEF Kept, Rank
<1>9. at \in [1..c -> K]
  BY <1>5
<1>10. ComesFrom(s, K, c, at)
  BY <1>1, <1>5, <1>6, <1>7, <1>8, <1>9 DEF ComesFrom
<1> QED
  BY <1>10

\* k and l are in K, k before l, and k + 1 only if it is l.
Neighbours(K, k, l) ==
    /\ k < l /\ k \in K /\ l \in K
    /\ k + 1 \in K => l = k + 1

\* Neighbours in Kept(s, K) have nothing of K between them.
LEMMA KeptNeighbours ==
    ASSUME NEW s, NEW n \in Nat, NEW K \in SUBSET (1..n), NEW c, NEW at, ComesFrom(s, K, c, at),
           NEW i \in 1..c, i + 1 \in 1..c
    PROVE  Neighbours(K, at[i], at[i + 1])
<1>1. /\ c \in Nat
      /\ \A j \in 1..c : at[j] \in K
      /\ \A k, j \in 1..c : k < j <=> at[k] < at[j]
      /\ \A k \in K : \E j \in 1..c : at[j] = k
  BY DEF ComesFrom
<1>2. /\ at[i] < at[i + 1] /\ at[i] \in K /\ at[i + 1] \in K
      /\ at[i] \in Nat /\ at[i + 1] \in Nat
  <2>1. i \in 1..c /\ i + 1 \in 1..c /\ i < i + 1
    BY ONLY <1>1, i \in 1..c, i + 1 \in 1..c
  <2>2. at[i] < at[i + 1] /\ at[i] \in K /\ at[i + 1] \in K
    BY ONLY <1>1, <2>1
  <2>3. \A k \in K : k \in Nat
    BY ONLY n \in Nat, K \in SUBSET (1..n)
  <2> QED
    BY ONLY <2>2, <2>3
<1>3. ASSUME at[i] + 1 \in K, at[i + 1] # at[i] + 1 PROVE FALSE
  <2>1. PICK m \in 1..c : at[m] = at[i] + 1
    BY <1>1, <1>3
  <2>2. at[i] < at[m] /\ at[m] < at[i + 1]
    BY <1>2, <1>3, <2>1
  <2>3. i < m /\ m < i + 1
    BY <1>1, <2>2
  <2> QED
    BY ONLY <1>1, <2>3, m \in 1..c, i \in 1..c
<1> QED
  BY <1>2, <1>3 DEF Neighbours

\* Keeping every position changes nothing.
LEMMA AllKept ==
    ASSUME NEW S, NEW s \in Seq(S)
    PROVE  Kept(s, DOMAIN s) = s
<1>1. PICK n \in Nat : n = Len(s) /\ DOMAIN s = 1..n /\ s = [i \in 1..n |-> s[i]]
  OBVIOUS
<1>2. IsFiniteSet(1..n) /\ Cardinality(1..n) = n
  BY ONLY n \in Nat, FS_Interval
<1>3. PICK c, at : ComesFrom(s, 1..n, c, at)
  BY KeptInOrder
<1>4. c = n /\ \A i \in 1..n : at[i] \in 1..n /\ Rank(1..n, at[i]) = i
  BY <1>2, <1>3 DEF ComesFrom
<1>5. ASSUME NEW i \in 1..n PROVE at[i] = i
  <2>1. at[i] \in 1..n
    BY <1>4
  <2>2. {j \in 1..n : j <= at[i]} = 1..at[i]
    BY <2>1
  <2>3. Cardinality(1..at[i]) = at[i]
    BY ONLY <2>1, n \in Nat, FS_Interval
  <2> QED
    BY <1>4, <2>2, <2>3 DEF Rank
<1>6. Kept(s, 1..n) = [i \in 1..n |-> s[at[i]]]
  BY <1>3, <1>4 DEF ComesFrom
<1> QED
  BY <1>1, <1>5, <1>6

LEMMA KeptIsSeq ==
    ASSUME NEW S, NEW s \in Seq(S), NEW K \in SUBSET DOMAIN s
    PROVE  /\ Kept(s, K) \in Seq(S)
           /\ \E c, at : ComesFrom(s, K, c, at) /\ Len(Kept(s, K)) = c
<1>1. PICK n \in Nat : DOMAIN s = 1..n /\ \A k \in 1..n : s[k] \in S
  OBVIOUS
<1>2. K \in SUBSET (1..n)
  BY <1>1
<1>3. PICK c, at : ComesFrom(s, K, c, at)
  BY <1>2, KeptInOrder
<1>4. c \in Nat /\ \A i \in 1..c : s[at[i]] \in S
  BY <1>1, <1>2, <1>3 DEF ComesFrom
<1>5. Kept(s, K) = [i \in 1..c |-> s[at[i]]]
  BY <1>3 DEF ComesFrom
<1>6. Kept(s, K) \in Seq(S) /\ Len(Kept(s, K)) = c
  BY ONLY <1>4, <1>5
<1> QED
  BY <1>3, <1>6

-----------------------------------------------------------------------------
(* The parts of SanitizeFilename                                           *)

NoSlash(s) == "/" \notin ToSet(s)

NoDotDot(s) == \A i \in DOMAIN s : i + 1 \in DOMAIN s /\ s[i] = "." => s[i + 1] # "."

Trimmed(s, c) == s # <<>> => s[1] # c /\ s[Len(s)] # c

LEMMA KeptHasNoMore ==
    ASSUME NEW S, NEW s \in Seq(S), NEW K \in SUBSET DOMAIN s
    PROVE  ToSet(Kept(s, K)) = {s[k] : k \in K}
<1>1. PICK c, at : ComesFrom(s, K, c, at)
  BY KeptIsSeq
<1>2. /\ c \in Nat
      /\ Kept(s, K) = [i \in 1..c |-> s[at[i]]]
      /\ \A i \in 1..c : at[i] \in K
      /\ \A k \in K : \E i \in 1..c : at[i] = k
  BY <1>1 DEF ComesFrom
<1> DEFINE t == Kept(s, K)
<1>3. DOMAIN t = 1..c /\ \A i \in 1..c : t[i] = s[at[i]]
  BY ONLY <1>2
<1> HIDE DEF t
<1>4. ToSet(t) \subseteq {s[k] : k \in K}
  BY ONLY <1>2, <1>3 DEF ToSet
<1>5. ASSUME NEW k \in K PROVE s[k] \in ToSet(t)
  <2>1. PICK i \in 1..c : at[i] = k
    BY <1>2
  <2>2. i \in DOMAIN t /\ t[i] = s[k]
    BY <1>3, <2>1
  <2> QED
    BY ONLY <2>2 DEF ToSet
<1>6. ToSet(t) = {s[k] : k \in K}
  BY ONLY <1>4, <1>5
<1> QED
  BY ONLY <1>6 DEF t

LEMMA RemoveIllegalRemoves ==
    ASSUME NEW S, NEW s \in Seq(S)
    PROVE  RemoveIllegal(s) \in Seq(S) /\ NoSlash(RemoveIllegal(s))
BY KeptIsSeq, KeptHasNoMore DEF RemoveIllegal, NoSlash

LEMMA RemoveDotDotKeeps ==
    ASSUME NEW S, NEW s \in Seq(S), NoSlash(s)
    PROVE  RemoveDotDot(s) \in Seq(S) /\ NoSlash(RemoveDotDot(s))
<1> DEFINE K == {i \in DOMAIN s : s[i] = "." => EndsOddRun(s, i)}
<1>1. K \in SUBSET DOMAIN s
  OBVIOUS
<1> HIDE DEF K
<1>2. Kept(s, K) \in Seq(S) /\ ToSet(Kept(s, K)) = {s[k] : k \in K}
  BY <1>1, KeptIsSeq, KeptHasNoMore
<1>3. {s[k] : k \in K} \subseteq ToSet(s)
  BY <1>1 DEF ToSet
<1> QED
  BY <1>2, <1>3 DEF NoSlash, RemoveDotDot, K

LEMMA RemoveDotDotRemoves ==
    ASSUME NEW S, NEW s \in Seq(S)
    PROVE  NoDotDot(RemoveDotDot(s))
<1> DEFINE K == {i \in DOMAIN s : s[i] = "." => EndsOddRun(s, i)}
           t == Kept(s, K)
<1>1. PICK n \in Nat : DOMAIN s = 1..n /\ n = Len(s)
  OBVIOUS
<1>2. K \in SUBSET (1..n)
  BY <1>1
<1>3. PICK c, at : ComesFrom(s, K, c, at)
  BY <1>2, KeptInOrder
<1>4. c \in Nat /\ t = [i \in 1..c |-> s[at[i]]]
  BY <1>3 DEF ComesFrom
<1>5. ASSUME NEW i \in 1..c, i + 1 \in 1..c, s[at[i]] = "." PROVE s[at[i + 1]] # "."
  <2>1. Neighbours(K, at[i], at[i + 1])
    <3> HIDE DEF K, t
    <3> QED
      BY <1>2, <1>3, <1>5, KeptNeighbours
  <2>2. at[i] + 1 \in DOMAIN s
    BY <1>1, <1>2, <2>1 DEF Neighbours
  <2>3. s[at[i] + 1] # "."
    BY <1>5, <2>1, <2>2 DEF Neighbours, EndsOddRun
  <2>4. at[i] + 1 \in K
    BY <2>2, <2>3
  <2> QED
    BY <2>1, <2>3, <2>4 DEF Neighbours
<1>6. DOMAIN t = 1..c
  BY <1>4
<1>7. NoDotDot(t)
  BY <1>4, <1>5, <1>6 DEF NoDotDot
<1> QED
  BY <1>7 DEF RemoveDotDot

LEMMA NothingToRemove ==
    ASSUME NEW S, NEW s \in Seq(S), NoDotDot(s)
    PROVE  RemoveDotDot(s) = s
<1>1. ASSUME NEW i \in DOMAIN s, s[i] = "." PROVE EndsOddRun(s, i)
  <2>1. i \in Nat /\ i \in 1..i /\ (i - i) % 2 = 0
    OBVIOUS
  <2>2. i > 1 => s[i - 1] # "."
    <3>1. i > 1 => i - 1 \in DOMAIN s /\ (i - 1) + 1 = i
      BY <2>1
    <3> QED
      BY <1>1, <3>1 DEF NoDotDot
  <2>3. \A k \in i..i : s[k] = "."
    BY <1>1, <2>1
  <2> QED
    BY <1>1, <2>1, <2>2, <2>3 DEF EndsOddRun, NoDotDot
<1>2. {i \in DOMAIN s : s[i] = "." => EndsOddRun(s, i)} = DOMAIN s
  BY <1>1
<1> QED
  BY <1>2, AllKept DEF RemoveDotDot

\* The positions that Trim keeps.
Inner(s, c) ==
    {i \in DOMAIN s : /\ \E j \in 1..i : s[j] # c
                      /\ \E j \in i..Len(s) : s[j] # c}

LEMMA InnerIsInterval ==
    ASSUME NEW S, NEW s \in Seq(S), NEW c, NEW k \in Inner(s, c), NEW l \in Inner(s, c), k < l
    PROVE  k + 1 \in Inner(s, c)
<1>1. Len(s) \in Nat /\ DOMAIN s = 1..Len(s)
  OBVIOUS
<1>2. k \in 1..Len(s) /\ l \in 1..Len(s)
  BY <1>1 DEF Inner
<1>3. PICK i \in 1..k : s[i] # c
  BY DEF Inner
<1>4. PICK j \in l..Len(s) : s[j] # c
  BY DEF Inner
<1>5. k + 1 \in 1..Len(s) /\ i \in 1..k + 1 /\ j \in k + 1..Len(s)
  BY ONLY <1>1, <1>2, k < l, i \in 1..k, j \in l..Len(s)
<1> QED
  BY <1>1, <1>3, <1>4, <1>5 DEF Inner

LEMMA TrimKeeps ==
    ASSUME NEW S, NEW s \in Seq(S), NEW c, NoSlash(s), NoDotDot(s)
    PROVE  Trim(s, c) \in Seq(S) /\ NoSlash(Trim(s, c)) /\ NoDotDot(Trim(s, c))
<1> DEFINE K == Inner(s, c)
           t == Kept(s, K)
<1>1. PICK n \in Nat : n = Len(s) /\ DOMAIN s = 1..n
  OBVIOUS
<1>2. K \in SUBSET (1..n) /\ K \in SUBSET DOMAIN s
  BY <1>1 DEF Inner
<1>3. t \in Seq(S) /\ ToSet(t) = {s[k] : k \in K}
  <2> HIDE DEF K
  <2> QED
    BY <1>2, KeptIsSeq, KeptHasNoMore
<1>4. NoSlash(t)
  <2>1. {s[k] : k \in K} \subseteq ToSet(s)
    BY <1>2 DEF ToSet
  <2> QED
    BY <1>3, <2>1 DEF NoSlash
<1>5. PICK m, at : ComesFrom(s, K, m, at)
  BY <1>2, KeptInOrder
<1>6. m \in Nat /\ t = [i \in 1..m |-> s[at[i]]]
  BY <1>5 DEF ComesFrom
<1>7. ASSUME NEW i \in 1..m, i + 1 \in 1..m PROVE at[i + 1] = at[i] + 1 /\ at[i] \in 1..n
                                                   /\ at[i + 1] \in 1..n
  <2>1. Neighbours(K, at[i], at[i + 1])
    <3> HIDE DEF K, t
    <3> QED
      BY <1>2, <1>5, <1>7, KeptNeighbours
  <2>2. at[i] + 1 \in K
    BY <2>1, InnerIsInterval DEF Neighbours
  <2> QED
    BY <1>2, <2>1, <2>2 DEF Neighbours
<1>8. NoDotDot(t)
  <2>1. DOMAIN t = 1..m
    BY <1>6
  <2>2. ASSUME NEW i \in 1..m, i + 1 \in 1..m, t[i] = "." PROVE t[i + 1] # "."
    <3>1. t[i] = s[at[i]] /\ t[i + 1] = s[at[i] + 1]
      BY <1>6, <1>7, <2>2
    <3>2. at[i] \in DOMAIN s /\ at[i] + 1 \in DOMAIN s
      BY <1>1, <1>7, <2>2
    <3> QED
      BY <2>2, <3>1, <3>2 DEF NoDotDot
  <2> QED
    BY <2>1, <2>2 DEF NoDotDot
<1> QED
  BY <1>3, <1>4, <1>8 DEF Trim, Inner

LEMMA TrimTrims ==
    ASSUME NEW S, NEW s \in Seq(S), NEW c
    PROVE  Trimmed(Trim(s, c), c)
<1> DEFINE K == Inner(s, c)
           t == Kept(s, K)
<1>1. PICK n \in Nat : n = Len(s) /\ DOMAIN s = 1..n
  OBVIOUS
<1>2. K \in SUBSET (1..n)
  BY <1>1 DEF Inner
<1>3. PICK m, at : ComesFrom(s, K, m, at)
  BY <1>2, KeptInOrder
<1>4. /\ m \in Nat /\ t = [i \in 1..m |-> s[at[i]]]
      /\ \A i \in 1..m : at[i] \in K
      /\ \A i, j \in 1..m : i < j <=> at[i] < at[j]
      /\ \A k \in K : \E i \in 1..m : at[i] = k
  BY <1>3 DEF ComesFrom
<1>5. ASSUME m # 0 PROVE s[at[1]] # c
  <2>1. 1 \in 1..m /\ at[1] \in K /\ at[1] \in 1..n
    BY <1>2, <1>4, <1>5
  <2>2. PICK j \in 1..at[1] : s[j] # c
    BY <2>1 DEF Inner
  <2>3. PICK l \in at[1]..n : s[l] # c
    BY <1>1, <2>1 DEF Inner
  <2>4. j \in 1..n /\ j \in 1..j /\ l \in j..n
    BY ONLY <2>1, j \in 1..at[1], l \in at[1]..n, n \in Nat
  <2>5. j \in K
    BY <1>1, <2>2, <2>3, <2>4 DEF Inner
  <2>6. PICK i \in 1..m : at[i] = j
    BY <1>4, <2>5
  <2>7. ~(1 < i)
    BY <1>4, <2>1, <2>4, <2>6
  <2> QED
    BY <1>4, <2>2, <2>6, <2>7
<1>6. ASSUME m # 0 PROVE s[at[m]] # c
  <2>1. m \in 1..m /\ at[m] \in K /\ at[m] \in 1..n
    BY <1>2, <1>4, <1>6
  <2>2. PICK j \in 1..at[m] : s[j] # c
    BY <2>1 DEF Inner
  <2>3. PICK l \in at[m]..n : s[l] # c
    BY <1>1, <2>1 DEF Inner
  <2>4. l \in 1..n /\ l \in l..n /\ j \in 1..l
    BY ONLY <2>1, j \in 1..at[m], l \in at[m]..n, n \in Nat
  <2>5. l \in K
    BY <1>1, <2>2, <2>3, <2>4 DEF Inner
  <2>6. PICK i \in 1..m : at[i] = l
    BY <1>4, <2>5
  <2>7. ~(i < m)
    BY <1>4, <2>1, <2>4, <2>6
  <2> QED
    BY <1>4, <2>3, <2>6, <2>7
<1>7. Trimmed(t, c)
  <2>1. CASE m = 0
    BY <1>4, <2>1 DEF Trimmed
  <2>2. CASE m # 0
    <3>1. Len(t) = m /\ t[1] = s[at[1]] /\ t[m] = s[at[m]]
      BY <1>4, <2>2
    <3> QED
      BY <1>5, <1>6, <2>2, <3>1 DEF Trimmed
  <2> QED
    BY <2>1, <2>2
<1> QED
  BY <1>7 DEF Trim, Inner

LEMMA NothingToTrim ==
    ASSUME NEW S, NEW s \in Seq(S), NEW c, Trimmed(s, c)
    PROVE  Trim(s, c) = s
<1>1. Len(s) \in Nat /\ DOMAIN s = 1..Len(s)
  OBVIOUS
<1>2. ASSUME NEW i \in DOMAIN s PROVE i \in Inner(s, c)
  <2>1. 1 \in 1..i /\ Len(s) \in i..Len(s) /\ s # <<>>
    BY <1>1
  <2> QED
    BY <2>1 DEF Trimmed, Inner
<1>3. Inner(s, c) = DOMAIN s
  BY <1>2 DEF Inner
<1> QED
  BY <1>3, AllKept DEF Trim, Inner

-----------------------------------------------------------------------------
(* The whole name                                                          *)

\* A name in which SanitizeFilepath finds nothing to change.
Settled(S, p) == p \in Seq(S) /\ NoSlash(p) /\ NoDotDot(p) /\ Trimmed(p, " ")

LEMMA SanitizedIsSettled ==
    ASSUME NEW S, NEW s \in Seq(S)
    PROVE  Settled(S, SanitizeFilename(s))
<1>1. RemoveIllegal(s) \in Seq(S) /\ NoSlash(RemoveIllegal(s))
  BY RemoveIllegalRemoves
<1> DEFINE t == RemoveDotDot(RemoveIllegal(s))
<1>2. t \in Seq(S) /\ NoSlash(t) /\ NoDotDot(t)
  BY <1>1, RemoveDotDotKeeps, RemoveDotDotRemoves
<1> HIDE DEF t
<1>3. Settled(S, Trim(t, " "))
  BY <1>2, TrimKeeps, TrimTrims DEF Settled
<1> QED
  BY <1>3 DEF SanitizeFilename, t

LEMMA DefaultIsSettled == Settled({"keyboard"}, <<"keyboard">>)
<1> DEFINE k == <<"keyboard">>
<1>1. k \in Seq({"keyboard"})
  OBVIOUS
<1>2. DOMAIN k = 1..1 /\ Len(k) = 1 /\ k[1] = "keyboard"
  OBVIOUS
<1> HIDE DEF k
<1>3. NoSlash(k) /\ NoDotDot(k) /\ Trimmed(k, " ")
  BY <1>2 DEF NoSlash, NoDotDot, Trimmed, ToSet
<1> QED
  BY <1>1, <1>3 DEF Settled, k

\* kicad.go:477: SanitizeFilepath finds nothing to change in a project's name, so the
\* files named after it are in the directory named after it.
THEOREM ProjectNameIsDirectory ==
    ASSUME NEW S, NEW name \in Seq(S)
    PROVE  /\ NoSlash(GetProjectName(name)) /\ NoDotDot(GetProjectName(name))
           /\ SanitizeFilepath(GetProjectName(name)) = GetProjectName(name)
<1> DEFINE p == GetProjectName(name)
<1>1. PICK T : Settled(T, p)
  BY SanitizedIsSettled, DefaultIsSettled DEF GetProjectName
<1> HIDE DEF p
<1>2. p \in Seq(T) /\ RemoveDotDot(p) = p
  BY <1>1, NothingToRemove DEF Settled
<1>3. p # <<>> => p[1] # "/"
  <2> SUFFICES ASSUME p # <<>>, p[1] = "/" PROVE FALSE
    OBVIOUS
  <2>1. 1 \in DOMAIN p
    BY <1>2
  <2>2. "/" \in ToSet(p)
    BY <2>1 DEF ToSet
  <2> QED
    BY <1>1, <2>2 DEF Settled, NoSlash
<1>4. Trim(p, " ") = p
  BY <1>1, NothingToTrim DEF Settled
<1>5. SanitizeFilepath(p) = p
  BY <1>2, <1>3, <1>4 DEF SanitizeFilepath
<1> QED
  BY <1>1, <1>5 DEF Settled, p
=============================================================================
