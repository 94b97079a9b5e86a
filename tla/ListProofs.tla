----------------------------- MODULE ListProofs -----------------------------
(***************************************************************************)
(* Induction over the natural numbers, and what is known of lists and of   *)
(* what a loop keeps of them (Lists), for lists of any length.             *)
(***************************************************************************)
EXTENDS Lists, WellFoundedInduction, SequenceTheorems, FiniteSetTheorems, TLAPS

(* Induction over the natural numbers, for a set and not for a predicate:  *)
(* the first of those outside it would have none before it.                *)
LEMMA Induction ==
  ASSUME NEW S, 0 \in S, \A n \in Nat : n \in S => n + 1 \in S
  PROVE  \A n \in Nat : n \in S
  <1> DEFINE Less == {p \in Nat \X Nat : p[1] < p[2]}
             Out == {n \in Nat : n \notin S}
  <1>1. IsWellFoundedOn(Less, Nat)
    BY NatLessThanWellFounded DEF OpToRel
  <1>2. SUFFICES ASSUME Out # {} PROVE FALSE
    OBVIOUS
  <1>3. PICK n \in Out : \A m \in Out : <<m, n>> \notin Less
    <2> HIDE DEF Less
    <2> QED BY <1>1, <1>2, WFMin
  <1>4. n - 1 \in Nat /\ n - 1 < n /\ (n - 1) + 1 = n
    OBVIOUS
  <1> QED BY <1>3, <1>4

IsRun(f, n, first, step) ==
  f[0] = first /\ \A i \in 0 .. n - 1 : f[i + 1] = step[<<i, f[i]>>]

(* A recursion has a result for every number of steps.                     *)
LEMMA Recursion ==
  ASSUME NEW X, NEW first \in X, NEW step \in [Nat \X X -> X], NEW n \in Nat
  PROVE  \E f \in [0 .. n -> X] : IsRun(f, n, first, step)
  <1> DEFINE Runs(m, f) == f[0] = first /\ \A i \in 0 .. m - 1 : f[i + 1] = step[<<i, f[i]>>]
             S == {m \in Nat : \E f \in [0 .. m -> X] : Runs(m, f)}
  <1>1. 0 \in S
    <2>1. [i \in 0 .. 0 |-> first] \in [0 .. 0 -> X] /\ Runs(0, [i \in 0 .. 0 |-> first])
      OBVIOUS
    <2> QED BY <2>1
  <1>2. ASSUME NEW m \in Nat, m \in S PROVE m + 1 \in S
    <2>1. PICK f \in [0 .. m -> X] : Runs(m, f)
      BY <1>2
    <2> DEFINE g == [i \in 0 .. m + 1 |-> IF i = m + 1 THEN step[<<m, f[m]>>] ELSE f[i]]
    <2>2. step[<<m, f[m]>>] \in X
      OBVIOUS
    <2>3. g \in [0 .. m + 1 -> X]
      BY <2>2
    <2>4. Runs(m + 1, g)
      <3>1. g[0] = first
        BY <2>1
      <3>2. ASSUME NEW i \in 0 .. m PROVE g[i + 1] = step[<<i, g[i]>>]
        <4>1. CASE i = m
          <5>1. g[m] = f[m] /\ g[m + 1] = step[<<m, f[m]>>]
            OBVIOUS
          <5> HIDE DEF g
          <5> QED BY <4>1, <5>1
        <4>2. CASE i # m
          BY <2>1, <4>2
        <4> QED BY <4>1, <4>2
      <3> HIDE DEF g
      <3>3. (m + 1) - 1 = m
        OBVIOUS
      <3> QED BY <3>1, <3>2, <3>3
    <2> HIDE DEF g, Runs
    <2>5. m + 1 \in Nat
      OBVIOUS
    <2> QED BY <2>3, <2>4, <2>5
  <1> HIDE DEF S
  <1>3. n \in S
    BY <1>1, <1>2, Induction
  <1> QED BY <1>3 DEF S, IsRun

(* Things that differ in their keys can be numbered by them.               *)
Upto(T, key, t) == {u \in T : key[u] <= key[t]}

LEMMA RanksByKey ==
  ASSUME NEW T, IsFiniteSet(T), NEW key \in [T -> Nat],
         \A s, t \in T : key[s] = key[t] => s = t
  PROVE  /\ Cardinality(T) \in Nat
         /\ \A t \in T : Cardinality(Upto(T, key, t)) \in 1 .. Cardinality(T)
         /\ \A s, t \in T : key[s] < key[t] =>
              Cardinality(Upto(T, key, s)) < Cardinality(Upto(T, key, t))
         /\ \A i \in 1 .. Cardinality(T) : \E t \in T : Cardinality(Upto(T, key, t)) = i
  <1> DEFINE rank == [t \in T |-> Cardinality(Upto(T, key, t))]
             R == {rank[t] : t \in T}
  <1>1. Cardinality(T) \in Nat
    BY FS_CardinalityType
  <1>2. ASSUME NEW t \in T
        PROVE  IsFiniteSet(Upto(T, key, t)) /\ rank[t] \in 1 .. Cardinality(T)
    <2>1. Upto(T, key, t) \subseteq T /\ t \in Upto(T, key, t)
      BY DEF Upto
    <2>2. /\ IsFiniteSet(Upto(T, key, t))
          /\ Cardinality(Upto(T, key, t)) <= Cardinality(T)
      BY <2>1, FS_Subset
    <2>3. Cardinality(Upto(T, key, t)) \in Nat /\ Cardinality(Upto(T, key, t)) # 0
      BY <2>1, <2>2, FS_CardinalityType, FS_EmptySet
    <2> QED BY <1>1, <2>2, <2>3
  <1>3. ASSUME NEW s \in T, NEW t \in T, key[s] < key[t] PROVE rank[s] < rank[t]
    <2>1. Upto(T, key, s) \subseteq Upto(T, key, t) /\ t \notin Upto(T, key, s)
          /\ t \in Upto(T, key, t)
      BY <1>3 DEF Upto
    <2>2. /\ Cardinality(Upto(T, key, s)) <= Cardinality(Upto(T, key, t))
          /\ Cardinality(Upto(T, key, s)) # Cardinality(Upto(T, key, t))
      BY <1>2, <2>1, FS_Subset
    <2> QED BY <1>2, <2>2
  <1>4. \A s, t \in T : rank[s] = rank[t] => s = t
    <2> SUFFICES ASSUME NEW s \in T, NEW t \in T, rank[s] = rank[t] PROVE s = t
      OBVIOUS
    <2>1. rank[s] \in Nat /\ rank[t] \in Nat
      BY <1>1, <1>2
    <2> HIDE DEF rank
    <2>2. ~(key[s] < key[t]) /\ ~(key[t] < key[s])
      BY <1>3, <2>1
    <2> QED BY <2>2
  <1>5. R = 1 .. Cardinality(T)
    <2>1. R \subseteq 1 .. Cardinality(T)
      BY <1>2
    <2>2. rank \in Bijection(T, R)
      BY <1>4 DEF Bijection, Injection, IsInjective, Surjection
    <2>3. IsFiniteSet(R) /\ Cardinality(R) = Cardinality(T)
      BY <2>2, FS_Bijection DEF ExistsBijection
    <2>4. IsFiniteSet(1 .. Cardinality(T)) /\ Cardinality(1 .. Cardinality(T)) = Cardinality(T)
      BY <1>1, FS_Interval
    <2> HIDE DEF R
    <2> QED BY <2>1, <2>3, <2>4, FS_Subset
  <1>6. \A i \in 1 .. Cardinality(T) : \E t \in T : rank[t] = i
    BY <1>5
  <1> QED BY <1>1, <1>2, <1>3, <1>6
-----------------------------------------------------------------------------
(* The elements at some positions are as many, and in their order.         *)
Till(kept, i) == {j \in kept : j <= i}

LEMMA NthIs ==
  ASSUME NEW n \in Nat, NEW kept \in SUBSET (1 .. n)
  PROVE  /\ IsFiniteSet(kept) /\ Cardinality(kept) \in Nat
         /\ \A i \in 1 .. Cardinality(kept) :
              Nth(kept, i) \in kept /\ Cardinality(Till(kept, Nth(kept, i))) = i
         /\ \A k \in kept : /\ Cardinality(Till(kept, k)) \in 1 .. Cardinality(kept)
                            /\ Nth(kept, Cardinality(Till(kept, k))) = k
  <1> DEFINE key == [k \in kept |-> k]
  <1>1. IsFiniteSet(kept)
    <2>1. IsFiniteSet(1 .. n)
      BY FS_Interval
    <2> QED BY <2>1, FS_Subset
  <1>2. key \in [kept -> Nat] /\ \A s, t \in kept : key[s] = key[t] => s = t
    OBVIOUS
  <1>3. \A k \in kept : Upto(kept, key, k) = Till(kept, k)
    BY DEF Upto, Till
  <1>4. /\ Cardinality(kept) \in Nat
        /\ \A t \in kept : Cardinality(Upto(kept, key, t)) \in 1 .. Cardinality(kept)
        /\ \A s, t \in kept : key[s] < key[t] =>
              Cardinality(Upto(kept, key, s)) < Cardinality(Upto(kept, key, t))
        /\ \A i \in 1 .. Cardinality(kept) : \E t \in kept : Cardinality(Upto(kept, key, t)) = i
    <2> HIDE DEF key
    <2> QED BY <1>1, <1>2, RanksByKey
  <1>5. /\ \A t \in kept : Cardinality(Till(kept, t)) \in 1 .. Cardinality(kept)
        /\ \A i \in 1 .. Cardinality(kept) : \E t \in kept : Cardinality(Till(kept, t)) = i
    BY <1>3, <1>4
  <1>6. \A s, t \in kept : s < t => Cardinality(Till(kept, s)) < Cardinality(Till(kept, t))
    <2>1. \A t \in kept : key[t] = t
      OBVIOUS
    <2> HIDE DEF key
    <2> QED BY <1>3, <1>4, <2>1
  <1>7. \A i : Nth(kept, i) = CHOOSE k \in kept : Cardinality(Till(kept, k)) = i
    BY DEF Nth, Till
  <1>8. \A i \in 1 .. Cardinality(kept) :
          Nth(kept, i) \in kept /\ Cardinality(Till(kept, Nth(kept, i))) = i
    BY <1>5, <1>7
  <1>9. ASSUME NEW k \in kept PROVE Nth(kept, Cardinality(Till(kept, k))) = k
    <2>1. PICK m : m = Nth(kept, Cardinality(Till(kept, k)))
      OBVIOUS
    <2>2. m \in kept /\ Cardinality(Till(kept, m)) = Cardinality(Till(kept, k))
      BY <1>7, <2>1
    <2>3. ~(m < k) /\ ~(k < m) /\ m \in Nat /\ k \in Nat
      BY <1>4, <1>5, <1>6, <2>2
    <2> QED BY <2>1, <2>3
  <1> QED BY <1>1, <1>4, <1>5, <1>8, <1>9

LEMMA NthGrows ==
  ASSUME NEW n \in Nat, NEW kept \in SUBSET (1 .. n),
         NEW i \in 1 .. Cardinality(kept), NEW j \in 1 .. Cardinality(kept), i < j
  PROVE  Nth(kept, i) < Nth(kept, j)
  <1> DEFINE k == Nth(kept, i)
             l == Nth(kept, j)
  <1>1. k \in kept /\ l \in kept /\ IsFiniteSet(kept)
    BY NthIs
  <1>2. Cardinality(Till(kept, k)) = i /\ Cardinality(Till(kept, l)) = j
    BY NthIs
  <1> HIDE DEF k, l
  <1>3. k \in Nat /\ l \in Nat
    BY <1>1
  <1>4. ASSUME l <= k PROVE FALSE
    <2>1. \A m \in kept : m \in Nat /\ (m <= l => m <= k)
      BY <1>3, <1>4
    <2>2. Till(kept, l) \subseteq Till(kept, k) /\ Till(kept, k) \subseteq kept
      BY <2>1 DEF Till
    <2>3. IsFiniteSet(Till(kept, k))
      BY <1>1, <2>2, FS_Subset
    <2>4. Cardinality(Till(kept, l)) <= Cardinality(Till(kept, k))
      BY <2>3, <2>2, FS_Subset
    <2> QED BY <1>2, <2>4
  <1> QED BY <1>3, <1>4 DEF k, l

(* One position further there is one element more, or it is not kept.      *)
LEMMA TillNext ==
  ASSUME NEW n \in Nat, NEW kept \in SUBSET (1 .. n), NEW i \in 0 .. n - 1
  PROVE  /\ Cardinality(Till(kept, i)) \in Nat
         /\ Cardinality(Till(kept, i + 1)) =
              Cardinality(Till(kept, i)) + (IF i + 1 \in kept THEN 1 ELSE 0)
  <1>1. IsFiniteSet(Till(kept, i))
    <2>1. IsFiniteSet(kept) /\ Till(kept, i) \subseteq kept
      BY NthIs DEF Till
    <2> QED BY <2>1, FS_Subset
  <1>2. Cardinality(Till(kept, i)) \in Nat
    BY <1>1, FS_CardinalityType
  <1>0. \A j \in kept : j <= i + 1 <=> j <= i \/ j = i + 1
    OBVIOUS
  <1>3. CASE i + 1 \in kept
    <2>1. i + 1 \notin Till(kept, i)
      BY DEF Till
    <2>2. Till(kept, i + 1) = Till(kept, i) \cup {i + 1}
      BY <1>0, <1>3 DEF Till
    <2>3. Cardinality(Till(kept, i + 1)) = Cardinality(Till(kept, i)) + 1
      BY <1>1, <2>1, <2>2, FS_AddElement
    <2> QED BY <1>2, <1>3, <2>3
  <1>4. CASE i + 1 \notin kept
    <2>1. Till(kept, i + 1) = Till(kept, i)
      BY <1>0, <1>4 DEF Till
    <2> QED BY <1>2, <1>4, <2>1
  <1> QED BY <1>3, <1>4
-----------------------------------------------------------------------------
(* What is in a list, and what comes in it behind what.                    *)
In(list) == {list[i] : i \in 1 .. Len(list)}
Follows(list, a, b) == \E i, j \in 1 .. Len(list) : i < j /\ list[i] = a /\ list[j] = b

LEMMA InEmpty == In(<<>>) = {} /\ \A a, b : ~Follows(<<>>, a, b)
  BY DEF In, Follows

LEMMA FollowsIn ==
  ASSUME NEW list, NEW a, NEW b, Follows(list, a, b)
  PROVE  a \in In(list) /\ b \in In(list)
  BY DEF In, Follows

LEMMA InType == ASSUME NEW S, NEW list \in Seq(S) PROVE In(list) \subseteq S
  BY DEF In

(* Lists one behind the other.                                             *)
LEMMA InConcat ==
  ASSUME NEW S, NEW list \in Seq(S), NEW more \in Seq(S)
  PROVE  /\ list \o more \in Seq(S) /\ In(list \o more) = In(list) \cup In(more)
         /\ \A a, b : Follows(list \o more, a, b) <=>
              Follows(list, a, b) \/ Follows(more, a, b) \/ (a \in In(list) /\ b \in In(more))
  <1> DEFINE l == Len(list)
             m == Len(more)
             both == list \o more
  <1>1. /\ l \in Nat /\ m \in Nat /\ both \in Seq(S) /\ Len(both) = l + m
        /\ \A i \in 1 .. l : both[i] = list[i]
        /\ \A i \in 1 .. m : both[l + i] = more[i]
    OBVIOUS
  <1> HIDE DEF l, m, both
  <1>2. \A k \in 1 .. l + m : k \in 1 .. l \/ (k - l \in 1 .. m /\ k = l + (k - l))
    BY <1>1
  <1>3. \A i \in 1 .. l : i \in 1 .. l + m
    BY <1>1
  <1>4. \A i \in 1 .. m : l + i \in 1 .. l + m
    BY <1>1
  <1>5. In(both) = In(list) \cup In(more)
    <2>1. In(both) \subseteq In(list) \cup In(more)
      <3> SUFFICES ASSUME NEW k \in 1 .. l + m PROVE both[k] \in In(list) \cup In(more)
        BY <1>1 DEF In
      <3>1. CASE k \in 1 .. l
        BY <1>1, <3>1 DEF In, l
      <3>2. CASE k - l \in 1 .. m /\ k = l + (k - l)
        <4>1. both[k] = more[k - l]
          BY <1>1, <3>2
        <4> QED BY <3>2, <4>1 DEF In, m
      <3> QED BY <1>2, <3>1, <3>2
    <2>2. In(list) \subseteq In(both)
      BY <1>1, <1>3 DEF In, l
    <2>3. In(more) \subseteq In(both)
      <3> SUFFICES ASSUME NEW i \in 1 .. m PROVE more[i] \in In(both)
        BY DEF In, m
      <3>1. more[i] = both[l + i] /\ l + i \in 1 .. Len(both)
        BY <1>1, <1>4
      <3> QED BY <3>1 DEF In
    <2> QED BY <2>1, <2>2, <2>3
  <1>6. ASSUME NEW a, NEW b, Follows(both, a, b)
        PROVE  Follows(list, a, b) \/ Follows(more, a, b) \/ (a \in In(list) /\ b \in In(more))
    <2>1. PICK i \in 1 .. l + m, j \in 1 .. l + m : i < j /\ both[i] = a /\ both[j] = b
      BY <1>1, <1>6 DEF Follows
    <2>2. CASE j \in 1 .. l
      <3>1. i \in 1 .. l
        BY <1>1, <2>1, <2>2
      <3> QED BY <1>1, <2>1, <2>2, <3>1 DEF Follows, l
    <2>3. CASE j - l \in 1 .. m /\ j = l + (j - l)
      <3>1. b = more[j - l]
        BY <1>1, <2>1, <2>3
      <3>2. CASE i \in 1 .. l
        BY <1>1, <2>1, <2>3, <3>1, <3>2 DEF In, l, m
      <3>3. CASE i - l \in 1 .. m /\ i = l + (i - l)
        <4>1. a = more[i - l] /\ i - l < j - l
          BY <1>1, <2>1, <3>3
        <4> QED BY <2>3, <3>1, <3>3, <4>1 DEF Follows, m
      <3> QED BY <1>2, <3>2, <3>3
    <2> QED BY <1>2, <2>2, <2>3
  <1>7. ASSUME NEW a, NEW b, Follows(list, a, b) PROVE Follows(both, a, b)
    BY <1>1, <1>3, <1>7 DEF Follows, l
  <1>8. ASSUME NEW a, NEW b, Follows(more, a, b) PROVE Follows(both, a, b)
    <2>1. PICK i \in 1 .. m, j \in 1 .. m : i < j /\ more[i] = a /\ more[j] = b
      BY <1>8 DEF Follows, m
    <2>2. /\ l + i \in 1 .. Len(both) /\ l + j \in 1 .. Len(both) /\ l + i < l + j
          /\ both[l + i] = a /\ both[l + j] = b
      BY <1>1, <1>4, <2>1
    <2> QED BY <2>2 DEF Follows
  <1>9. ASSUME NEW a \in In(list), NEW b \in In(more) PROVE Follows(both, a, b)
    <2>1. PICK i \in 1 .. l : list[i] = a
      BY DEF In, l
    <2>2. PICK j \in 1 .. m : more[j] = b
      BY DEF In, m
    <2>3. /\ i \in 1 .. Len(both) /\ l + j \in 1 .. Len(both) /\ i < l + j
          /\ both[i] = a /\ both[l + j] = b
      BY <1>1, <1>3, <1>4, <2>1, <2>2
    <2> QED BY <2>3 DEF Follows
  <1> QED BY <1>1, <1>5, <1>6, <1>7, <1>8, <1>9 DEF both

LEMMA InPair ==
  ASSUME NEW x, NEW y
  PROVE  /\ In(<<x, y>>) = {x, y}
         /\ \A a, b : Follows(<<x, y>>, a, b) <=> a = x /\ b = y
  BY DEF In, Follows

LEMMA InAppend ==
  ASSUME NEW S, NEW list \in Seq(S), NEW x \in S
  PROVE  /\ Append(list, x) \in Seq(S) /\ In(Append(list, x)) = In(list) \cup {x}
         /\ \A a, b : Follows(Append(list, x), a, b) <=>
              Follows(list, a, b) \/ (a \in In(list) /\ b = x)
  <1>1. <<x>> \in Seq(S) /\ Append(list, x) = list \o <<x>>
    OBVIOUS
  <1>2. In(<<x>>) = {x} /\ \A a, b : ~Follows(<<x>>, a, b)
    BY DEF In, Follows
  <1>3. /\ list \o <<x>> \in Seq(S) /\ In(list \o <<x>>) = In(list) \cup In(<<x>>)
        /\ \A a, b : Follows(list \o <<x>>, a, b) <=>
             Follows(list, a, b) \/ Follows(<<x>>, a, b) \/ (a \in In(list) /\ b \in In(<<x>>))
    BY <1>1, InConcat
  <1> QED BY <1>1, <1>2, <1>3

(* What is kept of a list keeps its order.                                 *)
LEMMA OnlyIs ==
  ASSUME NEW S, NEW list \in Seq(S), NEW kept \in SUBSET (1 .. Len(list))
  PROVE  /\ Only(list, kept) \in Seq(S)
         /\ In(Only(list, kept)) = {list[k] : k \in kept}
         /\ \A a, b : Follows(Only(list, kept), a, b) => Follows(list, a, b)
  <1> DEFINE c == Cardinality(kept)
             part == Only(list, kept)
  <1>0. Len(list) \in Nat
    OBVIOUS
  <1>1. /\ c \in Nat
        /\ \A i \in 1 .. c : Nth(kept, i) \in kept
        /\ \A k \in kept : /\ Cardinality(Till(kept, k)) \in 1 .. c
                           /\ Nth(kept, Cardinality(Till(kept, k))) = k
    BY <1>0, NthIs
  <1>2. \A i, j \in 1 .. c : i < j => Nth(kept, i) < Nth(kept, j)
    BY <1>0, NthGrows
  <1>3. part = [i \in 1 .. c |-> list[Nth(kept, i)]]
    BY DEF Only
  <1>4. \A k \in kept : k \in 1 .. Len(list) /\ list[k] \in S
    OBVIOUS
  <1> HIDE DEF c, part
  <1>5. part \in Seq(S) /\ Len(part) = c /\ \A i \in 1 .. c : part[i] = list[Nth(kept, i)]
    <2>1. part \in [1 .. c -> S]
      BY <1>1, <1>3, <1>4
    <2> QED BY <1>1, <1>3, <2>1
  <1>6. In(part) = {list[k] : k \in kept}
    <2>1. \A i \in 1 .. c : part[i] \in {list[k] : k \in kept}
      BY <1>1, <1>5
    <2>2. \A k \in kept : \E i \in 1 .. c : part[i] = list[k]
      BY <1>1, <1>5
    <2> QED BY <1>5, <2>1, <2>2 DEF In
  <1>7. \A a, b : Follows(part, a, b) => Follows(list, a, b)
    BY <1>1, <1>2, <1>4, <1>5 DEF Follows
  <1> QED BY <1>5, <1>6, <1>7 DEF part
=============================================================================
