--------------------------- MODULE OrderedSetsProofs ---------------------------
(***************************************************************************)
(* What InOrder does, for every finite set of numbers, and how a list that is  *)
(* worked off from its head stays in order.  The place of a member is how many  *)
(* members there are up to it; the places are different, so they are all the    *)
(* numbers from one to the size of the set.                                     *)
(***************************************************************************)
EXTENDS OrderedSets, Integers, Sequences, FiniteSetTheorems, TLAPS

\* The list has the members of S and no other, in the order of the relation R.
Lists(list, S, R) ==
    /\ list \in Seq(S)
    /\ \A k, l \in DOMAIN list : k < l => <<list[k], list[l]>> \in R
    /\ \A x \in S : \E k \in DOMAIN list : list[k] = x

Less == {pair \in Nat \X Nat : pair[1] < pair[2]}

\* No member of S comes before itself.
Irreflexive(R, S) == \A x \in S : <<x, x>> \notin R

(* A finite set of numbers is listed in increasing order, and nothing else.   *)
THEOREM InOrderLists ==
  ASSUME NEW S, S \subseteq Nat, IsFiniteSet(S)
  PROVE  Lists(InOrder(S), S, Less)
  <1> DEFINE n == Cardinality(S)
             UpTo(i) == {j \in S : j <= i}
             place == [i \in S |-> Cardinality(UpTo(i))]
             At(k) == CHOOSE i \in S : Cardinality(UpTo(i)) = k
             list == InOrder(S)
  <1>1. n \in Nat
    BY FS_CardinalityType
  <1>2. ASSUME NEW i \in S
        PROVE  IsFiniteSet(UpTo(i)) /\ place[i] \in 1..n
    <2>1. IsFiniteSet(UpTo(i)) /\ Cardinality(UpTo(i)) <= n
      BY FS_Subset
    <2>2. i \in UpTo(i)
      OBVIOUS
    <2>3. Cardinality(UpTo(i)) \in Nat /\ Cardinality(UpTo(i)) # 0
      BY <2>1, <2>2, FS_CardinalityType, FS_EmptySet
    <2> HIDE DEF n
    <2> QED
      BY <1>1, <2>1, <2>3
  <1>3. ASSUME NEW i \in S, NEW j \in S, i < j
        PROVE  place[i] < place[j]
    <2>1. UpTo(i) \subseteq UpTo(j) /\ j \notin UpTo(i) /\ j \in UpTo(j)
      <3>1. i \in Nat /\ j \in Nat /\ \A x \in S : x \in Nat
        OBVIOUS
      <3>2. \A x \in S : x <= i => x <= j
        BY <1>3, <3>1
      <3>3. ~(j <= i) /\ j <= j
        BY <1>3, <3>1
      <3> QED
        BY <3>2, <3>3
    <2>2. IsFiniteSet(UpTo(j))
      BY <1>2
    <2>3. /\ Cardinality(UpTo(i)) <= Cardinality(UpTo(j))
          /\ Cardinality(UpTo(j)) # Cardinality(UpTo(i))
      BY <2>1, <2>2, FS_Subset
    <2>4. place[i] \in 1..n /\ place[j] \in 1..n
      BY <1>2
    <2> HIDE DEF n
    <2> QED
      BY <1>1, <2>3, <2>4
  <1>4. place \in Injection(S, 1..n)
    <2>1. place \in [S -> 1..n]
      BY <1>2
    <2> HIDE DEF place
    <2>2. \A i, j \in S : place[i] = place[j] => i = j
      <3> SUFFICES ASSUME NEW i \in S, NEW j \in S, place[i] = place[j], i # j
                   PROVE  FALSE
        OBVIOUS
      <3>1. i \in Nat /\ j \in Nat /\ place[i] \in Int /\ place[j] \in Int
        BY <1>1, <2>1
      <3>2. i < j \/ j < i
        BY <3>1
      <3>3. place[i] < place[j] \/ place[j] < place[i]
        BY <1>3, <3>2
      <3> QED
        BY <3>1, <3>3
    <2> QED
      BY <2>1, <2>2 DEF Injection, IsInjective
  <1>5. \A k \in 1..n : \E i \in S : place[i] = k
    <2>1. IsFiniteSet(1..n) /\ Cardinality(1..n) = n
      BY <1>1, FS_Interval
    <2>2. place \in Surjection(S, 1..n)
      BY <1>4, <2>1, FS_Injection
    <2> QED
      BY <2>2 DEF Surjection
  <1>6. \A i \in S : place[i] = Cardinality(UpTo(i))
    OBVIOUS
  <1>7. list = [k \in 1..n |-> At(k)]
    BY Zenon DEF InOrder
  <1>8. ASSUME NEW k \in 1..n
        PROVE  list[k] \in S /\ place[list[k]] = k
    <2>1. \E i \in S : Cardinality(UpTo(i)) = k
      BY <1>5, <1>6
    <2>2. At(k) \in S /\ Cardinality(UpTo(At(k))) = k
      BY <2>1
    <2> HIDE DEF At, list, place
    <2> QED
      BY <1>6, <1>7, <2>2
  <1> HIDE DEF n, place, At, list
  <1>9. DOMAIN list = 1..n
    BY <1>7
  <1>10. list \in Seq(S)
    <2>1. list \in [1..n -> S]
      BY <1>7, <1>8
    <2> QED
      BY <1>1, <2>1
  <1>11. \A k, l \in DOMAIN list : k < l => <<list[k], list[l]>> \in Less
    <2> SUFFICES ASSUME NEW k \in 1..n, NEW l \in 1..n, k < l
                 PROVE  <<list[k], list[l]>> \in Less
      BY <1>9
    <2>1. list[k] \in S /\ list[l] \in S /\ place[list[k]] = k /\ place[list[l]] = l
      BY <1>8
    <2>2. list[k] \in Nat /\ list[l] \in Nat
      BY <2>1
    <2>3. list[k] # list[l]
      BY <1>1, <2>1
    <2>4. ~(list[l] < list[k])
      <3> SUFFICES ASSUME list[l] < list[k] PROVE FALSE
        OBVIOUS
      <3>1. place[list[l]] < place[list[k]]
        BY <1>3, <2>1
      <3> QED
        BY <1>1, <2>1, <3>1
    <2>5. list[k] < list[l]
      BY <2>2, <2>3, <2>4
    <2> QED
      BY <2>2, <2>5 DEF Less
  <1>12. ASSUME NEW i \in S
         PROVE  \E k \in DOMAIN list : list[k] = i
    <2>1. place[i] \in 1..n
      BY <1>2
    <2>2. list[place[i]] \in S /\ place[list[place[i]]] = place[i]
      BY <1>8, <2>1
    <2>3. list[place[i]] = i
      BY <1>4, <2>2 DEF Injection, IsInjective
    <2> QED
      BY <1>9, <2>1, <2>3
  <1> QED
    BY <1>10, <1>11, <1>12 DEF list, Lists

(* Every set of numbers has a least one.                                      *)
LEMMA LeastOf ==
  ASSUME NEW S, S \subseteq Nat, S # {}
  PROVE  \E x \in S : \A y \in S : x <= y
  <1> DEFINE R == OpToRel(<, Nat)
  <1>1. IsWellFoundedOn(R, Nat)
    BY NatLessThanWellFounded
  <1> HIDE DEF R
  <1>2. PICK x \in S : \A y \in S : ~(<<y, x>> \in R)
    BY <1>1, WFMin
  <1>3. \A y \in S : ~(y < x)
    BY <1>2 DEF R, OpToRel
  <1> QED
    BY <1>3

(* The empty list lists nothing.                                              *)
LEMMA EmptyLists ==
  ASSUME NEW S, NEW R, Lists(<<>>, S, R)
  PROVE  S = {}
  BY DEF Lists

(* The head of a list comes before the rest, and the tail lists the rest.     *)
LEMMA TailLists ==
  ASSUME NEW S, NEW R, NEW list, Lists(list, S, R), list # <<>>, Irreflexive(R, S)
  PROVE  /\ Head(list) \in S
         /\ \A x \in S \ {Head(list)} : <<Head(list), x>> \in R
         /\ Lists(Tail(list), S \ {Head(list)}, R)
  <1> DEFINE n == Len(list)
             h == Head(list)
             t == Tail(list)
  <1>1. /\ n \in Nat /\ n # 0 /\ DOMAIN list = 1..n /\ h = list[1]
        /\ \A k \in 1..n : list[k] \in S
    BY DEF Lists
  <1>2. t \in Seq(S) /\ DOMAIN t = 1..(n - 1) /\ \A k \in 1..(n - 1) : t[k] = list[k + 1]
    BY <1>1 DEF Lists
  <1>3. \A k, l \in 1..n : k < l => <<list[k], list[l]>> \in R
    BY <1>1 DEF Lists
  <1>4. \A x \in S : \E k \in 1..n : list[k] = x
    BY <1>1 DEF Lists
  <1> HIDE DEF n, h, t
  <1>5. h \in S
    BY <1>1
  <1>6. ASSUME NEW x \in S \ {h}
        PROVE  \E k \in 1..(n - 1) : t[k] = x
    <2>1. PICK k \in 1..n : list[k] = x
      BY <1>4
    <2>2. k # 1
      BY <1>1, <2>1
    <2>3. k - 1 \in 1..(n - 1) /\ (k - 1) + 1 = k
      BY <1>1, <2>2
    <2>4. t[k - 1] = list[k]
      BY <1>2, <2>3
    <2> QED
      BY <2>1, <2>3, <2>4
  <1>7. ASSUME NEW k \in 1..(n - 1)
        PROVE  t[k] \in S \ {h} /\ <<h, t[k]>> \in R
    <2>1. k + 1 \in 1..n /\ 1 \in 1..n /\ 1 < k + 1
      BY <1>1
    <2>2. <<list[1], list[k + 1]>> \in R /\ list[k + 1] \in S
      BY <1>1, <1>3, <2>1
    <2>3. <<h, t[k]>> \in R /\ t[k] \in S
      BY <1>1, <1>2, <2>2
    <2> QED
      BY <2>3 DEF Irreflexive
  <1>8. \A x \in S \ {h} : <<h, x>> \in R
    BY <1>6, <1>7
  <1>9. ASSUME NEW k \in 1..(n - 1), NEW l \in 1..(n - 1), k < l
        PROVE  <<t[k], t[l]>> \in R
    <2>1. k + 1 \in 1..n /\ l + 1 \in 1..n /\ k + 1 < l + 1
      BY <1>1, <1>9
    <2>2. <<list[k + 1], list[l + 1]>> \in R
      BY <1>3, <2>1
    <2> QED
      BY <1>2, <2>2
  <1>10. t \in Seq(S \ {h})
    <2>1. t \in [1..(n - 1) -> S \ {h}]
      <3>1. t = [k \in 1..(n - 1) |-> t[k]]
        BY <1>2
      <3>2. \A k \in 1..(n - 1) : t[k] \in S \ {h}
        BY <1>7
      <3> QED
        BY <3>1, <3>2
    <2>2. n - 1 \in Nat
      BY <1>1
    <2> QED
      BY <2>1, <2>2
  <1>11. Lists(t, S \ {h}, R)
    BY <1>2, <1>6, <1>9, <1>10 DEF Lists
  <1> QED
    BY <1>5, <1>8, <1>11 DEF h, t

(* One list after another lists both sets, when all of the one comes first.   *)
LEMMA ConcatLists ==
  ASSUME NEW S, NEW T, NEW R, NEW s, NEW t, Lists(s, S, R), Lists(t, T, R),
         \A x \in S, y \in T : <<x, y>> \in R
  PROVE  Lists(s \o t, S \cup T, R)
  <1> DEFINE m == Len(s)
             n == Len(t)
             both == s \o t
             U == S \cup T
  <1>1. /\ m \in Nat /\ DOMAIN s = 1..m /\ \A k \in 1..m : s[k] \in S
        /\ n \in Nat /\ DOMAIN t = 1..n /\ \A k \in 1..n : t[k] \in T
    BY DEF Lists
  <1>2. s \in Seq(U) /\ t \in Seq(U)
    <2>1. s \in [1..m -> U] /\ t \in [1..n -> U]
      BY <1>1 DEF Lists
    <2> HIDE DEF m, n, U
    <2> QED
      BY <1>1, <2>1
  <1>3. /\ both \in Seq(U) /\ DOMAIN both = 1..(m + n)
        /\ \A k \in 1..m : both[k] = s[k]
        /\ \A k \in 1..n : both[m + k] = t[k]
    <2> HIDE DEF U
    <2> QED
      BY <1>1, <1>2
  <1>4. /\ \A k, l \in 1..m : k < l => <<s[k], s[l]>> \in R
        /\ \A k, l \in 1..n : k < l => <<t[k], t[l]>> \in R
        /\ \A x \in S : \E k \in 1..m : s[k] = x
        /\ \A x \in T : \E k \in 1..n : t[k] = x
    BY <1>1 DEF Lists
  <1> HIDE DEF m, n, both
  <1>5. \A k \in 1..(m + n) : k \in 1..m \/ (k - m \in 1..n /\ m + (k - m) = k)
    BY <1>1
  <1>6. ASSUME NEW k \in 1..(m + n), NEW l \in 1..(m + n), k < l
        PROVE  <<both[k], both[l]>> \in R
    <2>1. CASE k \in 1..m /\ l \in 1..m
      BY <1>3, <1>4, <1>6, <2>1
    <2>2. CASE k \in 1..m /\ l - m \in 1..n /\ m + (l - m) = l
      <3>1. both[k] = s[k] /\ both[l] = t[l - m]
        BY <1>3, <2>2
      <3> QED
        BY <1>1, <2>2, <3>1
    <2>3. CASE k - m \in 1..n /\ m + (k - m) = k /\ l - m \in 1..n /\ m + (l - m) = l
      <3>1. both[k] = t[k - m] /\ both[l] = t[l - m]
        BY <1>3, <2>3
      <3>2. k - m < l - m
        BY <1>1, <1>6
      <3> QED
        BY <1>4, <2>3, <3>1, <3>2
    <2>4. CASE k - m \in 1..n /\ l \in 1..m
      BY <1>1, <1>6, <2>4
    <2> QED
      BY <1>5, <2>1, <2>2, <2>3, <2>4
  <1>7. ASSUME NEW x \in U
        PROVE  \E k \in 1..(m + n) : both[k] = x
    <2>1. CASE x \in S
      <3>1. PICK k \in 1..m : s[k] = x
        BY <1>4, <2>1
      <3>2. k \in 1..(m + n)
        BY <1>1
      <3> QED
        BY <1>3, <3>1, <3>2
    <2>2. CASE x \in T
      <3>1. PICK k \in 1..n : t[k] = x
        BY <1>4, <2>2
      <3>2. m + k \in 1..(m + n)
        BY <1>1
      <3> QED
        BY <1>3, <3>1, <3>2
    <2> QED
      BY <2>1, <2>2
  <1> QED
    BY <1>3, <1>6, <1>7 DEF Lists, both
=============================================================================
