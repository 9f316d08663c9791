----------------------------- MODULE ListsProofs -----------------------------
(***************************************************************************)
(* What the list operations return: SortedBy(S, key) lists exactly S, and  *)
(* Without(s, S) lists exactly the elements of s that are not in S.        *)
(***************************************************************************)
EXTENDS Lists, SequencesExt, Functions, FiniteSetTheorems, SequenceTheorems,
        TLAPS

\* A place is a number from 1 to the size of the set.
LEMMA PlaceIsAPosition ==
  ASSUME NEW S, IsFiniteSet(S), NEW key, \A x \in S : key[x] \in Nat,
         NEW x \in S
  PROVE  Place(x, S, key) \in 1 .. Cardinality(S)
<1> DEFINE n == Cardinality(S)
           upTo == {y \in S : key[y] <= key[x]}
<1>1. n \in Nat
  BY FS_CardinalityType
<1>2. upTo \in SUBSET S /\ x \in upTo
  OBVIOUS
<1> HIDE DEF upTo
<1>3. IsFiniteSet(upTo) /\ Cardinality(upTo) <= n
  BY <1>2, FS_Subset
<1>4. Cardinality(upTo) \in Nat
  BY <1>3, FS_CardinalityType
<1>5. Cardinality(upTo) # 0
  BY <1>2, <1>3, FS_EmptySet
<1> QED
  BY <1>1, <1>3, <1>4, <1>5 DEF Place, upTo

\* Of two elements, the one with the smaller key has the smaller place.
LEMMA PlacesFollowKeys ==
  ASSUME NEW S, IsFiniteSet(S), NEW key, \A x \in S : key[x] \in Nat,
         NEW x \in S, NEW y \in S, key[x] < key[y]
  PROVE  Place(x, S, key) < Place(y, S, key)
<1> DEFINE upToX == {z \in S : key[z] <= key[x]}
           upToY == {z \in S : key[z] <= key[y]}
<1>1. key[x] \in Nat /\ key[y] \in Nat
  OBVIOUS
<1>2. upToX \in SUBSET upToY
  BY <1>1
<1>3. y \in upToY /\ y \notin upToX /\ upToY \in SUBSET S
  BY <1>1
<1> HIDE DEF upToX, upToY
<1>4. IsFiniteSet(upToY)
  BY <1>3, FS_Subset
<1>5. /\ Cardinality(upToX) <= Cardinality(upToY)
      /\ Cardinality(upToX) # Cardinality(upToY)
      /\ IsFiniteSet(upToX)
  BY <1>2, <1>3, <1>4, FS_Subset
<1>6. Cardinality(upToX) \in Nat /\ Cardinality(upToY) \in Nat
  BY <1>4, <1>5, FS_CardinalityType
<1>7. Cardinality(upToX) < Cardinality(upToY)
  BY <1>5, <1>6
<1> QED
  BY <1>7 DEF Place, upToX, upToY

\* Elements with different keys have different places.
LEMMA PlacesDiffer ==
  ASSUME NEW S, IsFiniteSet(S), NEW key, \A x \in S : key[x] \in Nat,
         \A x, y \in S : x # y => key[x] # key[y],
         NEW x \in S, NEW y \in S, x # y
  PROVE  Place(x, S, key) # Place(y, S, key)
<1>1. key[x] < key[y] \/ key[y] < key[x]
  OBVIOUS
<1>2. Place(x, S, key) \in Nat /\ Place(y, S, key) \in Nat
  BY PlaceIsAPosition
<1>3. CASE key[x] < key[y]
  BY <1>2, <1>3, PlacesFollowKeys
<1>4. CASE key[y] < key[x]
  BY <1>2, <1>4, PlacesFollowKeys
<1> QED
  BY <1>1, <1>3, <1>4

\* Every number from 1 to the size of the set is the place of an element.
LEMMA EveryPlaceIsTaken ==
  ASSUME NEW S, IsFiniteSet(S), NEW key, \A x \in S : key[x] \in Nat,
         \A x, y \in S : x # y => key[x] # key[y]
  PROVE  \A k \in 1 .. Cardinality(S) : \E x \in S : Place(x, S, key) = k
<1> DEFINE n == Cardinality(S)
           place == [x \in S |-> Place(x, S, key)]
<1>1. n \in Nat
  BY FS_CardinalityType
<1>2. place \in [S -> 1 .. n]
  BY PlaceIsAPosition
<1>3. place \in Injection(S, 1 .. n)
  BY <1>2, PlacesDiffer DEF Injection, IsInjective
<1>4. IsFiniteSet(1 .. n) /\ Cardinality(1 .. n) = n
  BY <1>1, FS_Interval
<1>5. place \in Surjection(S, 1 .. n)
  BY <1>3, <1>4, FS_Injection
<1> QED
  BY <1>5 DEF Surjection

\* SortedBy lists exactly the elements of the set.
LEMMA SortedByListsTheSet ==
  ASSUME NEW S, IsFiniteSet(S), NEW key, \A x \in S : key[x] \in Nat,
         \A x, y \in S : x # y => key[x] # key[y]
  PROVE  /\ SortedBy(S, key) \in Seq(S)
         /\ Len(SortedBy(S, key)) = Cardinality(S)
         /\ ToSet(SortedBy(S, key)) = S
<1> DEFINE n == Cardinality(S)
           at(k) == CHOOSE x \in S : Place(x, S, key) = k
<1>1. n \in Nat
  BY FS_CardinalityType
<1>2. \A k \in 1 .. n : at(k) \in S /\ Place(at(k), S, key) = k
  BY EveryPlaceIsTaken
<1>3. SortedBy(S, key) \in [1 .. n -> S]
  BY <1>2 DEF SortedBy
<1>4. SortedBy(S, key) \in Seq(S) /\ Len(SortedBy(S, key)) = n
  BY <1>1, <1>3
<1>5. ASSUME NEW x \in S
      PROVE  x \in ToSet(SortedBy(S, key))
  <2> DEFINE k == Place(x, S, key)
  <2>1. k \in 1 .. n
    BY PlaceIsAPosition
  <2>2. at(k) \in S /\ Place(at(k), S, key) = k
    BY <1>2, <2>1
  <2>3. at(k) = x
    BY <2>2, PlacesDiffer
  <2>4. SortedBy(S, key)[k] = x
    BY <2>1, <2>3 DEF SortedBy
  <2> QED
    BY <1>4, <2>1, <2>4 DEF ToSet
<1>6. ToSet(SortedBy(S, key)) \subseteq S
  BY <1>3 DEF ToSet
<1> QED
  BY <1>4, <1>5, <1>6

\* Without drops the elements of S and keeps the others.
THEOREM WithoutDropsTheSet ==
  ASSUME NEW T, NEW s \in Seq(T), NEW S
  PROVE  /\ Without(s, S) \in Seq(T)
         /\ ToSet(Without(s, S)) = ToSet(s) \ S
<1> DEFINE kept  == Kept(s, S)
           key   == [i \in kept |-> i]
           order == SortedBy(kept, key)
           n     == Cardinality(kept)
<1>1. kept \in SUBSET (1 .. Len(s)) /\ Len(s) \in Nat
  BY DEF Kept
<1>2. IsFiniteSet(kept)
  <2>1. IsFiniteSet(1 .. Len(s))
    BY <1>1, FS_Interval
  <2> HIDE DEF kept
  <2> QED
    BY <1>1, <2>1, FS_Subset
<1>3. \A i \in kept : key[i] \in Nat
  BY <1>1
<1>4. \A i, j \in kept : i # j => key[i] # key[j]
  OBVIOUS
<1> HIDE DEF key
<1>5. order \in Seq(kept) /\ Len(order) = n /\ ToSet(order) = kept
  BY <1>2, <1>3, <1>4, SortedByListsTheSet
<1>6. n \in Nat
  BY <1>2, FS_CardinalityType
<1> HIDE DEF order, n
<1>7. Without(s, S) = [k \in 1 .. n |-> s[order[k]]]
  BY DEF Without, order, n, key
<1>8. \A k \in 1 .. n : order[k] \in kept
  BY <1>5, <1>6
<1>9. \A k \in 1 .. n : s[order[k]] \in T
  BY <1>1, <1>8
<1>10. Without(s, S) \in Seq(T)
  BY <1>6, <1>7, <1>9
<1>11. ToSet(Without(s, S)) = {s[order[k]] : k \in 1 .. n}
  BY <1>7 DEF ToSet
<1>12. {s[order[k]] : k \in 1 .. n} = {s[i] : i \in kept}
  <2>1. \A i \in kept : \E k \in 1 .. n : order[k] = i
    BY <1>5, <1>6 DEF ToSet
  <2> QED
    BY <1>8, <2>1
<1>13. {s[i] : i \in kept} = ToSet(s) \ S
  BY DEF Kept, ToSet
<1> QED
  BY <1>10, <1>11, <1>12, <1>13

\* A finite set of numbers that is not empty has a greatest element: the one
\* in the last place.
LEMMA GreatestExists ==
  ASSUME NEW S, IsFiniteSet(S), S # {}, \A x \in S : x \in Nat
  PROVE  \E n \in S : \A m \in S : m <= n
<1> DEFINE key == [x \in S |-> x]
           c   == Cardinality(S)
<1>1. c \in Nat /\ c # 0
  BY FS_CardinalityType, FS_EmptySet
<1>2. \A x \in S : key[x] \in Nat
  OBVIOUS
<1>3. \A x, y \in S : x # y => key[x] # key[y]
  OBVIOUS
<1> HIDE DEF key
<1>4. PICK n \in S : Place(n, S, key) = c
  BY <1>1, <1>2, <1>3, EveryPlaceIsTaken
<1> DEFINE upTo == {y \in S : key[y] <= key[n]}
<1>5. upTo \in SUBSET S /\ Cardinality(upTo) = c
  BY <1>4 DEF Place
<1>6. upTo = S
  <2> HIDE DEF upTo
  <2> QED
    BY <1>5, FS_Subset
<1> QED
  BY <1>6 DEF key

\* What the usual list operations list.
LEMMA ListsOf ==
  ASSUME NEW T, NEW s \in Seq(T), NEW t \in Seq(T)
  PROVE  /\ ToSet(<<>>) = {}
         /\ ToSet(s) \subseteq T
         /\ ToSet(s \o t) = ToSet(s) \cup ToSet(t)
         /\ s \o t \in Seq(T)
         /\ ToSet(s) = {} => s = <<>>
<1>1. ToSet(<<>>) = {} /\ ToSet(s) \subseteq T
  BY DEF ToSet
<1>2. ToSet(s \o t) = ToSet(s) \cup ToSet(t)
  <2>1. /\ Len(s) \in Nat /\ DOMAIN s = 1 .. Len(s)
        /\ Len(t) \in Nat /\ DOMAIN t = 1 .. Len(t)
        /\ DOMAIN (s \o t) = 1 .. Len(s) + Len(t)
    OBVIOUS
  <2>2. ASSUME NEW y \in ToSet(s \o t)
        PROVE  y \in ToSet(s) \cup ToSet(t)
    <3>1. PICK i \in 1 .. Len(s) + Len(t) : y = (s \o t)[i]
      BY <2>1, <2>2 DEF ToSet
    <3>2. CASE i <= Len(s)
      BY <2>1, <3>1, <3>2 DEF ToSet
    <3>3. CASE i > Len(s)
      <4>1. y = t[i - Len(s)] /\ i - Len(s) \in DOMAIN t
        BY <2>1, <3>1, <3>3
      <4> QED
        BY <4>1 DEF ToSet
    <3> QED
      BY <2>1, <3>2, <3>3
  <2>3. ASSUME NEW y \in ToSet(s)
        PROVE  y \in ToSet(s \o t)
    <3>1. PICK i \in 1 .. Len(s) : y = s[i]
      BY <2>1, <2>3 DEF ToSet
    <3>2. (s \o t)[i] = y /\ i \in DOMAIN (s \o t)
      BY <2>1, <3>1
    <3> QED
      BY <3>2 DEF ToSet
  <2>4. ASSUME NEW y \in ToSet(t)
        PROVE  y \in ToSet(s \o t)
    <3>1. PICK i \in 1 .. Len(t) : y = t[i]
      BY <2>1, <2>4 DEF ToSet
    <3>2. (s \o t)[Len(s) + i] = y /\ Len(s) + i \in DOMAIN (s \o t)
      BY <2>1, <3>1
    <3> QED
      BY <3>2 DEF ToSet
  <2> QED
    BY <2>2, <2>3, <2>4
<1>3. ToSet(s) = {} => s = <<>>
  <2>1. s # <<>> => s[1] \in ToSet(s)
    BY DEF ToSet
  <2> QED
    BY <2>1
<1> QED
  BY <1>1, <1>2, <1>3

\* Appending an element adds it to what a list lists.
LEMMA AppendLists ==
  ASSUME NEW T, NEW s \in Seq(T), NEW x \in T
  PROVE  /\ Append(s, x) \in Seq(T)
         /\ ToSet(Append(s, x)) = ToSet(s) \cup {x}
<1>1. Len(s) \in Nat /\ DOMAIN s = 1 .. Len(s)
  OBVIOUS
<1>2. ASSUME NEW y \in ToSet(Append(s, x))
      PROVE  y \in ToSet(s) \cup {x}
  <2>1. PICK i \in 1 .. Len(s) + 1 : y = Append(s, x)[i]
    BY <1>1, <1>2 DEF ToSet
  <2> QED
    BY <1>1, <2>1 DEF ToSet
<1>3. ASSUME NEW y \in ToSet(s)
      PROVE  y \in ToSet(Append(s, x))
  <2>1. PICK i \in 1 .. Len(s) : y = s[i]
    BY <1>1, <1>3 DEF ToSet
  <2>2. Append(s, x)[i] = y /\ i \in DOMAIN Append(s, x)
    BY <1>1, <2>1
  <2> QED
    BY <2>2 DEF ToSet
<1>4. x \in ToSet(Append(s, x))
  <2>1. Append(s, x)[Len(s) + 1] = x /\ Len(s) + 1 \in DOMAIN Append(s, x)
    BY <1>1
  <2> QED
    BY <2>1 DEF ToSet
<1> QED
  BY <1>2, <1>3, <1>4

\* The head and the tail of a list.
LEMMA HeadAndTail ==
  ASSUME NEW T, NEW s \in Seq(T), s # <<>>
  PROVE  /\ Head(s) \in T /\ Head(s) \in ToSet(s)
         /\ Tail(s) \in Seq(T)
         /\ ToSet(s) = {Head(s)} \cup ToSet(Tail(s))
         /\ Len(s) > 1 => Tail(s) # <<>>
<1>1. Len(s) \in Nat /\ Len(s) > 0 /\ DOMAIN s = 1 .. Len(s)
  OBVIOUS
<1>2. Head(s) = s[1] /\ Tail(s) \in Seq(T) /\ Len(Tail(s)) = Len(s) - 1
  BY <1>1
<1>3. \A i \in 1 .. Len(s) - 1 : Tail(s)[i] = s[i + 1]
  BY <1>1
<1>4. Head(s) \in T /\ Head(s) \in ToSet(s)
  BY <1>1, <1>2 DEF ToSet
<1>5. ASSUME NEW y \in ToSet(s), y # Head(s)
      PROVE  y \in ToSet(Tail(s))
  <2>1. PICK i \in 2 .. Len(s) : y = s[i]
    BY <1>1, <1>2, <1>5 DEF ToSet
  <2>2. Tail(s)[i - 1] = y /\ i - 1 \in DOMAIN Tail(s)
    BY <1>1, <1>2, <1>3, <2>1
  <2> QED
    BY <2>2 DEF ToSet
<1>6. ASSUME NEW y \in ToSet(Tail(s))
      PROVE  y \in ToSet(s)
  <2>1. PICK i \in 1 .. Len(s) - 1 : y = Tail(s)[i]
    BY <1>2, <1>6 DEF ToSet
  <2>2. s[i + 1] = y /\ i + 1 \in DOMAIN s
    BY <1>1, <1>3, <2>1
  <2> QED
    BY <2>2 DEF ToSet
<1>7. ToSet(s) = {Head(s)} \cup ToSet(Tail(s))
  BY <1>4, <1>5, <1>6
<1>8. ASSUME Len(s) > 1
      PROVE  Tail(s) # <<>>
  <2>1. Tail(s)[1] = s[2] /\ 1 \in DOMAIN Tail(s)
    BY <1>1, <1>2, <1>3, <1>8
  <2>2. ToSet(Tail(s)) # {}
    BY <2>1 DEF ToSet
  <2>3. ToSet(<<>>) = {}
    BY DEF ToSet
  <2> QED
    BY <2>2, <2>3, Zenon
<1> QED
  BY <1>2, <1>4, <1>7, <1>8

\* A slice lists only what the list does.
LEMMA SliceOf ==
  ASSUME NEW T, NEW s \in Seq(T), NEW m \in Nat \ {0}, NEW n \in Nat,
         n <= Len(s)
  PROVE  SubSeq(s, m, n) \in Seq(T) /\ ToSet(SubSeq(s, m, n)) \subseteq ToSet(s)
<1>1. SubSeq(s, m, n) \in Seq(T)
  BY SubSeqProperties
<1>2. ASSUME NEW y \in ToSet(SubSeq(s, m, n))
      PROVE  y \in ToSet(s)
  <2> DEFINE slice == SubSeq(s, m, n)
  <2>1. /\ Len(slice) = IF m <= n THEN n - m + 1 ELSE 0
        /\ \A i \in 1 .. n - m + 1 : slice[i] = s[m + i - 1]
    BY SubSeqProperties
  <2>2. PICK i \in DOMAIN slice : y = slice[i]
    BY <1>2 DEF ToSet
  <2>3. i \in 1 .. n - m + 1
    BY <1>1, <2>1, <2>2
  <2>4. y = s[m + i - 1] /\ m + i - 1 \in DOMAIN s
    BY <2>1, <2>2, <2>3
  <2> QED
    BY <2>4 DEF ToSet
<1> QED
  BY <1>1, <1>2

\* A list is its first n elements and the others.
LEMMA SplitLists ==
  ASSUME NEW T, NEW s \in Seq(T), NEW n \in Nat, n <= Len(s)
  PROVE  /\ SubSeq(s, 1, n) \in Seq(T) /\ SubSeq(s, n + 1, Len(s)) \in Seq(T)
         /\ ToSet(s) = ToSet(SubSeq(s, 1, n)) \cup ToSet(SubSeq(s, n + 1, Len(s)))
<1> DEFINE a == SubSeq(s, 1, n)
           b == SubSeq(s, n + 1, Len(s))
<1>1. Len(s) \in Nat /\ DOMAIN s = 1 .. Len(s)
  OBVIOUS
<1>2. a \in Seq(T) /\ b \in Seq(T) /\ ToSet(a) \subseteq ToSet(s) /\ ToSet(b) \subseteq ToSet(s)
  BY <1>1, SliceOf
<1>3. /\ Len(a) = n /\ \A i \in 1 .. n : a[i] = s[i]
      /\ Len(b) = Len(s) - n /\ \A i \in 1 .. Len(s) - n : b[i] = s[n + i]
  <2>1. /\ Len(a) = IF 1 <= n THEN n - 1 + 1 ELSE 0
        /\ \A i \in 1 .. n - 1 + 1 : a[i] = s[1 + i - 1]
    BY <1>1, SubSeqProperties
  <2>2. /\ Len(b) = IF n + 1 <= Len(s) THEN Len(s) - (n + 1) + 1 ELSE 0
        /\ \A i \in 1 .. Len(s) - (n + 1) + 1 : b[i] = s[n + 1 + i - 1]
    BY <1>1, SubSeqProperties
  <2> HIDE DEF a, b
  <2>3. n - 1 + 1 = n /\ Len(s) - (n + 1) + 1 = Len(s) - n
    BY <1>1
  <2>4. \A i \in 1 .. n : a[i] = s[i]
    BY <2>1, <2>3
  <2>5. \A i \in 1 .. Len(s) - n : b[i] = s[n + i]
    <3> SUFFICES ASSUME NEW i \in 1 .. Len(s) - n
                 PROVE  b[i] = s[n + i]
      OBVIOUS
    <3>1. n + 1 + i - 1 = n + i
      BY <1>1
    <3> QED
      BY <2>2, <2>3, <3>1
  <2>6. Len(a) = n /\ Len(b) = Len(s) - n
    <3>1. Len(a) = (IF 1 <= n THEN n ELSE 0) /\ Len(b) = IF n + 1 <= Len(s) THEN Len(s) - n ELSE 0
      BY <2>1, <2>2, <2>3
    <3>2. (~(1 <= n) => n = 0) /\ (~(n + 1 <= Len(s)) => Len(s) - n = 0)
      <4>1. ASSUME NEW l \in Nat, n <= l
            PROVE  (~(1 <= n) => n = 0) /\ (~(n + 1 <= l) => l - n = 0)
        BY <4>1
      <4> QED
        BY <1>1, <4>1
    <3> QED
      BY <3>1, <3>2
  <2> QED
    BY <2>4, <2>5, <2>6
<1>4. DOMAIN a = 1 .. n /\ DOMAIN b = 1 .. Len(s) - n
  <2> HIDE DEF a, b
  <2> QED
    BY <1>1, <1>2, <1>3
<1> HIDE DEF a, b
<1>5. ASSUME NEW i \in DOMAIN s
      PROVE  s[i] \in ToSet(a) \cup ToSet(b)
  <2>1. CASE i <= n
    BY <1>1, <1>3, <1>4, <2>1 DEF ToSet
  <2>2. CASE i > n
    <3>1. i - n \in 1 .. Len(s) - n /\ n + (i - n) = i
      BY <1>1, <2>2
    <3> QED
      BY <1>3, <1>4, <3>1 DEF ToSet
  <2> QED
    BY <1>1, <2>1, <2>2
<1>6. ToSet(s) \subseteq ToSet(a) \cup ToSet(b)
  BY <1>5 DEF ToSet
<1> QED
  BY <1>2, <1>6 DEF a, b

-----------------------------------------------------------------------------
(* Lists that repeat nothing *)

\* SortedBy lists no element twice.
LEMMA SortedByRepeatsNothing ==
  ASSUME NEW S, IsFiniteSet(S), NEW key, \A x \in S : key[x] \in Nat,
         \A x, y \in S : x # y => key[x] # key[y]
  PROVE  IsInjective(SortedBy(S, key))
<1> DEFINE n == Cardinality(S)
           at(k) == CHOOSE x \in S : Place(x, S, key) = k
<1>1. n \in Nat
  BY FS_CardinalityType
<1>2. \A k \in 1 .. n : at(k) \in S /\ Place(at(k), S, key) = k
  BY EveryPlaceIsTaken
<1>3. SortedBy(S, key) = [k \in 1 .. n |-> at(k)]
  BY DEF SortedBy
<1> HIDE DEF at, n
<1>4. DOMAIN SortedBy(S, key) = 1 .. n /\ \A k \in 1 .. n : SortedBy(S, key)[k] = at(k)
  BY <1>3
<1> QED
  BY <1>2, <1>4 DEF IsInjective

\* Without repeats nothing that the list did not repeat.
LEMMA WithoutRepeatsNothing ==
  ASSUME NEW T, NEW s \in Seq(T), NEW S, IsInjective(s)
  PROVE  IsInjective(Without(s, S))
<1> DEFINE kept  == Kept(s, S)
           key   == [i \in kept |-> i]
           order == SortedBy(kept, key)
           n     == Cardinality(kept)
<1>1. kept \in SUBSET (1 .. Len(s)) /\ Len(s) \in Nat
  BY DEF Kept
<1>2. IsFiniteSet(kept)
  <2>1. IsFiniteSet(1 .. Len(s))
    BY <1>1, FS_Interval
  <2> HIDE DEF kept
  <2> QED
    BY <1>1, <2>1, FS_Subset
<1>3. \A i \in kept : key[i] \in Nat
  BY <1>1
<1>4. \A i, j \in kept : i # j => key[i] # key[j]
  OBVIOUS
<1> HIDE DEF key
<1>5. order \in Seq(kept) /\ Len(order) = n /\ IsInjective(order)
  BY <1>2, <1>3, <1>4, SortedByListsTheSet, SortedByRepeatsNothing
<1>6. n \in Nat
  BY <1>2, FS_CardinalityType
<1> HIDE DEF order, n
<1>7. Without(s, S) = [k \in 1 .. n |-> s[order[k]]]
  BY DEF Without, order, n, key
<1>8. DOMAIN order = 1 .. n /\ \A k \in 1 .. n : order[k] \in kept
  BY <1>5, <1>6
<1>9. \A k \in 1 .. n : order[k] \in DOMAIN s
  BY <1>1, <1>8
<1> HIDE DEF kept
<1>10. \A j, k \in 1 .. n : s[order[j]] = s[order[k]] => j = k
  BY <1>5, <1>8, <1>9 DEF IsInjective
<1> QED
  BY <1>7, <1>10 DEF IsInjective

\* What appending, dropping the head and joining two lists repeat.
LEMMA ListsRepeatNothing ==
  ASSUME NEW T, NEW s \in Seq(T), IsInjective(s)
  PROVE  /\ IsInjective(<<>>)
         /\ \A x \in T \ ToSet(s) : IsInjective(Append(s, x))
         /\ s # <<>> => IsInjective(Tail(s)) /\ Head(s) \notin ToSet(Tail(s))
         /\ \A t \in Seq(T) : IsInjective(t) /\ ToSet(s) \cap ToSet(t) = {} => IsInjective(s \o t)
<1>1. Len(s) \in Nat /\ DOMAIN s = 1 .. Len(s)
  OBVIOUS
<1>2. \A i, j \in 1 .. Len(s) : s[i] = s[j] => i = j
  BY <1>1 DEF IsInjective
<1>3. \A i \in 1 .. Len(s) : s[i] \in ToSet(s)
  BY <1>1 DEF ToSet
<1>4. ASSUME NEW x \in T \ ToSet(s)
      PROVE  IsInjective(Append(s, x))
  <2>1. /\ DOMAIN Append(s, x) = 1 .. Len(s) + 1
        /\ Append(s, x)[Len(s) + 1] = x
        /\ \A i \in 1 .. Len(s) : Append(s, x)[i] = s[i]
    BY <1>1, <1>4, AppendProperties
  <2> SUFFICES ASSUME NEW i \in 1 .. Len(s) + 1, NEW j \in 1 .. Len(s) + 1,
                      Append(s, x)[i] = Append(s, x)[j]
               PROVE  i = j
    BY <2>1 DEF IsInjective
  <2> QED
    BY <1>1, <1>2, <1>3, <2>1
<1>5. ASSUME s # <<>>
      PROVE  IsInjective(Tail(s)) /\ Head(s) \notin ToSet(Tail(s))
  <2>1. /\ Len(s) > 0 /\ Head(s) = s[1] /\ DOMAIN Tail(s) = 1 .. Len(s) - 1
        /\ \A i \in 1 .. Len(s) - 1 : Tail(s)[i] = s[i + 1]
    BY <1>1, <1>5
  <2>2. \A i \in 1 .. Len(s) - 1 : i + 1 \in 1 .. Len(s) /\ i + 1 # 1
    BY <1>1, <2>1
  <2>3. IsInjective(Tail(s))
    <3>1. \A i, j \in 1 .. Len(s) - 1 : Tail(s)[i] = Tail(s)[j] => i + 1 = j + 1
      BY <1>2, <2>1, <2>2
    <3>2. \A i, j \in 1 .. Len(s) - 1 : Tail(s)[i] = Tail(s)[j] => i = j
      BY <1>1, <3>1
    <3> QED
      BY <2>1, <3>2 DEF IsInjective
  <2>4. \A i \in 1 .. Len(s) - 1 : Tail(s)[i] # s[1]
    BY <1>1, <1>2, <2>1, <2>2
  <2> QED
    BY <2>1, <2>3, <2>4 DEF ToSet
<1>6. ASSUME NEW t \in Seq(T), IsInjective(t), ToSet(s) \cap ToSet(t) = {}
      PROVE  IsInjective(s \o t)
  <2>1. /\ Len(t) \in Nat /\ DOMAIN t = 1 .. Len(t) /\ DOMAIN (s \o t) = 1 .. Len(s) + Len(t)
        /\ \A i \in 1 .. Len(s) + Len(t) :
             (s \o t)[i] = IF i <= Len(s) THEN s[i] ELSE t[i - Len(s)]
    BY <1>1
  <2>2. /\ \A i, j \in 1 .. Len(t) : t[i] = t[j] => i = j
        /\ \A i \in 1 .. Len(s), j \in 1 .. Len(t) : s[i] # t[j]
    <3>1. \A i, j \in 1 .. Len(t) : t[i] = t[j] => i = j
      BY <1>6, <2>1 DEF IsInjective
    <3>2. \A j \in 1 .. Len(t) : t[j] \in ToSet(t)
      BY <2>1 DEF ToSet
    <3>3. \A i \in 1 .. Len(s), j \in 1 .. Len(t) : s[i] # t[j]
      BY <1>3, <1>6, <3>2
    <3> QED
      BY <3>1, <3>3
  <2> SUFFICES ASSUME NEW i \in 1 .. Len(s) + Len(t), NEW j \in 1 .. Len(s) + Len(t),
                      (s \o t)[i] = (s \o t)[j]
               PROVE  i = j
    BY <2>1 DEF IsInjective
  <2>3. CASE i <= Len(s) /\ j <= Len(s)
    BY <1>1, <1>2, <2>1, <2>3
  <2>4. CASE ~(i <= Len(s)) /\ ~(j <= Len(s))
    <3>1. i - Len(s) \in 1 .. Len(t) /\ j - Len(s) \in 1 .. Len(t)
      BY <1>1, <2>1, <2>4
    <3>2. i - Len(s) = j - Len(s)
      BY <2>1, <2>2, <2>4, <3>1
    <3> QED
      BY <1>1, <2>1, <3>2
  <2>5. CASE i <= Len(s) /\ ~(j <= Len(s))
    <3>1. i \in 1 .. Len(s) /\ j - Len(s) \in 1 .. Len(t)
      BY <1>1, <2>1, <2>5
    <3> QED
      BY <2>1, <2>2, <2>5, <3>1
  <2>6. CASE ~(i <= Len(s)) /\ j <= Len(s)
    <3>1. j \in 1 .. Len(s) /\ i - Len(s) \in 1 .. Len(t)
      BY <1>1, <2>1, <2>6
    <3> QED
      BY <2>1, <2>2, <2>6, <3>1
  <2> QED
    BY <2>3, <2>4, <2>5, <2>6
<1>7. IsInjective(<<>>)
  BY DEF IsInjective
<1> QED
  BY <1>4, <1>5, <1>6, <1>7

\* The two parts of a list without repeats share nothing.
LEMMA SplitRepeatsNothing ==
  ASSUME NEW T, NEW s \in Seq(T), IsInjective(s), NEW n \in Nat, n <= Len(s)
  PROVE  /\ IsInjective(SubSeq(s, 1, n)) /\ IsInjective(SubSeq(s, n + 1, Len(s)))
         /\ ToSet(SubSeq(s, 1, n)) \cap ToSet(SubSeq(s, n + 1, Len(s))) = {}
<1> DEFINE a == SubSeq(s, 1, n)
           b == SubSeq(s, n + 1, Len(s))
<1>1. Len(s) \in Nat /\ DOMAIN s = 1 .. Len(s)
  OBVIOUS
<1>2. /\ DOMAIN a = 1 .. n /\ \A i \in 1 .. n : a[i] = s[i]
      /\ DOMAIN b = 1 .. Len(s) - n /\ \A i \in 1 .. Len(s) - n : b[i] = s[n + i]
  BY <1>1
<1>3. \A i, j \in 1 .. Len(s) : s[i] = s[j] => i = j
  BY <1>1 DEF IsInjective
<1>4. /\ \A i \in 1 .. n : i \in 1 .. Len(s)
      /\ \A i \in 1 .. Len(s) - n : n + i \in 1 .. Len(s) /\ ~(n + i <= n)
  BY <1>1
<1> HIDE DEF a, b
<1>5. IsInjective(a)
  BY <1>2, <1>3, <1>4 DEF IsInjective
<1>6. IsInjective(b)
  <2>1. \A i, j \in 1 .. Len(s) - n : b[i] = b[j] => n + i = n + j
    BY <1>2, <1>3, <1>4
  <2>2. \A i, j \in 1 .. Len(s) - n : b[i] = b[j] => i = j
    BY <1>1, <2>1
  <2> QED
    BY <1>2, <2>2 DEF IsInjective
<1>7. \A i \in 1 .. n, j \in 1 .. Len(s) - n : a[i] # b[j]
  <2> TAKE i \in 1 .. n, j \in 1 .. Len(s) - n
  <2>1. n + j # i
    BY <1>1
  <2> QED
    BY <1>2, <1>3, <1>4, <2>1
<1>8. ToSet(a) \cap ToSet(b) = {}
  BY <1>2, <1>7 DEF ToSet
<1> QED
  BY <1>5, <1>6, <1>8 DEF a, b

-----------------------------------------------------------------------------
(* Lists that ascend *)

\* SortedBy follows the keys.
LEMMA SortedByFollowsKeys ==
  ASSUME NEW S, IsFiniteSet(S), NEW key, \A x \in S : key[x] \in Nat,
         \A x, y \in S : x # y => key[x] # key[y]
  PROVE  \A i, j \in DOMAIN SortedBy(S, key) :
           i < j => key[SortedBy(S, key)[i]] < key[SortedBy(S, key)[j]]
<1> DEFINE n == Cardinality(S)
           at(k) == CHOOSE x \in S : Place(x, S, key) = k
<1>1. n \in Nat
  BY FS_CardinalityType
<1>2. \A k \in 1 .. n : at(k) \in S /\ Place(at(k), S, key) = k
  BY EveryPlaceIsTaken
<1>3. SortedBy(S, key) = [k \in 1 .. n |-> at(k)]
  BY DEF SortedBy
<1> HIDE DEF at, n
<1>4. DOMAIN SortedBy(S, key) = 1 .. n /\ \A k \in 1 .. n : SortedBy(S, key)[k] = at(k)
  BY <1>3
<1> SUFFICES ASSUME NEW i \in 1 .. n, NEW j \in 1 .. n, i < j
             PROVE  key[at(i)] < key[at(j)]
  BY <1>4
<1>5. /\ at(i) \in S /\ at(j) \in S
      /\ Place(at(i), S, key) = i /\ Place(at(j), S, key) = j
  BY <1>2
<1>6. at(i) # at(j)
  BY <1>1, <1>5
<1>7. key[at(i)] \in Nat /\ key[at(j)] \in Nat /\ key[at(i)] # key[at(j)]
  BY <1>5, <1>6
<1>8. ASSUME key[at(j)] < key[at(i)]
      PROVE  FALSE
  <2>1. Place(at(j), S, key) < Place(at(i), S, key)
    BY <1>5, <1>8, PlacesFollowKeys
  <2> QED
    BY <1>1, <1>5, <2>1
<1> QED
  BY <1>7, <1>8

\* Without keeps a list ascending.
LEMMA WithoutAscends ==
  ASSUME NEW T \in SUBSET Nat, NEW s \in Seq(T), NEW S, Ascending(s)
  PROVE  Ascending(Without(s, S))
<1> DEFINE kept  == Kept(s, S)
           key   == [i \in kept |-> i]
           order == SortedBy(kept, key)
           n     == Cardinality(kept)
<1>1. kept \in SUBSET (1 .. Len(s)) /\ Len(s) \in Nat
  BY DEF Kept
<1>2. IsFiniteSet(kept)
  <2>1. IsFiniteSet(1 .. Len(s))
    BY <1>1, FS_Interval
  <2> HIDE DEF kept
  <2> QED
    BY <1>1, <2>1, FS_Subset
<1>3. \A i \in kept : key[i] \in Nat
  BY <1>1
<1>4. \A i, j \in kept : i # j => key[i] # key[j]
  OBVIOUS
<1>5. \A i \in kept : key[i] = i
  OBVIOUS
<1> HIDE DEF key
<1>6. /\ order \in Seq(kept) /\ Len(order) = n
      /\ \A i, j \in DOMAIN order : i < j => key[order[i]] < key[order[j]]
  BY <1>2, <1>3, <1>4, SortedByListsTheSet, SortedByFollowsKeys
<1>7. n \in Nat
  BY <1>2, FS_CardinalityType
<1> HIDE DEF order, n
<1>8. Without(s, S) = [k \in 1 .. n |-> s[order[k]]]
  BY DEF Without, order, n, key
<1>9. DOMAIN order = 1 .. n /\ \A k \in 1 .. n : order[k] \in kept
  BY <1>6, <1>7
<1>10. \A k \in 1 .. n : order[k] \in DOMAIN s
  BY <1>1, <1>9
<1>11. \A j, k \in 1 .. n : j < k => order[j] < order[k]
  BY <1>5, <1>6, <1>9
<1> HIDE DEF kept
<1>12. \A j, k \in 1 .. n : j < k => s[order[j]] < s[order[k]]
  BY <1>10, <1>11 DEF Ascending
<1> QED
  BY <1>8, <1>12 DEF Ascending

\* What appending, dropping the head and joining two lists do to the order.
LEMMA ListsAscend ==
  ASSUME NEW T \in SUBSET Nat, NEW s \in Seq(T), Ascending(s)
  PROVE  /\ Ascending(<<>>)
         /\ \A x \in T : (\A y \in ToSet(s) : y < x) => Ascending(Append(s, x))
         /\ s # <<>> => Ascending(Tail(s)) /\ \A y \in ToSet(Tail(s)) : Head(s) < y
         /\ \A t \in Seq(T) :
              Ascending(t) /\ (\A x \in ToSet(s) : \A y \in ToSet(t) : x < y) => Ascending(s \o t)
<1>1. Len(s) \in Nat /\ DOMAIN s = 1 .. Len(s)
  OBVIOUS
<1>2. \A i, j \in 1 .. Len(s) : i < j => s[i] < s[j]
  BY <1>1 DEF Ascending
<1>3. \A i \in 1 .. Len(s) : s[i] \in ToSet(s)
  BY <1>1 DEF ToSet
<1>4. ASSUME NEW x \in T, \A y \in ToSet(s) : y < x
      PROVE  Ascending(Append(s, x))
  <2>1. /\ DOMAIN Append(s, x) = 1 .. Len(s) + 1
        /\ Append(s, x)[Len(s) + 1] = x
        /\ \A i \in 1 .. Len(s) : Append(s, x)[i] = s[i]
    BY <1>1, <1>4, AppendProperties
  <2> SUFFICES ASSUME NEW i \in 1 .. Len(s) + 1, NEW j \in 1 .. Len(s) + 1, i < j
               PROVE  Append(s, x)[i] < Append(s, x)[j]
    BY <2>1 DEF Ascending
  <2>2. i \in 1 .. Len(s) /\ (j = Len(s) + 1 \/ j \in 1 .. Len(s))
    BY <1>1
  <2> QED
    BY <1>2, <1>3, <1>4, <2>1, <2>2
<1>5. ASSUME s # <<>>
      PROVE  Ascending(Tail(s)) /\ \A y \in ToSet(Tail(s)) : Head(s) < y
  <2>1. /\ Len(s) > 0 /\ Head(s) = s[1] /\ DOMAIN Tail(s) = 1 .. Len(s) - 1
        /\ \A i \in 1 .. Len(s) - 1 : Tail(s)[i] = s[i + 1]
    BY <1>1, <1>5
  <2>2. \A i \in 1 .. Len(s) - 1 : i + 1 \in 1 .. Len(s) /\ 1 < i + 1
    BY <1>1, <2>1
  <2>3. \A i, j \in 1 .. Len(s) - 1 : i < j => i + 1 < j + 1
    BY <1>1
  <2>4. Ascending(Tail(s))
    BY <1>2, <2>1, <2>2, <2>3 DEF Ascending
  <2>5. 1 \in 1 .. Len(s)
    BY <1>1, <2>1
  <2>6. \A i \in 1 .. Len(s) - 1 : s[1] < Tail(s)[i]
    BY <1>2, <2>1, <2>2, <2>5
  <2> QED
    BY <2>1, <2>4, <2>6 DEF ToSet
<1>6. ASSUME NEW t \in Seq(T), Ascending(t), \A x \in ToSet(s) : \A y \in ToSet(t) : x < y
      PROVE  Ascending(s \o t)
  <2>1. /\ Len(t) \in Nat /\ DOMAIN t = 1 .. Len(t) /\ DOMAIN (s \o t) = 1 .. Len(s) + Len(t)
        /\ \A i \in 1 .. Len(s) + Len(t) :
             (s \o t)[i] = IF i <= Len(s) THEN s[i] ELSE t[i - Len(s)]
    BY <1>1
  <2>2. /\ \A i, j \in 1 .. Len(t) : i < j => t[i] < t[j]
        /\ \A i \in 1 .. Len(s), j \in 1 .. Len(t) : s[i] < t[j]
    <3>1. \A i, j \in 1 .. Len(t) : i < j => t[i] < t[j]
      BY <1>6, <2>1 DEF Ascending
    <3>2. \A j \in 1 .. Len(t) : t[j] \in ToSet(t)
      BY <2>1 DEF ToSet
    <3> QED
      BY <1>3, <1>6, <3>1, <3>2
  <2> SUFFICES ASSUME NEW i \in 1 .. Len(s) + Len(t), NEW j \in 1 .. Len(s) + Len(t), i < j
               PROVE  (s \o t)[i] < (s \o t)[j]
    BY <2>1 DEF Ascending
  <2>3. CASE j <= Len(s)
    <3>1. i <= Len(s) /\ i \in 1 .. Len(s) /\ j \in 1 .. Len(s)
      BY <1>1, <2>1, <2>3
    <3> QED
      BY <1>2, <2>1, <2>3, <3>1
  <2>4. CASE ~(i <= Len(s))
    <3>1. /\ ~(j <= Len(s)) /\ i - Len(s) \in 1 .. Len(t) /\ j - Len(s) \in 1 .. Len(t)
          /\ i - Len(s) < j - Len(s)
      BY <1>1, <2>1, <2>4
    <3> QED
      BY <2>1, <2>2, <2>4, <3>1
  <2>5. CASE i <= Len(s) /\ ~(j <= Len(s))
    <3>1. i \in 1 .. Len(s) /\ j - Len(s) \in 1 .. Len(t)
      BY <1>1, <2>1, <2>5
    <3> QED
      BY <2>1, <2>2, <2>5, <3>1
  <2> QED
    BY <2>3, <2>4, <2>5
<1>7. Ascending(<<>>)
  BY DEF Ascending
<1> QED
  BY <1>4, <1>5, <1>6, <1>7

\* Of the two parts of an ascending list, the first is below the second.
LEMMA SplitAscends ==
  ASSUME NEW T \in SUBSET Nat, NEW s \in Seq(T), Ascending(s), NEW n \in Nat, n <= Len(s)
  PROVE  /\ Ascending(SubSeq(s, 1, n)) /\ Ascending(SubSeq(s, n + 1, Len(s)))
         /\ \A x \in ToSet(SubSeq(s, 1, n)) : \A y \in ToSet(SubSeq(s, n + 1, Len(s))) : x < y
<1> DEFINE a == SubSeq(s, 1, n)
           b == SubSeq(s, n + 1, Len(s))
<1>1. Len(s) \in Nat /\ DOMAIN s = 1 .. Len(s)
  OBVIOUS
<1>2. /\ DOMAIN a = 1 .. n /\ \A i \in 1 .. n : a[i] = s[i]
      /\ DOMAIN b = 1 .. Len(s) - n /\ \A i \in 1 .. Len(s) - n : b[i] = s[n + i]
  BY <1>1
<1>3. \A i, j \in 1 .. Len(s) : i < j => s[i] < s[j]
  BY <1>1 DEF Ascending
<1>4. /\ \A i \in 1 .. n : i \in 1 .. Len(s)
      /\ \A i \in 1 .. Len(s) - n : n + i \in 1 .. Len(s)
      /\ \A i, j \in 1 .. Len(s) - n : i < j => n + i < n + j
      /\ \A i \in 1 .. n, j \in 1 .. Len(s) - n : i < n + j
  BY <1>1
<1> HIDE DEF a, b
<1>5. Ascending(a)
  BY <1>2, <1>3, <1>4 DEF Ascending
<1>6. Ascending(b)
  BY <1>2, <1>3, <1>4 DEF Ascending
<1>7. \A i \in 1 .. n, j \in 1 .. Len(s) - n : a[i] < b[j]
  BY <1>2, <1>3, <1>4
<1>8. \A x \in ToSet(a) : \A y \in ToSet(b) : x < y
  BY <1>2, <1>7 DEF ToSet
<1> QED
  BY <1>5, <1>6, <1>8 DEF a, b

\* The head of an ascending list is its least.
LEMMA HeadIsLeast ==
  ASSUME NEW T \in SUBSET Nat, NEW s \in Seq(T), Ascending(s), s # <<>>
  PROVE  \A x \in ToSet(s) : Head(s) <= x
<1>1. /\ Head(s) \in Nat /\ ToSet(s) = {Head(s)} \cup ToSet(Tail(s))
      /\ \A y \in ToSet(Tail(s)) : Head(s) < y
  BY HeadAndTail, ListsAscend
<1>2. ToSet(s) \subseteq Nat
  BY ListsOf
<1> QED
  BY <1>1, <1>2

\* Without keeps a list that has nothing to drop.
LEMMA WithoutKeepsTheRest ==
  ASSUME NEW T, NEW s \in Seq(T), NEW S, ToSet(s) \cap S = {}
  PROVE  Without(s, S) = s
<1> DEFINE n     == Len(s)
           key   == [i \in 1 .. n |-> i]
           order == SortedBy(1 .. n, key)
<1>1. n \in Nat /\ DOMAIN s = 1 .. n
  OBVIOUS
<1>2. Kept(s, S) = 1 .. n
  BY <1>1 DEF Kept, ToSet
<1>3. IsFiniteSet(1 .. n) /\ Cardinality(1 .. n) = n
  <2> HIDE DEF n
  <2> QED
    BY <1>1, FS_Interval
<1>4. \A k \in 1 .. n : Place(k, 1 .. n, key) = k
  <2> TAKE k \in 1 .. n
  <2>1. {y \in 1 .. n : key[y] <= key[k]} = 1 .. k
    BY <1>1
  <2>2. Cardinality(1 .. k) = k
    BY <1>1, FS_Interval
  <2> QED
    BY <2>1, <2>2 DEF Place
<1> HIDE DEF n, key
<1>5. \A k \in 1 .. n : (CHOOSE x \in 1 .. n : Place(x, 1 .. n, key) = k) = k
  BY <1>4
<1>6. order = [k \in 1 .. n |-> k]
  BY <1>3, <1>5, Zenon DEF SortedBy
<1>7. Without(s, S) = [k \in 1 .. n |-> s[order[k]]]
  BY <1>2, <1>3, Zenon DEF Without, key
<1> HIDE DEF order
<1>8. Without(s, S) = [k \in 1 .. n |-> s[k]]
  BY <1>6, <1>7
<1> QED
  BY <1>1, <1>8

-----------------------------------------------------------------------------
(* Induction and recursion on the naturals.  The library's theorems take an *)
(* operator for the induction hypothesis; these take a set, and rest on the *)
(* pigeonhole principle.                                                    *)

\* A set of naturals that is not empty has a least element.  Otherwise, on
\* 0 .. n for one of its elements n, moving what is not below the whole set
\* down by one would be an injection into 0 .. n - 1.
LEMMA LeastExists ==
  ASSUME NEW S \in SUBSET Nat, S # {}
  PROVE  \E n \in S : \A m \in S : n <= m
<1> SUFFICES ASSUME \A n \in S : \E m \in S : m < n
             PROVE  FALSE
  OBVIOUS
<1>1. PICK top \in S : TRUE
  OBVIOUS
<1>2. top \in Nat /\ top \in Int /\ top - 1 \in Int /\ 0 \in Int
  BY <1>1
<1> DEFINE above == {n \in 0 .. top : \E m \in S : m <= n}
           g     == [n \in 0 .. top |-> IF n \in above THEN n - 1 ELSE n]
<1>3. \A n \in above : n > 0 /\ n - 1 \in above
  BY <1>2
<1>4. g \in [0 .. top -> 0 .. top - 1]
  <2>1. top \in above
    BY <1>1, <1>2
  <2>2. ASSUME NEW n \in 0 .. top
        PROVE  g[n] \in 0 .. top - 1
    BY <1>2, <1>3, <2>1
  <2> QED
    BY <2>2
<1>5. \A i, j \in 0 .. top : i # j => g[i] # g[j]
  BY <1>2, <1>3
<1>6. /\ IsFiniteSet(0 .. top) /\ Cardinality(0 .. top) = top + 1
      /\ IsFiniteSet(0 .. top - 1) /\ Cardinality(0 .. top - 1) = top
  BY <1>2, FS_Interval
<1>7. Cardinality(0 .. top - 1) < Cardinality(0 .. top)
  BY <1>2, <1>6
<1> HIDE DEF g
<1> QED
  BY <1>4, <1>5, <1>6, <1>7, FS_PigeonHole

\* What holds of 0, and of n + 1 whenever it holds of n, holds of all naturals.
THEOREM Induction ==
  ASSUME NEW S \in SUBSET Nat, 0 \in S, \A n \in S : n + 1 \in S
  PROVE  S = Nat
<1> SUFFICES ASSUME Nat \ S # {}
             PROVE  FALSE
  OBVIOUS
<1>1. Nat \ S \in SUBSET Nat
  OBVIOUS
<1>2. PICK n \in Nat \ S : \A m \in Nat \ S : n <= m
  BY <1>1, LeastExists
<1>3. n # 0 /\ n - 1 \in Nat
  BY <1>2
<1>4. n - 1 \in S
  BY <1>2, <1>3
<1>5. (n - 1) + 1 \in S
  BY <1>4
<1> QED
  BY <1>2, <1>5

\* What holds at 0, and passes from each place to the next, holds at all places.
LEMMA EveryPlace ==
  ASSUME NEW X, NEW m \in Nat, NEW f, f[0] \in X,
         \A n \in 1 .. m : f[n - 1] \in X => f[n] \in X
  PROVE  \A n \in 0 .. m : f[n] \in X
<1> DEFINE S == {n \in Nat : n <= m => f[n] \in X}
<1>1. 0 \in S
  OBVIOUS
<1>2. ASSUME NEW n \in S
      PROVE  n + 1 \in S
  <2>1. n \in Nat /\ (n <= m => f[n] \in X)
    OBVIOUS
  <2>2. ASSUME n + 1 <= m
        PROVE  f[n + 1] \in X
    <3>1. n + 1 \in 1 .. m /\ (n + 1) - 1 = n
      BY <2>1, <2>2
    <3>2. f[n] \in X
      BY <2>1, <2>2
    <3> QED
      BY <3>1, <3>2
  <2> QED
    BY <2>1, <2>2
<1>3. S = Nat
  <2> HIDE DEF S
  <2>1. S \in SUBSET Nat
    BY DEF S
  <2> QED
    BY <1>1, <1>2, <2>1, Induction
<1> QED
  BY <1>3

\* f is what `step` makes of x, one place after another.
Recurses(f, x, m, step) == f[0] = x /\ \A n \in 1 .. m : f[n] = step[<<f[n - 1], n>>]

\* A recursion over 0 .. m has a solution.
THEOREM RecursionExists ==
  ASSUME NEW X, NEW x \in X, NEW m \in Nat,
         NEW step \in [X \X (1 .. m) -> X]
  PROVE  \E f \in [0 .. m -> X] : Recurses(f, x, m, step)
<1> DEFINE Solves(f, k) == \A n \in 0 .. k : f[n] = IF n = 0 THEN x ELSE step[<<f[n - 1], n>>]
           S == {k \in Nat : k <= m => \E f \in [0 .. k -> X] : Solves(f, k)}
<1>1. 0 \in S
  <2>1. [n \in 0 .. 0 |-> x] \in [0 .. 0 -> X] /\ Solves([n \in 0 .. 0 |-> x], 0)
    OBVIOUS
  <2> QED
    BY <2>1
<1>2. ASSUME NEW k \in S
      PROVE  k + 1 \in S
  <2>1. k \in Nat
    OBVIOUS
  <2>2. ASSUME k + 1 <= m
        PROVE  \E f \in [0 .. k + 1 -> X] : Solves(f, k + 1)
    <3>1. PICK f \in [0 .. k -> X] : Solves(f, k)
      BY <2>1, <2>2
    <3> DEFINE g == [n \in 0 .. k + 1 |-> IF n = k + 1 THEN step[<<f[k], k + 1>>] ELSE f[n]]
    <3>2. step[<<f[k], k + 1>>] \in X
      BY <2>1, <2>2, <3>1
    <3>3. g \in [0 .. k + 1 -> X]
      BY <2>1, <3>1, <3>2
    <3>4. \A n \in 0 .. k : g[n] = f[n]
      BY <2>1
    <3>5. g[k + 1] = step[<<f[k], k + 1>>]
      BY <2>1
    <3>6. ASSUME NEW n \in 0 .. k + 1
          PROVE  g[n] = IF n = 0 THEN x ELSE step[<<g[n - 1], n>>]
      <4> HIDE DEF g
      <4>1. CASE n = k + 1
        <5>1. n # 0 /\ n - 1 = k /\ k \in 0 .. k
          BY <2>1, <4>1
        <5> QED
          BY <3>4, <3>5, <4>1, <5>1
      <4>2. CASE n # k + 1
        <5>1. n \in 0 .. k
          BY <2>1, <4>2
        <5>2. CASE n = 0
          BY <3>1, <3>4, <5>1, <5>2
        <5>3. CASE n # 0
          <6>1. n - 1 \in 0 .. k
            BY <2>1, <5>1, <5>3
          <6> QED
            BY <3>1, <3>4, <5>1, <5>3, <6>1
        <5> QED
          BY <5>2, <5>3
      <4> QED
        BY <4>1, <4>2
    <3> HIDE DEF g
    <3> QED
      BY <3>3, <3>6
  <2> HIDE DEF Solves
  <2> QED
    BY <2>1, <2>2
<1>3. S = Nat
  <2>1. S \in SUBSET Nat
    OBVIOUS
  <2> HIDE DEF S
  <2> QED
    BY <1>1, <1>2, <2>1, Induction
<1>4. PICK f \in [0 .. m -> X] : Solves(f, m)
  <2> HIDE DEF Solves
  <2> QED
    BY <1>3
<1>5. \A n \in 1 .. m : n \in 0 .. m /\ n # 0
  OBVIOUS
<1>6. 0 \in 0 .. m
  OBVIOUS
<1>7. Recurses(f, x, m, step)
  BY <1>4, <1>5, <1>6, Zenon DEF Recurses
<1> QED
  BY <1>7

=============================================================================
