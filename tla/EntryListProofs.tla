-------------------------- MODULE EntryListProofs --------------------------
(***************************************************************************)
(* What inserting and removing a name does to how often each name is in    *)
(* the list of each directory.                                             *)
(***************************************************************************)
EXTENDS EntryList, FiniteSetTheorems, SequenceTheorems, TLAPS

\* Where a name is, and how many of some places come up to place i.
Occurs(list, name) == {i \in DOMAIN list : list[i] = name}
Rank(places, i) == Cardinality({j \in places : j <= i})

-----------------------------------------------------------------------------
\* Nth and Rank are each other's inverse.

LEMMA RankBounds ==
  ASSUME NEW S, S \subseteq Nat, IsFiniteSet(S), NEW i \in S
  PROVE  Rank(S, i) \in 1 .. Cardinality(S)
  <1> DEFINE upto == {j \in S : j <= i}
  <1>1. upto \in SUBSET S /\ i \in upto
    OBVIOUS
  <1> HIDE DEF upto
  <1>2. IsFiniteSet(upto) /\ Cardinality(upto) <= Cardinality(S)
    BY <1>1, FS_Subset
  <1>3. Cardinality(upto) \in Nat /\ Cardinality(S) \in Nat
    BY <1>2, FS_CardinalityType
  <1>4. Cardinality(upto) # 0
    BY <1>1, <1>2, FS_EmptySet
  <1>5. Cardinality(upto) \in 1 .. Cardinality(S)
    BY <1>2, <1>3, <1>4
  <1> QED
    BY <1>5 DEF Rank, upto

LEMMA RankDiffers ==
  ASSUME NEW S, S \subseteq Nat, IsFiniteSet(S), NEW i \in S, NEW j \in S, i < j
  PROVE  Rank(S, i) # Rank(S, j)
  <1> DEFINE low == {k \in S : k <= i}
  <1> DEFINE high == {k \in S : k <= j}
  <1>1. low \in SUBSET high /\ high \in SUBSET S /\ j \in high /\ j \notin low
    <2>1. i \in Nat /\ j \in Nat
      OBVIOUS
    <2>2. \A k \in S : k <= i => k <= j
      BY <2>1
    <2>3. j \notin low /\ j \in high
      BY <2>1
    <2> QED
      BY <2>2, <2>3
  <1> HIDE DEF low, high
  <1>2. IsFiniteSet(high)
    BY <1>1, FS_Subset
  <1>3. Cardinality(high) = Cardinality(low) => high = low
    BY <1>1, <1>2, FS_Subset
  <1>4. Cardinality(high) # Cardinality(low)
    BY <1>1, <1>3
  <1> QED
    BY <1>4 DEF Rank, low, high

LEMMA Ranks ==
  ASSUME NEW S, S \subseteq Nat, IsFiniteSet(S)
  PROVE  /\ \A k \in 1 .. Cardinality(S) : Nth(S, k) \in S /\ Rank(S, Nth(S, k)) = k
         /\ \A i \in S : Rank(S, i) \in 1 .. Cardinality(S) /\ Nth(S, Rank(S, i)) = i
  <1> DEFINE n == Cardinality(S)
  <1>1. n \in Nat
    BY FS_CardinalityType
  <1>2. \A i \in S : Rank(S, i) \in 1 .. n
    BY RankBounds
  <1>3. ASSUME NEW i \in S, NEW j \in S, Rank(S, i) = Rank(S, j) PROVE i = j
    <2>1. ~(i < j) /\ ~(j < i)
      BY <1>3, RankDiffers
    <2> QED
      BY <2>1
  <1> DEFINE rank == [i \in S |-> Rank(S, i)]
  <1>4. rank \in Injection(S, 1 .. n)
    <2>1. rank \in [S -> 1 .. n]
      BY <1>2
    <2>2. \A i, j \in S : rank[i] = rank[j] => i = j
      BY <1>3
    <2> QED
      BY <2>1, <2>2 DEF Injection, IsInjective
  <1>5. IsFiniteSet(1 .. n) /\ Cardinality(1 .. n) = n
    BY <1>1, FS_Interval
  <1>6. rank \in Surjection(S, 1 .. n)
    <2> HIDE DEF rank, n
    <2>1. Cardinality(S) = Cardinality(1 .. n) <=> rank \in Surjection(S, 1 .. n)
      BY <1>4, <1>5, FS_Injection
    <2> QED
      BY <2>1, <1>5 DEF n
  <1>7. ASSUME NEW k \in 1 .. n PROVE Nth(S, k) \in S /\ Rank(S, Nth(S, k)) = k
    <2>1. PICK i \in S : rank[i] = k
      BY <1>6 DEF Surjection
    <2>2. Rank(S, i) = k
      BY <2>1
    <2> QED
      BY <2>2 DEF Nth, Rank
  <1>8. ASSUME NEW i \in S PROVE Nth(S, Rank(S, i)) = i
    <2>1. /\ Nth(S, Rank(S, i)) \in S
          /\ Rank(S, Nth(S, Rank(S, i))) = Rank(S, i)
      BY <1>2, <1>7
    <2> QED
      BY <2>1, <1>3
  <1> QED
    BY <1>2, <1>7, <1>8

-----------------------------------------------------------------------------
\* A list with one more name.

LEMMA OccursFinite ==
  ASSUME NEW S, NEW list \in Seq(S), NEW name
  PROVE  IsFiniteSet(Occurs(list, name)) /\ Occurs(list, name) \subseteq 1 .. Len(list)
  <1>1. Len(list) \in Int /\ Occurs(list, name) \in SUBSET (1 .. Len(list))
    BY DEF Occurs
  <1>2. IsFiniteSet(1 .. Len(list))
    BY <1>1, FS_Interval
  <1> QED
    BY <1>1, <1>2, FS_Subset

LEMMA Appended ==
  ASSUME NEW S, NEW list \in Seq(S), NEW name
  PROVE  /\ Occurs(Append(list, name), name) = Occurs(list, name) \cup {Len(list) + 1}
         /\ Cardinality(Occurs(Append(list, name), name)) = Cardinality(Occurs(list, name)) + 1
         /\ \A other : other # name => Occurs(Append(list, name), other) = Occurs(list, other)
  <1> DEFINE longer == Append(list, name)
  <1>1. /\ Len(list) \in Nat /\ DOMAIN list = 1 .. Len(list)
        /\ DOMAIN longer = 1 .. (Len(list) + 1) /\ longer[Len(list) + 1] = name
        /\ \A i \in 1 .. Len(list) : longer[i] = list[i]
    OBVIOUS
  <1> HIDE DEF longer
  <1>2. Occurs(longer, name) = Occurs(list, name) \cup {Len(list) + 1}
    BY <1>1 DEF Occurs
  <1>3. \A other : other # name => Occurs(longer, other) = Occurs(list, other)
    BY <1>1 DEF Occurs
  <1>4. Len(list) + 1 \notin Occurs(list, name) /\ IsFiniteSet(Occurs(list, name))
    <2>1. Occurs(list, name) \subseteq 1 .. Len(list)
      BY OccursFinite
    <2>2. Len(list) + 1 \notin 1 .. Len(list)
      BY <1>1
    <2> QED
      BY <2>1, <2>2, OccursFinite
  <1>5. Cardinality(Occurs(longer, name)) = Cardinality(Occurs(list, name)) + 1
    BY <1>2, <1>4, FS_AddElement
  <1> QED
    BY <1>2, <1>3, <1>5 DEF longer

-----------------------------------------------------------------------------
\* A list without name: what remove_entry makes of list, name being in it.
Removed(list, name) ==
    RemoveAt(Shifted(list, name), Cardinality(OtherPlaces(list, name)) + 1)

\* It begins with the other names, in their order.
BeginsWithOthers(after, list, name) ==
    \A k \in 1 .. Cardinality(OtherPlaces(list, name)) :
        after[k] = list[Nth(OtherPlaces(list, name), k)]

LEMMA OthersFewer ==
  ASSUME NEW S, NEW list \in Seq(S), NEW name, Occurs(list, name) # {}
  PROVE  /\ OtherPlaces(list, name) \subseteq 1 .. Len(list)
         /\ OtherPlaces(list, name) \subseteq Nat
         /\ IsFiniteSet(OtherPlaces(list, name))
         /\ Cardinality(OtherPlaces(list, name)) \in 0 .. (Len(list) - 1)
  <1> DEFINE others == OtherPlaces(list, name)
  <1>1. Len(list) \in Nat /\ DOMAIN list = 1 .. Len(list)
    OBVIOUS
  <1>2. others \subseteq 1 .. Len(list) /\ others \subseteq Nat
    BY <1>1 DEF OtherPlaces
  <1>3. PICK m \in 1 .. Len(list) : m \notin others
    BY <1>1 DEF OtherPlaces, Occurs
  <1> HIDE DEF others
  <1>4. IsFiniteSet(1 .. Len(list)) /\ Cardinality(1 .. Len(list)) = Len(list)
    BY <1>1, FS_Interval
  <1>5. /\ IsFiniteSet(others) /\ Cardinality(others) <= Len(list)
        /\ Cardinality(others) # Len(list)
    <2>1. others \in SUBSET (1 .. Len(list)) /\ others # 1 .. Len(list)
      BY <1>2, <1>3
    <2>2. QED
      BY <1>4, <2>1, FS_Subset
  <1>6. Cardinality(others) \in Nat
    BY <1>5, FS_CardinalityType
  <1>7. Cardinality(others) \in 0 .. (Len(list) - 1)
    BY <1>1, <1>5, <1>6
  <1> QED
    BY <1>2, <1>5, <1>7 DEF others

LEMMA RemovedIs ==
  ASSUME NEW S, NEW list \in Seq(S), NEW name, Occurs(list, name) # {}
  PROVE  /\ Removed(list, name) \in Seq(S \cup {MovedFrom})
         /\ Len(Removed(list, name)) = Len(list) - 1
         /\ BeginsWithOthers(Removed(list, name), list, name)
  <1> DEFINE others == OtherPlaces(list, name)
             n == Cardinality(others)
             T == S \cup {MovedFrom}
             moved == Shifted(list, name)
  <1>1. Len(list) \in Nat /\ DOMAIN list = 1 .. Len(list)
    OBVIOUS
  <1>2. /\ others \subseteq 1 .. Len(list) /\ others \subseteq Nat
        /\ IsFiniteSet(others) /\ n \in 0 .. (Len(list) - 1)
    BY OthersFewer
  <1>3. \A k \in 1 .. n : Nth(others, k) \in 1 .. Len(list)
    BY <1>2, Ranks
  <1> HIDE DEF others, n
  <1>4. moved = [k \in 1 .. Len(list) |->
                   IF k <= n THEN list[Nth(others, k)]
                   ELSE IF list[k] = name THEN name ELSE MovedFrom]
    BY <1>1 DEF Shifted, others, n
  <1> HIDE DEF moved
  <1>5. name \in S
    BY <1>1 DEF Occurs
  <1>6. \A k \in 1 .. Len(list) : moved[k] \in T /\ (k <= n => moved[k] = list[Nth(others, k)])
    <2> SUFFICES ASSUME NEW k \in 1 .. Len(list)
                 PROVE  moved[k] \in T /\ (k <= n => moved[k] = list[Nth(others, k)])
      OBVIOUS
    <2>1. CASE k <= n
      <3>1. k \in 1 .. n
        BY <2>1, <1>1, <1>2
      <3>2. Nth(others, k) \in 1 .. Len(list)
        BY <3>1, <1>3
      <3>3. list[Nth(others, k)] \in S
        BY <3>2
      <3> QED
        BY <2>1, <3>3, <1>4
    <2>2. CASE ~(k <= n)
      BY <2>2, <1>4, <1>5
    <2> QED
      BY <2>1, <2>2
  <1> HIDE DEF T
  <1>7. moved \in Seq(T) /\ Len(moved) = Len(list)
    BY <1>1, <1>4, <1>6
  <1>8. Removed(list, name) = SubSeq(moved, 1, n) \o SubSeq(moved, n + 2, Len(list))
    <2>1. (n + 1) - 1 = n /\ (n + 1) + 1 = n + 2
      BY <1>2
    <2>2. Removed(list, name)
            = SubSeq(moved, 1, (n + 1) - 1) \o SubSeq(moved, (n + 1) + 1, Len(moved))
      BY DEF Removed, RemoveAt, moved, n, others
    <2> QED
      BY <1>7, <2>1, <2>2
  <1>15. n + 2 <= Len(list) \/ n = Len(list) - 1
    <2>1. n \in Int /\ Len(list) \in Int /\ n <= Len(list) - 1
      BY <1>1, <1>2
    <2> QED
      BY <2>1
  <1> DEFINE front == SubSeq(moved, 1, n)
             back == SubSeq(moved, n + 2, Len(list))
  <1>9. front \in Seq(T) /\ Len(front) = n /\ \A k \in 1 .. n : front[k] = moved[k]
    <2>1. \A k \in 1 .. n : moved[k] \in T
      BY <1>1, <1>2, <1>6
    <2>2. n \in Int /\ 1 \in Int /\ n - 1 + 1 = n /\ (~(1 <= n) => n = 0)
      BY <1>1, <1>2
    <2>3. /\ front \in Seq(T)
          /\ Len(front) = IF 1 <= n THEN n - 1 + 1 ELSE 0
          /\ \A k \in 1 .. n - 1 + 1 : front[k] = moved[1 + k - 1]
      BY <2>1, <2>2, SubSeqProperties
    <2>4. \A k \in 1 .. n : 1 + k - 1 = k
      BY <2>2
    <2> HIDE DEF front
    <2> QED
      BY <2>2, <2>3, <2>4
  <1>10. back \in Seq(T) /\ Len(back) = Len(list) - n - 1
    <2>1. \A k \in n + 2 .. Len(list) : moved[k] \in T
      BY <1>1, <1>2, <1>6
    <2>2. n + 2 \in Int /\ Len(list) \in Int
      BY <1>1, <1>2
    <2>3. /\ back \in Seq(T)
          /\ Len(back) = IF n + 2 <= Len(list) THEN Len(list) - (n + 2) + 1 ELSE 0
      BY <2>1, <2>2, SubSeqProperties
    <2> HIDE DEF back
    <2>5. CASE n + 2 <= Len(list)
      BY <1>1, <1>2, <2>3, <2>5
    <2>6. CASE n = Len(list) - 1
      BY <1>1, <1>2, <2>3, <2>6
    <2> QED
      BY <1>15, <2>5, <2>6
  <1>14. Removed(list, name) = front \o back
    BY <1>8
  <1> HIDE DEF front, back
  <1>11. /\ Removed(list, name) \in Seq(T)
         /\ Len(Removed(list, name)) = Len(front) + Len(back)
         /\ \A k \in 1 .. Len(front) + Len(back) :
               Removed(list, name)[k] = IF k <= Len(front) THEN front[k] ELSE back[k - Len(front)]
    <2>1. /\ front \o back \in Seq(T)
          /\ Len(front \o back) = Len(front) + Len(back)
          /\ \A k \in 1 .. Len(front) + Len(back) :
                (front \o back)[k] = IF k <= Len(front) THEN front[k] ELSE back[k - Len(front)]
      BY <1>9, <1>10, ConcatProperties
    <2> QED
      BY <2>1, <1>14
  <1>12. Len(Removed(list, name)) = Len(list) - 1
    BY <1>1, <1>2, <1>9, <1>10, <1>11
  <1>13. ASSUME NEW k \in 1 .. n PROVE Removed(list, name)[k] = list[Nth(others, k)]
    <2>1. k \in 1 .. Len(front) + Len(back) /\ k <= Len(front) /\ k \in 1 .. Len(list) /\ k <= n
      BY <1>1, <1>2, <1>9, <1>10
    <2>2. Removed(list, name)[k] = front[k]
      BY <2>1, <1>11
    <2> QED
      BY <2>1, <2>2, <1>6, <1>9
  <1> QED
    BY <1>11, <1>12, <1>13 DEF BeginsWithOthers, T, n, others

\* However often the name is in the list that remove_entry is called on (once or more),
\* no other name is lost, although erase takes the one element that std::remove
\* has moved the rest up to (EntryList.cpp:45).
THEOREM OthersStay ==
  ASSUME NEW S, NEW list \in Seq(S), NEW name, Occurs(list, name) # {},
         NEW other, other # name, Occurs(list, other) # {}
  PROVE  Occurs(Removed(list, name), other) # {}
  <1> DEFINE others == OtherPlaces(list, name)
             n == Cardinality(others)
             after == Removed(list, name)
  <1>1. PICK i \in DOMAIN list : list[i] = other
    BY DEF Occurs
  <1>2. i \in others
    BY <1>1 DEF OtherPlaces
  <1>3. others \subseteq Nat /\ IsFiniteSet(others) /\ n \in 0 .. (Len(list) - 1)
    BY OthersFewer
  <1>5. /\ after \in Seq(S \cup {MovedFrom}) /\ Len(after) = Len(list) - 1
        /\ \A k \in 1 .. n : after[k] = list[Nth(others, k)]
    <2>1. /\ after \in Seq(S \cup {MovedFrom}) /\ Len(after) = Len(list) - 1
          /\ BeginsWithOthers(after, list, name)
      BY RemovedIs
    <2> QED
      BY <2>1 DEF BeginsWithOthers
  <1> HIDE DEF others
  <1>4. Rank(others, i) \in 1 .. n /\ Nth(others, Rank(others, i)) = i
    BY <1>2, <1>3, Ranks
  <1> HIDE DEF n
  <1> HIDE DEF after
  <1>6. after[Rank(others, i)] = other
    BY <1>1, <1>4, <1>5
  <1>7. Rank(others, i) \in DOMAIN after
    BY <1>3, <1>4, <1>5
  <1>8. Rank(others, i) \in Occurs(after, other)
    BY <1>6, <1>7 DEF Occurs
  <1> QED
    BY <1>8 DEF after

\* Of a name that was there once nothing is left, every other name is there as
\* often as before, and no moved-from string is left of a list of names
\* (EntryList.cpp:45).
THEOREM OnceRemoved ==
  ASSUME NEW S, NEW list \in Seq(S), NEW name, Cardinality(Occurs(list, name)) = 1
  PROVE  /\ Removed(list, name) \in Seq(S)
         /\ Occurs(Removed(list, name), name) = {}
         /\ \A other : other # name =>
               Cardinality(Occurs(Removed(list, name), other)) = Cardinality(Occurs(list, other))
  <1> DEFINE others == OtherPlaces(list, name)
             n == Cardinality(others)
             after == Removed(list, name)
  <1>1. Len(list) \in Nat /\ DOMAIN list = 1 .. Len(list)
    OBVIOUS
  <1>2. IsFiniteSet(1 .. Len(list)) /\ Cardinality(1 .. Len(list)) = Len(list)
    BY <1>1, FS_Interval
  <1>3. IsFiniteSet(Occurs(list, name))
    <2>1. Occurs(list, name) \in SUBSET (1 .. Len(list))
      BY <1>1 DEF Occurs
    <2> QED
      BY <2>1, <1>2, FS_Subset
  <1>4. PICK m : Occurs(list, name) = {m}
    BY <1>3, FS_Singleton
  <1>5. Occurs(list, name) # {} /\ m \in 1 .. Len(list)
    BY <1>1, <1>4 DEF Occurs
  <1>6. others = (1 .. Len(list)) \ {m}
    BY <1>1, <1>4 DEF OtherPlaces, Occurs
  <1>7. n = Len(list) - 1
    <2> HIDE DEF others
    <2>1. Cardinality((1 .. Len(list)) \ {m}) = Len(list) - 1
      BY <1>2, <1>5, FS_RemoveElement
    <2> QED
      BY <2>1, <1>6
  <1>8. others \subseteq Nat /\ IsFiniteSet(others)
    BY <1>5, OthersFewer
  <1>9. /\ after \in Seq(S \cup {MovedFrom}) /\ Len(after) = Len(list) - 1
        /\ \A k \in 1 .. n : after[k] = list[Nth(others, k)]
    <2>1. /\ after \in Seq(S \cup {MovedFrom}) /\ Len(after) = Len(list) - 1
          /\ BeginsWithOthers(after, list, name)
      BY <1>5, RemovedIs
    <2> QED
      BY <2>1 DEF BeginsWithOthers
  <1> HIDE DEF others, n, after
  <1>10. DOMAIN after = 1 .. n
    BY <1>7, <1>9
  <1>11. /\ \A k \in 1 .. n : Nth(others, k) \in others /\ Rank(others, Nth(others, k)) = k
         /\ \A i \in others : Rank(others, i) \in 1 .. n /\ Nth(others, Rank(others, i)) = i
    BY <1>8, Ranks DEF n
  <1>12. \A i \in others : i \in DOMAIN list /\ list[i] \in S /\ list[i] # name
    BY DEF others, OtherPlaces
  <1>13. \A k \in 1 .. n : after[k] \in S /\ after[k] # name
    BY <1>9, <1>11, <1>12
  <1>14. after \in Seq(S)
    <2>1. after = [k \in 1 .. n |-> after[k]]
      BY <1>9, <1>10
    <2>2. after \in [1 .. n -> S]
      BY <2>1, <1>13
    <2>3. n \in Nat
      BY <1>1, <1>5, <1>7
    <2> QED
      BY <2>2, <2>3
  <1>15. Occurs(after, name) = {}
    BY <1>10, <1>13 DEF Occurs
  <1>16. ASSUME NEW other, other # name
         PROVE  Cardinality(Occurs(after, other)) = Cardinality(Occurs(list, other))
    <2> DEFINE A == Occurs(after, other)
               B == Occurs(list, other)
               f == [k \in A |-> Nth(others, k)]
    <2>1. A \subseteq 1 .. n /\ \A k \in A : after[k] = other
      BY <1>10 DEF Occurs
    <2>2. B \subseteq others /\ \A i \in B : list[i] = other
      BY <1>16 DEF Occurs, others, OtherPlaces
    <2>3. \A k \in A : Nth(others, k) \in B
      BY <2>1, <1>9, <1>11, <1>12 DEF Occurs
    <2>4. \A i \in B : Rank(others, i) \in A /\ Nth(others, Rank(others, i)) = i
      BY <2>2, <1>9, <1>10, <1>11 DEF Occurs
    <2>5. \A k, l \in A : Nth(others, k) = Nth(others, l) => k = l
      <3> SUFFICES ASSUME NEW k \in A, NEW l \in A, Nth(others, k) = Nth(others, l)
                   PROVE  k = l
        OBVIOUS
      <3> HIDE DEF A
      <3>1. Rank(others, Nth(others, k)) = k /\ Rank(others, Nth(others, l)) = l
        BY <2>1, <1>11
      <3> QED
        BY <3>1
    <2>6. f \in Bijection(A, B)
      <3> HIDE DEF A, B
      <3>1. f \in [A -> B]
        BY <2>3
      <3>2. \A k, l \in A : f[k] = f[l] => k = l
        BY <2>5
      <3>3. \A i \in B : \E k \in A : f[k] = i
        BY <2>4
      <3> QED
        BY <3>1, <3>2, <3>3 DEF Bijection, Injection, Surjection, IsInjective
    <2>7. IsFiniteSet(A)
      <3>1. A \in SUBSET (1 .. n) /\ n \in Int
        BY <2>1, <1>1, <1>7
      <3> HIDE DEF A
      <3>2. IsFiniteSet(1 .. n)
        BY <3>1, FS_Interval
      <3> QED
        BY <3>1, <3>2, FS_Subset
    <2> HIDE DEF A, B, f
    <2>8. Cardinality(B) = Cardinality(A)
      BY <2>6, <2>7, FS_Bijection DEF ExistsBijection
    <2> QED
      BY <2>8 DEF A, B
  <1> QED
    BY <1>14, <1>15, <1>16 DEF after

-----------------------------------------------------------------------------
\* Only the list of the directory changes.

LEMMA Inserted ==
  ASSUME NEW entry, NEW uuid, NEW name, NEW u
  PROVE  readdir(insert_entry(entry, uuid, name), u)
            = IF u = uuid THEN Append(readdir(entry, uuid), name) ELSE readdir(entry, u)
  BY DEF readdir, insert_entry

LEMMA RemovedEntry ==
  ASSUME NEW S, NEW entry, NEW uuid, NEW name, NEW u,
         readdir(entry, uuid) \in Seq(S), Occurs(readdir(entry, uuid), name) # {}
  PROVE  readdir(remove_entry(entry, uuid, name), u)
            = IF u = uuid THEN Removed(readdir(entry, uuid), name) ELSE readdir(entry, u)
  <1> DEFINE list == readdir(entry, uuid)
             n == Cardinality(OtherPlaces(list, name))
  <1>1. list # <<>>
    BY DEF Occurs
  <1>2. uuid \in DOMAIN entry
    BY <1>1 DEF readdir, NoEntries
  <1>3. Len(list) \in Nat /\ n \in 0 .. (Len(list) - 1)
    BY OthersFewer
  <1> HIDE DEF n
  <1>4. n < Len(list)
    BY <1>3
  <1>5. remove_entry(entry, uuid, name) = [entry EXCEPT ![uuid] = Removed(list, name)]
    BY <1>1, <1>4 DEF remove_entry, Removed, n, NoEntries
  <1> HIDE DEF list
  <1>6. DOMAIN remove_entry(entry, uuid, name) = DOMAIN entry
    BY <1>5
  <1> QED
    BY <1>2, <1>5, <1>6 DEF readdir, list
=============================================================================
