---------------------------- MODULE LocofsProofs ----------------------------
(***************************************************************************)
(* For any number of clients, names, depths and caches: no two paths of    *)
(* the directory server lead to one uuid, its lists and the keys agree, a  *)
(* cached uuid is never that of another path, and the two servers          *)
(* implement FileTree.                                                     *)
(*                                                                         *)
(* A uuid is found by following the names of a path.  As every key has a   *)
(* uuid of its own, a uuid other than that of "/" is found along one path  *)
(* only (OnePath).  So mkdir adds one path and changes no other, and rmdir *)
(* takes away the paths at and below one (UuidGrown, UuidShrunk).          *)
(***************************************************************************)
EXTENDS Locofs, EntryListProofs, WellFoundedInduction, TLAPS

-----------------------------------------------------------------------------
\* Following the names of a path, step by step.

LEMMA LeastNumber ==
  ASSUME NEW T, T \subseteq Nat, T # {}
  PROVE  \E x \in T : \A y \in T : x <= y
  <1>1. PICK x \in T : \A y \in T : <<y, x>> \notin OpToRel(<, Nat)
    BY NatLessThanWellFounded, WFMin
  <1>2. ASSUME NEW y \in T PROVE x <= y
    <2>1. x \in Nat /\ y \in Nat
      OBVIOUS
    <2>2. ~(y < x)
      BY <1>1, <2>1 DEF OpToRel
    <2> QED
      BY <2>1, <2>2
  <1> QED
    BY <1>2

\* Child and Uuid as functions of the store.
ChildIn(store, uuid, name) ==
    IF <<uuid, name>> \in DOMAIN store THEN store[<<uuid, name>>] ELSE NotFound

UuidIn(store, path) ==
    LET walk[i \in 0 .. Len(path)] ==
            IF i = 0 THEN RootUuid ELSE ChildIn(store, walk[i - 1], path[i])
    IN  walk[Len(path)]

LEMMA UuidIsIn ==
  ASSUME NEW path
  PROVE  Uuid(path) = UuidIn(uuid_store, path) /\ Uuid(path)' = UuidIn(uuid_store', path)
  BY DEF Uuid, UuidIn, Child, ChildIn

\* The uuids met on the first n steps of the way to path.
IsWalk(walk, store, path, n) ==
    walk = [i \in 0 .. n |->
               IF i = 0 THEN RootUuid ELSE ChildIn(store, walk[i - 1], path[i])]

LEMMA WalkExists ==
  ASSUME NEW store, NEW path, NEW n \in Nat
  PROVE  \E walk : IsWalk(walk, store, path, n)
  <1> DEFINE T == {m \in Nat : ~\E walk : IsWalk(walk, store, path, m)}
  <1>1. SUFFICES ASSUME T # {} PROVE FALSE
    BY <1>1
  <1>2. PICK t \in T : \A y \in T : t <= y
    BY <1>1, LeastNumber
  <1>3. t \in Nat /\ ~\E walk : IsWalk(walk, store, path, t)
    BY <1>2
  <1>4. t # 0
    <2>1. IsWalk([i \in {0} |-> RootUuid], store, path, 0)
      BY DEF IsWalk
    <2> QED
      BY <1>3, <2>1
  <1>5. t - 1 \in Nat /\ t - 1 \notin T
    BY <1>2, <1>3, <1>4
  <1>6. PICK walk : IsWalk(walk, store, path, t - 1)
    BY <1>5
  <1> HIDE DEF T
  <1> DEFINE next == [i \in 0 .. t |-> IF i = t THEN ChildIn(store, walk[t - 1], path[t])
                                       ELSE walk[i]]
  <1>7. \A i \in 0 .. (t - 1) :
          walk[i] = IF i = 0 THEN RootUuid ELSE ChildIn(store, walk[i - 1], path[i])
    BY <1>6 DEF IsWalk
  <1>8. \A i \in 0 .. t :
          next[i] = IF i = 0 THEN RootUuid ELSE ChildIn(store, next[i - 1], path[i])
    <2> SUFFICES ASSUME NEW i \in 0 .. t
                 PROVE  next[i] = IF i = 0 THEN RootUuid
                                  ELSE ChildIn(store, next[i - 1], path[i])
      OBVIOUS
    <2>1. CASE i = t
      <3>1. t - 1 \in 0 .. t /\ t - 1 # t
        BY <1>3, <1>5
      <3>2. next[t] = ChildIn(store, walk[t - 1], path[t]) /\ next[t - 1] = walk[t - 1]
        BY <1>3, <3>1
      <3> QED
        BY <1>4, <2>1, <3>2
    <2>2. CASE i = 0
      <3>1. 0 \in 0 .. (t - 1) /\ 0 \in 0 .. t /\ 0 # t
        BY <1>3, <1>4, <1>5
      <3> QED
        BY <2>2, <1>7, <3>1
    <2>3. CASE i # t /\ i # 0
      <3>1. i \in 0 .. (t - 1) /\ i - 1 \in 0 .. t /\ i - 1 # t
        BY <1>3, <2>3
      <3>2. next[i] = walk[i] /\ next[i - 1] = walk[i - 1]
        BY <2>3, <3>1
      <3>3. walk[i] = ChildIn(store, walk[i - 1], path[i])
        BY <2>3, <1>7, <3>1
      <3> QED
        BY <2>3, <3>2, <3>3
    <2> QED
      BY <2>1, <2>2, <2>3
  <1>9. next = [i \in 0 .. t |-> next[i]]
    OBVIOUS
  <1> HIDE DEF next
  <1>10. IsWalk(next, store, path, t)
    BY <1>8, <1>9 DEF IsWalk
  <1> QED
    BY <1>3, <1>10

\* Paths that begin alike begin with the same uuids.
LEMMA WalksAgree ==
  ASSUME NEW store, NEW p, NEW q, NEW n \in Nat, NEW m \in Nat,
         NEW v, IsWalk(v, store, p, n), NEW w, IsWalk(w, store, q, m),
         NEW k \in Nat, k <= n, k <= m, \A i \in 1 .. k : p[i] = q[i]
  PROVE  v[k] = w[k]
  <1> DEFINE T == {i \in 0 .. k : v[i] # w[i]}
  <1>1. SUFFICES ASSUME T # {} PROVE FALSE
    BY <1>1
  <1>2. PICK t \in T : \A y \in T : t <= y
    <2>1. T \subseteq Nat
      OBVIOUS
    <2> HIDE DEF T
    <2> QED
      BY <1>1, <2>1, LeastNumber
  <1>3. t \in 0 .. k /\ v[t] # w[t]
    BY <1>2
  <1>4. t \in 0 .. n /\ t \in 0 .. m
    BY <1>3
  <1>5. /\ v[t] = IF t = 0 THEN RootUuid ELSE ChildIn(store, v[t - 1], p[t])
        /\ w[t] = IF t = 0 THEN RootUuid ELSE ChildIn(store, w[t - 1], q[t])
    BY <1>4 DEF IsWalk
  <1>6. t # 0
    BY <1>3, <1>5
  <1>7. t - 1 \in 0 .. k /\ t - 1 \notin T /\ t \in 1 .. k
    BY <1>2, <1>3, <1>6
  <1>8. v[t - 1] = w[t - 1] /\ p[t] = q[t]
    BY <1>7
  <1> QED
    BY <1>3, <1>5, <1>6, <1>8

LEMMA UuidInIs ==
  ASSUME NEW store, NEW path, Len(path) \in Nat
  PROVE  \E walk : /\ IsWalk(walk, store, path, Len(path))
                   /\ UuidIn(store, path) = walk[Len(path)]
  <1> DEFINE walk == CHOOSE w : IsWalk(w, store, path, Len(path))
  <1>1. \E w : IsWalk(w, store, path, Len(path))
    BY WalkExists
  <1>2. IsWalk(walk, store, path, Len(path))
    BY <1>1
  <1>3. UuidIn(store, path) = walk[Len(path)]
    BY DEF UuidIn, IsWalk
  <1> QED
    BY <1>2, <1>3

LEMMA RootIn ==
  ASSUME NEW store
  PROVE  UuidIn(store, <<>>) = RootUuid
  <1>1. PICK w : IsWalk(w, store, <<>>, 0) /\ UuidIn(store, <<>>) = w[0]
    <2>1. Len(<<>>) = 0
      OBVIOUS
    <2> QED
      BY <2>1, UuidInIs
  <1> QED
    BY <1>1 DEF IsWalk

LEMMA PathParts ==
  ASSUME NEW S, NEW path \in Seq(S), path # <<>>
  PROVE  /\ Len(path) \in Nat \ {0}
         /\ Front(path) \in Seq(S) /\ Len(Front(path)) = Len(path) - 1
         /\ Last(path) \in S /\ path = Append(Front(path), Last(path))
         /\ \A i \in 1 .. Len(Front(path)) : Front(path)[i] = path[i]
  <1> DEFINE n == Len(path)
             up == Front(path)
  <1>1. n \in Nat \ {0} /\ n - 1 \in Nat /\ (n - 1) - 1 + 1 = n - 1 /\ (~(1 <= n - 1) => n - 1 = 0)
    <2>1. n \in Nat
      OBVIOUS
    <2>2. n # 0
      OBVIOUS
    <2> HIDE DEF n
    <2> QED
      BY <2>1, <2>2
  <1>2. Last(path) \in S
    BY DEF Last
  <1>3. path = Append(up, Last(path))
    BY DEF Front, Last
  <1>4. up = SubSeq(path, 1, n - 1) /\ \A i \in 1 .. n - 1 : path[i] \in S
    BY DEF Front
  <1> HIDE DEF n
  <1>5. /\ up \in Seq(S) /\ Len(up) = IF 1 <= n - 1 THEN (n - 1) - 1 + 1 ELSE 0
        /\ \A i \in 1 .. (n - 1) - 1 + 1 : up[i] = path[1 + i - 1]
    BY <1>1, <1>4, SubSeqProperties
  <1> HIDE DEF up
  <1>6. Len(up) = n - 1
    BY <1>1, <1>5
  <1>7. \A i \in 1 .. Len(up) : up[i] = path[i]
    BY <1>1, <1>5, <1>6
  <1> QED
    BY <1>1, <1>2, <1>3, <1>5, <1>6, <1>7 DEF n, up

\* get_uuid goes to the parent first and takes one more step.
LEMMA StepIn ==
  ASSUME NEW store, NEW S, NEW path \in Seq(S), path # <<>>
  PROVE  UuidIn(store, path) = ChildIn(store, UuidIn(store, Front(path)), Last(path))
  <1> DEFINE n == Len(path)
             up == Front(path)
  <1>1. /\ n \in Nat \ {0} /\ Len(up) = n - 1
        /\ \A i \in 1 .. Len(up) : up[i] = path[i]
    BY PathParts
  <1>2. PICK w : IsWalk(w, store, path, n) /\ UuidIn(store, path) = w[n]
    BY <1>1, UuidInIs
  <1>3. n - 1 \in Nat /\ n - 1 <= n /\ n - 1 <= n - 1
    BY <1>1
  <1>4. PICK v : IsWalk(v, store, up, n - 1) /\ UuidIn(store, up) = v[n - 1]
    BY <1>1, <1>3, UuidInIs
  <1>5. \A i \in 1 .. (n - 1) : up[i] = path[i]
    BY <1>1
  <1> HIDE DEF n, up
  <1>6. v[n - 1] = w[n - 1]
    BY <1>1, <1>2, <1>3, <1>4, <1>5, WalksAgree
  <1>7. w[n] = ChildIn(store, w[n - 1], path[n])
    <2>1. n \in 0 .. n /\ n # 0
      BY <1>1
    <2> QED
      BY <1>2, <2>1 DEF IsWalk
  <1> QED
    BY <1>2, <1>4, <1>6, <1>7 DEF n, up, Last

-----------------------------------------------------------------------------
\* What a store of the directory server is: its uuids, up to the last one handed
\* out, are those of one key each, and none is that of "/".
StoreOK(store, top) ==
    /\ top \in Nat \ {0}
    /\ DOMAIN store \subseteq (0 .. top) \X DirNames
    /\ \A k \in DOMAIN store : store[k] \in 2 .. top
    /\ \A k, l \in DOMAIN store : store[k] = store[l] => k = l

LEMMA ChildBounds ==
  ASSUME NEW store, NEW top, StoreOK(store, top), NEW uuid, NEW name
  PROVE  /\ ChildIn(store, uuid, name) = NotFound \/ ChildIn(store, uuid, name) \in 2 .. top
         /\ ChildIn(store, NotFound, name) = NotFound
  <1>1. ChildIn(store, uuid, name) = NotFound \/ ChildIn(store, uuid, name) \in 2 .. top
    BY DEF ChildIn, StoreOK
  <1>2. <<NotFound, name>> \notin DOMAIN store
    BY DEF StoreOK, NotFound
  <1> QED
    BY <1>1, <1>2 DEF ChildIn

LEMMA UuidBounds ==
  ASSUME NEW store, NEW top, StoreOK(store, top), NEW path \in Seq(DirNames)
  PROVE  /\ UuidIn(store, path) \in {NotFound} \cup (0 .. top)
         /\ path # <<>> => UuidIn(store, path) \in {NotFound} \cup (2 .. top)
  <1>1. CASE path = <<>>
    BY <1>1, RootIn DEF RootUuid, StoreOK
  <1>2. CASE path # <<>>
    <2>1. UuidIn(store, path) = ChildIn(store, UuidIn(store, Front(path)), Last(path))
      BY <1>2, StepIn
    <2> DEFINE u == UuidIn(store, path)
    <2>2. u = NotFound \/ u \in 2 .. top
      BY <2>1, ChildBounds
    <2> HIDE DEF u
    <2>3. u \in {NotFound} \cup (2 .. top) /\ u \in {NotFound} \cup (0 .. top)
      BY <2>2 DEF StoreOK
    <2> QED
      BY <2>3 DEF u
  <1> QED
    BY <1>1, <1>2

\* A uuid is found along one path only.
LEMMA OnePath ==
  ASSUME NEW store, NEW top, StoreOK(store, top),
         NEW p \in Seq(DirNames), NEW q \in Seq(DirNames),
         UuidIn(store, p) = UuidIn(store, q), UuidIn(store, p) # NotFound
  PROVE  p = q
  <1> DEFINE Twice(a, b) == UuidIn(store, a) = UuidIn(store, b) /\ UuidIn(store, a) # NotFound /\ a # b
             T == {n \in Nat : \E a, b \in Seq(DirNames) : Len(a) = n /\ Twice(a, b)}
  <1>1. SUFFICES ASSUME T # {} PROVE FALSE
    <2>1. Len(p) \in Nat
      OBVIOUS
    <2> QED
      BY <1>1, <2>1
  <1>2. PICK t \in T : \A y \in T : t <= y
    <2>1. T \subseteq Nat
      OBVIOUS
    <2> HIDE DEF T
    <2> QED
      BY <1>1, <2>1, LeastNumber
  <1>3. PICK a \in Seq(DirNames), b \in Seq(DirNames) : Len(a) = t /\ Twice(a, b)
    BY <1>2
  <1>4. ASSUME NEW x \in Seq(DirNames), x # <<>>, UuidIn(store, x) # NotFound
        PROVE  /\ <<UuidIn(store, Front(x)), Last(x)>> \in DOMAIN store
               /\ UuidIn(store, x) = store[<<UuidIn(store, Front(x)), Last(x)>>]
    BY <1>4, StepIn DEF ChildIn
  <1>5. a # <<>> /\ b # <<>>
    <2>1. ASSUME NEW x \in Seq(DirNames), x # <<>>, UuidIn(store, x) # NotFound
          PROVE  UuidIn(store, x) # UuidIn(store, <<>>)
      <3>1. UuidIn(store, x) \in 2 .. top
        BY <2>1, UuidBounds
      <3> QED
        BY <3>1, RootIn DEF RootUuid
    <2> QED
      BY <1>3, <2>1
  <1> DEFINE ka == <<UuidIn(store, Front(a)), Last(a)>>
             kb == <<UuidIn(store, Front(b)), Last(b)>>
  <1>6. ka \in DOMAIN store /\ kb \in DOMAIN store /\ store[ka] = store[kb]
    BY <1>3, <1>4, <1>5
  <1>7. ka = kb
    BY <1>6 DEF StoreOK
  <1>8. UuidIn(store, Front(a)) = UuidIn(store, Front(b)) /\ Last(a) = Last(b)
    BY <1>7
  <1>9. UuidIn(store, Front(a)) # NotFound
    BY <1>6 DEF StoreOK, NotFound
  <1>10. /\ t \in Nat \ {0} /\ Front(a) \in Seq(DirNames) /\ Len(Front(a)) = t - 1
         /\ a = Append(Front(a), Last(a))
         /\ Front(b) \in Seq(DirNames) /\ b = Append(Front(b), Last(b))
    BY <1>3, <1>5, PathParts
  <1>11. t - 1 \in Nat /\ t - 1 \notin T
    BY <1>2, <1>10
  <1> HIDE DEF ka, kb
  <1>12. Front(a) = Front(b)
    BY <1>8, <1>9, <1>10, <1>11
  <1>13. a = b
    BY <1>8, <1>10, <1>12
  <1> QED
    BY <1>3, <1>13

KeyIn(store, path) == <<UuidIn(store, Front(path)), Last(path)>>

\* Paths of equal parents and equal last names are equal.
LEMMA KeyOfOne ==
  ASSUME NEW store, NEW top, StoreOK(store, top),
         NEW p \in Seq(DirNames), p # <<>>, NEW q \in Seq(DirNames), q # <<>>,
         UuidIn(store, Front(p)) # NotFound, KeyIn(store, p) = KeyIn(store, q)
  PROVE  p = q
  <1>1. UuidIn(store, Front(p)) = UuidIn(store, Front(q)) /\ Last(p) = Last(q)
    BY DEF KeyIn
  <1>2. /\ Front(p) \in Seq(DirNames) /\ p = Append(Front(p), Last(p))
        /\ Front(q) \in Seq(DirNames) /\ q = Append(Front(q), Last(q))
    BY PathParts
  <1>3. Front(p) = Front(q)
    BY <1>1, <1>2, OnePath
  <1> QED
    BY <1>1, <1>2, <1>3

\* What mkdir and rmdir make of the store.
Grown(store, path, uuid) ==
    [k \in DOMAIN store \cup {KeyIn(store, path)} |->
        IF k = KeyIn(store, path) THEN uuid ELSE store[k]]
Shrunk(store, path) == [k \in DOMAIN store \ {KeyIn(store, path)} |-> store[k]]

LEMMA ChildGrown ==
  ASSUME NEW store, NEW path, NEW uuid, NEW u, NEW name
  PROVE  ChildIn(Grown(store, path, uuid), u, name)
            = IF <<u, name>> = KeyIn(store, path) THEN uuid ELSE ChildIn(store, u, name)
  BY DEF Grown, ChildIn

LEMMA ChildShrunk ==
  ASSUME NEW store, NEW path, NEW u, NEW name
  PROVE  ChildIn(Shrunk(store, path), u, name)
            = IF <<u, name>> = KeyIn(store, path) THEN NotFound ELSE ChildIn(store, u, name)
  BY DEF Shrunk, ChildIn

\* A new directory is found at its path and changes no other: below it there
\* is nothing.
LEMMA UuidGrown ==
  ASSUME NEW store, NEW top, StoreOK(store, top),
         NEW d \in Seq(DirNames), d # <<>>, UuidIn(store, Front(d)) # NotFound,
         KeyIn(store, d) \notin DOMAIN store, NEW path \in Seq(DirNames)
  PROVE  UuidIn(Grown(store, d, top + 1), path) = IF path = d THEN top + 1 ELSE UuidIn(store, path)
  <1> DEFINE grown == Grown(store, d, top + 1)
             Holds(p) == UuidIn(grown, p) = IF p = d THEN top + 1 ELSE UuidIn(store, p)
             T == {n \in Nat : \E p \in Seq(DirNames) : Len(p) = n /\ ~Holds(p)}
  <1>1. SUFFICES ASSUME T # {} PROVE FALSE
    <2>1. Len(path) \in Nat
      OBVIOUS
    <2> QED
      BY <1>1, <2>1
  <1>2. PICK t \in T : \A y \in T : t <= y
    <2>1. T \subseteq Nat
      OBVIOUS
    <2> HIDE DEF T
    <2> QED
      BY <1>1, <2>1, LeastNumber
  <1>3. PICK p \in Seq(DirNames) : Len(p) = t /\ ~Holds(p)
    BY <1>2
  <1>4. p # <<>>
    BY <1>3, RootIn
  <1> DEFINE up == Front(p)
  <1>5. t \in Nat \ {0} /\ up \in Seq(DirNames) /\ Len(up) = t - 1
    BY <1>3, <1>4, PathParts
  <1>6. t - 1 \in Nat /\ t - 1 \notin T
    BY <1>2, <1>5
  <1>7. UuidIn(grown, up) = IF up = d THEN top + 1 ELSE UuidIn(store, up)
    BY <1>5, <1>6
  <1> HIDE DEF grown, T
  <1>8. /\ UuidIn(grown, p) = ChildIn(grown, UuidIn(grown, up), Last(p))
        /\ UuidIn(store, p) = ChildIn(store, UuidIn(store, up), Last(p))
    BY <1>4, StepIn
  <1>9. UuidIn(store, d) = NotFound
    BY StepIn DEF ChildIn, KeyIn
  <1>10. CASE up = d
    <2>1. p # d
      BY <1>3, <1>5, <1>10
    <2>2. UuidIn(store, p) = NotFound
      BY <1>8, <1>9, <1>10, ChildBounds
    <2>3. top + 1 # UuidIn(store, Front(d)) /\ <<top + 1, Last(p)>> \notin DOMAIN store
      <3>1. UuidIn(store, Front(d)) \in 0 .. top
        <4>1. Front(d) \in Seq(DirNames)
          BY PathParts
        <4> QED
          BY <4>1, UuidBounds
      <3>2. top \in Nat /\ top + 1 \notin 0 .. top
        BY DEF StoreOK
      <3> QED
        BY <3>1, <3>2 DEF StoreOK
    <2>4. ChildIn(grown, top + 1, Last(p)) = NotFound
      <3>1. <<top + 1, Last(p)>> # KeyIn(store, d)
        BY <2>3 DEF KeyIn
      <3>2. ChildIn(grown, top + 1, Last(p)) = ChildIn(store, top + 1, Last(p))
        BY <3>1, ChildGrown DEF grown
      <3> QED
        BY <2>3, <3>2 DEF ChildIn
    <2> QED
      BY <1>3, <1>7, <1>8, <1>10, <2>1, <2>2, <2>4
  <1>11. CASE up # d
    <2>1. UuidIn(grown, p)
            = IF KeyIn(store, p) = KeyIn(store, d) THEN top + 1 ELSE UuidIn(store, p)
      BY <1>7, <1>8, <1>11, ChildGrown DEF grown, KeyIn
    <2>2. KeyIn(store, p) = KeyIn(store, d) <=> p = d
      BY <1>4, KeyOfOne
    <2> QED
      BY <1>3, <2>1, <2>2
  <1> QED
    BY <1>10, <1>11

LEMMA PrefixIs ==
  ASSUME NEW S, NEW s \in Seq(S), NEW t \in Seq(S)
  PROVE  IsPrefix(s, t) <=> Len(s) <= Len(t) /\ \A i \in 1 .. Len(s) : s[i] = t[i]
  <1> DEFINE n == Len(s)
  <1>1. CASE ~(n <= Len(t))
    BY <1>1 DEF IsPrefix
  <1>2. CASE n <= Len(t)
    <2>1. n \in Nat /\ Len(t) \in Nat
      OBVIOUS
    <2>2. (\A i \in 1 .. n : s[i] \in S) /\ (\A i \in 1 .. n : t[i] \in S)
      BY <1>2, <2>1
    <2> DEFINE a == SubSeq(s, 1, n)
               b == SubSeq(t, 1, n)
    <2>3. n - 1 + 1 = n /\ (IF 1 <= n THEN n - 1 + 1 ELSE 0) = n /\ \A i \in 1 .. n : 1 + i - 1 = i
      <3> HIDE DEF n
      <3> QED
        BY <2>1
    <2>4. /\ a \in Seq(S) /\ Len(a) = IF 1 <= n THEN n - 1 + 1 ELSE 0
          /\ \A i \in 1 .. n - 1 + 1 : a[i] = s[1 + i - 1]
      <3> HIDE DEF n
      <3> QED
        BY <2>1, <2>2, SubSeqProperties
    <2>5. /\ b \in Seq(S) /\ Len(b) = IF 1 <= n THEN n - 1 + 1 ELSE 0
          /\ \A i \in 1 .. n - 1 + 1 : b[i] = t[1 + i - 1]
      <3> HIDE DEF n
      <3> QED
        BY <2>1, <2>2, SubSeqProperties
    <2>6. IsPrefix(s, t) <=> a = b
      BY <1>2 DEF IsPrefix
    <2> HIDE DEF a, b, n
    <2>7. Len(a) = n /\ Len(b) = n /\ (\A i \in 1 .. n : a[i] = s[i]) /\ (\A i \in 1 .. n : b[i] = t[i])
      BY <2>3, <2>4, <2>5
    <2>8. a = b <=> \A i \in 1 .. n : s[i] = t[i]
      BY <2>4, <2>5, <2>7
    <2> QED
      BY <1>2, <2>6, <2>8 DEF n
  <1> QED
    BY <1>1, <1>2

\* What is below a directory is the directory or below it together with its
\* parent.
LEMMA PrefixOfParent ==
  ASSUME NEW S, NEW s \in Seq(S), NEW t \in Seq(S), t # <<>>
  PROVE  IsPrefix(s, t) <=> s = t \/ IsPrefix(s, Front(t))
  <1> DEFINE up == Front(t)
  <1>1. /\ Len(t) \in Nat \ {0} /\ up \in Seq(S) /\ Len(up) = Len(t) - 1
        /\ \A i \in 1 .. Len(up) : up[i] = t[i]
    BY PathParts
  <1> HIDE DEF up
  <1>2. IsPrefix(s, t) <=> Len(s) <= Len(t) /\ \A i \in 1 .. Len(s) : s[i] = t[i]
    BY PrefixIs
  <1>3. IsPrefix(s, up) <=> Len(s) <= Len(up) /\ \A i \in 1 .. Len(s) : s[i] = up[i]
    BY <1>1, PrefixIs
  <1>4. Len(s) \in Nat
    OBVIOUS
  <1>5. CASE Len(s) <= Len(up)
    <2>1. Len(s) <= Len(t) /\ s # t
      BY <1>1, <1>4, <1>5
    <2>2. \A i \in 1 .. Len(s) : up[i] = t[i]
      BY <1>1, <1>4, <1>5
    <2> QED
      BY <1>2, <1>3, <1>5, <2>1, <2>2 DEF up
  <1>6. CASE ~(Len(s) <= Len(up))
    <2>1. Len(s) <= Len(t) => Len(s) = Len(t)
      BY <1>1, <1>4, <1>6
    <2>2. (Len(s) <= Len(t) /\ \A i \in 1 .. Len(s) : s[i] = t[i]) => s = t
      BY <2>1
    <2>3. s = t => IsPrefix(s, t)
      BY <1>2, <1>4
    <2> QED
      BY <1>2, <1>3, <1>6, <2>2, <2>3 DEF up
  <1> QED
    BY <1>5, <1>6

\* What was at or below a removed directory is found no more.
LEMMA UuidShrunk ==
  ASSUME NEW store, NEW top, StoreOK(store, top),
         NEW d \in Seq(DirNames), d # <<>>, KeyIn(store, d) \in DOMAIN store,
         NEW path \in Seq(DirNames)
  PROVE  UuidIn(Shrunk(store, d), path) = IF IsPrefix(d, path) THEN NotFound ELSE UuidIn(store, path)
  <1> DEFINE shrunk == Shrunk(store, d)
             Holds(p) == UuidIn(shrunk, p) = IF IsPrefix(d, p) THEN NotFound ELSE UuidIn(store, p)
             T == {n \in Nat : \E p \in Seq(DirNames) : Len(p) = n /\ ~Holds(p)}
  <1>1. SUFFICES ASSUME T # {} PROVE FALSE
    <2>1. Len(path) \in Nat
      OBVIOUS
    <2> QED
      BY <1>1, <2>1
  <1>2. PICK t \in T : \A y \in T : t <= y
    <2>1. T \subseteq Nat
      OBVIOUS
    <2> HIDE DEF T
    <2> QED
      BY <1>1, <2>1, LeastNumber
  <1>3. PICK p \in Seq(DirNames) : Len(p) = t /\ ~Holds(p)
    BY <1>2
  <1>4. p # <<>>
    <2>1. ~IsPrefix(d, <<>>)
      <3>1. Len(d) \in Nat \ {0} /\ Len(<<>>) = 0
        BY PathParts
      <3> QED
        BY <3>1 DEF IsPrefix
    <2>2. Holds(<<>>)
      BY <2>1, RootIn
    <2> QED
      BY <1>3, <2>2
  <1> DEFINE up == Front(p)
  <1>5. t \in Nat \ {0} /\ up \in Seq(DirNames) /\ Len(up) = t - 1
    BY <1>3, <1>4, PathParts
  <1>6. t - 1 \in Nat /\ t - 1 \notin T
    BY <1>2, <1>5
  <1>7. UuidIn(shrunk, up) = IF IsPrefix(d, up) THEN NotFound ELSE UuidIn(store, up)
    BY <1>5, <1>6
  <1> HIDE DEF shrunk, T
  <1>8. /\ UuidIn(shrunk, p) = ChildIn(shrunk, UuidIn(shrunk, up), Last(p))
        /\ UuidIn(store, p) = ChildIn(store, UuidIn(store, up), Last(p))
    BY <1>4, StepIn
  <1>9. IsPrefix(d, p) <=> d = p \/ IsPrefix(d, up)
    BY <1>4, PrefixOfParent
  <1>10. UuidIn(store, Front(d)) # NotFound
    BY DEF StoreOK, KeyIn, NotFound
  <1>11. CASE IsPrefix(d, up)
    <2>1. NotFound # UuidIn(store, Front(d))
      BY <1>10
    <2>2. ChildIn(shrunk, NotFound, Last(p)) = ChildIn(store, NotFound, Last(p))
      BY <2>1, ChildShrunk DEF shrunk, KeyIn
    <2>3. UuidIn(shrunk, p) = NotFound
      BY <1>7, <1>8, <1>11, <2>2, ChildBounds
    <2> QED
      BY <1>3, <1>9, <1>11, <2>3
  <1>12. CASE ~IsPrefix(d, up)
    <2>1. UuidIn(shrunk, p)
            = IF KeyIn(store, p) = KeyIn(store, d) THEN NotFound ELSE UuidIn(store, p)
      BY <1>7, <1>8, <1>12, ChildShrunk DEF shrunk, KeyIn
    <2>2. KeyIn(store, p) = KeyIn(store, d) <=> p = d
      BY <1>4, <1>10, KeyOfOne
    <2> QED
      BY <1>3, <1>9, <1>12, <2>1, <2>2
  <1> QED
    BY <1>11, <1>12

-----------------------------------------------------------------------------
\* Uuids in use have been handed out, and none is that of "/".
Fresh == /\ uuid_counter \in Nat
         /\ uuid_counter >= 1
         /\ \A k \in DOMAIN uuid_store : uuid_store[k] \in 2 .. uuid_counter

DMInv == Fresh /\ UuidsNameOne

LEMMA InitFresh == Init => DMInv
  <1> SUFFICES ASSUME Init PROVE DMInv
    OBVIOUS
  <1>1. uuid_counter = 1 /\ uuid_store = <<>> /\ dm_store = {1}
    BY DEF Init, DMInit
  <1>2. DOMAIN uuid_store = {}
    BY <1>1
  <1>3. Fresh
    BY <1>1, <1>2 DEF Fresh
  <1>4. UuidsNameOne
    BY <1>1, <1>2 DEF UuidsNameOne
  <1>5. QED
    BY <1>3, <1>4 DEF DMInv

\* A new directory gets a uuid no key has.
LEMMA MkdirKeeps ==
  ASSUME DMInv, NEW d, mkdir(d)
  PROVE  DMInv'
  <1> DEFINE new == uuid_counter + 1
  <1>1. uuid_counter' = new /\ new \in Nat /\ new >= 2
    BY DEF mkdir, DMInv, Fresh
  <1>2. CASE ~CanMkdir(d)
    <2>1. UNCHANGED <<uuid_store, dm_store>>
      BY <1>2 DEF mkdir
    <2>2. QED
      BY <1>1, <2>1 DEF DMInv, Fresh, UuidsNameOne
  <1>3. CASE CanMkdir(d)
    <2>1. Key(d) \notin DOMAIN uuid_store
      BY <1>3 DEF CanMkdir
    <2>2. /\ uuid_store' = [k \in DOMAIN uuid_store \cup {Key(d)} |->
                               IF k = Key(d) THEN new ELSE uuid_store[k]]
          /\ dm_store' = dm_store \cup {new}
      BY <1>1, <1>3 DEF mkdir, Store
    <2>3. /\ DOMAIN uuid_store' = DOMAIN uuid_store \cup {Key(d)}
          /\ uuid_store'[Key(d)] = new
          /\ \A k \in DOMAIN uuid_store : uuid_store'[k] = uuid_store[k]
      BY <2>1, <2>2, Zenon
    <2>4. \A k \in DOMAIN uuid_store : uuid_store[k] # new /\ uuid_store[k] \in 2 .. new
      BY DEF DMInv, Fresh
    <2>5. Fresh'
      BY <1>1, <2>3, <2>4 DEF Fresh
    <2>6. ASSUME NEW k \in DOMAIN uuid_store', NEW l \in DOMAIN uuid_store',
                 uuid_store'[k] = uuid_store'[l]
          PROVE  k = l
      BY <2>3, <2>4, <2>6, Zenon DEF DMInv, UuidsNameOne
    <2>7. dm_store' = {1} \cup {uuid_store'[k] : k \in DOMAIN uuid_store'}
      <3>1. {uuid_store'[k] : k \in DOMAIN uuid_store'}
              = {uuid_store[k] : k \in DOMAIN uuid_store} \cup {new}
        BY <2>3
      <3>2. QED
        BY <2>2, <3>1 DEF DMInv, UuidsNameOne
    <2>8. QED
      BY <2>5, <2>6, <2>7 DEF DMInv, UuidsNameOne
  <1>4. QED
    BY <1>2, <1>3

\* The inode removed is the one of the key removed, and of no other.
LEMMA RmdirKeeps ==
  ASSUME DMInv, NEW d, rmdir(d)
  PROVE  DMInv'
  <1>1. Key(d) \in DOMAIN uuid_store /\ Target(d) = uuid_store[Key(d)]
    BY DEF rmdir, CanRmdir, Target, Child, Key
  <1>2. /\ uuid_store' = [k \in DOMAIN uuid_store \ {Key(d)} |-> uuid_store[k]]
        /\ dm_store' = dm_store \ {uuid_store[Key(d)]}
        /\ uuid_counter' = uuid_counter
    BY <1>1 DEF rmdir
  <1>3. /\ DOMAIN uuid_store' = DOMAIN uuid_store \ {Key(d)}
        /\ \A k \in DOMAIN uuid_store' : uuid_store'[k] = uuid_store[k]
    BY <1>2, Zenon
  <1>4. Fresh'
    BY <1>2, <1>3 DEF DMInv, Fresh
  <1>5. \A k \in DOMAIN uuid_store : k # Key(d) => uuid_store[k] # uuid_store[Key(d)]
    BY <1>1 DEF DMInv, UuidsNameOne
  <1>6. 1 # uuid_store[Key(d)]
    BY <1>1 DEF DMInv, Fresh
  <1>7. dm_store' = {1} \cup {uuid_store'[k] : k \in DOMAIN uuid_store'}
    <2>1. {uuid_store'[k] : k \in DOMAIN uuid_store'}
            = {uuid_store[k] : k \in DOMAIN uuid_store} \ {uuid_store[Key(d)]}
      BY <1>3, <1>5
    <2>2. QED
      BY <1>2, <1>6, <2>1 DEF DMInv, UuidsNameOne
  <1>8. \A k, l \in DOMAIN uuid_store' : uuid_store'[k] = uuid_store'[l] => k = l
    BY <1>3 DEF DMInv, UuidsNameOne
  <1>9. QED
    BY <1>4, <1>7, <1>8 DEF DMInv, UuidsNameOne

LEMMA DMUntouched == DMInv /\ UNCHANGED dmvars => DMInv'
  BY DEF DMInv, Fresh, UuidsNameOne, dmvars

LEMMA DMStep == DMInv /\ [Next]_vars => DMInv'
  <1> SUFFICES ASSUME DMInv, [Next]_vars PROVE DMInv'
    OBVIOUS
  <1>1. ASSUME NEW c \in Clients, Mkdir(c) PROVE DMInv'
    BY <1>1, MkdirKeeps DEF Mkdir
  <1>2. ASSUME NEW c \in Clients, Rmdir(c) PROVE DMInv'
    BY <1>2, RmdirKeeps DEF Rmdir
  <1>3. ASSUME NEW c \in Clients,
               \/ Look(c) \/ Begin(c) \/ BeginFails(c) \/ Access(c) \/ Create(c)
               \/ Unlink(c) \/ Stat(c) \/ Csize(c)
        PROVE  DMInv'
    <2>1. UNCHANGED dmvars
      BY <1>3 DEF Look, Begin, BeginFails, Access, Create, Unlink, Stat, Csize,
                  vars
    <2>2. QED
      BY <2>1, DMUntouched
  <1>4. CASE UNCHANGED vars
    BY <1>4, DMUntouched DEF vars
  <1>5. QED
    BY <1>1, <1>2, <1>3, <1>4 DEF Next, Client

-----------------------------------------------------------------------------
\* What the proofs below need besides.

\* The keys of both servers, and the uuids clients hold, have been handed out.
KeysKnown == DOMAIN uuid_store \subseteq (0 .. uuid_counter) \X DirNames

FilesKnown ==
    /\ suuid_counter \in Nat
    /\ DOMAIN file_store \subseteq (0 .. uuid_counter) \X FileNames
    /\ \A k \in DOMAIN file_store : file_store[k] \in [suuid : Nat, size : 0 .. MaxSize]

CallsKnown ==
    /\ pc \in [Clients -> Locations]
    /\ call \in [Clients -> Calls \cup {NoCall}]
    /\ key \in [Clients -> (0 .. uuid_counter) \X (FileNames \cup {""})]
    /\ \A c \in Clients : pc[c] # "idle" => key[c][2] \in FileNames
    /\ size \in [Clients -> 0 .. MaxSize]

\* A cache has room for its entries, and none of them is the uuid of a
\* directory at another path.
CacheOK(entries, store, top) ==
    /\ DOMAIN entries \subseteq DirPaths
    /\ IsFiniteSet(DOMAIN entries)
    /\ Cardinality(DOMAIN entries) <= CacheSize
    /\ \A d \in DOMAIN entries : entries[d] \in 2 .. top
    /\ \A d \in DOMAIN entries : \A e \in DirPaths : UuidIn(store, e) = entries[d] => e = d

CachesKnown ==
    /\ DOMAIN cache = Clients
    /\ \A c \in Clients : CacheOK(cache[c], uuid_store, uuid_counter)

DMKnown == DMInv /\ KeysKnown

LEMMA StoreIsOK == DMKnown => StoreOK(uuid_store, uuid_counter)
  BY DEF DMKnown, DMInv, Fresh, UuidsNameOne, KeysKnown, StoreOK

LEMMA DirPathParts ==
  ASSUME NEW d \in DirPaths
  PROVE  /\ d \in Seq(DirNames) /\ d # <<>> /\ Last(d) \in DirNames
         /\ Front(d) \in Seq(DirNames)
         /\ Front(d) = <<>> \/ Front(d) \in DirPaths
  <1>1. PICK n \in 1 .. MaxDepth : d \in [1 .. n -> DirNames]
    BY DEF DirPaths
  <1>2. d \in Seq(DirNames) /\ d # <<>> /\ Len(d) = n /\ n \in Nat
    BY <1>1
  <1>3. /\ Front(d) \in Seq(DirNames) /\ Len(Front(d)) = n - 1
        /\ Last(d) \in DirNames
    BY <1>2, PathParts
  <1>4. Front(d) = <<>> \/ Front(d) \in DirPaths
    <2> DEFINE up == Front(d)
    <2>1. up \in [1 .. (n - 1) -> DirNames]
      BY <1>3
    <2> HIDE DEF up
    <2>2. CASE n = 1
      BY <1>3, <2>2 DEF up
    <2>3. CASE n # 1
      <3>1. n - 1 \in 1 .. MaxDepth
        BY <1>1, <2>3, DepthAssumption
      <3> QED
        BY <2>1, <3>1 DEF DirPaths, up
    <2> QED
      BY <2>2, <2>3
  <1> QED
    BY <1>2, <1>3, <1>4

LEMMA MkdirEffect ==
  ASSUME DMKnown, NEW d \in DirPaths, CanMkdir(d), mkdir(d)
  PROVE  /\ UuidIn(uuid_store, Front(d)) # NotFound
         /\ KeyIn(uuid_store, d) \notin DOMAIN uuid_store
         /\ uuid_counter' = uuid_counter + 1
         /\ uuid_store' = Grown(uuid_store, d, uuid_counter + 1)
         /\ dir_entry' = insert_entry(dir_entry, KeyIn(uuid_store, d)[1], Last(d))
  <1>1. Key(d) = KeyIn(uuid_store, d) /\ Uuid(Front(d)) = UuidIn(uuid_store, Front(d))
    BY UuidIsIn DEF Key, KeyIn
  <1>2. uuid_counter' = uuid_counter + 1 /\ Store(d, uuid_counter')
    BY DEF mkdir
  <1> QED
    BY <1>1, <1>2 DEF CanMkdir, Store, Grown

LEMMA RmdirEffect ==
  ASSUME NEW d, rmdir(d)
  PROVE  /\ KeyIn(uuid_store, d) \in DOMAIN uuid_store
         /\ uuid_store' = Shrunk(uuid_store, d)
         /\ uuid_counter' = uuid_counter
         /\ dir_entry' = remove_entry(dir_entry, KeyIn(uuid_store, d)[1], Last(d))
  <1>1. Key(d) = KeyIn(uuid_store, d)
    BY UuidIsIn DEF Key, KeyIn
  <1>2. Key(d) \in DOMAIN uuid_store
    BY DEF rmdir, CanRmdir, Target, Child, Key
  <1> QED
    BY <1>1, <1>2 DEF rmdir, Shrunk

LEMMA MkdirKnown ==
  ASSUME DMKnown, NEW d \in DirPaths \cup {Root}, mkdir(d)
  PROVE  DMKnown' /\ uuid_counter' = uuid_counter + 1
  <1>1. DMInv' /\ uuid_counter' = uuid_counter + 1
    BY MkdirKeeps DEF DMKnown, mkdir
  <1>2. uuid_counter \in Nat
    BY DEF DMKnown, DMInv, Fresh
  <1>3. CASE ~CanMkdir(d)
    BY <1>1, <1>2, <1>3 DEF mkdir, DMKnown, KeysKnown
  <1>4. CASE CanMkdir(d)
    <2>1. d \in DirPaths
      BY <1>4 DEF CanMkdir
    <2>2. /\ UuidIn(uuid_store, Front(d)) # NotFound
          /\ uuid_store' = Grown(uuid_store, d, uuid_counter + 1)
      BY <1>4, <2>1, MkdirEffect
    <2>3. UuidIn(uuid_store, Front(d)) \in 0 .. uuid_counter /\ Last(d) \in DirNames
      BY <2>1, <2>2, DirPathParts, UuidBounds, StoreIsOK
    <2>4. KeyIn(uuid_store, d) \in (0 .. uuid_counter) \X DirNames
      BY <2>3 DEF KeyIn
    <2>5. DOMAIN uuid_store' = DOMAIN uuid_store \cup {KeyIn(uuid_store, d)}
      BY <2>2 DEF Grown
    <2> QED
      BY <1>1, <1>2, <2>4, <2>5 DEF DMKnown, KeysKnown
  <1> QED
    BY <1>3, <1>4

LEMMA RmdirKnown ==
  ASSUME DMKnown, NEW d, rmdir(d)
  PROVE  DMKnown' /\ uuid_counter' = uuid_counter
  <1>1. DMInv'
    BY RmdirKeeps DEF DMKnown
  <1>2. uuid_store' = Shrunk(uuid_store, d) /\ uuid_counter' = uuid_counter
    BY RmdirEffect
  <1>3. DOMAIN uuid_store' \subseteq DOMAIN uuid_store
    BY <1>2 DEF Shrunk
  <1> QED
    BY <1>1, <1>2, <1>3 DEF DMKnown, KeysKnown

-----------------------------------------------------------------------------
\* The lists of directories: a name is there once if its key is, or not at all,
\* and a list is of names only.

TimesListed(uuid, name) == Cardinality(Occurs(readdir(dir_entry, uuid), name))

ListInv ==
    /\ \A u : readdir(dir_entry, u) \in Seq(DirNames)
    /\ \A u : \A n \in DirNames :
          TimesListed(u, n) = IF <<u, n>> \in DOMAIN uuid_store THEN 1 ELSE 0

LEMMA InitLists == Init => ListInv
  <1> SUFFICES ASSUME Init PROVE ListInv
    OBVIOUS
  <1>1. DOMAIN uuid_store = {} /\ DOMAIN dir_entry = {}
    BY DEF Init, DMInit
  <1>2. \A u : readdir(dir_entry, u) = <<>>
    BY <1>1 DEF readdir, NoEntries
  <1>3. \A n : Occurs(<<>>, n) = {}
    BY DEF Occurs
  <1>4. \A u, n : TimesListed(u, n) = 0
    BY <1>2, <1>3, FS_EmptySet DEF TimesListed
  <1>5. \A u : readdir(dir_entry, u) \in Seq(DirNames)
    <2>1. <<>> \in Seq(DirNames)
      OBVIOUS
    <2> QED
      BY <1>2, <2>1, Zenon
  <1> QED
    BY <1>1, <1>4, <1>5 DEF ListInv

LEMMA MkdirLists ==
  ASSUME DMKnown, ListInv, NEW d \in DirPaths \cup {Root}, mkdir(d)
  PROVE  ListInv'
  <1>1. CASE ~CanMkdir(d)
    BY <1>1 DEF mkdir, ListInv, TimesListed
  <1>2. CASE CanMkdir(d)
    <2>1. d \in DirPaths
      BY <1>2 DEF CanMkdir
    <2> DEFINE at == UuidIn(uuid_store, Front(d))
               name == Last(d)
               list == readdir(dir_entry, at)
    <2>2. /\ KeyIn(uuid_store, d) = <<at, name>> /\ <<at, name>> \notin DOMAIN uuid_store
          /\ uuid_store' = Grown(uuid_store, d, uuid_counter + 1)
          /\ dir_entry' = insert_entry(dir_entry, at, name)
      BY <1>2, <2>1, MkdirEffect DEF KeyIn
    <2>3. name \in DirNames /\ list \in Seq(DirNames)
      BY <2>1, DirPathParts DEF ListInv
    <2>4. DOMAIN uuid_store' = DOMAIN uuid_store \cup {<<at, name>>}
      BY <2>2 DEF Grown
    <2> HIDE DEF at, name
    <2>5. ASSUME NEW u
          PROVE  readdir(dir_entry', u) = IF u = at THEN Append(list, name)
                                          ELSE readdir(dir_entry, u)
      BY <2>2, Inserted
    <2> HIDE DEF list
    <2>6. \A u : readdir(dir_entry', u) \in Seq(DirNames)
      BY <2>3, <2>5 DEF ListInv
    <2>7. ASSUME NEW u, NEW n \in DirNames
          PROVE  Cardinality(Occurs(readdir(dir_entry', u), n))
                    = IF <<u, n>> \in DOMAIN uuid_store' THEN 1 ELSE 0
      <3>1. TimesListed(u, n) = IF <<u, n>> \in DOMAIN uuid_store THEN 1 ELSE 0
        BY DEF ListInv
      <3>2. CASE u # at
        BY <2>4, <2>5, <3>1, <3>2 DEF TimesListed
      <3>3. CASE u = at /\ n # name
        <4>1. Occurs(Append(list, name), n) = Occurs(list, n)
          BY <2>3, <3>3, Appended
        <4> QED
          BY <2>4, <2>5, <3>1, <3>3, <4>1 DEF TimesListed, list
      <3>4. CASE u = at /\ n = name
        <4>1. Cardinality(Occurs(Append(list, name), name)) = Cardinality(Occurs(list, name)) + 1
          BY <2>3, Appended
        <4>2. Cardinality(Occurs(list, name)) = 0
          BY <2>2, <3>1, <3>4 DEF TimesListed, list
        <4>3. Cardinality(Occurs(Append(list, name), name)) = 1
          BY <4>1, <4>2
        <4>4. readdir(dir_entry', u) = Append(list, name) /\ <<u, n>> \in DOMAIN uuid_store'
          BY <2>4, <2>5, <3>4
        <4> QED
          BY <3>4, <4>3, <4>4
      <3> QED
        BY <3>2, <3>3, <3>4
    <2> QED
      BY <2>6, <2>7 DEF ListInv, TimesListed
  <1> QED
    BY <1>1, <1>2

LEMMA RmdirLists ==
  ASSUME DMKnown, ListInv, NEW d \in DirPaths, rmdir(d)
  PROVE  ListInv'
  <1> DEFINE at == UuidIn(uuid_store, Front(d))
             name == Last(d)
             list == readdir(dir_entry, at)
  <1>1. /\ KeyIn(uuid_store, d) = <<at, name>> /\ <<at, name>> \in DOMAIN uuid_store
        /\ uuid_store' = Shrunk(uuid_store, d)
        /\ dir_entry' = remove_entry(dir_entry, at, name)
    BY RmdirEffect DEF KeyIn
  <1>2. name \in DirNames /\ list \in Seq(DirNames)
    BY DirPathParts DEF ListInv
  <1>3. DOMAIN uuid_store' = DOMAIN uuid_store \ {<<at, name>>}
    BY <1>1 DEF Shrunk
  <1> HIDE DEF at, name
  <1>4. Cardinality(Occurs(list, name)) = 1
    BY <1>1, <1>2 DEF ListInv, TimesListed
  <1>5. Occurs(list, name) # {}
    BY <1>4, FS_EmptySet
  <1>6. ASSUME NEW u
        PROVE  readdir(dir_entry', u) = IF u = at THEN Removed(list, name)
                                        ELSE readdir(dir_entry, u)
    BY <1>1, <1>2, <1>5, RemovedEntry
  <1> HIDE DEF list
  <1>7. /\ Removed(list, name) \in Seq(DirNames)
        /\ Occurs(Removed(list, name), name) = {}
        /\ \A other : other # name =>
              Cardinality(Occurs(Removed(list, name), other)) = Cardinality(Occurs(list, other))
    BY <1>2, <1>4, OnceRemoved
  <1>8. \A u : readdir(dir_entry', u) \in Seq(DirNames)
    BY <1>6, <1>7 DEF ListInv
  <1>9. ASSUME NEW u, NEW n \in DirNames
        PROVE  Cardinality(Occurs(readdir(dir_entry', u), n))
                  = IF <<u, n>> \in DOMAIN uuid_store' THEN 1 ELSE 0
    <2>1. TimesListed(u, n) = IF <<u, n>> \in DOMAIN uuid_store THEN 1 ELSE 0
      BY DEF ListInv
    <2>2. CASE u # at
      BY <1>3, <1>6, <2>1, <2>2 DEF TimesListed
    <2>3. CASE u = at /\ n # name
      <3>1. Cardinality(Occurs(Removed(list, name), n)) = Cardinality(Occurs(list, n))
        BY <1>7, <2>3
      <3> QED
        BY <1>3, <1>6, <2>1, <2>3, <3>1 DEF TimesListed, list
    <2>4. CASE u = at /\ n = name
      <3>1. Cardinality(Occurs(Removed(list, name), name)) = 0
        BY <1>7, FS_EmptySet
      <3> QED
        BY <1>3, <1>6, <2>4, <3>1
    <2> QED
      BY <2>2, <2>3, <2>4
  <1> QED
    BY <1>8, <1>9 DEF ListInv, TimesListed

-----------------------------------------------------------------------------
\* Caches.

LEMMA CacheKept ==
  ASSUME NEW entries, NEW store, NEW top \in Nat, CacheOK(entries, store, top),
         NEW store2, NEW top2 \in Nat, top <= top2,
         \A e \in DirPaths : UuidIn(store2, e) = UuidIn(store, e) \/ UuidIn(store2, e) \notin 2 .. top
  PROVE  CacheOK(entries, store2, top2)
  <1>1. \A d \in DOMAIN entries : entries[d] \in 2 .. top2
    BY DEF CacheOK
  <1>2. \A d \in DOMAIN entries : \A e \in DirPaths : UuidIn(store2, e) = entries[d] => e = d
    BY DEF CacheOK
  <1> QED
    BY <1>1, <1>2 DEF CacheOK

\* lru_remove of a directory, and what CacheSet leaves of the cache first.
LEMMA CacheLess ==
  ASSUME NEW entries, NEW store, NEW top, CacheOK(entries, store, top),
         NEW kept, kept \subseteq DOMAIN entries
  PROVE  CacheOK([d \in kept |-> entries[d]], store, top)
  <1>1. IsFiniteSet(kept) /\ Cardinality(kept) <= Cardinality(DOMAIN entries)
    BY FS_Subset DEF CacheOK
  <1>2. Cardinality(kept) \in Nat /\ Cardinality(DOMAIN entries) \in Nat
    BY <1>1, FS_CardinalityType DEF CacheOK
  <1>3. Cardinality(kept) <= CacheSize
    BY <1>1, <1>2, CacheAssumption DEF CacheOK
  <1> QED
    BY <1>1, <1>3 DEF CacheOK

\* There is room for one more.
LEMMA KeptHasRoom ==
  ASSUME NEW c, NEW kept \in Kept(c), IsFiniteSet(Cached(c)),
         Cardinality(Cached(c)) <= CacheSize
  PROVE  kept \subseteq Cached(c) /\ IsFiniteSet(kept) /\ Cardinality(kept) + 1 <= CacheSize
  <1>1. Cardinality(Cached(c)) \in Nat /\ CacheSize \in Nat
    BY FS_CardinalityType, CacheAssumption
  <1>2. CASE Cardinality(Cached(c)) < CacheSize
    <2>1. kept = Cached(c)
      BY <1>2 DEF Kept
    <2> QED
      BY <1>1, <1>2, <2>1
  <1>3. CASE ~(Cardinality(Cached(c)) < CacheSize)
    <2>1. PICK d \in Cached(c) : kept = Cached(c) \ {d}
      BY <1>3 DEF Kept
    <2>2. IsFiniteSet(kept) /\ Cardinality(kept) = Cardinality(Cached(c)) - 1
      BY <2>1, FS_RemoveElement
    <2> QED
      BY <1>1, <2>1, <2>2
  <1> QED
    BY <1>2, <1>3

\* getAttr succeeds for directories other than "/" only.
LEMMA AttrIsUuid ==
  ASSUME DMKnown, NEW dir \in DirPaths \cup {Root}, HasAttr(dir)
  PROVE  dir \in DirPaths /\ Uuid(dir) \in 2 .. uuid_counter
  <1>1. Uuid(dir) = UuidIn(uuid_store, dir) /\ StoreOK(uuid_store, uuid_counter)
    BY UuidIsIn, StoreIsOK
  <1>2. Uuid(dir) \in {1} \cup (2 .. uuid_counter)
    <2>1. dm_store = {1} \cup {uuid_store[k] : k \in DOMAIN uuid_store}
      BY DEF DMKnown, DMInv, UuidsNameOne
    <2> QED
      BY <1>1, <2>1 DEF HasAttr, StoreOK
  <1>3. dir # Root
    <2>1. Uuid(Root) = 0
      BY UuidIsIn, RootIn DEF Root, RootUuid
    <2> QED
      BY <1>2, <2>1
  <1>4. dir \in DirPaths /\ dir \in Seq(DirNames) /\ dir # <<>>
    BY <1>3, DirPathParts
  <1>5. Uuid(dir) \in {NotFound} \cup (2 .. uuid_counter)
    BY <1>1, <1>4, UuidBounds
  <1> QED
    BY <1>2, <1>4, <1>5 DEF NotFound

\* A directory that has been looked up is cached with its own uuid.
LEMMA RememberKeeps ==
  ASSUME DMKnown, CachesKnown, NEW c \in Clients, NEW dir \in DirPaths \cup {Root},
         HasUuid(c, dir), Remember(c, dir), UNCHANGED dmvars
  PROVE  /\ CachesKnown'
         /\ dir \in DirPaths
         /\ GetUuid(c, dir) \in 2 .. uuid_counter
  <1>1. CacheOK(cache[c], uuid_store, uuid_counter)
    BY DEF CachesKnown
  <1>2. CASE dir \in Cached(c)
    <2>1. UNCHANGED cache
      BY <1>2 DEF Remember
    <2>2. CachesKnown'
      BY <2>1 DEF CachesKnown, dmvars
    <2> QED
      BY <1>1, <1>2, <2>2 DEF CacheOK, GetUuid, Cached
  <1>3. CASE dir \notin Cached(c)
    <2>1. dir \in DirPaths /\ Uuid(dir) \in 2 .. uuid_counter
      BY <1>3, AttrIsUuid DEF HasUuid
    <2>2. PICK kept \in Kept(c) :
             cache' = [cache EXCEPT ![c] = [d \in kept \cup {dir} |->
                                              IF d = dir THEN Uuid(dir) ELSE cache[c][d]]]
      BY <1>3 DEF Remember, CacheSet
    <2> DEFINE new == [d \in kept \cup {dir} |-> IF d = dir THEN Uuid(dir) ELSE cache[c][d]]
    <2>3. kept \subseteq Cached(c) /\ IsFiniteSet(kept) /\ Cardinality(kept) + 1 <= CacheSize
      BY <1>1, KeptHasRoom DEF CacheOK, Cached
    <2>4. IsFiniteSet(kept \cup {dir}) /\ Cardinality(kept \cup {dir}) <= CacheSize
      <3>1. dir \notin kept
        BY <1>3, <2>3
      <3>2. IsFiniteSet(kept \cup {dir}) /\ Cardinality(kept \cup {dir}) = Cardinality(kept) + 1
        BY <2>3, <3>1, FS_AddElement
      <3> QED
        BY <2>3, <3>2
    <2>5. DOMAIN new = kept \cup {dir}
      OBVIOUS
    <2>6. /\ new[dir] = Uuid(dir)
          /\ \A d \in kept : d # dir => new[d] = cache[c][d]
      OBVIOUS
    <2>7. \A e \in DirPaths : UuidIn(uuid_store, e) = Uuid(dir) => e = dir
      <3> SUFFICES ASSUME NEW e \in DirPaths, UuidIn(uuid_store, e) = Uuid(dir)
                   PROVE  e = dir
        OBVIOUS
      <3>1. UuidIn(uuid_store, e) = UuidIn(uuid_store, dir) /\ UuidIn(uuid_store, e) # NotFound
        BY <2>1, UuidIsIn DEF NotFound
      <3>2. e \in Seq(DirNames) /\ dir \in Seq(DirNames)
        BY <2>1, DirPathParts
      <3> QED
        BY <3>1, <3>2, OnePath, StoreIsOK
    <2> HIDE DEF new
    <2>8. CacheOK(new, uuid_store, uuid_counter)
      <3>1. DOMAIN new \subseteq DirPaths
        BY <1>1, <2>1, <2>3, <2>5 DEF CacheOK, Cached
      <3>2. ASSUME NEW d \in DOMAIN new
            PROVE  /\ new[d] \in 2 .. uuid_counter
                   /\ \A e \in DirPaths : UuidIn(uuid_store, e) = new[d] => e = d
        <4>1. CASE d = dir
          BY <2>1, <2>6, <2>7, <4>1
        <4>2. CASE d # dir
          <5>1. d \in kept /\ d \in DOMAIN cache[c] /\ new[d] = cache[c][d]
            BY <2>3, <2>5, <2>6, <4>2 DEF Cached
          <5> QED
            BY <1>1, <5>1 DEF CacheOK
        <4> QED
          BY <4>1, <4>2
      <3> QED
        BY <2>4, <2>5, <3>1, <3>2 DEF CacheOK
    <2>9. CachesKnown'
      <3>1. /\ DOMAIN cache' = Clients /\ cache'[c] = new
            /\ \A b \in Clients : b # c => cache'[b] = cache[b]
        BY <2>2 DEF CachesKnown, new
      <3>2. ASSUME NEW b \in Clients PROVE CacheOK(cache'[b], uuid_store, uuid_counter)
        BY <2>8, <3>1 DEF CachesKnown
      <3>3. uuid_store' = uuid_store /\ uuid_counter' = uuid_counter
        BY DEF dmvars
      <3> QED
        BY <3>1, <3>2, <3>3 DEF CachesKnown
    <2> QED
      BY <1>3, <2>1, <2>9 DEF GetUuid
  <1> QED
    BY <1>2, <1>3

LEMMA MkdirCaches ==
  ASSUME DMKnown, CachesKnown, NEW d \in DirPaths \cup {Root}, mkdir(d), UNCHANGED cache
  PROVE  CachesKnown'
  <1>1. uuid_counter \in Nat /\ uuid_counter' = uuid_counter + 1
    BY DEF mkdir, DMKnown, DMInv, Fresh
  <1>2. ASSUME NEW e \in DirPaths
        PROVE  \/ UuidIn(uuid_store', e) = UuidIn(uuid_store, e)
               \/ UuidIn(uuid_store', e) \notin 2 .. uuid_counter
    <2>1. CASE ~CanMkdir(d)
      BY <2>1 DEF mkdir
    <2>2. CASE CanMkdir(d)
      <3>1. d \in DirPaths /\ d \in Seq(DirNames) /\ d # <<>> /\ e \in Seq(DirNames)
        BY <2>2, DirPathParts DEF CanMkdir
      <3>2. UuidIn(uuid_store', e) = IF e = d THEN uuid_counter + 1 ELSE UuidIn(uuid_store, e)
        BY <2>2, <3>1, MkdirEffect, UuidGrown, StoreIsOK
      <3> QED
        BY <1>1, <3>2
    <2> QED
      BY <2>1, <2>2
  <1>3. uuid_counter' \in Nat /\ uuid_counter <= uuid_counter'
    BY <1>1
  <1>4. ASSUME NEW c \in Clients PROVE CacheOK(cache[c], uuid_store', uuid_counter')
    <2>1. CacheOK(cache[c], uuid_store, uuid_counter)
      BY DEF CachesKnown
    <2> QED
      BY <1>1, <1>2, <1>3, <2>1, CacheKept
  <1> QED
    BY <1>4 DEF CachesKnown

LEMMA RmdirCaches ==
  ASSUME DMKnown, CachesKnown, NEW c \in Clients, NEW d \in DirPaths,
         rmdir(d), CacheRemove(c, d)
  PROVE  CachesKnown'
  <1>1. uuid_counter \in Nat /\ uuid_counter' = uuid_counter
    BY DEF rmdir, DMKnown, DMInv, Fresh
  <1>2. ASSUME NEW e \in DirPaths
        PROVE  \/ UuidIn(uuid_store', e) = UuidIn(uuid_store, e)
               \/ UuidIn(uuid_store', e) \notin 2 .. uuid_counter
    <2>1. d \in Seq(DirNames) /\ d # <<>> /\ e \in Seq(DirNames)
      BY DirPathParts
    <2>2. UuidIn(uuid_store', e) = IF IsPrefix(d, e) THEN NotFound ELSE UuidIn(uuid_store, e)
      BY <2>1, RmdirEffect, UuidShrunk, StoreIsOK
    <2> QED
      BY <2>2 DEF NotFound
  <1>3. ASSUME NEW entries, CacheOK(entries, uuid_store, uuid_counter)
        PROVE  CacheOK(entries, uuid_store', uuid_counter')
    <2>1. uuid_counter <= uuid_counter
      BY <1>1
    <2> QED
      BY <1>1, <1>2, <1>3, <2>1, CacheKept
  <1> DEFINE rest == [e \in Cached(c) \ {d} |-> cache[c][e]]
  <1>4. CacheOK(rest, uuid_store, uuid_counter)
    BY CacheLess DEF CachesKnown, Cached
  <1>5. /\ DOMAIN cache' = Clients /\ cache'[c] = rest
        /\ \A b \in Clients : b # c => cache'[b] = cache[b]
    BY DEF CacheRemove, CachesKnown
  <1> HIDE DEF rest
  <1>6. ASSUME NEW b \in Clients PROVE CacheOK(cache'[b], uuid_store', uuid_counter')
    BY <1>3, <1>4, <1>5 DEF CachesKnown
  <1> QED
    BY <1>5, <1>6 DEF CachesKnown

-----------------------------------------------------------------------------
\* The file server and the calls of clients.

LEMMA FilePathParts ==
  ASSUME NEW d \in DirPaths \cup {Root}, NEW f
  PROVE  Front(Append(d, f)) = d /\ Last(Append(d, f)) = f
  <1>1. d \in Seq(DirNames)
    <2>1. <<>> \in Seq(DirNames)
      OBVIOUS
    <2> QED
      BY <2>1, DirPathParts, Zenon DEF Root
  <1> QED
    BY <1>1 DEF Front, Last

LEMMA CreateKnown ==
  ASSUME FilesKnown, NEW k \in (0 .. uuid_counter) \X FileNames, create(k),
         UNCHANGED uuid_counter
  PROVE  FilesKnown'
  <1>1. /\ DOMAIN file_store' = DOMAIN file_store \cup {k}
        /\ file_store'[k] = [suuid |-> suuid_counter, size |-> 0]
        /\ \A l \in DOMAIN file_store : l # k => file_store'[l] = file_store[l]
        /\ suuid_counter' = suuid_counter + 1
    BY DEF create
  <1>2. 0 \in 0 .. MaxSize
    BY SizeAssumption
  <1> QED
    BY <1>1, <1>2 DEF FilesKnown

LEMMA RemoveKnown ==
  ASSUME FilesKnown, NEW k, remove(k), UNCHANGED uuid_counter
  PROVE  FilesKnown'
  <1>1. /\ DOMAIN file_store' = DOMAIN file_store \ {k}
        /\ \A l \in DOMAIN file_store' : file_store'[l] = file_store[l]
        /\ suuid_counter' = suuid_counter
    BY DEF remove
  <1> QED
    BY <1>1 DEF FilesKnown

LEMMA CsizeKnown ==
  ASSUME FilesKnown, NEW k, NEW n \in 0 .. MaxSize, csize(k, n), UNCHANGED uuid_counter
  PROVE  FilesKnown'
  <1>1. /\ DOMAIN file_store' = DOMAIN file_store
        /\ file_store'[k] = [suuid |-> file_store[k].suuid, size |-> n]
        /\ \A l \in DOMAIN file_store : l # k => file_store'[l] = file_store[l]
        /\ k \in DOMAIN file_store
        /\ suuid_counter' = suuid_counter
    BY DEF csize, Exists
  <1> QED
    BY <1>1 DEF FilesKnown

LEMMA NoKeyIsKey ==
  ASSUME NEW n \in Nat
  PROVE  NoKey \in (0 .. n) \X (FileNames \cup {""})
  <1>1. NoKey = <<0, "">>
    BY DEF NoKey, RootUuid
  <1>2. 0 \in 0 .. n
    OBVIOUS
  <1> QED
    BY <1>1, <1>2, Zenon

\* A client that returns holds nothing.
LEMMA ReturnKnown ==
  ASSUME DMKnown, CallsKnown, NEW c \in Clients, Return(c), UNCHANGED uuid_counter
  PROVE  CallsKnown'
  <1>1. NoKey \in (0 .. uuid_counter) \X (FileNames \cup {""})
    BY NoKeyIsKey DEF DMKnown, DMInv, Fresh
  <1>2. 0 \in 0 .. MaxSize
    BY SizeAssumption
  <1>3. /\ pc' \in [Clients -> Locations]
        /\ call' \in [Clients -> Calls \cup {NoCall}]
        /\ key' \in [Clients -> (0 .. uuid_counter) \X (FileNames \cup {""})]
        /\ size' \in [Clients -> 0 .. MaxSize]
    BY <1>1, <1>2 DEF Return, Goto, CallsKnown, Locations
  <1>4. \A b \in Clients : pc'[b] # "idle" => key'[b][2] \in FileNames
    BY DEF Return, Goto, CallsKnown
  <1> QED
    BY <1>3, <1>4 DEF CallsKnown

\* A client in a call has the key of a file.
LEMMA KeyKnown ==
  ASSUME CallsKnown, NEW c \in Clients, pc[c] # "idle"
  PROVE  key[c] \in (0 .. uuid_counter) \X FileNames
  <1>1. key[c] \in (0 .. uuid_counter) \X (FileNames \cup {""}) /\ key[c][2] \in FileNames
    BY DEF CallsKnown
  <1> QED
    BY <1>1

LEMMA GrowingCounter ==
  ASSUME uuid_counter \in Nat, uuid_counter' \in Nat, uuid_counter <= uuid_counter'
  PROVE  /\ FilesKnown /\ UNCHANGED fmvars => FilesKnown'
         /\ CallsKnown /\ UNCHANGED <<pc, call, key, size>> => CallsKnown'
  <1>1. 0 .. uuid_counter \subseteq 0 .. uuid_counter'
    OBVIOUS
  <1>2. FilesKnown /\ UNCHANGED fmvars => FilesKnown'
    BY <1>1 DEF FilesKnown, fmvars
  <1>3. CallsKnown /\ UNCHANGED <<pc, call, key, size>> => CallsKnown'
    <2> SUFFICES ASSUME CallsKnown, UNCHANGED <<pc, call, key, size>> PROVE CallsKnown'
      OBVIOUS
    <2>1. key \in [Clients -> (0 .. uuid_counter') \X (FileNames \cup {""})]
      BY <1>1 DEF CallsKnown
    <2> QED
      BY <2>1 DEF CallsKnown
  <1> QED
    BY <1>2, <1>3

-----------------------------------------------------------------------------
IInv == DMKnown /\ ListInv /\ FilesKnown /\ CallsKnown /\ CachesKnown

LEMMA InitInv == Init => IInv
  <1> SUFFICES ASSUME Init PROVE IInv
    OBVIOUS
  <1>1. uuid_counter = 1 /\ DOMAIN uuid_store = {}
    BY DEF Init, DMInit
  <1>2. DMKnown
    BY <1>1, InitFresh DEF DMKnown, KeysKnown
  <1>3. FilesKnown
    BY DEF Init, FMInit, FilesKnown
  <1>4. CallsKnown
    <2>1. NoKey \in (0 .. uuid_counter) \X (FileNames \cup {""})
      <3>1. uuid_counter \in Nat
        BY <1>1
      <3> QED
        BY <3>1, NoKeyIsKey
    <2>2. 0 \in 0 .. MaxSize
      BY SizeAssumption
    <2> QED
      BY <2>1, <2>2 DEF Init, CallsKnown, Locations
  <1>5. CachesKnown
    <2>1. DOMAIN cache = Clients /\ \A c \in Clients : DOMAIN cache[c] = {}
      BY DEF Init
    <2>2. IsFiniteSet({}) /\ Cardinality({}) <= CacheSize
      BY FS_EmptySet, CacheAssumption
    <2> QED
      BY <2>1, <2>2 DEF CachesKnown, CacheOK
  <1> QED
    BY <1>2, <1>3, <1>4, <1>5, InitLists DEF IInv

\* The directory server's part of a step that is none of its handlers.
LEMMA DMStays ==
  ASSUME IInv, UNCHANGED dmvars
  PROVE  /\ DMKnown' /\ ListInv'
         /\ UNCHANGED cache => CachesKnown'
         /\ UNCHANGED fmvars => FilesKnown'
         /\ UNCHANGED <<pc, call, key, size>> => CallsKnown'
         /\ uuid_counter \in Nat /\ UNCHANGED uuid_counter
  <1>1. UNCHANGED <<uuid_counter, uuid_store, dm_store, dir_entry>> /\ uuid_counter \in Nat
    BY DEF dmvars, IInv, DMKnown, DMInv, Fresh
  <1>2. DMKnown'
    BY <1>1, DMUntouched DEF IInv, DMKnown, KeysKnown
  <1>3. ListInv'
    BY <1>1 DEF IInv, ListInv, TimesListed
  <1>4. UNCHANGED cache => CachesKnown'
    BY <1>1 DEF IInv, CachesKnown
  <1>5. uuid_counter' \in Nat /\ uuid_counter <= uuid_counter'
    BY <1>1
  <1> QED
    BY <1>1, <1>2, <1>3, <1>4, <1>5, GrowingCounter DEF IInv

LEMMA BeginKeeps ==
  ASSUME IInv, NEW c \in Clients, Begin(c)
  PROVE  IInv'
  <1>1. PICK k \in Calls :
          /\ HasUuid(c, Front(k.path))
          /\ Remember(c, Front(k.path))
          /\ call' = [call EXCEPT ![c] = k]
          /\ key' = [key EXCEPT ![c] = FileKey(c, k.path)]
          /\ pc' = [pc EXCEPT ![c] = Then(k.op)]
    BY DEF Begin, Goto
  <1>2. UNCHANGED <<dmvars, fmvars, size>>
    BY DEF Begin
  <1>3. PICK d \in DirPaths \cup {Root}, f \in FileNames : k.path = Append(d, f)
    BY <1>1 DEF Calls, FilePaths
  <1>4. Front(k.path) = d /\ Last(k.path) = f
    BY <1>3, FilePathParts
  <1>5. CachesKnown' /\ GetUuid(c, d) \in 2 .. uuid_counter
    BY <1>1, <1>2, <1>4, RememberKeeps DEF IInv
  <1>6. DMKnown' /\ ListInv' /\ FilesKnown' /\ uuid_counter \in Nat /\ UNCHANGED uuid_counter
    BY <1>2, DMStays
  <1>7. FileKey(c, k.path) \in (0 .. uuid_counter) \X (FileNames \cup {""})
    <2>1. GetUuid(c, d) \in 0 .. uuid_counter
      BY <1>5, <1>6
    <2> QED
      BY <1>4, <2>1 DEF FileKey
  <1>8. k.op \in FileOps
    BY DEF Calls
  <1>9. Then(k.op) \in Locations
    BY <1>8 DEF Then, FileOps, Locations
  <1>10. CallsKnown'
    <2>1. /\ call' \in [Clients -> Calls \cup {NoCall}]
          /\ key' \in [Clients -> (0 .. uuid_counter) \X (FileNames \cup {""})]
          /\ pc' \in [Clients -> Locations]
          /\ size' \in [Clients -> 0 .. MaxSize]
      BY <1>1, <1>2, <1>7, <1>9 DEF IInv, CallsKnown
    <2>2. FileKey(c, k.path)[2] \in FileNames
      BY <1>4 DEF FileKey
    <2>3. \A b \in Clients : pc'[b] # "idle" => key'[b][2] \in FileNames
      BY <1>1, <2>2 DEF IInv, CallsKnown
    <2> QED
      BY <1>6, <2>1, <2>3 DEF CallsKnown
  <1> QED
    BY <1>5, <1>6, <1>10 DEF IInv

LEMMA InvStep == IInv /\ [Next]_vars => IInv'
  <1> SUFFICES ASSUME IInv, [Next]_vars PROVE IInv'
    OBVIOUS
  <1>1. uuid_counter \in Nat
    BY DEF IInv, DMKnown, DMInv, Fresh
  <1>2. ASSUME NEW c \in Clients, Mkdir(c) PROVE IInv'
    <2>1. PICK d \in DirPaths \cup {Root} : mkdir(d)
      BY <1>2 DEF Mkdir
    <2>2. UNCHANGED fmvars /\ UNCHANGED <<pc, call, key, size>> /\ UNCHANGED cache
      BY <1>2 DEF Mkdir, clvars
    <2>3. DMKnown' /\ uuid_counter' = uuid_counter + 1
      BY <2>1, MkdirKnown DEF IInv
    <2>4. ListInv' /\ CachesKnown'
      BY <2>1, <2>2, MkdirLists, MkdirCaches DEF IInv
    <2>5. uuid_counter' \in Nat /\ uuid_counter <= uuid_counter'
      BY <1>1, <2>3
    <2>6. FilesKnown' /\ CallsKnown'
      BY <1>1, <2>2, <2>5, GrowingCounter DEF IInv
    <2> QED
      BY <2>3, <2>4, <2>6 DEF IInv
  <1>3. ASSUME NEW c \in Clients, Rmdir(c) PROVE IInv'
    <2>1. PICK d \in DirPaths : rmdir(d) /\ CacheRemove(c, d)
      BY <1>3 DEF Rmdir
    <2>2. UNCHANGED fmvars /\ UNCHANGED <<pc, call, key, size>>
      BY <1>3 DEF Rmdir
    <2>3. DMKnown' /\ uuid_counter' = uuid_counter
      BY <2>1, RmdirKnown DEF IInv
    <2>4. ListInv' /\ CachesKnown'
      BY <2>1, RmdirLists, RmdirCaches DEF IInv
    <2>5. uuid_counter' \in Nat /\ uuid_counter <= uuid_counter'
      BY <1>1, <2>3
    <2>6. FilesKnown' /\ CallsKnown'
      BY <1>1, <2>2, <2>5, GrowingCounter DEF IInv
    <2> QED
      BY <2>3, <2>4, <2>6 DEF IInv
  <1>4. ASSUME NEW c \in Clients, Look(c) PROVE IInv'
    <2>1. PICK d \in DirPaths : HasUuid(c, d) /\ Remember(c, d)
      BY <1>4 DEF Look
    <2>2. UNCHANGED dmvars /\ UNCHANGED fmvars /\ UNCHANGED <<pc, call, key, size>>
      BY <1>4 DEF Look
    <2>3. CachesKnown'
      BY <2>1, <2>2, RememberKeeps DEF IInv
    <2> QED
      BY <2>2, <2>3, DMStays DEF IInv
  <1>5. ASSUME NEW c \in Clients, Begin(c) PROVE IInv'
    BY <1>5, BeginKeeps
  <1>6. ASSUME UNCHANGED vars PROVE IInv'
    BY <1>6, DMStays DEF IInv, vars, clvars
  <1>7. ASSUME NEW c \in Clients, Access(c) PROVE IInv'
    <2>1. UNCHANGED dmvars /\ UNCHANGED fmvars /\ UNCHANGED cache
      BY <1>7 DEF Access
    <2>2. CASE Exists(key[c])
      <3>1. CallsKnown'
        BY <1>7, <2>1, <2>2, DMStays, ReturnKnown DEF IInv, Access
      <3> QED
        BY <2>1, <3>1, DMStays DEF IInv
    <2>3. CASE ~Exists(key[c])
      <3>1. /\ pc[c] = "access" /\ pc' = [pc EXCEPT ![c] = "create"]
            /\ UNCHANGED <<call, key, size>>
        BY <1>7, <2>3 DEF Access, Goto
      <3>2. CallsKnown'
        BY <2>1, <3>1, DMStays DEF IInv, CallsKnown, Locations
      <3> QED
        BY <2>1, <3>2, DMStays DEF IInv
    <2> QED
      BY <2>2, <2>3
  <1>8. ASSUME NEW c \in Clients, Create(c) PROVE IInv'
    <2>1. /\ UNCHANGED dmvars /\ UNCHANGED cache /\ Return(c)
          /\ create(key[c]) /\ pc[c] # "idle"
      BY <1>8 DEF Create
    <2>2. key[c] \in (0 .. uuid_counter) \X FileNames
      BY <2>1, KeyKnown DEF IInv
    <2>3. FilesKnown' /\ CallsKnown'
      BY <2>1, <2>2, DMStays, CreateKnown, ReturnKnown DEF IInv
    <2> QED
      BY <2>1, <2>3, DMStays DEF IInv
  <1>9. ASSUME NEW c \in Clients, Unlink(c) PROVE IInv'
    <2>1. /\ UNCHANGED dmvars /\ UNCHANGED cache /\ Return(c)
          /\ remove(key[c]) \/ UNCHANGED fmvars
      BY <1>9 DEF Unlink
    <2>2. FilesKnown' /\ CallsKnown'
      BY <2>1, DMStays, RemoveKnown, ReturnKnown DEF IInv
    <2> QED
      BY <2>1, <2>2, DMStays DEF IInv
  <1>10. ASSUME NEW c \in Clients, Stat(c) PROVE IInv'
    <2>1. UNCHANGED dmvars /\ UNCHANGED fmvars /\ UNCHANGED cache
      BY <1>10 DEF Stat
    <2>2. CASE ~Exists(key[c])
      <3>1. CallsKnown'
        BY <1>10, <2>1, <2>2, DMStays, ReturnKnown DEF IInv, Stat
      <3> QED
        BY <2>1, <3>1, DMStays DEF IInv
    <2>3. CASE Exists(key[c])
      <3>1. /\ pc[c] = "stat" /\ pc' = [pc EXCEPT ![c] = "csize"]
            /\ UNCHANGED <<call, key>>
            /\ size' = [size EXCEPT ![c] = file_store[key[c]].size]
        BY <1>10, <2>3 DEF Stat, Goto
      <3>2. file_store[key[c]].size \in 0 .. MaxSize
        BY <2>3 DEF Exists, IInv, FilesKnown
      <3>3. CallsKnown'
        BY <2>1, <3>1, <3>2, DMStays DEF IInv, CallsKnown, Locations
      <3> QED
        BY <2>1, <3>3, DMStays DEF IInv
    <2> QED
      BY <2>2, <2>3
  <1>11. ASSUME NEW c \in Clients, Csize(c) PROVE IInv'
    <2>1. UNCHANGED dmvars /\ UNCHANGED cache /\ Return(c)
      BY <1>11 DEF Csize
    <2>2. CallsKnown'
      BY <2>1, DMStays, ReturnKnown DEF IInv
    <2>3. FilesKnown'
      <3>1. CASE ~Exists(key[c])
        BY <1>11, <2>1, <3>1, DMStays DEF Csize
      <3>2. CASE Exists(key[c])
        <4>1. PICK end \in 1 .. MaxSize : csize(key[c], IF size[c] > end THEN size[c] ELSE end)
          BY <1>11, <3>2 DEF Csize
        <4>2. size[c] \in 0 .. MaxSize
          BY DEF IInv, CallsKnown
        <4>3. (IF size[c] > end THEN size[c] ELSE end) \in 0 .. MaxSize
          BY <4>2, SizeAssumption
        <4> QED
          BY <2>1, <4>1, <4>3, DMStays, CsizeKnown DEF IInv
      <3> QED
        BY <3>1, <3>2
    <2> QED
      BY <2>1, <2>2, <2>3, DMStays DEF IInv
  <1>12. ASSUME NEW c \in Clients, BeginFails(c) PROVE IInv'
    BY <1>6, <1>12 DEF BeginFails
  <1> QED
    BY <1>2, <1>3, <1>4, <1>5, <1>6, <1>7, <1>8, <1>9, <1>10, <1>11, <1>12
       DEF Next, Client

-----------------------------------------------------------------------------
\* The tree.

\* ShownDirs and ShownFiles as functions of the two stores.
DirsIn(store) == {d \in DirPaths : UuidIn(store, d) # NotFound}
IsFile(x, store, inodes) ==
    \E d \in DirsIn(store), k \in DOMAIN inodes :
        k[1] = UuidIn(store, d) /\ x = <<Append(d, k[2]), inodes[k].size>>

LEMMA DirsShown ==
  ShownDirs = DirsIn(uuid_store) /\ ShownDirs' = DirsIn(uuid_store')
  BY UuidIsIn DEF ShownDirs, DirsIn

LEMMA FilesShown ==
  ASSUME NEW x
  PROVE  /\ x \in ShownFiles <=> IsFile(x, uuid_store, file_store)
         /\ x \in ShownFiles' <=> IsFile(x, uuid_store', file_store')
  <1>1. x \in ShownFiles <=> IsFile(x, uuid_store, file_store)
    BY DirsShown, UuidIsIn DEF ShownFiles, FilesOf, IsFile
  <1>2. x \in ShownFiles' <=> IsFile(x, uuid_store', file_store')
    BY DirsShown, UuidIsIn DEF ShownFiles, FilesOf, IsFile
  <1> QED
    BY <1>1, <1>2

LEMMA SameStores ==
  ASSUME UNCHANGED uuid_store, UNCHANGED file_store
  PROVE  UNCHANGED <<ShownDirs, ShownFiles>>
  <1>1. ShownDirs' = ShownDirs
    BY DirsShown
  <1>2. \A x : x \in ShownFiles' <=> x \in ShownFiles
    BY FilesShown
  <1>3. ShownFiles' = ShownFiles
    BY <1>2
  <1> QED
    BY <1>1, <1>3

LEMMA TreeOperators ==
  /\ \A p : Tree!Front(p) = Front(p)
  /\ \A p, q : Tree!IsPrefix(p, q) = IsPrefix(p, q)
  BY DEF Tree!Front, Front, Tree!IsPrefix, IsPrefix

LEMMA MkdirTree ==
  ASSUME IInv, NEW d \in DirPaths \cup {Root}, mkdir(d), UNCHANGED file_store
  PROVE  Tree!Mkdir(d) \/ UNCHANGED <<ShownDirs, ShownFiles>>
  <1>1. CASE ~CanMkdir(d)
    BY <1>1, SameStores DEF mkdir
  <1>2. CASE CanMkdir(d)
    <2> DEFINE store == uuid_store
               grown == uuid_store'
               top == uuid_counter
    <2>1. d \in DirPaths /\ d \in Seq(DirNames) /\ d # <<>>
      BY <1>2, DirPathParts DEF CanMkdir
    <2>2. /\ UuidIn(store, Front(d)) # NotFound
          /\ KeyIn(store, d) \notin DOMAIN store
          /\ grown = Grown(store, d, top + 1)
      BY <1>2, <2>1, MkdirEffect DEF IInv
    <2>3. StoreOK(store, top) /\ top \in Nat
      BY StoreIsOK DEF IInv, StoreOK
    <2>4. ASSUME NEW e \in DirPaths
          PROVE  UuidIn(grown, e) = IF e = d THEN top + 1 ELSE UuidIn(store, e)
      <3>1. e \in Seq(DirNames)
        BY DirPathParts
      <3> QED
        BY <2>1, <2>2, <2>3, <3>1, UuidGrown
    <2>5. UuidIn(store, d) = NotFound
      BY <2>1, <2>2, StepIn DEF ChildIn, KeyIn
    <2>6. top + 1 # NotFound
      BY <2>3 DEF NotFound
    <2>7. \A k \in DOMAIN file_store : k[1] # top + 1
      BY <2>3 DEF IInv, FilesKnown
    <2> HIDE DEF grown, store, top
    <2>8. d \notin DirsIn(store) /\ DirsIn(grown) = DirsIn(store) \cup {d}
      BY <2>1, <2>4, <2>5, <2>6 DEF DirsIn
    <2>9. Front(d) \in DirsIn(store) \cup {<<>>}
      BY <2>1, <2>2, DirPathParts DEF DirsIn
    <2>10. ASSUME NEW x
           PROVE  IsFile(x, grown, file_store) <=> IsFile(x, store, file_store)
      <3>1. ASSUME NEW e \in DirsIn(grown), NEW k \in DOMAIN file_store, k[1] = UuidIn(grown, e)
            PROVE  e \in DirsIn(store) /\ k[1] = UuidIn(store, e)
        BY <2>4, <2>7, <3>1 DEF DirsIn
      <3>2. ASSUME NEW e \in DirsIn(store)
            PROVE  e \in DirsIn(grown) /\ UuidIn(grown, e) = UuidIn(store, e)
        BY <2>4, <2>5 DEF DirsIn
      <3> QED
        BY <3>1, <3>2 DEF IsFile
    <2>11. ShownFiles' = ShownFiles
      <3>1. \A x : x \in ShownFiles' <=> x \in ShownFiles
        BY <2>10, FilesShown DEF grown, store
      <3> QED
        BY <3>1
    <2>12. Tree!Mkdir(d)
      BY <2>8, <2>9, <2>11, DirsShown, TreeOperators DEF Tree!Mkdir, grown, store
    <2> QED
      BY <2>12
  <1> QED
    BY <1>1, <1>2

LEMMA RmdirTree ==
  ASSUME IInv, NEW d \in DirPaths, rmdir(d), UNCHANGED file_store
  PROVE  Tree!Rmdir(d)
  <1> DEFINE store == uuid_store
             shrunk == uuid_store'
             top == uuid_counter
  <1>1. d \in Seq(DirNames) /\ d # <<>>
    BY DirPathParts
  <1>2. KeyIn(store, d) \in DOMAIN store /\ shrunk = Shrunk(store, d)
    BY RmdirEffect
  <1>3. StoreOK(store, top)
    BY StoreIsOK DEF IInv
  <1>4. ASSUME NEW e \in DirPaths
        PROVE  UuidIn(shrunk, e) = IF IsPrefix(d, e) THEN NotFound ELSE UuidIn(store, e)
    <2>1. e \in Seq(DirNames)
      BY DirPathParts
    <2> QED
      BY <1>1, <1>2, <1>3, <2>1, UuidShrunk
  <1>5. UuidIn(store, d) # NotFound
    <2>1. UuidIn(store, d) = store[KeyIn(store, d)]
      BY <1>1, <1>2, StepIn DEF ChildIn, KeyIn
    <2> QED
      BY <1>2, <1>3, <2>1 DEF StoreOK, NotFound
  <1> HIDE DEF store, shrunk, top
  <1>6. d \in DirsIn(store) /\ DirsIn(shrunk) = {e \in DirsIn(store) : ~IsPrefix(d, e)}
    BY <1>4, <1>5 DEF DirsIn
  <1>7. ASSUME NEW x
        PROVE  IsFile(x, shrunk, file_store)
                  <=> IsFile(x, store, file_store) /\ ~IsPrefix(d, Front(x[1]))
    <2>1. ASSUME NEW e \in DirsIn(store), NEW k \in DOMAIN file_store,
                 x = <<Append(e, k[2]), file_store[k].size>>
          PROVE  Front(x[1]) = e
      <3>1. e \in DirPaths \cup {Root} /\ x[1] = Append(e, k[2])
        BY <2>1 DEF DirsIn
      <3> QED
        BY <3>1, FilePathParts
    <2>2. ASSUME NEW e \in DirsIn(shrunk)
          PROVE  e \in DirsIn(store) /\ ~IsPrefix(d, e) /\ UuidIn(shrunk, e) = UuidIn(store, e)
      BY <1>4, <1>6 DEF DirsIn
    <2>3. ASSUME NEW e \in DirsIn(store), ~IsPrefix(d, e)
          PROVE  e \in DirsIn(shrunk) /\ UuidIn(shrunk, e) = UuidIn(store, e)
      BY <1>4, <1>6, <2>3 DEF DirsIn
    <2> QED
      BY <2>1, <2>2, <2>3 DEF IsFile
  <1>8. ShownFiles' = {x \in ShownFiles : ~IsPrefix(d, Front(x[1]))}
    <2>1. \A x : x \in ShownFiles' <=> x \in ShownFiles /\ ~IsPrefix(d, Front(x[1]))
      BY <1>7, FilesShown DEF store, shrunk
    <2> QED
      BY <2>1
  <1> QED
    BY <1>6, <1>8, DirsShown, TreeOperators DEF Tree!Rmdir, store, shrunk

\* Stores that differ at one key show the same files but at one path, ...
OtherwiseSame(inodes, inodes2, k) ==
    \A l : l # k => /\ l \in DOMAIN inodes <=> l \in DOMAIN inodes2
                    /\ l \in DOMAIN inodes => inodes[l] = inodes2[l]

LEMMA FilesAt ==
  ASSUME NEW store, NEW top, StoreOK(store, top), NEW d \in DirsIn(store),
         NEW f, NEW inodes, NEW inodes2,
         DOMAIN inodes \subseteq Nat \X FileNames, DOMAIN inodes2 \subseteq Nat \X FileNames,
         OtherwiseSame(inodes, inodes2, <<UuidIn(store, d), f>>), NEW x
  PROVE  IsFile(x, store, inodes2)
            <=> \/ IsFile(x, store, inodes) /\ x[1] # Append(d, f)
                \/ /\ <<UuidIn(store, d), f>> \in DOMAIN inodes2
                   /\ x = <<Append(d, f), inodes2[<<UuidIn(store, d), f>>].size>>
  <1> DEFINE at == <<UuidIn(store, d), f>>
             path == Append(d, f)
  <1>1. ASSUME NEW e \in DirsIn(store), NEW k \in Nat \X FileNames, k[1] = UuidIn(store, e)
        PROVE  k = at <=> Append(e, k[2]) = path
    <2>1. e \in DirPaths /\ d \in DirPaths /\ UuidIn(store, e) # NotFound
      BY DEF DirsIn
    <2>2. e \in Seq(DirNames) /\ d \in Seq(DirNames)
      BY <2>1, DirPathParts
    <2>3. k = at => Append(e, k[2]) = path
      <3>1. k = at => UuidIn(store, e) = UuidIn(store, d) /\ k[2] = f
        BY <1>1
      <3> QED
        BY <2>1, <2>2, <3>1, OnePath
    <2>4. Append(e, k[2]) = path => e = d /\ k[2] = f
      <3>1. /\ Front(Append(e, k[2])) = e /\ Last(Append(e, k[2])) = k[2]
            /\ Front(path) = d /\ Last(path) = f
        BY <2>1, FilePathParts
      <3> HIDE DEF path
      <3> QED
        BY <3>1
    <2>5. k = <<k[1], k[2]>>
      OBVIOUS
    <2> QED
      BY <1>1, <2>3, <2>4, <2>5
  <1>2. at[1] = UuidIn(store, d) /\ at[2] = f
    OBVIOUS
  <1> HIDE DEF at, path
  <1>3. ASSUME IsFile(x, store, inodes2)
        PROVE  \/ IsFile(x, store, inodes) /\ x[1] # path
               \/ at \in DOMAIN inodes2 /\ x = <<path, inodes2[at].size>>
    <2>1. PICK e \in DirsIn(store), k \in DOMAIN inodes2 :
             k[1] = UuidIn(store, e) /\ x = <<Append(e, k[2]), inodes2[k].size>>
      BY <1>3 DEF IsFile
    <2>2. k = at <=> Append(e, k[2]) = path
      BY <1>1, <2>1
    <2>3. CASE k = at
      BY <2>1, <2>2, <2>3
    <2>4. CASE k # at
      <3>1. k \in DOMAIN inodes /\ inodes[k] = inodes2[k]
        BY <2>4 DEF OtherwiseSame, at
      <3>2. IsFile(x, store, inodes)
        BY <2>1, <3>1 DEF IsFile
      <3>3. x[1] # path
        BY <2>1, <2>2, <2>4
      <3> QED
        BY <3>2, <3>3
    <2> QED
      BY <2>3, <2>4
  <1>4. ASSUME IsFile(x, store, inodes), x[1] # path
        PROVE  IsFile(x, store, inodes2)
    <2>1. PICK e \in DirsIn(store), k \in DOMAIN inodes :
             k[1] = UuidIn(store, e) /\ x = <<Append(e, k[2]), inodes[k].size>>
      BY <1>4 DEF IsFile
    <2>2. k # at
      BY <1>1, <1>4, <2>1
    <2>3. k \in DOMAIN inodes2 /\ inodes2[k] = inodes[k]
      BY <2>2 DEF OtherwiseSame, at
    <2> QED
      BY <2>1, <2>3 DEF IsFile
  <1>5. ASSUME at \in DOMAIN inodes2, x = <<path, inodes2[at].size>>
        PROVE  IsFile(x, store, inodes2)
    BY <1>2, <1>5 DEF IsFile, path
  <1> QED
    BY <1>3, <1>4, <1>5 DEF at, path

\* ... or the same files, if no directory has that uuid any more.
LEMMA FilesElsewhere ==
  ASSUME NEW store, NEW k, \A d \in DirsIn(store) : UuidIn(store, d) # k[1],
         NEW inodes, NEW inodes2, OtherwiseSame(inodes, inodes2, k), NEW x
  PROVE  IsFile(x, store, inodes2) <=> IsFile(x, store, inodes)
  BY DEF IsFile, OtherwiseSame

\* What a handler of the file server does to the tree.
LEMMA FileTreeStep ==
  ASSUME IInv, NEW k \in (0 .. uuid_counter) \X FileNames, UNCHANGED uuid_store,
         DOMAIN file_store' \subseteq Nat \X FileNames,
         OtherwiseSame(file_store, file_store', k)
  PROVE  \/ UNCHANGED <<ShownDirs, ShownFiles>>
         \/ \E d \in ShownDirs :
              /\ UNCHANGED ShownDirs
              /\ Append(d, k[2]) \in FilePaths
              /\ \A x : x \in ShownFiles'
                          <=> \/ x \in ShownFiles /\ x[1] # Append(d, k[2])
                              \/ k \in DOMAIN file_store' /\ x = <<Append(d, k[2]), file_store'[k].size>>
              /\ \A x : x \in ShownFiles
                          <=> \/ x \in ShownFiles /\ x[1] # Append(d, k[2])
                              \/ k \in DOMAIN file_store /\ x = <<Append(d, k[2]), file_store[k].size>>
  <1> DEFINE store == uuid_store
             old == file_store
             new == file_store'
  <1>1. ShownDirs' = ShownDirs /\ ShownDirs = DirsIn(store)
    BY DirsShown
  <1>2. StoreOK(store, uuid_counter) /\ DOMAIN old \subseteq Nat \X FileNames
    BY StoreIsOK DEF IInv, FilesKnown
  <1>3. \A x : /\ x \in ShownFiles <=> IsFile(x, store, old)
               /\ x \in ShownFiles' <=> IsFile(x, store, new)
    BY FilesShown
  <1>4. k = <<k[1], k[2]>> /\ k[2] \in FileNames
    OBVIOUS
  <1>5. OtherwiseSame(old, old, k)
    BY DEF OtherwiseSame
  <1> HIDE DEF store, old, new
  <1>6. CASE \A d \in DirsIn(store) : UuidIn(store, d) # k[1]
    <2>1. \A x : x \in ShownFiles' <=> x \in ShownFiles
      BY <1>3, <1>6, FilesElsewhere DEF old, new
    <2>2. ShownFiles' = ShownFiles
      BY <2>1
    <2> QED
      BY <1>1, <2>2
  <1>7. ASSUME NEW d \in DirsIn(store), UuidIn(store, d) = k[1]
        PROVE  /\ Append(d, k[2]) \in FilePaths
               /\ \A x : x \in ShownFiles'
                           <=> \/ x \in ShownFiles /\ x[1] # Append(d, k[2])
                               \/ k \in DOMAIN new /\ x = <<Append(d, k[2]), new[k].size>>
               /\ \A x : x \in ShownFiles
                           <=> \/ x \in ShownFiles /\ x[1] # Append(d, k[2])
                               \/ k \in DOMAIN old /\ x = <<Append(d, k[2]), old[k].size>>
    <2>1. Append(d, k[2]) \in FilePaths
      BY <1>4 DEF DirsIn, FilePaths
    <2>2. <<UuidIn(store, d), k[2]>> = k
      BY <1>4, <1>7
    <2>3. ASSUME NEW x
          PROVE  IsFile(x, store, new)
                   <=> \/ IsFile(x, store, old) /\ x[1] # Append(d, k[2])
                       \/ k \in DOMAIN new /\ x = <<Append(d, k[2]), new[k].size>>
      <3>1. OtherwiseSame(old, new, <<UuidIn(store, d), k[2]>>)
        BY <2>2 DEF old, new
      <3>2. DOMAIN new \subseteq Nat \X FileNames
        BY DEF new
      <3> QED
        BY <1>2, <2>2, <3>1, <3>2, FilesAt
    <2>4. ASSUME NEW x
          PROVE  IsFile(x, store, old)
                   <=> \/ IsFile(x, store, old) /\ x[1] # Append(d, k[2])
                       \/ k \in DOMAIN old /\ x = <<Append(d, k[2]), old[k].size>>
      <3>1. OtherwiseSame(old, old, <<UuidIn(store, d), k[2]>>)
        BY <1>5, <2>2
      <3> QED
        BY <1>2, <2>2, <3>1, FilesAt
    <2> QED
      BY <1>3, <2>1, <2>3, <2>4
  <1> QED
    BY <1>1, <1>6, <1>7 DEF old, new

LEMMA CreateTree ==
  ASSUME IInv, NEW k \in (0 .. uuid_counter) \X FileNames, create(k), UNCHANGED uuid_store
  PROVE  \/ UNCHANGED <<ShownDirs, ShownFiles>>
         \/ \E f \in FilePaths : Tree!Create(f)
  <1>1. /\ DOMAIN file_store' = DOMAIN file_store \cup {k}
        /\ file_store'[k] = [suuid |-> suuid_counter, size |-> 0]
        /\ \A l \in DOMAIN file_store : l # k => file_store'[l] = file_store[l]
    BY DEF create
  <1>2. DOMAIN file_store' \subseteq Nat \X FileNames
    BY <1>1 DEF IInv, FilesKnown
  <1>3. OtherwiseSame(file_store, file_store', k)
    BY <1>1 DEF OtherwiseSame
  <1>4. CASE UNCHANGED <<ShownDirs, ShownFiles>>
    BY <1>4
  <1>5. CASE ~UNCHANGED <<ShownDirs, ShownFiles>>
    <2>1. PICK d \in ShownDirs :
              /\ UNCHANGED ShownDirs
              /\ Append(d, k[2]) \in FilePaths
              /\ \A x : x \in ShownFiles'
                          <=> \/ x \in ShownFiles /\ x[1] # Append(d, k[2])
                              \/ k \in DOMAIN file_store' /\ x = <<Append(d, k[2]), file_store'[k].size>>
      BY <1>2, <1>3, <1>5, FileTreeStep
    <2> DEFINE f == Append(d, k[2])
    <2>2. Front(f) = d
      BY FilePathParts DEF ShownDirs
    <2>3. k \in DOMAIN file_store' /\ file_store'[k].size = 0
      BY <1>1
    <2> HIDE DEF f
    <2>4. ShownFiles' = {x \in ShownFiles : x[1] # f} \cup {<<f, 0>>}
      BY <2>1, <2>3 DEF f
    <2>5. Tree!Create(f)
      BY <2>1, <2>2, <2>4, TreeOperators DEF Tree!Create
    <2> QED
      BY <2>1, <2>5 DEF f
  <1> QED
    BY <1>4, <1>5

LEMMA UnlinkTree ==
  ASSUME IInv, NEW k \in (0 .. uuid_counter) \X FileNames, remove(k), UNCHANGED uuid_store
  PROVE  \/ UNCHANGED <<ShownDirs, ShownFiles>>
         \/ \E x \in ShownFiles : Tree!Unlink(x)
  <1>1. /\ DOMAIN file_store' = DOMAIN file_store \ {k}
        /\ \A l \in DOMAIN file_store' : file_store'[l] = file_store[l]
        /\ k \in DOMAIN file_store
    BY DEF remove, Exists
  <1>2. DOMAIN file_store' \subseteq Nat \X FileNames
    BY <1>1 DEF IInv, FilesKnown
  <1>3. OtherwiseSame(file_store, file_store', k)
    BY <1>1 DEF OtherwiseSame
  <1>4. CASE UNCHANGED <<ShownDirs, ShownFiles>>
    BY <1>4
  <1>5. CASE ~UNCHANGED <<ShownDirs, ShownFiles>>
    <2>1. PICK d \in ShownDirs :
              /\ UNCHANGED ShownDirs
              /\ \A x : x \in ShownFiles'
                          <=> \/ x \in ShownFiles /\ x[1] # Append(d, k[2])
                              \/ k \in DOMAIN file_store' /\ x = <<Append(d, k[2]), file_store'[k].size>>
              /\ \A x : x \in ShownFiles
                          <=> \/ x \in ShownFiles /\ x[1] # Append(d, k[2])
                              \/ k \in DOMAIN file_store /\ x = <<Append(d, k[2]), file_store[k].size>>
      BY <1>2, <1>3, <1>5, FileTreeStep
    <2> DEFINE gone == <<Append(d, k[2]), file_store[k].size>>
    <2>2. k \notin DOMAIN file_store' /\ gone[1] = Append(d, k[2])
      BY <1>1
    <2>3. gone \in ShownFiles
      BY <1>1, <2>1
    <2> HIDE DEF gone
    <2>4. ShownFiles' = ShownFiles \ {gone}
      <3>1. \A x : x \in ShownFiles => (x[1] # Append(d, k[2]) <=> x # gone)
        BY <2>1, <2>2 DEF gone
      <3> QED
        BY <2>1, <2>2, <3>1
    <2>5. Tree!Unlink(gone)
      BY <2>1, <2>4 DEF Tree!Unlink
    <2> QED
      BY <2>3, <2>5
  <1> QED
    BY <1>4, <1>5

LEMMA CsizeTree ==
  ASSUME IInv, NEW k \in (0 .. uuid_counter) \X FileNames, NEW n \in 0 .. MaxSize,
         csize(k, n), UNCHANGED uuid_store
  PROVE  \/ UNCHANGED <<ShownDirs, ShownFiles>>
         \/ \E x \in ShownFiles : Tree!Resize(x)
  <1>1. /\ DOMAIN file_store' = DOMAIN file_store
        /\ file_store'[k] = [suuid |-> file_store[k].suuid, size |-> n]
        /\ \A l \in DOMAIN file_store : l # k => file_store'[l] = file_store[l]
        /\ k \in DOMAIN file_store
    BY DEF csize, Exists
  <1>2. DOMAIN file_store' \subseteq Nat \X FileNames
    BY <1>1 DEF IInv, FilesKnown
  <1>3. OtherwiseSame(file_store, file_store', k)
    BY <1>1 DEF OtherwiseSame
  <1>4. CASE UNCHANGED <<ShownDirs, ShownFiles>>
    BY <1>4
  <1>5. CASE ~UNCHANGED <<ShownDirs, ShownFiles>>
    <2>1. PICK d \in ShownDirs :
              /\ UNCHANGED ShownDirs
              /\ \A x : x \in ShownFiles'
                          <=> \/ x \in ShownFiles /\ x[1] # Append(d, k[2])
                              \/ k \in DOMAIN file_store' /\ x = <<Append(d, k[2]), file_store'[k].size>>
              /\ \A x : x \in ShownFiles
                          <=> \/ x \in ShownFiles /\ x[1] # Append(d, k[2])
                              \/ k \in DOMAIN file_store /\ x = <<Append(d, k[2]), file_store[k].size>>
      BY <1>2, <1>3, <1>5, FileTreeStep
    <2> DEFINE old == <<Append(d, k[2]), file_store[k].size>>
    <2>2. old[1] = Append(d, k[2]) /\ k \in DOMAIN file_store' /\ file_store'[k].size = n
      BY <1>1
    <2>3. old \in ShownFiles
      BY <1>1, <2>1
    <2> HIDE DEF old
    <2>4. ShownFiles' = (ShownFiles \ {old}) \cup {<<old[1], n>>}
      <3>1. \A x : x \in ShownFiles => (x[1] # Append(d, k[2]) <=> x # old)
        BY <2>1, <2>2 DEF old
      <3> QED
        BY <2>1, <2>2, <3>1
    <2>5. Tree!Resize(old)
      BY <2>1, <2>4 DEF Tree!Resize
    <2> QED
      BY <2>3, <2>5
  <1> QED
    BY <1>4, <1>5

LEMMA InitTree == Init => Tree!Init
  <1> SUFFICES ASSUME Init PROVE Tree!Init
    OBVIOUS
  <1>1. DOMAIN uuid_store = {} /\ DOMAIN file_store = {}
    BY DEF Init, DMInit, FMInit
  <1>2. ASSUME NEW d \in DirPaths PROVE UuidIn(uuid_store, d) = NotFound
    BY <1>1, DirPathParts, StepIn DEF ChildIn
  <1>3. ShownDirs = {}
    BY <1>2, DirsShown DEF DirsIn
  <1>4. ShownFiles = {}
    BY <1>1, FilesShown DEF IsFile
  <1> QED
    BY <1>3, <1>4 DEF Tree!Init

LEMMA TreeStep == IInv /\ [Next]_vars => [Tree!Next]_(Tree!vars)
  <1> SUFFICES ASSUME IInv, [Next]_vars PROVE [Tree!Next]_(Tree!vars)
    OBVIOUS
  <1> DEFINE Stutters == UNCHANGED <<ShownDirs, ShownFiles>>
  <1>1. Stutters => [Tree!Next]_(Tree!vars)
    BY DEF Tree!vars
  <1>2. ASSUME NEW c \in Clients, Mkdir(c) PROVE [Tree!Next]_(Tree!vars)
    <2>1. PICK d \in DirPaths \cup {Root} : mkdir(d)
      BY <1>2 DEF Mkdir
    <2>2. UNCHANGED file_store
      BY <1>2 DEF Mkdir, fmvars
    <2>3. Tree!Mkdir(d) \/ Stutters
      BY <2>1, <2>2, MkdirTree
    <2>4. d = Root => Stutters
      BY <2>1, <2>2, SameStores DEF mkdir, CanMkdir
    <2> QED
      BY <1>1, <2>3, <2>4 DEF Tree!Next, Tree!vars
  <1>3. ASSUME NEW c \in Clients, Rmdir(c) PROVE [Tree!Next]_(Tree!vars)
    <2>1. PICK d \in DirPaths : rmdir(d)
      BY <1>3 DEF Rmdir
    <2>2. UNCHANGED file_store
      BY <1>3 DEF Rmdir, fmvars
    <2>3. Tree!Rmdir(d)
      BY <2>1, <2>2, RmdirTree
    <2> QED
      BY <1>1, <2>3 DEF Tree!Next, Tree!vars
  <1>4. ASSUME NEW c \in Clients, Create(c) PROVE [Tree!Next]_(Tree!vars)
    <2>1. create(key[c]) /\ pc[c] # "idle" /\ UNCHANGED uuid_store
      BY <1>4 DEF Create, dmvars
    <2>2. Stutters \/ \E f \in FilePaths : Tree!Create(f)
      BY <2>1, KeyKnown, CreateTree DEF IInv
    <2> QED
      BY <1>1, <2>2 DEF Tree!Next, Tree!vars
  <1>5. ASSUME NEW c \in Clients, Unlink(c) PROVE [Tree!Next]_(Tree!vars)
    <2>1. /\ pc[c] # "idle" /\ UNCHANGED uuid_store
          /\ remove(key[c]) \/ UNCHANGED file_store
      BY <1>5 DEF Unlink, dmvars, fmvars
    <2>2. Stutters \/ \E x \in ShownFiles : Tree!Unlink(x)
      BY <2>1, KeyKnown, UnlinkTree, SameStores DEF IInv
    <2> QED
      BY <1>1, <2>2 DEF Tree!Next, Tree!vars
  <1>6. ASSUME NEW c \in Clients, Csize(c) PROVE [Tree!Next]_(Tree!vars)
    <2>1. pc[c] # "idle" /\ UNCHANGED uuid_store
      BY <1>6 DEF Csize, dmvars
    <2>2. Stutters \/ \E x \in ShownFiles : Tree!Resize(x)
      <3>1. CASE ~Exists(key[c])
        BY <1>6, <2>1, <3>1, SameStores DEF Csize, fmvars
      <3>2. CASE Exists(key[c])
        <4>1. PICK end \in 1 .. MaxSize : csize(key[c], IF size[c] > end THEN size[c] ELSE end)
          BY <1>6, <3>2 DEF Csize
        <4>2. size[c] \in 0 .. MaxSize
          BY DEF IInv, CallsKnown
        <4>3. (IF size[c] > end THEN size[c] ELSE end) \in 0 .. MaxSize
          BY <4>2, SizeAssumption
        <4> QED
          BY <2>1, <4>1, <4>3, KeyKnown, CsizeTree DEF IInv
      <3> QED
        BY <3>1, <3>2
    <2> QED
      BY <1>1, <2>2 DEF Tree!Next, Tree!vars
  <1>7. ASSUME NEW c \in Clients,
               Look(c) \/ Begin(c) \/ BeginFails(c) \/ Access(c) \/ Stat(c) \/ UNCHANGED vars
        PROVE  [Tree!Next]_(Tree!vars)
    <2>1. UNCHANGED uuid_store /\ UNCHANGED file_store
      BY <1>7 DEF Look, Begin, BeginFails, Access, Stat, vars, dmvars, fmvars
    <2> QED
      BY <1>1, <2>1, SameStores
  <1>8. CASE UNCHANGED vars
    <2>1. UNCHANGED uuid_store /\ UNCHANGED file_store
      BY <1>8 DEF vars, dmvars, fmvars
    <2> QED
      BY <1>1, <2>1, SameStores
  <1> QED
    BY <1>2, <1>3, <1>4, <1>5, <1>6, <1>7, <1>8 DEF Next, Client

\* No uuid is ever given twice, and keys and inodes match, whatever clients
\* make and remove, empty or not (DMStore.cpp:33-106, 145-193).
THEOREM UuidsUnique == Spec => []UuidsNameOne
  <1>1. DMInv => UuidsNameOne
    BY DEF DMInv
  <1>2. QED
    BY InitFresh, DMStep, <1>1, PTL DEF Spec

\* Types of servers and clients, and no cache is ever fuller than it may be
\* (DMStore.cpp, FMStore.cpp, lru_cache.h:65-114).
THEOREM TypeCorrect == Spec => []TypeOK
  <1>1. IInv => TypeOK
    <2> SUFFICES ASSUME IInv PROVE TypeOK
      OBVIOUS
    <2>1. DMTypeOK
      <3>1. StoreOK(uuid_store, uuid_counter)
        BY StoreIsOK DEF IInv
      <3>2. dm_store = {1} \cup {uuid_store[k] : k \in DOMAIN uuid_store}
        BY DEF IInv, DMKnown, DMInv, UuidsNameOne
      <3>3. DOMAIN uuid_store \subseteq Nat \X DirNames
        BY <3>1 DEF StoreOK
      <3>4. \A k \in DOMAIN uuid_store : uuid_store[k] \in Nat
        BY <3>1 DEF StoreOK
      <3> QED
        BY <3>1, <3>2, <3>3, <3>4 DEF DMTypeOK, StoreOK
    <2>2. FMTypeOK
      <3>1. DOMAIN file_store \subseteq Nat \X FileNames
        BY DEF IInv, FilesKnown
      <3>2. \A k \in DOMAIN file_store : file_store[k] \in [suuid : Nat, size : Nat]
        BY DEF IInv, FilesKnown
      <3> QED
        BY <3>1, <3>2 DEF FMTypeOK, IInv, FilesKnown
    <2>3. key \in [Clients -> Nat \X (FileNames \cup {""})] /\ size \in [Clients -> Nat]
      <3> DEFINE Names == FileNames \cup {""}
      <3>1. (0 .. uuid_counter) \X Names \subseteq Nat \X Names /\ 0 .. MaxSize \subseteq Nat
        <4> HIDE DEF Names
        <4>1. 0 .. uuid_counter \subseteq Nat /\ 0 .. MaxSize \subseteq Nat
          OBVIOUS
        <4> QED
          BY <4>1
      <3>2. key \in [Clients -> (0 .. uuid_counter) \X Names] /\ size \in [Clients -> 0 .. MaxSize]
        BY DEF IInv, CallsKnown
      <3> HIDE DEF Names
      <3>3. key \in [Clients -> Nat \X Names] /\ size \in [Clients -> Nat]
        BY <3>1, <3>2
      <3> QED
        BY <3>3 DEF Names
    <2>4. pc \in [Clients -> Locations] /\ call \in [Clients -> Calls \cup {NoCall}]
      BY DEF IInv, CallsKnown
    <2>5. \A c \in Clients : /\ Cached(c) \subseteq DirPaths
                             /\ Cardinality(Cached(c)) <= CacheSize
                             /\ \A d \in Cached(c) : cache[c][d] \in Nat
      BY DEF IInv, CachesKnown, CacheOK, Cached
    <2> QED
      BY <2>1, <2>2, <2>3, <2>4, <2>5 DEF TypeOK
  <1> QED
    BY InitInv, InvStep, <1>1, PTL DEF Spec

\* A stale uuid in a cache is that of a directory that is gone, never that of
\* one at another path (lru_cache.h:65-114, LocofsClient.cpp:264-282, 444-465).
THEOREM CachesNeverElsewhere == Spec => []CacheNeverElsewhere
  <1>1. IInv => CacheNeverElsewhere
    BY UuidIsIn DEF IInv, CachesKnown, CacheOK, CacheNeverElsewhere, Cached
  <1> QED
    BY InitInv, InvStep, <1>1, PTL DEF Spec

\* The list of a directory has each name once whose key is there, and no other:
\* remove_entry takes away one element, and it is the right one
\* (DMStore.cpp:98-104, 186-191, EntryList.cpp:32-47).
THEOREM ListsRight == Spec => []ListsMatchKeys
  <1>1. IInv => ListsMatchKeys
    <2> SUFFICES ASSUME IInv,
                        NEW k \in DOMAIN uuid_store \cup ((DOMAIN dir_entry) \X DirNames)
                 PROVE  Cardinality({i \in DOMAIN readdir(dir_entry, k[1]) :
                                        readdir(dir_entry, k[1])[i] = k[2]})
                          = IF k \in DOMAIN uuid_store THEN 1 ELSE 0
      BY DEF ListsMatchKeys
    <2>1. k = <<k[1], k[2]>> /\ k[2] \in DirNames
      BY DEF IInv, DMKnown, KeysKnown
    <2>2. TimesListed(k[1], k[2]) = IF <<k[1], k[2]>> \in DOMAIN uuid_store THEN 1 ELSE 0
      BY <2>1 DEF IInv, ListInv
    <2> QED
      BY <2>1, <2>2 DEF TimesListed, Occurs
  <1> QED
    BY InitInv, InvStep, <1>1, PTL DEF Spec

\* Whatever clients do between each other's remote calls, and whatever stale
\* uuids they hold, every handler of the two servers is one operation on one
\* tree of directories and files, or none (DMStore.cpp:33-193,
\* FMStore.cpp:88-197).
THEOREM ImplementsTree == Spec => TreeSpec
  BY InitInv, InvStep, InitTree, TreeStep, PTL DEF Spec, TreeSpec, Tree!Spec
=============================================================================
