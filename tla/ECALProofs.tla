----------------------------- MODULE ECALProofs -----------------------------
(***************************************************************************)
(* For any number of data and parity shards, nodes, rows, pages and        *)
(* crashes: one client's readBlock and writeBlock implement PageStore, and *)
(* any K shards it can reach agree between its calls.  As in ECAL, a poll  *)
(* returns the completion of its own request.                              *)
(*                                                                         *)
(* The reason is that a peer that misses an update is one the client does  *)
(* not use again.  Of a page that is not being written, all shards the     *)
(* client reaches belong to one page; of the page that is, those below the *)
(* loop variable belong to the new one; K shards of one page give it back. *)
(***************************************************************************)
EXTENDS ECAL, FiniteSetTheorems, WellFoundedInduction, TLAPS

RowSet == 0 .. (Rows - 1)
Halves == Values \X Slots \cup {Junk}

\* Data nodes hold halves of pages, parity nodes encode whole pages.
ShardData(j) == IF j \in Slots THEN Halves ELSE PageData \cup {Junk}

\* What TypeOK rests on.
TypeInv ==
    /\ mem \in [Shards -> [RowSet -> Halves \cup PageData]]
    /\ \A j \in Shards, r \in RowSet : mem[j][r] \in ShardData(j)
    /\ up \subseteq Nodes
    /\ linked \subseteq PairsOf(Clients) /\ connected \subseteq PairsOf(Clients)
    /\ pending \subseteq PairsOf(Nodes)
    /\ crashes \in 0 .. MaxCrashes
    /\ pc \in [Clients -> {"idle", "scan", "fetch", "write", "post"}]
    /\ index \in [Clients -> Indices]
    /\ cur \in [Clients -> 0 .. N]
    /\ chosen \in [Clients -> SUBSET Shards]
    /\ DOMAIN got = Clients
    /\ page \in [Clients -> PageData]
    /\ before \in [Clients -> PageData]
    /\ blind \in [Clients -> BOOLEAN]
    /\ DOMAIN result = Clients
    /\ \A c \in Clients :
        /\ pc[c] # "idle" => index[c] \in Pages
        /\ pc[c] = "scan" => DOMAIN got[c] = {}
        /\ pc[c] = "fetch" => Cardinality(chosen[c]) = K
        /\ Writing(c) => cur[c] \in Shards
        /\ pc[c] = "post" => cur[c] # c
        /\ DOMAIN got[c] \subseteq chosen[c]
        /\ \A j \in DOMAIN got[c] : got[c][j] \in ShardData(j)

\* One client, which does not come back; its pages are not in the rows of the
\* test writes, and no two of them are in one row; no page looks like junk, and
\* no request like None.
Setting ==
    /\ Clients = {TheClient}
    /\ TheClient \notin Restarts
    /\ \A i \in Pages : Row(i) \notin TestRows
    /\ \A i, j \in Pages : Row(i) = Row(j) => i = j
    /\ Junk \notin PageData
    /\ None \notin [index : Indices, page : PageData]

\* The shards in the client's reach belong to page d.
Holds(i, d) == \A j \in Reach(TheClient) : mem[j][Row(i)] = Shard(d, j)

StripeInv ==
    \A i \in Pages :
        IF Writing(TheClient) /\ index[TheClient] = i
        THEN \A j \in Reach(TheClient) :
                j < cur[TheClient] => mem[j][Row(i)] = Shard(page[TheClient], j)
        ELSE \E d \in PageData : Holds(i, d)

\* What a read has fetched belongs to it too, unless a peer was gone.
ReadInv ==
    pc[TheClient] \in {"scan", "fetch"} /\ ~blind[TheClient] =>
        \E d \in PageData :
            /\ Holds(index[TheClient], d)
            /\ \A j \in DOMAIN got[TheClient] \ {TheClient} : got[TheClient][j] = Shard(d, j)

IInv == TypeInv /\ StripeInv /\ ReadInv

-----------------------------------------------------------------------------
(* Numbers and sets.                                                       *)

LEMMA LeastNumber ==
  ASSUME NEW T, T \subseteq Nat, T # {}
  PROVE  \E x \in T : \A y \in T : x <= y
  <1>1. PICK x \in T : \A y \in T : <<y, x>> \notin OpToRel(<, Nat)
    BY NatLessThanWellFounded, WFMin
  <1>2. ASSUME NEW y \in T PROVE x <= y
    <2>1. x \in Nat /\ y \in Nat
      OBVIOUS
    <2>2. ~(y < x)
      BY <1>1, <2>1 DEF OpToRel
    <2> QED
      BY <2>1, <2>2
  <1> QED
    BY <1>2

LEMMA StripeSize ==
  /\ N \in Nat \ {0} /\ K <= N
  /\ Slots \subseteq Shards
  /\ IsFiniteSet(Slots) /\ Cardinality(Slots) = K
  /\ IsFiniteSet(Shards) /\ Cardinality(Shards) = N
  <1>1. N \in Nat \ {0} /\ K <= N /\ N = K + P /\ P \in Nat
    BY CodeAssumption DEF N
  <1>2. Slots \subseteq Shards
    BY <1>1, CodeAssumption DEF Slots, Shards
  <1>3. IsFiniteSet(Slots) /\ Cardinality(Slots) = K
    BY CodeAssumption, FS_Interval DEF Slots
  <1>4. IsFiniteSet(Shards) /\ Cardinality(Shards) = N
    BY <1>1, CodeAssumption, FS_Interval DEF Shards
  <1> QED
    BY <1>1, <1>2, <1>3, <1>4

\* Each page has a row of the table.
LEMMA RowInTable ==
  /\ 0 \in Indices
  /\ \A i \in Indices : Row(i) \in RowSet
  <1> DEFINE m == ClusterSize \div N
  <1>1. m \in Nat \ {0}
    BY StripeSize, SizeAssumption
  <1>2. \A i \in Nat : i < m * Rows => (i \div m) \in Nat /\ i \div m < Rows
    <2> HIDE DEF m
    <2> QED
      BY <1>1, CodeAssumption
  <1>3. m * Rows \in Nat \ {0}
    <2> HIDE DEF m
    <2> QED
      BY <1>1, CodeAssumption
  <1> HIDE DEF m
  <1>4. Capacity = m * Rows
    BY DEF Capacity, m
  <1>5. \A i \in Indices : i \in Nat /\ i < m * Rows /\ Row(i) = i \div m
    BY <1>3, <1>4 DEF Indices, Row, m
  <1> QED
    BY <1>2, <1>3, <1>4, <1>5, CodeAssumption DEF Indices, RowSet

\* A read chooses the first K of the shards it can reach.
LEMMA FirstShards ==
  ASSUME NEW R, R \subseteq Shards, Cardinality(R) >= K
  PROVE  \E S \in kSubset(K, R) : \A j \in S, i \in R \ S : j < i
  <1> DEFINE Upto(t) == R \cap 0 .. (t - 1)
             T == {t \in Nat : t <= N /\ Cardinality(Upto(t)) >= K}
  <1>1. N \in Nat /\ K \in Nat \ {0}
    BY StripeSize, CodeAssumption
  <1>2. IsFiniteSet(R)
    BY StripeSize, FS_Subset
  <1>3. \A t \in Nat : IsFiniteSet(Upto(t)) /\ Cardinality(Upto(t)) \in Nat
    BY <1>2, FS_Intersection, FS_CardinalityType
  <1>4. Upto(N) = R
    BY DEF Shards
  <1>5. N \in T
    BY <1>1, <1>4
  <1>6. PICK t \in T : \A u \in T : t <= u
    <2> HIDE DEF T
    <2>1. T \subseteq Nat
      BY DEF T
    <2> QED
      BY <1>5, <2>1, LeastNumber
  <1>7. t # 0
    <2>1. Upto(0) = {}
      OBVIOUS
    <2>2. Cardinality(Upto(0)) = 0
      BY <2>1, FS_EmptySet
    <2>3. 0 \notin T
      BY <2>2, <1>1
    <2> QED
      BY <1>6, <2>3
  <1>8. t - 1 \in Nat /\ t - 1 <= N /\ t - 1 \notin T
    BY <1>1, <1>6, <1>7
  <1>9. Cardinality(Upto(t - 1)) < K
    BY <1>1, <1>3, <1>8
  <1>10. Upto(t) \subseteq Upto(t - 1) \cup {t - 1}
    BY <1>8
  <1>11. t \in Nat /\ Cardinality(Upto(t)) >= K
    BY <1>6
  <1> HIDE DEF Upto, T
  <1>12. Cardinality(Upto(t)) <= Cardinality(Upto(t - 1)) + 1
    <2>1. IsFiniteSet(Upto(t - 1)) /\ Cardinality(Upto(t - 1)) \in Nat
      BY <1>3, <1>8
    <2>2. /\ IsFiniteSet(Upto(t - 1) \cup {t - 1})
          /\ Cardinality(Upto(t - 1) \cup {t - 1}) =
               IF t - 1 \in Upto(t - 1) THEN Cardinality(Upto(t - 1))
               ELSE Cardinality(Upto(t - 1)) + 1
      BY <2>1, FS_AddElement
    <2>3. /\ IsFiniteSet(Upto(t - 1) \cup {t - 1})
          /\ Cardinality(Upto(t - 1) \cup {t - 1}) <= Cardinality(Upto(t - 1)) + 1
      BY <2>1, <2>2
    <2>4. Cardinality(Upto(t)) <= Cardinality(Upto(t - 1) \cup {t - 1})
      BY <1>10, <2>3, FS_Subset
    <2>5. Cardinality(Upto(t - 1) \cup {t - 1}) \in Nat
      BY <2>3, FS_CardinalityType
    <2> QED
      BY <1>3, <1>11, <1>8, <2>3, <2>4, <2>5
  <1>13. Cardinality(Upto(t)) = K
    BY <1>1, <1>3, <1>11, <1>8, <1>9, <1>12
  <1>14. Upto(t) \in kSubset(K, R)
    BY <1>13 DEF kSubset, Upto
  <1>15. \A j \in Upto(t), i \in R \ Upto(t) : j < i
    BY <1>1, <1>11 DEF Shards, Upto
  <1> QED
    BY <1>14, <1>15

-----------------------------------------------------------------------------
(* Erasure codes.                                                          *)

\* What is decoded from shards that are in their places is a page.
LEMMA DecodeType ==
  ASSUME NEW S, S \subseteq Shards, NEW val, \A j \in S : val[j] \in ShardData(j)
  PROVE  Decode(S, val) \in PageData
  <1> DEFINE Par == {val[q] : q \in S \ Slots}
             cons == \E d \in Par \ {Junk} : \A j \in S : val[j] = Shard(d, j)
             par == CHOOSE d \in Par : TRUE
  <1>1. Decode(S, val) =
            [s \in Slots |-> IF s \in S THEN val[s] ELSE IF cons THEN par[s] ELSE Junk]
    BY DEF Decode
  <1>2. \A s \in Slots \cap S : val[s] \in Halves
    BY DEF ShardData
  <1>3. ASSUME cons PROVE par \in PageData
    <2>1. PICK d \in Par \ {Junk} : \A j \in S : val[j] = Shard(d, j)
      BY <1>3
    <2>2. \A q \in S \ Slots : val[q] = d
      BY <2>1 DEF Shard
    <2>3. Par = {d}
      BY <2>1, <2>2
    <2>4. d \in PageData
      BY <2>1 DEF ShardData
    <2> QED
      BY <2>3, <2>4
  <1> HIDE DEF cons, par
  <1>4. \A s \in Slots : (IF s \in S THEN val[s] ELSE IF cons THEN par[s] ELSE Junk) \in Halves
    BY <1>2, <1>3 DEF PageData, Halves
  <1> QED
    BY <1>1, <1>4 DEF PageData, Halves

\* Any K shards of a page give it back.
LEMMA DecodeWhole ==
  ASSUME NEW d \in PageData, d # Junk, NEW S \in kSubset(K, Shards),
         NEW val, \A j \in S : val[j] = Shard(d, j)
  PROVE  Decode(S, val) = d
  <1> DEFINE Par == {val[q] : q \in S \ Slots}
             cons == \E e \in Par \ {Junk} : \A j \in S : val[j] = Shard(e, j)
             par == CHOOSE e \in Par : TRUE
  <1>1. Decode(S, val) =
            [s \in Slots |-> IF s \in S THEN val[s] ELSE IF cons THEN par[s] ELSE Junk]
    BY DEF Decode
  <1>2. d = [s \in Slots |-> d[s]]
    BY DEF PageData
  <1>3. \A s \in Slots \cap S : val[s] = d[s]
    BY DEF Shard
  <1>4. CASE S \subseteq Slots
    <2>1. S = Slots
      BY <1>4, StripeSize, FS_Subset DEF kSubset
    <2> HIDE DEF cons, par
    <2>2. \A s \in Slots :
              (IF s \in S THEN val[s] ELSE IF cons THEN par[s] ELSE Junk) = d[s]
      BY <1>3, <2>1
    <2> QED
      BY <1>1, <1>2, <2>2
  <1>5. CASE ~(S \subseteq Slots)
    <2>1. \A q \in S \ Slots : val[q] = d
      BY DEF Shard
    <2>2. Par = {d}
      BY <1>5, <2>1
    <2>3. cons /\ par = d
      BY <2>2
    <2> HIDE DEF cons, par
    <2>4. \A s \in Slots :
              (IF s \in S THEN val[s] ELSE IF cons THEN par[s] ELSE Junk) = d[s]
      BY <1>3, <2>3
    <2> QED
      BY <1>1, <1>2, <2>4
  <1> QED
    BY <1>4, <1>5

\* The page that the first K of the shards col in R decode to.
Decoded(R, col) ==
    IF Cardinality(R) < K THEN JunkPage
    ELSE Decode(CHOOSE S \in kSubset(K, R) : \A j \in S, i \in R \ S : j < i, col)

LEMMA DecodedChoice ==
  ASSUME NEW R, R \subseteq Shards, NEW col
  PROVE  /\ Cardinality(R) \in Nat
         /\ IF Cardinality(R) < K THEN Decoded(R, col) = JunkPage
            ELSE \E S \in kSubset(K, R) : Decoded(R, col) = Decode(S, col)
  <1>1. Cardinality(R) \in Nat /\ K \in Nat
    BY StripeSize, FS_Subset, FS_CardinalityType, CodeAssumption
  <1>2. CASE Cardinality(R) < K
    BY <1>1, <1>2 DEF Decoded
  <1>3. CASE ~(Cardinality(R) < K)
    <2> DEFINE first(S) == \A j \in S, i \in R \ S : j < i
               T == CHOOSE S \in kSubset(K, R) : first(S)
    <2>1. \E S \in kSubset(K, R) : first(S)
      BY <1>1, <1>3, FirstShards
    <2>2. Decoded(R, col) = Decode(T, col)
      BY <1>3 DEF Decoded
    <2> HIDE DEF first
    <2>3. T \in kSubset(K, R)
      BY <2>1
    <2> HIDE DEF T
    <2> QED
      BY <1>1, <1>3, <2>2, <2>3
  <1> QED
    BY <1>2, <1>3

\* Whichever K of the shards of one page are taken.
LEMMA DecodedWhole ==
  ASSUME NEW R, R \subseteq Shards, NEW col, NEW d \in PageData, d # Junk,
         \A j \in R : col[j] = Shard(d, j)
  PROVE  /\ \A S \in kSubset(K, R) : Decode(S, col) = d
         /\ Cardinality(R) >= K => Decoded(R, col) = d
  <1>1. \A S \in kSubset(K, R) : Decode(S, col) = d
    <2>1. \A S \in kSubset(K, R) : S \in kSubset(K, Shards) /\ \A j \in S : col[j] = Shard(d, j)
      BY DEF kSubset
    <2> QED
      BY <2>1, DecodeWhole
  <1>2. Cardinality(R) \in Nat /\ K \in Nat
    BY DecodedChoice, CodeAssumption
  <1> QED
    BY <1>1, <1>2, DecodedChoice

LEMMA ContentsDecoded ==
  ASSUME NEW c \in Clients, NEW i \in Indices
  PROVE  /\ Reach(c) \subseteq Shards
         /\ Contents(c, i) = Decoded(Reach(c), Column(i))
  BY DEF Contents, Decoded, Reach

LEMMA ContentsType ==
  ASSUME TypeInv, NEW c \in Clients, NEW i \in Indices
  PROVE  Contents(c, i) \in PageData
  <1>1. \A j \in Shards : Column(i)[j] \in ShardData(j)
    BY RowInTable DEF TypeInv, Column
  <1>2. \A S \in kSubset(K, Reach(c)) : Decode(S, Column(i)) \in PageData
    BY <1>1, ContentsDecoded, DecodeType DEF kSubset
  <1>3. JunkPage \in PageData
    BY DEF JunkPage, PageData
  <1>4. Decoded(Reach(c), Column(i)) \in PageData
    BY <1>2, <1>3, ContentsDecoded, DecodedChoice
  <1> QED
    BY <1>4, ContentsDecoded

-----------------------------------------------------------------------------
(* Types.                                                                  *)

\* A page a client writes.
LEMMA PageTypes ==
  /\ \A v \in Values : Page(v) \in PageData
  /\ \A d \in PageData, j \in Shards : Shard(d, j) \in ShardData(j)
  /\ \A j \in Shards : Junk \in ShardData(j) /\ ShardData(j) \subseteq Halves \cup PageData
  BY DEF Page, PageData, Halves, Shard, ShardData

LEMMA TypeInit ==
  Init => TypeInv
  <1> SUFFICES ASSUME Init PROVE TypeInv
    OBVIOUS
  <1>1. PICK v \in Values : mem = [j \in Shards |-> [r \in 0 .. (Rows - 1) |->
            IF r \in TestRows THEN Junk ELSE Shard(Page(v), j)]]
    BY DEF Init
  <1>2. \A j \in Shards, r \in RowSet : mem[j][r] \in ShardData(j)
    BY <1>1, PageTypes DEF RowSet
  <1>3. mem \in [Shards -> [RowSet -> Halves \cup PageData]]
    <2>1. \A j \in Shards, r \in RowSet :
             (IF r \in TestRows THEN Junk ELSE Shard(Page(v), j)) \in Halves \cup PageData
      BY PageTypes
    <2> QED
      BY <1>1, <2>1 DEF RowSet
  <1>4. JunkPage \in PageData
    BY DEF JunkPage, PageData
  <1>5. 0 \in 0 .. N /\ 0 \in 0 .. MaxCrashes
    BY StripeSize, BoundAssumption
  <1>6. PairsOf(Clients) \subseteq PairsOf(Nodes)
    BY NodeAssumption DEF PairsOf
  <1> QED
    BY <1>2, <1>3, <1>4, <1>5, <1>6, RowInTable DEF Init, TypeInv, Writing

\* What happens to nodes and their memory whatever the client does.
Failure ==
    \/ \E n \in Nodes : Crash(n) \/ Restart(n)
    \/ \E c \in Clients, p \in Nodes : Detect(c, p)
    \/ \E n, p \in Nodes : TestWrite(n, p)
    \/ \E c \in Clients : Die(c)

\* What no failure changes.
ClientState == <<index, cur, readVars, page, before>>

LEMMA TypeFailure ==
  ASSUME TypeInv,
         Failure
  PROVE  TypeInv'
  <1> USE DEF Failure
  <1>1. UNCHANGED ClientState
    BY DEF Crash, Restart, Detect, TestWrite, Die, ClientState
  <1>2. /\ up' \subseteq Nodes
        /\ linked' \subseteq PairsOf(Clients) /\ connected' \subseteq PairsOf(Clients)
        /\ pending' \subseteq PairsOf(Nodes)
        /\ crashes' \in 0 .. MaxCrashes
    <2>1. CASE (\E n \in Nodes : Crash(n)) \/ (\E c \in Clients : Die(c))
      BY <2>1, BoundAssumption DEF TypeInv, Crash, Die, Down
    <2>2. CASE \E n \in Nodes : Restart(n)
      <3>0. PICK n \in Nodes : Restart(n)
        BY <2>2
      <3>1. \A M : M \subseteq Nodes => PairsOf(M) \subseteq PairsOf(Nodes)
        BY DEF PairsOf
      <3>2. PairsOf({n} \cap Clients) \subseteq PairsOf(Clients)
        BY DEF PairsOf
      <3>3. pending' \subseteq PairsOf(Nodes)
        BY <3>0, <3>1 DEF TypeInv, Restart
      <3> QED
        BY <3>0, <3>2, <3>3 DEF TypeInv, Restart
    <2>3. CASE \E c \in Clients, p \in Nodes : Detect(c, p)
      BY <2>3 DEF TypeInv, Detect
    <2>4. CASE \E n, p \in Nodes : TestWrite(n, p)
      BY <2>4 DEF TypeInv, TestWrite
    <2> QED
      BY <2>1, <2>2, <2>3, <2>4
  <1>3. /\ mem' \in [Shards -> [RowSet -> Halves \cup PageData]]
        /\ \A j \in Shards, r \in RowSet : mem'[j][r] \in ShardData(j)
    <2>1. CASE \E n, p \in Nodes : TestWrite(n, p)
      <3>1. PICK p \in Nodes :
              mem' = [mem EXCEPT ![p] =
                        [r \in DOMAIN @ |-> IF r \in TestRows THEN Junk ELSE @[r]]]
        BY <2>1 DEF TestWrite
      <3>2. \A j \in Shards, r \in RowSet :
              mem'[j][r] \in {Junk, mem[j][r]}
        BY <3>1 DEF TypeInv
      <3>3. \A j \in Shards, r \in RowSet : mem'[j][r] \in ShardData(j)
        BY <3>2, PageTypes DEF TypeInv
      <3>4. DOMAIN mem' = Shards /\ \A j \in Shards : mem'[j] = [r \in RowSet |-> mem'[j][r]]
        BY <3>1 DEF TypeInv
      <3>5. \A j \in Shards : mem'[j] \in [RowSet -> Halves \cup PageData]
        BY <3>3, <3>4, PageTypes
      <3>6. mem' = [j \in Shards |-> mem'[j]]
        BY <3>1 DEF TypeInv
      <3> QED
        BY <3>3, <3>5, <3>6
    <2>2. CASE UNCHANGED mem
      BY <2>2 DEF TypeInv
    <2> QED
      BY <2>1, <2>2 DEF Crash, Restart, Detect, Die
  <1>4. /\ pc' \in [Clients -> {"idle", "scan", "fetch", "write", "post"}]
        /\ \A c \in Clients : pc'[c] \in {pc[c], "idle"}
    <2>1. CASE \E n \in Nodes : Restart(n)
      BY <2>1 DEF TypeInv, Restart
    <2>2. CASE pc' = pc
      BY <2>2 DEF TypeInv
    <2> QED
      BY <2>1, <2>2 DEF Crash, Detect, TestWrite, Die
  <1> QED
    BY <1>1, <1>2, <1>3, <1>4 DEF TypeInv, ClientState, readVars, Writing

\* A read fetches a shard it has chosen and does not have.
LEMMA NextIsChosen ==
  ASSUME NEW c \in Clients, chosen[c] \subseteq Shards,
         DOMAIN got[c] \subseteq chosen[c], chosen[c] # DOMAIN got[c]
  PROVE  NextPeer(c) \in chosen[c] \ DOMAIN got[c]
  <1> DEFINE T == chosen[c] \ DOMAIN got[c]
  <1>4. Shards \subseteq Nat
    BY StripeSize DEF Shards
  <1>5. \A C, D : D \subseteq C /\ C # D => C \ D # {}
    OBVIOUS
  <1>1. T # {} /\ T \subseteq Nat
    BY <1>4, <1>5
  <1> HIDE DEF T
  <1>2. \E x \in T : \A y \in T : x <= y
    BY <1>1, LeastNumber
  <1>3. Min(T) \in T
    BY <1>2 DEF Min
  <1> QED
    BY <1>3 DEF NextPeer, T

LEMMA TypeRead ==
  ASSUME TypeInv, NEW c \in Clients,
         \/ \E i \in Pages : BeginRead(c, i)
         \/ Scan(c)
         \/ ScanShort(c) /\ ~Die(c)
         \/ Fetch(c)
         \/ EndRead(c)
         \/ EndReadFreed(c) /\ ~Die(c)
  PROVE  TypeInv'
  <1>1. CASE \E i \in Pages : BeginRead(c, i)
    <2>1. 0 \in 0 .. N /\ Pages \subseteq Indices
      BY StripeSize, PageAssumption
    <2> QED
      BY <1>1, <2>1 DEF TypeInv, BeginRead, nodeVars, Writing
  <1>2. CASE Scan(c)
    <2> DEFINE now == chosen[c] \cup ({cur[c]} \cap {j \in Nat : PeerAlive(c, j)})
    <2>1. /\ chosen' = [chosen EXCEPT ![c] = now]
          /\ pc' = [pc EXCEPT ![c] = IF Cardinality(now) = K THEN "fetch" ELSE "scan"]
          /\ cur' = [cur EXCEPT ![c] = @ + 1]
          /\ pc[c] = "scan" /\ cur[c] <= N - 1
          /\ UNCHANGED <<mem, nodeVars, index, got, blind, page, before, result>>
      BY <1>2 DEF Scan, ScanUpTo
    <2>2. cur[c] \in Shards /\ cur[c] + 1 \in 0 .. N
      BY <2>1, StripeSize DEF TypeInv, Shards
    <2>3. now \subseteq Shards /\ chosen[c] \subseteq now
      BY <2>2 DEF TypeInv
    <2> HIDE DEF now
    <2> QED
      BY <2>1, <2>2, <2>3 DEF TypeInv, nodeVars, Writing
  <1>3. CASE ((ScanShort(c) \/ EndReadFreed(c)) /\ ~Die(c)) \/ EndRead(c)
    <2>1. PICK d, sound : Return(c, d, sound)
      BY <1>3 DEF ScanShort, EndRead, EndReadFreed
    <2> QED
      BY <2>1 DEF TypeInv, Return, nodeVars, Writing
  <1>4. CASE Fetch(c)
    <2>1. PICK j, v :
            /\ j = NextPeer(c) /\ v \in {Junk, mem[j][Row(index[c])]}
            /\ got' = [got EXCEPT ![c] =
                         [k \in DOMAIN @ \cup {j} |-> IF k = j THEN v ELSE @[k]]]
      <3> DEFINE p == NextPeer(c)
                 read == IF c # p /\ <<c, p>> \notin linked THEN Junk ELSE mem[p][Row(index[c])]
      <3>1. got' = [got EXCEPT ![c] =
                      [k \in DOMAIN @ \cup {p} |-> IF k = p THEN read ELSE @[k]]]
        BY <1>4 DEF Fetch
      <3>2. read \in {Junk, mem[p][Row(index[c])]}
        OBVIOUS
      <3> HIDE DEF read
      <3>3. QED
        BY <3>1, <3>2
    <2>2. /\ chosen[c] \subseteq Shards
          /\ DOMAIN got[c] \subseteq chosen[c] /\ chosen[c] # DOMAIN got[c]
      BY <1>4 DEF Fetch, TypeInv
    <2>3. j \in chosen[c] \ DOMAIN got[c]
      BY <2>1, <2>2, NextIsChosen
    <2>4. v \in ShardData(j)
      BY <2>1, <2>2, <2>3, RowInTable, PageTypes DEF TypeInv
    <2>5. DOMAIN got' = Clients /\ \A b \in Clients \ {c} : got'[b] = got[b]
      BY <2>1 DEF TypeInv
    <2>6. /\ DOMAIN got'[c] = DOMAIN got[c] \cup {j}
          /\ \A k \in DOMAIN got'[c] : got'[c][k] = IF k = j THEN v ELSE got[c][k]
      BY <2>1 DEF TypeInv
    <2>7. /\ DOMAIN got'[c] \subseteq chosen[c]
          /\ \A k \in DOMAIN got'[c] : got'[c][k] \in ShardData(k)
      BY <2>2, <2>3, <2>4, <2>6 DEF TypeInv
    <2>8. /\ blind' \in [Clients -> BOOLEAN]
          /\ pc[c] = "fetch"
          /\ UNCHANGED <<mem, nodeVars, pc, index, cur, chosen, page, before, result>>
      BY <1>4 DEF Fetch, TypeInv
    <2> QED
      BY <2>5, <2>7, <2>8 DEF TypeInv, nodeVars, Writing
  <1> QED
    BY <1>1, <1>2, <1>3, <1>4

\* One shard is written, or none.
Stored(c) ==
    \A j \in Shards, r \in RowSet :
        mem'[j][r] = IF j = cur[c] /\ r = Row(index[c]) THEN Shard(page[c], j) ELSE mem[j][r]

LEMMA StoreEffect ==
  ASSUME TypeInv, NEW c \in Clients, cur[c] \in Shards, Store(c)
  PROVE  /\ Stored(c)
         /\ mem' \in [Shards -> [RowSet -> Halves \cup PageData]]
         /\ \A j \in Shards, r \in RowSet : mem'[j][r] \in ShardData(j)
  <1> DEFINE q == cur[c]
             w == Row(index[c])
             d == Shard(page[c], q)
  <1>1. q \in Shards /\ w \in RowSet /\ d \in ShardData(q)
    BY RowInTable, PageTypes DEF TypeInv
  <1>2. mem' = [mem EXCEPT ![q][w] = d]
    BY DEF Store
  <1> HIDE DEF q, w, d
  <1>3. \A j \in Shards, r \in RowSet :
            mem'[j][r] = IF j = q /\ r = w THEN d ELSE mem[j][r]
    BY <1>1, <1>2 DEF TypeInv
  <1>4. mem' \in [Shards -> [RowSet -> Halves \cup PageData]]
    <2>1. d \in Halves \cup PageData
      BY <1>1, PageTypes
    <2> QED
      BY <1>1, <1>2, <2>1 DEF TypeInv
  <1>5. \A j \in Shards, r \in RowSet : mem'[j][r] \in ShardData(j)
    BY <1>1, <1>3 DEF TypeInv
  <1> QED
    BY <1>3, <1>4, <1>5 DEF Stored, q, w, d

LEMMA TypeWrite ==
  ASSUME TypeInv, NEW c \in Clients,
         \/ \E i \in Pages, v \in Values : BeginWrite(c, i, v)
         \/ WriteOwn(c)
         \/ WriteSkip(c)
         \/ WriteAlive(c)
         \/ WritePost(c)
  PROVE  TypeInv'
  <1>1. CASE \E i \in Pages, v \in Values : BeginWrite(c, i, v)
    <2>1. PICK i \in Pages, v \in Values : BeginWrite(c, i, v)
      BY <1>1
    <2>2. 0 \in Shards /\ 0 \in 0 .. N /\ i \in Indices
      BY StripeSize, PageAssumption DEF Shards
    <2>3. Page(v) \in PageData /\ Contents(c, i) \in PageData
      BY <2>2, PageTypes, ContentsType
    <2> QED
      BY <2>1, <2>2, <2>3 DEF TypeInv, BeginWrite, nodeVars, readVars, Writing
  <1>2. CASE WriteAlive(c)
    BY <1>2 DEF TypeInv, WriteAlive, nodeVars, readVars, Writing
  <1>3. CASE WriteOwn(c) \/ WriteSkip(c) \/ WritePost(c)
    <2>1. /\ Writing(c) /\ NextShard(c, N - 1)
          /\ Store(c) \/ UNCHANGED mem
          /\ UNCHANGED <<nodeVars, index, readVars, page, before>>
      BY <1>3 DEF WriteOwn, WriteOwnUpTo, WriteSkip, WritePost, WritePostUpTo, Writing
    <2>2. cur[c] \in Shards /\ cur[c] + 1 \in 0 .. N
      BY <2>1, StripeSize DEF TypeInv, Shards
    <2>3. /\ mem' \in [Shards -> [RowSet -> Halves \cup PageData]]
          /\ \A j \in Shards, r \in RowSet : mem'[j][r] \in ShardData(j)
      BY <2>1, <2>2, StoreEffect DEF TypeInv
    <2>4. cur[c] # N - 1 => cur[c] + 1 \in Shards
      BY <2>2, StripeSize DEF Shards
    <2> QED
      BY <2>1, <2>2, <2>3, <2>4 DEF TypeInv, NextShard, nodeVars, readVars, Writing
  <1> QED
    BY <1>1, <1>2, <1>3

LEMMA TypeStep ==
  ASSUME TypeInv, [Next]_vars
  PROVE  TypeInv'
  <1>1. CASE UNCHANGED vars
    BY <1>1 DEF TypeInv, vars, nodeVars, readVars, Writing
  <1>2. ASSUME NEW c \in Clients, ReadStep(c)
        PROVE  TypeInv'
    BY <1>2, TypeRead, TypeFailure DEF ReadStep, FetchDead, Failure
  <1>3. ASSUME NEW c \in Clients, WriteStep(c)
        PROVE  TypeInv'
    BY <1>3, TypeWrite, TypeFailure DEF WriteStep, WriteDead, Failure
  <1> QED
    BY <1>1, <1>2, <1>3, TypeFailure DEF Next, Failure

\* ECAL's shards, decodeIndex and loop variables stay in range; a read goes on
\* only with K peers.
THEOREM TypeCorrect == Spec => []TypeOK
  <1>1. TypeInv => TypeOK
    BY DEF TypeInv, TypeOK, RowSet, Halves
  <1> QED
    BY <1>1, TypeInit, TypeStep, PTL DEF Spec

-----------------------------------------------------------------------------
(* Stripes.                                                                *)

LEMMA StripeInit ==
  ASSUME Setting, Init
  PROVE  StripeInv /\ ReadInv
  <1>1. PICK v \in Values : mem = [j \in Shards |-> [r \in 0 .. (Rows - 1) |->
            IF r \in TestRows THEN Junk ELSE Shard(Page(v), j)]]
    BY DEF Init
  <1>2. TheClient \in Clients /\ pc[TheClient] = "idle"
    BY DEF Setting, Init
  <1>3. ASSUME NEW i \in Pages PROVE Holds(i, Page(v))
    <2>1. Row(i) \in RowSet /\ Row(i) \notin TestRows
      BY RowInTable, PageAssumption DEF Setting
    <2> QED
      BY <1>1, <2>1 DEF Holds, Reach, RowSet
  <1>4. Page(v) \in PageData
    BY PageTypes
  <1> QED
    BY <1>2, <1>3, <1>4 DEF StripeInv, ReadInv, Writing

\* Failures leave the client and its rows alone, and it reaches no more
\* shards than before.
LEMMA FailureIsQuiet ==
  ASSUME Setting, TypeInv,
         Failure
  PROVE  /\ UNCHANGED <<pc[TheClient], ClientState>>
         /\ Reach(TheClient)' \subseteq Reach(TheClient)
         /\ \A i \in Pages, j \in Shards : mem'[j][Row(i)] = mem[j][Row(i)]
         /\ up' \cap Clients \subseteq up
  <1> USE DEF Failure
  <1>1. UNCHANGED ClientState
    BY DEF Crash, Restart, Detect, TestWrite, Die, ClientState
  <1>2. /\ pc'[TheClient] = pc[TheClient]
        /\ linked' \subseteq linked /\ connected' \subseteq connected
        /\ up' \cap Clients \subseteq up
    <2>1. CASE \E n \in Nodes : Restart(n)
      <3>1. PICK n \in Nodes : Restart(n)
        BY <2>1
      <3>2. n \notin Clients
        BY <3>1 DEF Restart, Setting
      <3>3. PairsOf({n} \cap Clients) = {}
        BY <3>2 DEF PairsOf
      <3> QED
        BY <3>1, <3>2, <3>3 DEF Restart, TypeInv, Setting
    <2>2. CASE (\E n \in Nodes : Crash(n)) \/ (\E c \in Clients : Die(c))
      BY <2>2 DEF Crash, Die, Down
    <2>3. CASE \/ \E c \in Clients, p \in Nodes : Detect(c, p)
               \/ \E n, p \in Nodes : TestWrite(n, p)
      BY <2>3 DEF Detect, TestWrite
    <2> QED
      BY <2>1, <2>2, <2>3
  <1>3. Reach(TheClient)' \subseteq Reach(TheClient)
    BY <1>2 DEF Reach
  <1>4. \A i \in Pages, j \in Shards : mem'[j][Row(i)] = mem[j][Row(i)]
    <2>1. CASE \E n, p \in Nodes : TestWrite(n, p)
      <3>1. PICK p \in Nodes :
              mem' = [mem EXCEPT ![p] =
                        [r \in DOMAIN @ |-> IF r \in TestRows THEN Junk ELSE @[r]]]
        BY <2>1 DEF TestWrite
      <3>2. \A i \in Pages : Row(i) \in RowSet \ TestRows
        BY RowInTable, PageAssumption DEF Setting
      <3> QED
        BY <3>1, <3>2 DEF TypeInv
    <2>2. CASE UNCHANGED mem
      BY <2>2
    <2> QED
      BY <2>1, <2>2 DEF Crash, Restart, Detect, Die
  <1> QED
    BY <1>1, <1>2, <1>3, <1>4

LEMMA StripeFailure ==
  ASSUME Setting, IInv,
         Failure
  PROVE  StripeInv' /\ ReadInv'
  <1> USE DEF Failure
  <1>1. /\ UNCHANGED <<pc[TheClient], ClientState>>
        /\ Reach(TheClient)' \subseteq Reach(TheClient)
        /\ \A i \in Pages, j \in Shards : mem'[j][Row(i)] = mem[j][Row(i)]
    BY FailureIsQuiet DEF IInv
  <1>2. Reach(TheClient) \subseteq Shards
    BY DEF Reach
  <1>3. ASSUME NEW i \in Pages, NEW d, Holds(i, d)
        PROVE  Holds(i, d)'
    BY <1>1, <1>2, <1>3 DEF Holds
  <1>4. StripeInv'
    BY <1>1, <1>2, <1>3 DEF IInv, StripeInv, Writing, ClientState
  <1>5. ReadInv'
    BY <1>1, <1>3 DEF IInv, TypeInv, ReadInv, Setting, ClientState, readVars
  <1> QED
    BY <1>4, <1>5

\* The client reads what is in its reach.
LEMMA StripeRead ==
  ASSUME Setting, IInv,
         \/ \E i \in Pages : BeginRead(TheClient, i)
         \/ Scan(TheClient)
         \/ ScanShort(TheClient) /\ ~Die(TheClient)
         \/ Fetch(TheClient)
         \/ EndRead(TheClient)
         \/ EndReadFreed(TheClient) /\ ~Die(TheClient)
  PROVE  StripeInv' /\ ReadInv'
  <1> DEFINE c == TheClient
  <1>1. c \in Clients /\ TypeInv
    BY DEF Setting, IInv
  <1>2. /\ ~Writing(c) /\ ~Writing(c)'
        /\ UNCHANGED <<mem, nodeVars>>
    BY <1>1 DEF TypeInv, BeginRead, Scan, ScanUpTo, ScanShort, Return, Fetch, EndRead, EndReadFreed, Writing
  <1>3. Reach(c)' = Reach(c) /\ \A i, d : Holds(i, d)' <=> Holds(i, d)
    BY <1>2 DEF Reach, Holds, nodeVars
  <1>4. StripeInv'
    BY <1>2, <1>3 DEF IInv, StripeInv
  <1>5. ReadInv'
    <2>1. CASE \E i \in Pages : BeginRead(c, i)
      <3>1. PICK i \in Pages : BeginRead(c, i)
        BY <2>1
      <3>2. index'[c] = i /\ DOMAIN got'[c] = {}
        BY <1>1, <3>1 DEF TypeInv, BeginRead
      <3>3. PICK d \in PageData : Holds(i, d)
        BY <1>2 DEF IInv, StripeInv
      <3> QED
        BY <1>3, <3>2, <3>3 DEF ReadInv
    <2>2. CASE Scan(c)
      <3>1. pc[c] = "scan" /\ UNCHANGED <<index, got, blind>>
        BY <2>2 DEF Scan, ScanUpTo
      <3> QED
        BY <1>3, <3>1 DEF IInv, ReadInv
    <2>3. CASE ((ScanShort(c) \/ EndReadFreed(c)) /\ ~Die(c)) \/ EndRead(c)
      <3>1. pc'[c] = "idle"
        BY <1>1, <2>3 DEF ScanShort, EndRead, EndReadFreed, Return, TypeInv
      <3> QED
        BY <3>1 DEF ReadInv
    <2>4. CASE Fetch(c)
      <3> DEFINE j == NextPeer(c)
                 gone == c # j /\ <<c, j>> \notin linked
                 v == IF gone THEN Junk ELSE mem[j][Row(index[c])]
      <3>1. /\ pc[c] = "fetch" /\ chosen[c] # DOMAIN got[c] /\ PeerAlive(c, j)
            /\ got' = [got EXCEPT ![c] = [k \in DOMAIN @ \cup {j} |-> IF k = j THEN v ELSE @[k]]]
            /\ blind' = [blind EXCEPT ![c] = @ \/ gone]
            /\ index' = index
        BY <2>4 DEF Fetch
      <3>2. j \in Shards
        BY <1>1, <3>1, NextIsChosen DEF TypeInv
      <3>3. blind'[c] <=> (blind[c] \/ gone)
        BY <1>1, <3>1 DEF TypeInv
      <3>4. SUFFICES ASSUME ~blind[c], ~gone PROVE ReadInv'
        BY <3>3 DEF ReadInv
      <3>5. PICK d \in PageData :
              /\ Holds(index[c], d)
              /\ \A k \in DOMAIN got[c] \ {c} : got[c][k] = Shard(d, k)
        BY <3>1, <3>4 DEF IInv, ReadInv
      <3>6. j \in Reach(c)
        BY <3>1, <3>2, <3>4 DEF Reach, PeerAlive
      <3>7. v = Shard(d, j)
        BY <3>4, <3>5, <3>6 DEF Holds
      <3> HIDE DEF v, j
      <3>8. \A k \in DOMAIN got'[c] \ {c} : got'[c][k] = Shard(d, k)
        BY <1>1, <3>1, <3>5, <3>7 DEF TypeInv
      <3>9. Holds(index[c], d)'
        <4> PICK w : w = index[c]
          OBVIOUS
        <4>1. Holds(w, d)'
          BY <1>3, <3>5
        <4> QED
          BY <3>1, <4>1 DEF Holds
      <3> QED
        BY <3>8, <3>9 DEF ReadInv
    <2> QED
      BY <2>1, <2>2, <2>3, <2>4
  <1> QED
    BY <1>4, <1>5

\* A turn of writeBlock's loop stores the shard of a peer in reach.
LEMMA StripeTurn ==
  ASSUME Setting, IInv, Writing(TheClient), NextShard(TheClient, N - 1),
         Store(TheClient) \/ (UNCHANGED mem /\ cur[TheClient] \notin Reach(TheClient)),
         UNCHANGED <<nodeVars, index, page>>
  PROVE  /\ StripeInv'
         /\ \A i, d : /\ cur[TheClient] = N - 1
                     /\ i = index[TheClient] /\ d = page[TheClient]
                     => Holds(i, d)'
         /\ \A i \in Pages \ {index[TheClient]}, j \in Shards :
                mem'[j][Row(i)] = mem[j][Row(i)]
  <1> DEFINE c == TheClient
             q == cur[c]
             p == page[c]
  <1>1. /\ c \in Clients /\ TypeInv /\ q \in Shards /\ p \in PageData
        /\ index[c] \in Pages
    BY DEF Setting, IInv, TypeInv, Writing
  <1>2. Reach(c)' = Reach(c) /\ Reach(c) \subseteq Shards
    BY DEF Reach, nodeVars
  <1>3. \A i \in Pages \ {index[c]}, j \in Shards : mem'[j][Row(i)] = mem[j][Row(i)]
    <2>1. CASE Store(c)
      <3>1. Stored(c)
        BY <1>1, <2>1, StoreEffect
      <3>2. \A i \in Pages \ {index[c]} : Row(i) \in RowSet /\ Row(i) # Row(index[c])
        BY <1>1, RowInTable, PageAssumption DEF Setting
      <3> QED
        BY <3>1, <3>2 DEF Stored
    <2> QED
      BY <2>1
  <1>4. \A j \in Reach(c) : j < q + 1 => mem'[j][Row(index[c])] = Shard(p, j)
    <2>1. \A j \in Reach(c) : j < q => mem[j][Row(index[c])] = Shard(p, j)
      BY <1>1 DEF IInv, StripeInv
    <2>2. \A j \in Shards : j < q + 1 => j < q \/ j = q
      BY <1>1, StripeSize DEF Shards
    <2>3. CASE Store(c)
      <3>1. Stored(c) /\ Row(index[c]) \in RowSet
        BY <1>1, <2>3, StoreEffect, RowInTable, PageAssumption
      <3> QED
        BY <1>2, <2>1, <2>2, <3>1 DEF Stored
    <2> QED
      BY <1>2, <2>1, <2>2, <2>3
  <1>5. ASSUME NEW i \in Pages, i # index[c]
        PROVE  \E d \in PageData : Holds(i, d)'
    <2>1. PICK d \in PageData : Holds(i, d)
      BY <1>5 DEF IInv, StripeInv
    <2>2. Holds(i, d)'
      BY <1>2, <1>3, <1>5, <2>1 DEF Holds
    <2> QED
      BY <2>2
  <1>6. CASE q = N - 1
    <2>1. ~Writing(c)'
      BY <1>1, <1>6 DEF NextShard, TypeInv, Writing
    <2>2. PICK w, d : w = index[c] /\ d = p
      OBVIOUS
    <2>3. Holds(w, d)'
      <3>1. \A j \in Shards : j < q + 1
        BY <1>6, StripeSize DEF Shards
      <3> QED
        BY <1>2, <1>4, <2>2, <3>1 DEF Holds
    <2>4. StripeInv'
      BY <1>1, <1>5, <2>1, <2>2, <2>3 DEF StripeInv
    <2> QED
      BY <1>3, <2>2, <2>3, <2>4
  <1>7. CASE q # N - 1
    <2>1. Writing(c)' /\ cur'[c] = q + 1
      BY <1>1, <1>7 DEF NextShard, TypeInv, Writing
    <2>2. StripeInv'
      BY <1>2, <1>4, <1>5, <2>1 DEF StripeInv
    <2> QED
      BY <1>3, <1>7, <2>2
  <1> QED
    BY <1>6, <1>7

LEMMA StripeWrite ==
  ASSUME Setting, IInv,
         \/ \E i \in Pages, v \in Values : BeginWrite(TheClient, i, v)
         \/ WriteOwn(TheClient)
         \/ WriteSkip(TheClient)
         \/ WriteAlive(TheClient)
         \/ WritePost(TheClient)
  PROVE  StripeInv' /\ ReadInv'
  <1> DEFINE c == TheClient
  <1>1. c \in Clients /\ TypeInv
    BY DEF Setting, IInv
  <1>2. pc'[c] \notin {"scan", "fetch"}
    BY <1>1 DEF TypeInv, BeginWrite, WriteOwn, WriteOwnUpTo, WriteSkip, WriteAlive, WritePost,
                WritePostUpTo, NextShard
  <1>3. ReadInv'
    BY <1>2 DEF ReadInv
  <1>4. CASE WriteOwn(c) \/ WriteSkip(c) \/ WritePost(c)
    <2>1. /\ Writing(c) /\ NextShard(c, N - 1)
          /\ UNCHANGED <<nodeVars, index, page>>
      BY <1>4 DEF WriteOwn, WriteOwnUpTo, WriteSkip, WritePost, WritePostUpTo, Writing
    <2>2. Store(c) \/ (UNCHANGED mem /\ cur[c] \notin Reach(c))
      BY <1>1, <1>4 DEF WriteOwn, WriteOwnUpTo, WriteSkip, WritePost, WritePostUpTo, TypeInv,
                        PeerAlive, Reach
    <2>3. StripeInv'
      BY <2>1, <2>2, StripeTurn
    <2> QED
      BY <1>3, <2>3
  <1>5. CASE (\E i \in Pages, v \in Values : BeginWrite(c, i, v)) \/ WriteAlive(c)
    <2>1. UNCHANGED <<mem, nodeVars>>
      BY <1>5 DEF BeginWrite, WriteAlive
    <2>2. Reach(c)' = Reach(c) /\ \A i, d : Holds(i, d)' <=> Holds(i, d)
      BY <2>1 DEF Reach, Holds, nodeVars
    <2>3. CASE WriteAlive(c)
      <3>1. Writing(c) /\ Writing(c)' /\ UNCHANGED <<index, cur, page>>
        BY <1>1, <2>3 DEF WriteAlive, Writing, TypeInv
      <3> QED
        BY <1>3, <2>1, <2>2, <3>1 DEF IInv, StripeInv
    <2>4. CASE \E i \in Pages, v \in Values : BeginWrite(c, i, v)
      <3>1. ~Writing(c) /\ cur'[c] = 0
        BY <1>1, <2>4 DEF BeginWrite, Writing, TypeInv
      <3>2. \A j \in Reach(c) : ~(j < 0)
        BY StripeSize DEF Reach, Shards
      <3> QED
        BY <1>3, <2>2, <3>1, <3>2 DEF IInv, StripeInv
    <2> QED
      BY <1>5, <2>3, <2>4
  <1> QED
    BY <1>4, <1>5

LEMMA StripeStep ==
  ASSUME Setting, IInv, [Next]_vars
  PROVE  IInv'
  <1>1. TypeInv'
    BY TypeStep DEF IInv
  <1>2. CASE UNCHANGED vars
    <2>1. UNCHANGED <<mem, nodeVars, readVars, pc, index, cur, page>>
      BY <1>2 DEF vars
    <2>2. \A i, d : Holds(i, d)' <=> Holds(i, d)
      BY <2>1 DEF Holds, Reach, nodeVars
    <2>3. ReadInv'
      BY <2>1, <2>2 DEF IInv, ReadInv, readVars
    <2>4. StripeInv'
      BY <2>1, <2>2 DEF IInv, StripeInv, Reach, nodeVars, Writing
    <2> QED
      BY <1>1, <2>3, <2>4 DEF IInv
  <1>3. ASSUME NEW c \in Clients, ReadStep(c) \/ WriteStep(c)
        PROVE  StripeInv' /\ ReadInv'
    <2>1. c = TheClient
      BY DEF Setting
    <2>2. CASE Die(c)
      BY <2>2, StripeFailure DEF Failure
    <2>3. CASE ReadStep(c) /\ ~Die(c)
      BY <2>1, <2>3, StripeRead DEF ReadStep, FetchDead
    <2>4. CASE WriteStep(c) /\ ~Die(c)
      BY <2>1, <2>4, StripeWrite DEF WriteStep, WriteDead
    <2> QED
      BY <1>3, <2>2, <2>3, <2>4
  <1> QED
    BY <1>1, <1>2, <1>3, StripeFailure DEF Next, Failure, IInv

LEMMA AlwaysIInv ==
  ASSUME Setting
  PROVE  Spec => []IInv
  <1>1. Init => IInv
    BY TypeInit, StripeInit DEF IInv
  <1>2. IInv /\ [Next]_vars => IInv'
    BY StripeStep
  <1> QED
    BY <1>1, <1>2, PTL DEF Spec

\* Between its calls the client could decode a page from any K shards it
\* reaches, with the same result (writeBlock, isPeerAlive, onDisconnected).
THEOREM AnyShardsDo ==
  ASSUME Setting
  PROVE  Spec => []StripesAgree
  <1>1. IInv => StripesAgree
    <2> SUFFICES ASSUME IInv, NEW i \in Pages, ~Writing(TheClient),
                        NEW S \in kSubset(K, Reach(TheClient))
                 PROVE  Decode(S, Column(i)) = Contents(TheClient, i)
      BY DEF StripesAgree, Setting, Writing
    <2> DEFINE R == Reach(TheClient)
    <2>1. i \in Indices /\ TheClient \in Clients
      BY PageAssumption DEF Setting
    <2>2. PICK d \in PageData : Holds(i, d)
      BY DEF IInv, StripeInv
    <2>3. R \subseteq Shards /\ \A j \in R : Column(i)[j] = Shard(d, j)
      BY <2>2 DEF Holds, Reach, Column
    <2>4. d # Junk
      BY DEF Setting
    <2>5. Cardinality(R) >= K
      <3>1. IsFiniteSet(R) /\ S \subseteq R /\ Cardinality(S) = K
        BY <2>3, StripeSize, FS_Subset DEF kSubset
      <3>2. K <= Cardinality(R)
        BY <3>1, FS_Subset
      <3> QED
        BY <3>1, <3>2, FS_CardinalityType, CodeAssumption
    <2>6. Decode(S, Column(i)) = d
      BY <2>3, <2>4, DecodedWhole
    <2>7. Decoded(R, Column(i)) = d
      BY <2>3, <2>4, <2>5, DecodedWhole
    <2> QED
      BY <2>1, <2>6, <2>7, ContentsDecoded
  <1> QED
    BY <1>1, AlwaysIInv, PTL

-----------------------------------------------------------------------------
(* The refinement.                                                         *)

LEMMA FailedCount ==
  ASSUME NEW R, R \subseteq Shards
  PROVE  /\ Cardinality(Shards \ R) \in Nat
         /\ Cardinality(Shards \ R) <= P <=> Cardinality(R) >= K
         /\ \A n \in R : Cardinality(Shards \ (R \ {n})) = Cardinality(Shards \ R) + 1
  <1>1. IsFiniteSet(Shards) /\ Cardinality(Shards) = N /\ N = K + P /\ K \in Nat /\ P \in Nat
    BY StripeSize, CodeAssumption DEF N
  <1>2. IsFiniteSet(R) /\ Cardinality(R) \in Nat
    BY <1>1, FS_Subset, FS_CardinalityType
  <1>3. IsFiniteSet(Shards \ R) /\ Cardinality(Shards \ R) \in Nat
    BY <1>1, FS_Difference, FS_CardinalityType
  <1>4. Cardinality(Shards \ R) = N - Cardinality(R)
    <2>1. Shards \cap R = R
      OBVIOUS
    <2>2. Cardinality(Shards \ R) = Cardinality(Shards) - Cardinality(Shards \cap R)
      BY <1>1, FS_Difference
    <2> QED
      BY <1>1, <2>1, <2>2
  <1>5. ASSUME NEW n \in R
        PROVE  Cardinality(Shards \ (R \ {n})) = Cardinality(Shards \ R) + 1
    <2>1. Shards \ (R \ {n}) = (Shards \ R) \cup {n} /\ n \notin Shards \ R
      OBVIOUS
    <2>2. Cardinality((Shards \ R) \cup {n}) = Cardinality(Shards \ R) + 1
      BY <1>3, <2>1, FS_AddElement
    <2> QED
      BY <2>1, <2>2
  <1> QED
    BY <1>1, <1>2, <1>3, <1>4, <1>5

\* What a step that spares the rows of a page, and writes none of it, does to
\* its contents.
LEMMA ContentsKept ==
  ASSUME Setting, IInv, NEW i \in Pages, ~(Writing(TheClient) /\ index[TheClient] = i),
         Reach(TheClient)' \subseteq Reach(TheClient),
         \A j \in Shards : mem'[j][Row(i)] = mem[j][Row(i)],
         Cardinality(Reach(TheClient)') >= K
  PROVE  Contents(TheClient, i)' = Contents(TheClient, i)
  <1> DEFINE R == Reach(TheClient)
  <1>1. i \in Indices /\ TheClient \in Clients
    BY PageAssumption DEF Setting
  <1>2. PICK d \in PageData : Holds(i, d)
    BY DEF IInv, StripeInv
  <1>3. d # Junk
    BY DEF Setting
  <1>4. PICK R2, col2 : R2 = Reach(TheClient)' /\ col2 = Column(i)'
    OBVIOUS
  <1>5. /\ R \subseteq Shards /\ \A j \in R : Column(i)[j] = Shard(d, j)
        /\ R2 \subseteq R /\ \A j \in R2 : col2[j] = Shard(d, j)
    BY <1>2, <1>4 DEF Holds, Reach, Column
  <1>6. Cardinality(R2) >= K /\ Cardinality(R) >= K
    <2>1. IsFiniteSet(R) /\ Cardinality(R2) <= Cardinality(R)
      BY <1>5, StripeSize, FS_Subset
    <2>2. Cardinality(R2) \in Nat /\ Cardinality(R) \in Nat
      BY <1>5, DecodedChoice
    <2> QED
      BY <1>4, <2>1, <2>2, CodeAssumption
  <1>7. Decoded(R, Column(i)) = d /\ Decoded(R2, col2) = d
    BY <1>3, <1>5, <1>6, DecodedWhole
  <1>8. Contents(TheClient, i) = Decoded(R, Column(i))
    BY <1>1, ContentsDecoded
  <1>9. Contents(TheClient, i)' = Decoded(R2, col2)
    BY <1>4 DEF Contents, Decoded
  <1> QED
    BY <1>7, <1>8, <1>9

\* Beyond P failures every page is lost.
LEMMA ContentsLost ==
  ASSUME Setting, NEW i \in Pages
  PROVE  /\ Cardinality(Reach(TheClient)) < K => Contents(TheClient, i) = JunkPage
         /\ Cardinality(Reach(TheClient)') < K => Contents(TheClient, i)' = JunkPage
  BY DEF Contents

\* The failures PageStore counts.
LEMMA FailedBarForm ==
  /\ FailedBar \in Nat /\ FailedBar' \in Nat
  /\ FailedBar <= P <=> Cardinality(Reach(TheClient)) >= K
  /\ FailedBar' <= P <=> Cardinality(Reach(TheClient)') >= K
  /\ Cardinality(Reach(TheClient)) \in Nat /\ Cardinality(Reach(TheClient)') \in Nat
  <1>1. PICK R2 : R2 = Reach(TheClient)'
    OBVIOUS
  <1>2. Reach(TheClient) \subseteq Shards /\ R2 \subseteq Shards
    BY <1>1 DEF Reach
  <1>3. FailedBar' = Cardinality(Shards \ R2)
    BY <1>1 DEF FailedBar
  <1>4. FailedBar = Cardinality(Shards \ Reach(TheClient))
    BY DEF FailedBar
  <1> QED
    BY <1>1, <1>2, <1>3, <1>4, FailedCount, DecodedChoice

LEMMA RefineInit ==
  ASSUME Setting, Init
  PROVE  Store1!Init
  <1>1. TypeInv /\ TheClient \in Clients /\ TheClient \in Nodes
    BY TypeInit, NodeAssumption DEF Setting
  <1>2. Shards \subseteq Nodes
    <2>1. N <= ClusterSize
      <3> DEFINE s == N
      <3>1. s \in Nat \ {0} /\ ClusterSize \in Nat \ {0} /\ ClusterSize % s = 0
        BY StripeSize, SizeAssumption
      <3> HIDE DEF s
      <3>2. s <= ClusterSize
        BY <3>1
      <3> QED
        BY <3>2 DEF s
    <2> QED
      BY <2>1, StripeSize, SizeAssumption DEF Shards, Nodes
  <1>3. Reach(TheClient) = Shards
    BY <1>1, <1>2 DEF Init, Reach, PairsOf
  <1>4. FailedBar = 0
    <2>1. Shards \ Reach(TheClient) = {}
      BY <1>3
    <2> QED
      BY <2>1, FS_EmptySet DEF FailedBar
  <1>5. ~Writing(TheClient) /\ result[TheClient] = None
    BY <1>1 DEF Init, Writing
  <1>6. PagesBar \in [Pages -> PageData]
    BY <1>1, <1>5, ContentsType, PageAssumption DEF PagesBar
  <1> QED
    BY <1>4, <1>5, <1>6 DEF Store1!Init, RequestBar

LEMMA RefineFailure ==
  ASSUME Setting, IInv,
         Failure
  PROVE  Store1!Fail \/ UNCHANGED Store1!vars
  <1> USE DEF Failure
  <1> DEFINE c == TheClient
             R == Reach(c)
  <1>1. /\ UNCHANGED <<pc[c], ClientState>>
        /\ R' \subseteq R
        /\ \A i \in Pages, j \in Shards : mem'[j][Row(i)] = mem[j][Row(i)]
    BY FailureIsQuiet DEF IInv
  <1>2. RequestBar' = RequestBar /\ result'[c] = result[c]
    BY <1>1 DEF RequestBar, Writing, ClientState, readVars
  <1>3. Writing(c)' = Writing(c) /\ index' = index /\ before' = before
    BY <1>1 DEF Writing, ClientState
  <1>4. PICK R2 : R2 = R'
    OBVIOUS
  <1>5. R2 = R \/ \E n \in R : R2 = R \ {n}
    <2>1. CASE \E n \in Nodes : Restart(n)
      <3>1. PICK n \in Nodes : Restart(n)
        BY <2>1
      <3>2. linked \subseteq linked' /\ connected \subseteq connected'
        BY <3>1 DEF Restart
      <3>3. R \subseteq R2
        BY <3>2, <1>4 DEF Reach
      <3> QED
        BY <3>3, <1>1, <1>4
    <2>2. CASE (\E n \in Nodes : Crash(n)) \/ (\E b \in Clients : Die(b))
      <3>1. PICK n : Down(n)
        BY <2>2 DEF Crash, Die
      <3>2. \A p \in Shards \ {n} :
              <<c, p>> \in linked' \cap connected' <=> <<c, p>> \in linked \cap connected
        BY <3>1 DEF Down
      <3>3. R \ {n} \subseteq R2
        BY <3>2, <1>4 DEF Reach
      <3> QED
        BY <3>3, <1>1, <1>4
    <2>3. CASE \E b \in Clients, p \in Nodes : Detect(b, p)
      <3>1. linked' = linked /\ linked \cap connected \subseteq linked' \cap connected'
        BY <2>3 DEF Detect
      <3>2. R \subseteq R2
        BY <3>1, <1>4 DEF Reach
      <3> QED
        BY <3>2, <1>1, <1>4
    <2>4. CASE \E n, p \in Nodes : TestWrite(n, p)
      <3>1. R2 = R
        BY <2>4, <1>4 DEF TestWrite, Reach
      <3> QED
        BY <3>1
    <2> QED
      BY <2>1, <2>2, <2>3, <2>4
  <1>6. FailedBar' = Cardinality(Shards \ R2) /\ FailedBar = Cardinality(Shards \ R)
    BY <1>4 DEF FailedBar
  <1>7. R \subseteq Shards
    BY DEF Reach
  <1>8. ASSUME FailedBar' <= P, FailedBar <= P
        PROVE  PagesBar' = PagesBar
    <2>1. \A i \in Pages : ~(Writing(c) /\ index[c] = i) => Contents(c, i)' = Contents(c, i)
      BY <1>1, <1>8, ContentsKept, FailedBarForm
    <2> QED
      BY <1>3, <1>8, <2>1 DEF PagesBar
  <1>9. ASSUME ~(FailedBar' <= P)
        PROVE  PagesBar' = [i \in Pages |-> JunkPage]
    <2>1. Cardinality(R') < K
      BY <1>9, FailedBarForm, CodeAssumption
    <2>2. \A i \in Pages : Contents(c, i)' = JunkPage
      BY <2>1, ContentsLost
    <2> QED
      BY <1>9, <2>2 DEF PagesBar
  <1>10. CASE R2 = R
    <2>1. FailedBar' = FailedBar
      BY <1>6, <1>10
    <2>2. PagesBar' = PagesBar
      <3>1. CASE FailedBar <= P
        BY <1>8, <2>1, <3>1
      <3>2. CASE ~(FailedBar <= P)
        <4>1. Cardinality(R) < K
          BY <3>2, FailedBarForm, CodeAssumption
        <4>2. \A i \in Pages : Contents(c, i) = JunkPage
          BY <4>1, ContentsLost
        <4> QED
          BY <1>9, <2>1, <3>2, <4>2 DEF PagesBar
      <3> QED
        BY <3>1, <3>2
    <2> QED
      BY <1>2, <2>1, <2>2 DEF Store1!vars
  <1>11. CASE \E n \in R : R2 = R \ {n}
    <2>1. FailedBar' = FailedBar + 1
      BY <1>6, <1>7, <1>11, FailedCount
    <2>2. FailedBar' <= P => FailedBar <= P
      BY <2>1, FailedBarForm, CodeAssumption
    <2>3. PagesBar' = IF FailedBar' > P THEN [i \in Pages |-> JunkPage] ELSE PagesBar
      BY <1>8, <1>9, <2>2, FailedBarForm, CodeAssumption
    <2> QED
      BY <1>2, <2>1, <2>3 DEF Store1!Fail
  <1> QED
    BY <1>5, <1>10, <1>11

LEMMA SameMemory ==
  ASSUME UNCHANGED <<mem, nodeVars>>
  PROVE  /\ Reach(TheClient)' = Reach(TheClient) /\ FailedBar' = FailedBar
         /\ \A i \in Pages : Contents(TheClient, i)' = Contents(TheClient, i)
  BY DEF Reach, FailedBar, Contents, Column, nodeVars

\* Nothing happens until a read returns.
LEMMA RefineRead ==
  ASSUME Setting, IInv,
         \/ \E i \in Pages : BeginRead(TheClient, i)
         \/ Scan(TheClient)
         \/ ScanShort(TheClient) /\ ~Die(TheClient)
         \/ Fetch(TheClient)
         \/ EndRead(TheClient)
         \/ EndReadFreed(TheClient) /\ ~Die(TheClient)
  PROVE  (\E i \in Pages : Store1!Read(i)) \/ UNCHANGED Store1!vars
  <1> DEFINE c == TheClient
             R == Reach(c)
  <1>1. c \in Clients /\ TypeInv
    BY DEF Setting, IInv
  <1>2. /\ ~Writing(c) /\ ~Writing(c)'
        /\ UNCHANGED <<mem, nodeVars>>
    BY <1>1 DEF TypeInv, BeginRead, Scan, ScanUpTo, ScanShort, Return, Fetch, EndRead, EndReadFreed, Writing
  <1>3. PagesBar' = PagesBar /\ FailedBar' = FailedBar
    BY <1>2, SameMemory DEF PagesBar
  <1>4. RequestBar = None /\ RequestBar' = None
    BY <1>2 DEF RequestBar
  <1>5. CASE (\E i \in Pages : BeginRead(c, i)) \/ Scan(c) \/ Fetch(c)
    <2>1. result' = result
      BY <1>5 DEF BeginRead, Scan, ScanUpTo, Fetch
    <2> QED
      BY <1>3, <1>4, <2>1 DEF Store1!vars
  <1>6. ASSUME NEW d \in PageData, NEW sound \in BOOLEAN, Return(c, d, sound),
               index[c] \in Pages, sound /\ FailedBar <= P => d = Contents(c, index[c])
        PROVE  \E i \in Pages : Store1!Read(i)
    <2>1. result'[c] = [index |-> index[c], page |-> d, sound |-> sound]
      BY <1>1, <1>6 DEF Return, TypeInv
    <2>2. PagesBar[index[c]] = Contents(c, index[c])
      BY <1>2, <1>6 DEF PagesBar
    <2> QED
      BY <1>3, <1>4, <1>6, <2>1, <2>2 DEF Store1!Read
  <1>7. CASE ScanShort(c) /\ ~Die(c)
    <2>1. Return(c, JunkPage, FALSE) /\ pc[c] = "scan"
      BY <1>7 DEF ScanShort
    <2>2. JunkPage \in PageData
      BY DEF JunkPage, PageData
    <2> QED
      BY <1>1, <1>6, <2>1, <2>2 DEF TypeInv
  <1>8. CASE EndRead(c)
    <2> DEFINE val == [j \in chosen[c] |-> IF j = c THEN mem[j][Row(index[c])] ELSE got[c][j]]
               w == index[c]
    <2>1. /\ pc[c] = "fetch" /\ chosen[c] = DOMAIN got[c]
          /\ Return(c, Decode(chosen[c], val), ~blind[c])
      BY <1>8 DEF EndRead, Assembled
    <2>2. chosen[c] \in kSubset(K, Shards) /\ w \in Pages /\ w \in Indices /\ blind[c] \in BOOLEAN
      BY <1>1, <2>1 DEF TypeInv, kSubset
    <2>3. chosen[c] \subseteq Shards /\ \A j \in chosen[c] : val[j] \in ShardData(j)
      BY <1>1, <2>1, <2>2, RowInTable DEF TypeInv
    <2>4. Decode(chosen[c], val) \in PageData
      BY <2>3, DecodeType
    <2>5. ASSUME ~blind[c], FailedBar <= P
          PROVE  Decode(chosen[c], val) = Contents(c, w)
      <3>1. PICK d \in PageData :
              /\ Holds(w, d)
              /\ \A j \in DOMAIN got[c] \ {c} : got[c][j] = Shard(d, j)
        BY <2>1, <2>5 DEF IInv, ReadInv
      <3>2. d # Junk
        BY DEF Setting
      <3>3. \A j \in chosen[c] : val[j] = Shard(d, j)
        BY <2>1, <2>3, <3>1 DEF Holds, Reach
      <3> HIDE DEF val
      <3>4. Decode(chosen[c], val) = d
        BY <2>2, <3>2, <3>3, DecodeWhole
      <3>5. R \subseteq Shards /\ \A j \in R : Column(w)[j] = Shard(d, j)
        BY <3>1 DEF Holds, Reach, Column
      <3>6. Decoded(R, Column(w)) = d
        BY <2>5, <3>2, <3>5, DecodedWhole, FailedBarForm
      <3> QED
        BY <1>1, <2>2, <3>4, <3>6, ContentsDecoded
    <2> HIDE DEF val
    <2> QED
      BY <1>6, <2>1, <2>2, <2>4, <2>5
  <1>9. CASE EndReadFreed(c) /\ ~Die(c)
    \* Such a read promises nothing, so that any page is one it may return.
    <2> DEFINE fetched == [j \in chosen[c] |->
                             IF j = c THEN mem[j][Row(index[c])] ELSE got[c][j]]
               read(bad) == [s \in Slots |-> IF s \in bad THEN Junk ELSE Assembled(c)[s]]
    <2>1. PICK bad : Return(c, read(bad), FALSE)
      BY <1>9 DEF EndReadFreed
    <2>2. pc[c] = "fetch" /\ chosen[c] = DOMAIN got[c] /\ chosen[c] \subseteq Shards
      BY <1>1, <1>9 DEF EndReadFreed, TypeInv
    <2>3. index[c] \in Pages /\ index[c] \in Indices
      BY <1>1, <2>2 DEF TypeInv
    <2>4. \A j \in chosen[c] : fetched[j] \in ShardData(j)
      BY <1>1, <2>2, <2>3, RowInTable DEF TypeInv
    <2>5. Assembled(c) \in PageData
      BY <2>2, <2>4, DecodeType DEF Assembled
    <2>6. read(bad) \in PageData
      BY <2>5 DEF PageData
    <2> QED
      BY <1>6, <2>1, <2>3, <2>6
  <1> QED
    BY <1>5, <1>7, <1>8, <1>9

\* The turns of the loop before the last are invisible; with the last one all
\* shards in reach belong to the new page.
LEMMA RefineTurn ==
  ASSUME Setting, IInv, IInv', Writing(TheClient), NextShard(TheClient, N - 1),
         Store(TheClient) \/ (UNCHANGED mem /\ cur[TheClient] \notin Reach(TheClient)),
         UNCHANGED <<nodeVars, index, readVars, page, before>>
  PROVE  Store1!Write \/ UNCHANGED Store1!vars
  <1> DEFINE c == TheClient
             R == Reach(c)
  <1>1. c \in Clients /\ TypeInv /\ index[c] \in Pages /\ page[c] \in PageData
    BY DEF Setting, IInv, TypeInv, Writing
  <1>2. R' = R /\ FailedBar' = FailedBar
    BY DEF Reach, FailedBar, nodeVars
  <1>3. RequestBar = [index |-> index[c], page |-> page[c]] /\ RequestBar # None
    <2>1. index[c] \in Indices
      BY <1>1, PageAssumption
    <2>2. [index |-> index[c], page |-> page[c]] \in [index : Indices, page : PageData]
      BY <1>1, <2>1
    <2> QED
      BY <2>2 DEF RequestBar, Setting
  <1>4. result' = result /\ index' = index /\ page' = page /\ before' = before
    BY DEF readVars
  <1>5. /\ \A i, d : cur[c] = N - 1 /\ i = index[c] /\ d = page[c] => Holds(i, d)'
        /\ \A i \in Pages \ {index[c]}, j \in Shards : mem'[j][Row(i)] = mem[j][Row(i)]
    BY StripeTurn
  <1>6. ASSUME FailedBar <= P, NEW i \in Pages, i # index[c]
        PROVE  Contents(c, i)' = Contents(c, i)
    BY <1>2, <1>5, <1>6, ContentsKept, FailedBarForm
  <1>7. ASSUME ~(FailedBar <= P)
        PROVE  PagesBar' = PagesBar
    <2>1. Cardinality(R) < K /\ Cardinality(R') < K
      BY <1>2, <1>7, FailedBarForm, CodeAssumption
    <2>2. \A i \in Pages : Contents(c, i)' = JunkPage /\ Contents(c, i) = JunkPage
      BY <2>1, ContentsLost
    <2> QED
      BY <1>2, <1>7, <2>2 DEF PagesBar
  <1>8. CASE cur[c] # N - 1
    <2>1. Writing(c)'
      BY <1>1, <1>8 DEF NextShard, TypeInv, Writing
    <2>2. RequestBar' = RequestBar
      BY <1>4, <2>1 DEF RequestBar
    <2>3. FailedBar <= P => PagesBar' = PagesBar
      BY <1>2, <1>4, <1>6, <2>1 DEF PagesBar
    <2> QED
      BY <1>2, <1>4, <1>7, <2>2, <2>3 DEF Store1!vars
  <1>9. CASE cur[c] = N - 1
    <2>1. ~Writing(c)' /\ RequestBar' = None
      BY <1>1, <1>9 DEF NextShard, TypeInv, Writing, RequestBar
    <2>2. ASSUME FailedBar <= P
          PROVE  PagesBar' = [PagesBar EXCEPT ![index[c]] = page[c]]
      <3>1. PICK w, d, R2, col2 : w = index[c] /\ d = page[c] /\ R2 = R' /\ col2 = Column(w)'
        OBVIOUS
      <3>2. R2 \subseteq Shards /\ \A j \in R2 : col2[j] = Shard(d, j)
        <4>1. Holds(w, d)'
          BY <1>5, <1>9, <3>1
        <4> QED
          BY <3>1, <4>1 DEF Holds, Reach, Column
      <3>3. d # Junk /\ d \in PageData
        BY <1>1, <3>1 DEF Setting
      <3>4. Cardinality(R2) >= K
        BY <1>2, <2>2, <3>1, FailedBarForm
      <3>5. Decoded(R2, col2) = d
        BY <3>2, <3>3, <3>4, DecodedWhole
      <3>6. Contents(c, w)' = d
        BY <3>1, <3>5 DEF Contents, Decoded
      <3>7. PagesBar' = [i \in Pages |-> IF i = w THEN d ELSE Contents(c, i)]
        BY <1>6, <2>1, <2>2, <3>1, <3>6 DEF PagesBar
      <3>8. \A i \in Pages : i # w => PagesBar[i] = Contents(c, i)
        BY <3>1 DEF PagesBar
      <3>9. PagesBar = [i \in Pages |-> PagesBar[i]]
        BY DEF PagesBar
      <3> QED
        BY <3>1, <3>7, <3>8, <3>9
    <2>3. PagesBar' = IF FailedBar > P THEN PagesBar
                      ELSE [PagesBar EXCEPT ![RequestBar.index] = RequestBar.page]
      BY <1>3, <1>7, <2>2, FailedBarForm, CodeAssumption
    <2> QED
      BY <1>2, <1>3, <1>4, <2>1, <2>3 DEF Store1!Write
  <1> QED
    BY <1>8, <1>9

LEMMA RefineWrite ==
  ASSUME Setting, IInv, IInv',
         \/ \E i \in Pages, v \in Values : BeginWrite(TheClient, i, v)
         \/ WriteOwn(TheClient)
         \/ WriteSkip(TheClient)
         \/ WriteAlive(TheClient)
         \/ WritePost(TheClient)
  PROVE  Store1!Next \/ UNCHANGED Store1!vars
  <1> DEFINE c == TheClient
  <1>1. c \in Clients /\ TypeInv
    BY DEF Setting, IInv
  <1>2. CASE WriteOwn(c) \/ WriteSkip(c) \/ WritePost(c)
    <2>1. /\ Writing(c) /\ NextShard(c, N - 1)
          /\ UNCHANGED <<nodeVars, index, readVars, page, before>>
      BY <1>2 DEF WriteOwn, WriteOwnUpTo, WriteSkip, WritePost, WritePostUpTo, Writing
    <2>2. Store(c) \/ (UNCHANGED mem /\ cur[c] \notin Reach(c))
      BY <1>1, <1>2 DEF WriteOwn, WriteOwnUpTo, WriteSkip, WritePost, WritePostUpTo, TypeInv,
                        PeerAlive, Reach
    <2>3. Store1!Write \/ UNCHANGED Store1!vars
      BY <2>1, <2>2, RefineTurn
    <2> QED
      BY <2>3 DEF Store1!Next
  <1>3. CASE WriteAlive(c)
    <2>1. UNCHANGED <<mem, nodeVars, index, readVars, page, before>> /\ Writing(c) /\ Writing(c)'
      BY <1>1, <1>3 DEF WriteAlive, Writing, TypeInv
    <2> QED
      BY <2>1, SameMemory DEF Store1!vars, PagesBar, RequestBar, readVars
  <1>4. CASE \E i \in Pages, v \in Values : BeginWrite(c, i, v)
    <2>1. PICK i \in Pages, v \in Values : BeginWrite(c, i, v)
      BY <1>4
    <2>2. /\ UNCHANGED <<mem, nodeVars, readVars>> /\ ~Writing(c) /\ Writing(c)'
          /\ index'[c] = i /\ page'[c] = Page(v) /\ before'[c] = Contents(c, i)
      BY <1>1, <2>1 DEF BeginWrite, Writing, TypeInv
    <2>3. RequestBar = None /\ RequestBar' = [index |-> i, page |-> Page(v)]
      BY <2>2 DEF RequestBar
    <2>4. PagesBar' = PagesBar /\ FailedBar' = FailedBar
      BY <2>2, SameMemory DEF PagesBar
    <2>5. result' = result
      BY <2>2 DEF readVars
    <2>6. Store1!Ask(i, Page(v))
      BY <2>3, <2>4, <2>5 DEF Store1!Ask
    <2> QED
      BY <2>6, PageTypes DEF Store1!Next
  <1> QED
    BY <1>2, <1>3, <1>4

\* One client's readBlock and writeBlock are a store of pages that survives
\* the crash of P nodes at any moment; a read that used a peer already gone, or
\* lost the region of one before it was done, may return anything.
THEOREM ImplementsPageStore ==
  ASSUME Setting
  PROVE  Spec => StoreSpec
  <1>1. Init => Store1!Init
    BY RefineInit
  <1>2. IInv /\ IInv' /\ [Next]_vars => [Store1!Next]_(Store1!vars)
    <2> SUFFICES ASSUME IInv, IInv', [Next]_vars
                 PROVE  Store1!Next \/ UNCHANGED Store1!vars
      OBVIOUS
    <2>1. CASE UNCHANGED vars
      <3>1. UNCHANGED <<mem, nodeVars, readVars, pc, index, page, before>>
        BY <2>1 DEF vars
      <3> QED
        BY <3>1, SameMemory DEF Store1!vars, PagesBar, RequestBar, Writing, readVars
    <2>2. ASSUME NEW c \in Clients, ReadStep(c) \/ WriteStep(c)
          PROVE  Store1!Next \/ UNCHANGED Store1!vars
      <3>1. c = TheClient
        BY DEF Setting
      <3>2. CASE Die(c)
        BY <3>2, RefineFailure DEF Store1!Next, Failure
      <3>3. CASE ReadStep(c) /\ ~Die(c)
        <4>1. (\E i \in Pages : Store1!Read(i)) \/ UNCHANGED Store1!vars
          BY <3>1, <3>3, RefineRead DEF ReadStep, FetchDead
        <4> QED
          BY <4>1 DEF Store1!Next
      <3>4. CASE WriteStep(c) /\ ~Die(c)
        BY <3>1, <3>4, RefineWrite DEF WriteStep, WriteDead
      <3> QED
        BY <2>2, <3>2, <3>3, <3>4
    <2>3. CASE Failure
      BY <2>3, RefineFailure DEF Store1!Next
    <2> QED
      BY <2>1, <2>2, <2>3 DEF Next, Failure
  <1> QED
    BY <1>1, <1>2, AlwaysIInv, PTL DEF Spec, StoreSpec, Store1!Spec
=============================================================================
