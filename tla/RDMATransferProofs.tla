------------------------- MODULE RDMATransferProofs -------------------------
(***************************************************************************)
(* For any number of threads, peers, regions and stale completions: the    *)
(* send CQ never owes a polling thread its completion, never makes up for  *)
(* the lag it started with, and never grows beyond it and the threads.     *)
(***************************************************************************)
EXTENDS RDMATransfer, FiniteSetTheorems, SequenceTheorems, TLAPS

IInv == TypeOK /\ CQBalance

LEMMA InitEstablishes == Init => IInv
  <1> SUFFICES ASSUME Init PROVE IInv
    OBVIOUS
  <1>1. TypeOK
    BY StaleAssumption DEF Init, TypeOK, Locations, Kinds
  <1>2. Pollers = {}
    BY DEF Init, Pollers
  <1>3. CQBalance
    BY <1>2, FS_EmptySet, StaleAssumption DEF Init, CQBalance
  <1>4. QED
    BY <1>1, <1>3 DEF IInv

\* Removing one request shortens the queue by one and leaves only requests.
LEMMA RemoveRequest ==
  ASSUME NEW S, NEW s \in Seq(S), NEW i \in 1 .. Len(s)
  PROVE  /\ RemoveAt(s, i) \in Seq(S)
         /\ Len(RemoveAt(s, i)) = Len(s) - 1
  <1>1. /\ SubSeq(s, 1, i - 1) \in Seq(S)
        /\ Len(SubSeq(s, 1, i - 1)) = i - 1
    BY SubSeqProperties
  <1>2. /\ SubSeq(s, i + 1, Len(s)) \in Seq(S)
        /\ Len(SubSeq(s, i + 1, Len(s))) = Len(s) - i
    BY SubSeqProperties
  <1>3. /\ RemoveAt(s, i) \in Seq(S)
        /\ Len(RemoveAt(s, i)) = Len(SubSeq(s, 1, i - 1)) + Len(SubSeq(s, i + 1, Len(s)))
    BY <1>1, <1>2, ConcatProperties, Zenon DEF RemoveAt
  <1>4. Len(s) \in Nat /\ i \in Int
    BY LenProperties
  <1>5. Len(RemoveAt(s, i)) = (i - 1) + (Len(s) - i)
    BY <1>1, <1>2, <1>3, Zenon
  <1>6. \A n \in Nat, j \in Int : (j - 1) + (n - j) = n - 1
    OBVIOUS
  <1>7. QED
    BY <1>3, <1>4, <1>5, <1>6, Zenon

\* A step of one thread adds it to the pollers, takes it away, or neither.
LEMMA PollersFinite == TypeOK => IsFiniteSet(Pollers)
  BY ThreadsAssumption, FS_Subset DEF Pollers

LEMMA TypeStep == TypeOK /\ [Next]_vars => TypeOK'
  <1> SUFFICES ASSUME TypeOK, [Next]_vars PROVE TypeOK'
    OBVIOUS
  <1> USE DEF TypeOK, Locations, Kinds
  <1>1. ASSUME NEW t \in Threads, Begin(t) PROVE TypeOK'
    BY <1>1 DEF Begin
  <1>2. ASSUME NEW t \in Threads, Acquire(t) PROVE TypeOK'
    <2>1. PICK p \in Peers : \E r \in free[kind[t]][p] :
            /\ free' = [free EXCEPT ![kind[t]][p] = free[kind[t]][p] \ {r}]
            /\ held' = [held EXCEPT ![t] = held[t] \cup {<<p, r>>}]
      BY <1>2 DEF Acquire
    <2>2. PICK r \in Regions :
            /\ free' = [free EXCEPT ![kind[t]][p] = free[kind[t]][p] \ {r}]
            /\ held' = [held EXCEPT ![t] = held[t] \cup {<<p, r>>}]
      <3>1. kind[t] \in Kinds
        BY Zenon
      <3>2. free[kind[t]][p] \subseteq Regions
        BY <3>1
      <3>3. QED
        BY <2>1, <3>2, Zenon
    <2>3. free' \in [Kinds -> [Peers -> SUBSET Regions]]
      BY <2>2
    <2>4. held' \in [Threads -> SUBSET (Peers \X Regions)]
      BY <2>2
    <2>5. \A u \in Threads : pc'[u] \in {"idle", "copy"} => todo'[u] = {}
      BY <1>2 DEF Acquire
    <2>6. \A u \in Threads : pc'[u] = "idle" => held'[u] = {}
      BY <1>2, <2>2 DEF Acquire
    <2>7. pc' \in [Threads -> Locations] /\ UNCHANGED <<kind, todo, buf, wire, cq>>
      BY <1>2 DEF Acquire
    <2>8. QED
      BY <2>3, <2>4, <2>5, <2>6, <2>7
  <1>3. ASSUME NEW t \in Threads, Post(t) PROVE TypeOK'
    <2>1. PICK h \in held[t], d \in Data :
            /\ h[1] \in todo[t]
            /\ buf' = IF kind[t] = "write" THEN [buf EXCEPT ![h[1]][h[2]] = d] ELSE buf
            /\ wire' = Append(wire, [thread |-> t, kind |-> kind[t], peer |-> h[1],
                                     region |-> h[2], data |-> d])
            /\ todo' = [todo EXCEPT ![t] = todo[t] \ {h[1]}]
      BY <1>3 DEF Post
    <2>2. h[1] \in Peers /\ h[2] \in Regions
      OBVIOUS
    <2>3. wire' \in Seq(Requests)
      BY <2>1, <2>2 DEF Requests
    <2>4. buf' \in [Peers -> [Regions -> Data]]
      BY <2>1, <2>2
    <2>5. \A u \in Threads : pc'[u] \in {"idle", "copy"} => todo'[u] = {}
      BY <1>3, <2>1 DEF Post
    <2>6. \A u \in Threads : pc'[u] = "idle" => held'[u] = {}
      BY <1>3 DEF Post
    <2>7. /\ pc' \in [Threads -> Locations]
          /\ todo' \in [Threads -> SUBSET Peers]
          /\ UNCHANGED <<kind, held, free, cq>>
      BY <1>3, <2>1 DEF Post
    <2>8. QED
      BY <2>3, <2>4, <2>5, <2>6, <2>7
  <1>4. ASSUME NEW t \in Threads, Poll(t) PROVE TypeOK'
    BY <1>4 DEF Poll
  <1>5. ASSUME NEW t \in Threads, NextWrite(t) PROVE TypeOK'
    BY <1>5 DEF NextWrite, Released
  <1>6. ASSUME NEW t \in Threads, NextRead(t) PROVE TypeOK'
    BY <1>6 DEF NextRead
  <1>7. ASSUME NEW t \in Threads, Copy(t) PROVE TypeOK'
    BY <1>7 DEF Copy, Released
  <1>8. CASE Complete
    <2>1. PICK i \in 1 .. Len(wire) : wire' = RemoveAt(wire, i)
      BY <1>8 DEF Complete
    <2>2. wire' \in Seq(Requests)
      BY <2>1, RemoveRequest
    <2>3. QED
      BY <1>8, <2>2 DEF Complete
  <1>9. CASE UNCHANGED vars
    BY <1>9 DEF vars
  <1>10. QED
    BY <1>1, <1>2, <1>3, <1>4, <1>5, <1>6, <1>7, <1>8, <1>9 DEF Next, Thread

\* A step that leaves the queue, the CQ and the set of pollers alone.
LEMMA NoPoller ==
  ASSUME CQBalance, UNCHANGED <<wire, cq>>, Pollers' = Pollers
  PROVE  CQBalance'
  BY DEF CQBalance

LEMMA BalanceStep == IInv /\ [Next]_vars => CQBalance'
  <1> SUFFICES ASSUME IInv, [Next]_vars PROVE CQBalance'
    OBVIOUS
  <1>f. IsFiniteSet(Pollers)
    BY PollersFinite DEF IInv
  <1>c. Cardinality(Pollers) \in Nat /\ Len(wire) \in Nat /\ cq \in Nat
    BY <1>f, FS_CardinalityType, LenProperties DEF IInv, TypeOK
  <1>b. CQBalance /\ pc \in [Threads -> Locations]
    BY DEF IInv, TypeOK
  <1>1. ASSUME NEW t \in Threads, Begin(t) PROVE CQBalance'
    <2>1. Pollers' = Pollers
      BY <1>1, <1>b DEF Begin, Pollers
    <2>2. QED
      BY <1>1, <1>b, <2>1, NoPoller DEF Begin
  <1>2. ASSUME NEW t \in Threads, Acquire(t) PROVE CQBalance'
    <2>1. Pollers' = Pollers
      BY <1>2, <1>b DEF Acquire, Pollers
    <2>2. QED
      BY <1>2, <1>b, <2>1, NoPoller DEF Acquire
  <1>3. ASSUME NEW t \in Threads, Post(t) PROVE CQBalance'
    \* One request more, one poller more.
    <2>1. Pollers' = Pollers \cup {t} /\ t \notin Pollers
      BY <1>3, <1>b DEF Post, Pollers
    <2>2. Cardinality(Pollers') = Cardinality(Pollers) + 1
      BY <1>f, <2>1, FS_AddElement
    <2>3. Len(wire') = Len(wire) + 1 /\ cq' = cq
      BY <1>3, <1>c DEF Post, IInv, TypeOK
    <2>4. QED
      BY <1>b, <1>c, <2>2, <2>3, StaleAssumption DEF CQBalance
  <1>4. ASSUME NEW t \in Threads, Poll(t) PROVE CQBalance'
    \* One completion less, one poller less.
    <2>1. Pollers' = Pollers \ {t} /\ t \in Pollers
      BY <1>4, <1>b DEF Poll, Pollers
    <2>2. Cardinality(Pollers') = Cardinality(Pollers) - 1
      BY <1>f, <2>1, FS_RemoveElement
    <2>3. cq' = cq - 1 /\ wire' = wire
      BY <1>4 DEF Poll
    <2>4. QED
      BY <1>b, <1>c, <2>2, <2>3, StaleAssumption DEF CQBalance
  <1>5. ASSUME NEW t \in Threads, NextWrite(t) PROVE CQBalance'
    <2>1. Pollers' = Pollers
      BY <1>5, <1>b DEF NextWrite, Pollers
    <2>2. QED
      BY <1>5, <1>b, <2>1, NoPoller DEF NextWrite
  <1>6. ASSUME NEW t \in Threads, NextRead(t) PROVE CQBalance'
    <2>1. Pollers' = Pollers
      BY <1>6, <1>b DEF NextRead, Pollers
    <2>2. QED
      BY <1>6, <1>b, <2>1, NoPoller DEF NextRead
  <1>7. ASSUME NEW t \in Threads, Copy(t) PROVE CQBalance'
    <2>1. Pollers' = Pollers
      BY <1>7, <1>b DEF Copy, Pollers
    <2>2. QED
      BY <1>7, <1>b, <2>1, NoPoller DEF Copy
  <1>8. CASE Complete
    \* One request less, one completion more.
    <2>1. PICK i \in 1 .. Len(wire) : wire' = RemoveAt(wire, i)
      BY <1>8 DEF Complete
    <2>2. Len(wire') = Len(wire) - 1
      BY <2>1, RemoveRequest DEF IInv, TypeOK
    <2>3. cq' = cq + 1 /\ Pollers' = Pollers
      BY <1>8, <1>b DEF Complete, Pollers
    <2>4. QED
      BY <1>b, <1>c, <2>2, <2>3, StaleAssumption DEF CQBalance
  <1>9. CASE UNCHANGED vars
    BY <1>9, <1>b DEF vars, CQBalance, Pollers
  <1>10. QED
    BY <1>1, <1>2, <1>3, <1>4, <1>5, <1>6, <1>7, <1>8, <1>9 DEF Next, Thread

\* Types of the data path, and that a thread outside a call owes nothing.
THEOREM TypeCorrect == Spec => []TypeOK
  <1>1. Init => TypeOK
    BY InitEstablishes DEF IInv
  <1>2. QED
    BY <1>1, TypeStep, PTL DEF Spec

\* The completions in the CQ and to come are those of the polling threads and
\* StaleCQEs more, whatever the threads do (rdma.cpp:570-578).
THEOREM Balance == Spec => []CQBalance
  <1>1. IInv /\ [Next]_vars => IInv'
    BY TypeStep, BalanceStep DEF IInv
  <1>2. IInv => CQBalance
    BY DEF IInv
  <1>3. QED
    BY InitEstablishes, <1>1, <1>2, PTL DEF Spec

-----------------------------------------------------------------------------
(* What the balance says of the code, whose CQ does lag.                   *)

\* Completions and requests outnumber the threads by the lag at most.
QueuesFit == cq + Len(wire) <= StaleCQEs + Cardinality(Threads)

\* The send CQ has MAX_QP_DEPTH entries and so has each send queue, and nothing
\* looks whether they are full (rdma.cpp:307, 326): with the one completion per
\* peer that start-up leaves, they hold one entry for each peer and each thread
\* at most, however long the node runs.
THEOREM QueuesBounded == Spec => []QueuesFit
  <1>1. IInv /\ [Next]_vars => IInv'
    BY TypeStep, BalanceStep DEF IInv
  <1>2. IInv => QueuesFit
    <2> SUFFICES ASSUME IInv PROVE QueuesFit
      OBVIOUS
    <2>1. /\ Cardinality(Pollers) <= Cardinality(Threads)
          /\ Cardinality(Pollers) \in Nat /\ Cardinality(Threads) \in Nat
      BY ThreadsAssumption, FS_Subset, FS_CardinalityType DEF Pollers
    <2>2. cq \in Nat /\ Len(wire) \in Nat
      BY LenProperties DEF IInv, TypeOK
    <2> QED
      BY <2>1, <2>2, StaleAssumption DEF IInv, CQBalance, QueuesFit
  <1>3. QED
    BY InitEstablishes, <1>1, <1>2, PTL DEF Spec

\* A thread that goes on after a poll is as many requests ahead of the adapter
\* as the CQ is short of what start-up left in it.
AheadByLag(t) == pc[t] # "poll" => Len(wire) = StaleCQEs - cq

\* With one thread, as each client has, at most StaleCQEs of the requests made
\* so far are not executed when a poll returns, and none just when the CQ has
\* StaleCQEs entries again (rdma.cpp:569-578): without a lag always, with the
\* ClusterSize - 1 completions of start-up only if the adapter is quick.
THEOREM SerialLag ==
  ASSUME NEW t, Threads = {t}
  PROVE  Spec => []AheadByLag(t)
  <1>1. IInv /\ [Next]_vars => IInv'
    BY TypeStep, BalanceStep DEF IInv
  <1>2. IInv => AheadByLag(t)
    <2> SUFFICES ASSUME IInv, pc[t] # "poll" PROVE Len(wire) = StaleCQEs - cq
      BY DEF AheadByLag
    <2>1. Pollers = {}
      BY DEF Pollers
    <2>2. Cardinality(Pollers) = 0
      BY <2>1, FS_EmptySet
    <2>3. cq \in Nat /\ Len(wire) \in Nat
      BY LenProperties DEF IInv, TypeOK
    <2> QED
      BY <2>2, <2>3, StaleAssumption DEF IInv, CQBalance
  <1>3. QED
    BY InitEstablishes, <1>1, <1>2, PTL DEF Spec
=============================================================================
