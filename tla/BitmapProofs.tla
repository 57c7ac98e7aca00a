---------------------------- MODULE BitmapProofs ----------------------------
(***************************************************************************)
(* For any number of threads and of regions: the bitmap never gives one    *)
(* region to two threads, loses none, and implements the region pool.      *)
(***************************************************************************)
EXTENDS Bitmap, TLAPS

\* The three invariants together are inductive: that a taken bit was free
\* needs Conservation, and that a freed bit was held needs TypeOK.
IInv == TypeOK /\ Exclusive /\ Conservation

USE NoneAssumption DEF Bits

LEMMA InitEstablishes == Init => IInv
  BY DEF Init, IInv, TypeOK, Exclusive, Conservation, Locations

\* A load changes only the thread's own copy of the word.
LEMMA TakePreserves ==
  ASSUME IInv, NEW t \in Threads, AllocTake(t)
  PROVE  IInv'
  <1>1. PICK b \in Bits : /\ b \in bitmap
                          /\ bitmap' = bitmap \ {b}
                          /\ idx' = [idx EXCEPT ![t] = b]
    BY DEF AllocTake, IsLowBit
  <1>2. /\ pc' = [pc EXCEPT ![t] = "own"]
        /\ origin' = origin
        /\ pc[t] = "alloc"
    BY DEF AllocTake
  <1>3. idx[t] = None
    BY <1>2 DEF IInv, TypeOK
  <1>4. TypeOK'
    BY <1>1, <1>2 DEF IInv, TypeOK, Locations
  <1>5. Exclusive'
    \* b was free, so nobody holds it.
    BY <1>1 DEF IInv, TypeOK, Exclusive, Conservation
  <1>6. Conservation'
    <2>1. {idx'[u] : u \in Threads} \cup {None} = {idx[u] : u \in Threads} \cup {b, None}
      BY <1>1, <1>3 DEF IInv, TypeOK
    <2>2. QED
      BY <1>1, <2>1 DEF IInv, Conservation
  <1>7. QED
    BY <1>4, <1>5, <1>6 DEF IInv

LEMMA StorePreserves ==
  ASSUME IInv, NEW t \in Threads, FreeStore(t)
  PROVE  IInv'
  <1>1. /\ pc[t] = "free"
        /\ bitmap' = bitmap \cup {idx[t]}
        /\ idx' = [idx EXCEPT ![t] = None]
        /\ pc' = [pc EXCEPT ![t] = "idle"]
        /\ origin' = origin
    BY DEF FreeStore
  <1>2. idx[t] \in Bits
    BY <1>1 DEF IInv, TypeOK
  <1>3. TypeOK'
    BY <1>1, <1>2 DEF IInv, TypeOK, Locations
  <1>4. Exclusive'
    BY <1>1 DEF IInv, TypeOK, Exclusive
  <1>5. Conservation'
    \* Nobody else holds the bit that comes back.
    <2>1. \A u \in Threads \ {t} : idx'[u] = idx[u] /\ idx[u] # idx[t]
      BY <1>1, <1>2 DEF IInv, TypeOK, Exclusive
    <2>2. {idx'[u] : u \in Threads} \cup {None}
            = ({idx[u] : u \in Threads} \ {idx[t]}) \cup {None}
      BY <1>1, <1>2, <2>1 DEF IInv, TypeOK
    <2>3. QED
      BY <1>1, <1>2, <2>2 DEF IInv, Conservation
  <1>6. QED
    BY <1>3, <1>4, <1>5 DEF IInv

LEMMA StepPreserves == IInv /\ [Next]_vars => IInv'
  <1> SUFFICES ASSUME IInv, [Next]_vars
               PROVE  IInv'
    OBVIOUS
  <1>1. ASSUME NEW t \in Threads, AllocLoad(t) PROVE IInv'
    BY <1>1 DEF AllocLoad, IInv, TypeOK, Exclusive, Conservation, Locations
  <1>2. ASSUME NEW t \in Threads, AllocTake(t) PROVE IInv'
    BY <1>2, TakePreserves
  <1>3. ASSUME NEW t \in Threads, AllocRetry(t) PROVE IInv'
    BY <1>3 DEF AllocRetry, IInv, TypeOK, Exclusive, Conservation
  <1>4. ASSUME NEW t \in Threads, AllocFull(t) PROVE IInv'
    BY <1>4 DEF AllocFull, IInv, TypeOK, Exclusive, Conservation, Locations
  <1>5. ASSUME NEW t \in Threads, FreeLoad(t) PROVE IInv'
    BY <1>5 DEF FreeLoad, IInv, TypeOK, Exclusive, Conservation, Locations
  <1>6. ASSUME NEW t \in Threads, FreeStore(t) PROVE IInv'
    BY <1>6, StorePreserves
  <1>7. ASSUME NEW t \in Threads, FreeRetry(t) PROVE IInv'
    BY <1>7 DEF FreeRetry, IInv, TypeOK, Exclusive, Conservation, Locations
  <1>8. CASE UNCHANGED vars
    BY <1>8 DEF vars, IInv, TypeOK, Exclusive, Conservation
  <1>9. QED
    BY <1>1, <1>2, <1>3, <1>4, <1>5, <1>6, <1>7, <1>8 DEF Next, Alloc, Free

LEMMA Inductive == Spec => []IInv
  BY InitEstablishes, StepPreserves, PTL DEF Spec

\* The variables of allocBit and freeBit keep their types (bitmap.hpp:35-53).
THEOREM TypeCorrect == Spec => []TypeOK
  <1>1. IInv => TypeOK
    BY DEF IInv
  <1>2. QED
    BY Inductive, <1>1, PTL

\* allocBit never hands one region to two threads (bitmap.hpp:35-43).
THEOREM MutualExclusion == Spec => []Exclusive
  <1>1. IInv => Exclusive
    BY DEF IInv
  <1>2. QED
    BY Inductive, <1>1, PTL

\* No race loses a region or frees one in use (bitmap.hpp:35-53).
THEOREM NothingLost == Spec => []Conservation
  <1>1. IInv => Conservation
    BY DEF IInv
  <1>2. QED
    BY Inductive, <1>1, PTL

-----------------------------------------------------------------------------
\* A step of the bitmap is a step of the pool, or one the pool does not see.
LEMMA StepSimulates == IInv /\ IInv' /\ [Next]_vars => [Pool!Next]_(Pool!vars)
  <1> SUFFICES ASSUME IInv, IInv', [Next]_vars
               PROVE  [Pool!Next]_(Pool!vars)
    OBVIOUS
  <1>1. ASSUME NEW t \in Threads, AllocTake(t) PROVE Pool!Acquire(t)
    <2>1. PICK b \in Bits : /\ b \in bitmap
                            /\ bitmap' = bitmap \ {b}
                            /\ idx' = [idx EXCEPT ![t] = b]
      BY <1>1 DEF AllocTake, IsLowBit
    <2>2. idx[t] = None
      BY <1>1 DEF AllocTake, IInv, TypeOK
    <2>3. QED
      BY <2>1, <2>2 DEF Pool!Acquire
  <1>2. ASSUME NEW t \in Threads, FreeStore(t) PROVE Pool!Release(t)
    BY <1>2 DEF FreeStore, Pool!Release, IInv, TypeOK
  <1>3. ASSUME NEW t \in Threads,
               \/ AllocLoad(t) \/ AllocRetry(t) \/ AllocFull(t)
               \/ FreeLoad(t) \/ FreeRetry(t)
        PROVE  UNCHANGED Pool!vars
    BY <1>3 DEF AllocLoad, AllocRetry, AllocFull, FreeLoad, FreeRetry, Pool!vars
  <1>4. CASE UNCHANGED vars
    BY <1>4 DEF vars, Pool!vars
  <1>5. QED
    BY <1>1, <1>2, <1>3, <1>4 DEF Next, Alloc, Free, Pool!Next

\* Spinning threads, copies of the word and failed exchanges are invisible:
\* getRegion and freeRegion implement the pool (rdma.hpp:92-119).
THEOREM ImplementsPool == Spec => PoolSpec
  <1>1. Init => Pool!Init
    BY DEF Init, Pool!Init
  <1>2. QED
    BY <1>1, Inductive, StepSimulates, PTL DEF Spec, PoolSpec, Pool!Spec
=============================================================================
