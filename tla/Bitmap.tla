------------------------------- MODULE Bitmap -------------------------------
(***************************************************************************)
(* The lock-free bitmap that allocates the registered regions of one       *)
(* connection (include/bitmap.hpp, include/network/rdma.hpp:92-119).       *)
(*                                                                         *)
(* A set bit is a free region, so the atomic word is modelled by the set   *)
(* of its set bits.  Every load and every compare-exchange is a step of    *)
(* its own: threads interleave between them.  compare_exchange_weak may    *)
(* fail although the word still has the expected value.                    *)
(***************************************************************************)
EXTENDS Integers

CONSTANTS Threads,   \* threads that use the regions of this connection
          NBits,     \* NConcurrency in RDMAConnection
          None       \* no region

ASSUME NBitsAssumption == NBits \in Nat \ {0}
ASSUME NoneAssumption  == None \notin 0 .. (NBits - 1)

Bits == 0 .. (NBits - 1)

VARIABLES bitmap,   \* the atomic word: the free bits
          pc,       \* where each thread is
          origin,   \* the thread's last copy of the word
          idx       \* the bit a thread got from allocBit, or None

vars == <<bitmap, pc, origin, idx>>

Locations == {"idle",     \* outside getRegion
              "alloc",    \* in allocBit's loop, origin holds a copy
              "yield",    \* allocBit returned -1, about to call it again
              "own",      \* getRegion returned, the region is in use
              "refree",   \* freeBit's exchange failed, about to reload
              "free"}     \* in freeBit's loop, origin holds a copy

\* origin & -origin
IsLowBit(b, S) == b \in S /\ \A c \in S : b <= c

Init == /\ bitmap = Bits
        /\ pc = [t \in Threads |-> "idle"]
        /\ origin = [t \in Threads |-> {}]
        /\ idx = [t \in Threads |-> None]

-----------------------------------------------------------------------------
\* allocBit

AllocLoad(t) ==
    /\ pc[t] \in {"idle", "yield"}
    /\ origin' = [origin EXCEPT ![t] = bitmap]
    /\ pc' = [pc EXCEPT ![t] = "alloc"]
    /\ UNCHANGED <<bitmap, idx>>

\* A slip: the word is stored without comparing it.
AllocTakeNoCompare(t) ==
    /\ pc[t] = "alloc"
    /\ \E b \in Bits : /\ IsLowBit(b, origin[t])
                       /\ bitmap' = origin[t] \ {b}
                       /\ idx' = [idx EXCEPT ![t] = b]
    /\ pc' = [pc EXCEPT ![t] = "own"]
    /\ UNCHANGED origin

AllocTake(t) ==
    /\ pc[t] = "alloc"
    /\ bitmap = origin[t]
    /\ \E b \in Bits : /\ IsLowBit(b, origin[t])
                       /\ bitmap' = origin[t] \ {b}
                       /\ idx' = [idx EXCEPT ![t] = b]
    /\ pc' = [pc EXCEPT ![t] = "own"]
    /\ UNCHANGED origin

\* A failed exchange leaves the current word in origin.
AllocRetry(t) ==
    /\ pc[t] = "alloc"
    /\ origin[t] # {}
    /\ origin' = [origin EXCEPT ![t] = bitmap]
    /\ UNCHANGED <<bitmap, pc, idx>>

\* allocBit returns -1 and getRegion yields before it tries again.
AllocFull(t) ==
    /\ pc[t] = "alloc"
    /\ origin[t] = {}
    /\ pc' = [pc EXCEPT ![t] = "yield"]
    /\ UNCHANGED <<bitmap, origin, idx>>

-----------------------------------------------------------------------------
\* freeBit

FreeLoad(t) ==
    /\ pc[t] \in {"own", "refree"}
    /\ origin' = [origin EXCEPT ![t] = bitmap]
    /\ pc' = [pc EXCEPT ![t] = "free"]
    /\ UNCHANGED <<bitmap, idx>>

\* The same slip in freeBit, and one that computes the bit's index wrongly.
FreeStoreNoCompare(t) ==
    /\ pc[t] = "free"
    /\ bitmap' = origin[t] \cup {idx[t]}
    /\ idx' = [idx EXCEPT ![t] = None]
    /\ pc' = [pc EXCEPT ![t] = "idle"]
    /\ UNCHANGED origin

FreeStoreNextBit(t) ==
    /\ pc[t] = "free"
    /\ bitmap = origin[t]
    /\ bitmap' = origin[t] \cup {idx[t] + 1}
    /\ idx' = [idx EXCEPT ![t] = None]
    /\ pc' = [pc EXCEPT ![t] = "idle"]
    /\ UNCHANGED origin

\* A failed exchange taken for a success.
FreeGivesUp(t) ==
    /\ pc[t] = "free"
    /\ pc' = [pc EXCEPT ![t] = "idle"]
    /\ idx' = [idx EXCEPT ![t] = None]
    /\ UNCHANGED <<bitmap, origin>>

FreeStore(t) ==
    /\ pc[t] = "free"
    /\ bitmap = origin[t]
    /\ bitmap' = origin[t] \cup {idx[t]}
    /\ idx' = [idx EXCEPT ![t] = None]
    /\ pc' = [pc EXCEPT ![t] = "idle"]
    /\ UNCHANGED origin

FreeRetry(t) ==
    /\ pc[t] = "free"
    /\ pc' = [pc EXCEPT ![t] = "refree"]
    /\ UNCHANGED <<bitmap, origin, idx>>

-----------------------------------------------------------------------------
Alloc(t) == AllocLoad(t) \/ AllocTake(t) \/ AllocRetry(t) \/ AllocFull(t)
Free(t)  == FreeLoad(t) \/ FreeStore(t) \/ FreeRetry(t)

Next == \E t \in Threads : Alloc(t) \/ Free(t)

Spec == Init /\ [][Next]_vars

(***************************************************************************)
(* A thread inside a call goes on running, and a thread that holds a       *)
(* region gives it back.  Only the system as a whole is sure to win an     *)
(* exchange: one thread may lose every race, and nothing makes an idle     *)
(* thread start.                                                           *)
(***************************************************************************)
Fairness ==
    /\ \A t \in Threads :
         /\ WF_vars(pc[t] = "yield" /\ AllocLoad(t))
         /\ WF_vars(AllocRetry(t))
         /\ WF_vars(AllocFull(t))
         /\ WF_vars(Free(t))
    /\ SF_vars(\E t \in Threads : AllocTake(t))
    /\ SF_vars(\E t \in Threads : FreeStore(t))

FairSpec == Spec /\ Fairness

-----------------------------------------------------------------------------
\* Types of the variables of allocBit and freeBit.
TypeOK == /\ bitmap \subseteq Bits
          /\ pc \in [Threads -> Locations]
          /\ origin \in [Threads -> SUBSET Bits]
          /\ idx \in [Threads -> Bits \cup {None}]
          /\ \A t \in Threads :
               (pc[t] \in {"own", "refree", "free"}) <=> (idx[t] # None)

\* allocBit never hands one region to two threads: a second thread would
\* overwrite the buffer of a transfer in progress (bitmap.hpp:35-43).
Exclusive ==
    \A t, u \in Threads : idx[t] = idx[u] /\ idx[t] # None => t = u

\* No race of allocBit and freeBit loses a region or frees one that is in
\* use: the word is always the complement of the regions held
\* (bitmap.hpp:35-53).
Conservation == bitmap = Bits \ {idx[t] : t \in Threads}

\* Threads that spin in getRegion do not spin for ever while regions are
\* given back: somebody is served (rdma.hpp:92-110).
SomeoneServed ==
    (\E t \in Threads : pc[t] \in {"alloc", "yield"})
        ~> (\E t \in Threads : pc[t] = "own")

\* The bitmap implements the region pool: a successful exchange of allocBit
\* is Acquire, one of freeBit is Release, and every other step is invisible.
Pool == INSTANCE RegionPool WITH Regions <- Bits, free <- bitmap, owner <- idx

PoolSpec == Pool!Spec
=============================================================================
