----------------------------- MODULE RegionPool -----------------------------
(***************************************************************************)
(* What getWriteRegion / getReadRegion and their free counterparts promise *)
(* (include/network/rdma.hpp:92-119): a pool of registered regions, each   *)
(* handed to one thread at a time and back in the pool once it is freed.   *)
(* A thread holds at most one region of a pool, as every caller in         *)
(* ecal.cpp does.  Module Bitmap is shown to implement this one.           *)
(***************************************************************************)
CONSTANTS Threads, Regions, None

VARIABLES free,    \* regions nobody holds
          owner    \* the region each thread holds, or None

vars == <<free, owner>>

Init == /\ free = Regions
        /\ owner = [t \in Threads |-> None]

\* Any free region may be handed out: the promise says nothing of which one.
Acquire(t) ==
    /\ owner[t] = None
    /\ \E r \in free : /\ free' = free \ {r}
                       /\ owner' = [owner EXCEPT ![t] = r]

Release(t) ==
    /\ owner[t] # None
    /\ free' = free \cup {owner[t]}
    /\ owner' = [owner EXCEPT ![t] = None]

Next == \E t \in Threads : Acquire(t) \/ Release(t)

Spec == Init /\ [][Next]_vars
=============================================================================
