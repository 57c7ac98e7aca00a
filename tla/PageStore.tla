----------------------------- MODULE PageStore ------------------------------
(***************************************************************************)
(* What the erasure coding layer promises one client (include/ecal.hpp):   *)
(* pages that are each written and read as a whole and that survive the    *)
(* failure of P nodes.  Shards are invisible here.  Nothing is promised    *)
(* when more nodes fail, nor for a read that used a peer already gone or   *)
(* lost one before it was done: it is not sound, which the caller cannot   *)
(* see.                                                                    *)
(***************************************************************************)
EXTENDS Naturals

CONSTANTS Indices,    \* page numbers
          PageData,   \* what a page may contain
          Lost,       \* what a page contains when too many nodes have failed
          P,          \* failures that are tolerated
          None        \* nothing asked, nothing read

VARIABLES pages,      \* contents of the pages
          failed,     \* nodes that have failed
          request,    \* the page being written, or None
          result      \* what the last readBlock returned, or None

vars == <<pages, failed, request, result>>

Init == /\ pages \in [Indices -> PageData]
        /\ failed = 0
        /\ request = None
        /\ result = None

\* writeBlock is called ...
Ask(i, d) == /\ request = None
             /\ request' = [index |-> i, page |-> d]
             /\ UNCHANGED <<pages, failed, result>>

\* ... and returns: the page holds what was asked, whole.
Write == /\ request # None
         /\ pages' = IF failed > P THEN pages
                     ELSE [pages EXCEPT ![request.index] = request.page]
         /\ request' = None
         /\ UNCHANGED <<failed, result>>

Read(i) == /\ request = None
           /\ \E d \in PageData, sound \in BOOLEAN :
                /\ sound /\ failed <= P => d = pages[i]
                /\ result' = [index |-> i, page |-> d, sound |-> sound]
           /\ UNCHANGED <<pages, failed, request>>

Fail == /\ failed' = failed + 1
        /\ pages' = IF failed' > P THEN [i \in Indices |-> Lost] ELSE pages
        /\ UNCHANGED <<request, result>>

Next == \/ Write \/ Fail
        \/ \E i \in Indices : Read(i) \/ \E d \in PageData : Ask(i, d)

Spec == Init /\ [][Next]_vars
=============================================================================
