---------------------------- MODULE RDMATransfer ----------------------------
(***************************************************************************)
(* The data path of one node: threads of ECAL::readBlock and writeBlock    *)
(* move shards through registered regions and the node's send CQ           *)
(* (ecal.cpp:262-289, 310-314, 325-350; network/rdma.cpp:481-578).         *)
(*                                                                         *)
(* The regions of a connection are a RegionPool, which module Bitmap       *)
(* implements: taking and freeing one is a single step here.  The adapter  *)
(* (external) executes the requests of one connection in the order they    *)
(* were posted and those of different connections in any order.  A         *)
(* completion does not say whose it is: all of them end up in one send CQ  *)
(* and pollSendCompletion takes whichever is next, so the CQ is a counter. *)
(***************************************************************************)
EXTENDS Integers, FiniteSets, Sequences, SequencesExt

CONSTANTS Threads,     \* threads that call ECAL
          Peers,       \* ids of the peers that hold shards
          Regions,     \* regions of one connection in one direction
          Data,        \* contents of a region
          StaleCQEs    \* completions nobody polled for before the first call

ASSUME PeersAssumption == Peers \subseteq Nat
ASSUME StaleAssumption == StaleCQEs \in Nat
ASSUME ThreadsAssumption == IsFiniteSet(Threads)

VARIABLES pc,     \* where each thread is
          kind,   \* what it is doing: "read" or "write"
          todo,   \* peers whose shard it has still to move
          held,   \* pairs <<peer, region>> it holds
          free,   \* free regions of each kind and peer
          buf,    \* contents of the write regions of each peer
          wire,   \* requests posted and not executed, oldest first
          cq      \* completions in the send CQ

vars == <<pc, kind, todo, held, free, buf, wire, cq>>

Kinds == {"read", "write"}
Locations == {"idle", "acquire", "post", "poll", "polled", "copy"}
Requests == [thread: Threads, kind: Kinds, peer: Peers, region: Regions, data: Data]

\* Loops over shards visit the peers in the order of their ids.
IsNext(p, t) == p \in todo[t] /\ \A q \in todo[t] : p <= q

Init == /\ pc = [t \in Threads |-> "idle"]
        /\ kind = [t \in Threads |-> "read"]
        /\ todo = [t \in Threads |-> {}]
        /\ held = [t \in Threads |-> {}]
        /\ free = [k \in Kinds |-> [p \in Peers |-> Regions]]
        /\ buf \in [Peers -> [Regions -> Data]]
        /\ wire = <<>>
        /\ cq = StaleCQEs

-----------------------------------------------------------------------------
\* readBlock or writeBlock moves shards of some peers, those alive.
Begin(t) ==
    /\ pc[t] = "idle"
    /\ \E k \in Kinds, ps \in SUBSET Peers \ {{}} :
         /\ kind' = [kind EXCEPT ![t] = k]
         /\ todo' = [todo EXCEPT ![t] = ps]
    /\ pc' = [pc EXCEPT ![t] = "acquire"]
    /\ UNCHANGED <<held, free, buf, wire, cq>>

\* A slip: the peers are visited in no particular order.
AcquireAnyOrder(t) ==
    /\ pc[t] = "acquire"
    /\ \E p \in todo[t] : \E r \in free[kind[t]][p] :
         /\ free' = [free EXCEPT ![kind[t]][p] = @ \ {r}]
         /\ held' = [held EXCEPT ![t] = @ \cup {<<p, r>>}]
    /\ pc' = [pc EXCEPT ![t] = "post"]
    /\ UNCHANGED <<kind, todo, buf, wire, cq>>

\* getReadRegion / getWriteRegion: wait for a free region of the next peer.
Acquire(t) ==
    /\ pc[t] = "acquire"
    /\ \E p \in Peers : \E r \in free[kind[t]][p] :
         /\ IsNext(p, t)
         /\ free' = [free EXCEPT ![kind[t]][p] = @ \ {r}]
         /\ held' = [held EXCEPT ![t] = @ \cup {<<p, r>>}]
    /\ pc' = [pc EXCEPT ![t] = "post"]
    /\ UNCHANGED <<kind, todo, buf, wire, cq>>

\* memcpy into the region of a write, then postWrite or postRead.
Post(t) ==
    /\ pc[t] = "post"
    /\ \E h \in held[t], d \in Data :
         /\ h[1] \in todo[t]
         /\ buf' = IF kind[t] = "write" THEN [buf EXCEPT ![h[1]][h[2]] = d] ELSE buf
         /\ wire' = Append(wire, [thread |-> t, kind |-> kind[t], peer |-> h[1],
                                  region |-> h[2], data |-> d])
         /\ todo' = [todo EXCEPT ![t] = @ \ {h[1]}]
    /\ pc' = [pc EXCEPT ![t] = "poll"]
    /\ UNCHANGED <<kind, held, free, cq>>

\* A slip: a poll that finds the CQ empty is not repeated.
PollOnce(t) ==
    /\ pc[t] = "poll"
    /\ cq' = IF cq > 0 THEN cq - 1 ELSE 0
    /\ pc' = [pc EXCEPT ![t] = "polled"]
    /\ UNCHANGED <<kind, todo, held, free, buf, wire>>

\* pollSendCompletion: spin until the CQ has an entry and take it.
Poll(t) ==
    /\ pc[t] = "poll"
    /\ cq > 0
    /\ cq' = cq - 1
    /\ pc' = [pc EXCEPT ![t] = "polled"]
    /\ UNCHANGED <<kind, todo, held, free, buf, wire>>

Released(t) == [free EXCEPT ![kind[t]] =
                  [p \in Peers |-> @[p] \cup {r \in Regions : <<p, r>> \in held[t]}]]

\* A slip: the call returns after the first peer.
NextWriteReturns(t) ==
    /\ pc[t] = "polled"
    /\ kind[t] = "write"
    /\ free' = Released(t)
    /\ held' = [held EXCEPT ![t] = {}]
    /\ pc' = [pc EXCEPT ![t] = "idle"]
    /\ UNCHANGED <<kind, todo, buf, wire, cq>>

\* A write frees its region at once and goes on with the next peer.
NextWrite(t) ==
    /\ pc[t] = "polled"
    /\ kind[t] = "write"
    /\ free' = Released(t)
    /\ held' = [held EXCEPT ![t] = {}]
    /\ pc' = [pc EXCEPT ![t] = IF todo[t] = {} THEN "idle" ELSE "acquire"]
    /\ UNCHANGED <<kind, todo, buf, wire, cq>>

\* A read keeps its regions until all shards are there.
NextRead(t) ==
    /\ pc[t] = "polled"
    /\ kind[t] = "read"
    /\ pc' = [pc EXCEPT ![t] = IF todo[t] = {} THEN "copy" ELSE "acquire"]
    /\ UNCHANGED <<kind, todo, held, free, buf, wire, cq>>

\* The shards are copied or decoded out of the regions, which are then freed.
Copy(t) ==
    /\ pc[t] = "copy"
    /\ free' = Released(t)
    /\ held' = [held EXCEPT ![t] = {}]
    /\ pc' = [pc EXCEPT ![t] = "idle"]
    /\ UNCHANGED <<kind, todo, buf, wire, cq>>

\* The adapter executes a request: it moves the bytes and signals completion.
Complete ==
    /\ \E i \in 1 .. Len(wire) :
         /\ \A j \in 1 .. (i - 1) : wire[j].peer # wire[i].peer
         /\ wire' = RemoveAt(wire, i)
    /\ cq' = cq + 1
    /\ UNCHANGED <<pc, kind, todo, held, free, buf>>

-----------------------------------------------------------------------------
Thread(t) == \/ Begin(t) \/ Acquire(t) \/ Post(t) \/ Poll(t)
             \/ NextWrite(t) \/ NextRead(t) \/ Copy(t)

Next == (\E t \in Threads : Thread(t)) \/ Complete

Spec == Init /\ [][Next]_vars

\* A thread inside a call runs on and the adapter executes what it is given;
\* nothing makes a thread begin a call, and no lock or CQ is handed out fairly.
FairSpec == /\ Spec
            /\ \A t \in Threads : WF_vars(pc[t] # "idle" /\ Thread(t))
            /\ WF_vars(Complete)

-----------------------------------------------------------------------------
\* Types of the data path's state; a thread outside a call owes and holds
\* nothing.
TypeOK == /\ pc \in [Threads -> Locations]
          /\ kind \in [Threads -> Kinds]
          /\ todo \in [Threads -> SUBSET Peers]
          /\ held \in [Threads -> SUBSET (Peers \X Regions)]
          /\ free \in [Kinds -> [Peers -> SUBSET Regions]]
          /\ buf \in [Peers -> [Regions -> Data]]
          /\ wire \in Seq(Requests)
          /\ cq \in Nat
          /\ \A t \in Threads : pc[t] \in {"idle", "copy"} => todo[t] = {}
          /\ \A t \in Threads : pc[t] = "idle" => held[t] = {}

Pollers == {t \in Threads : pc[t] = "poll"}

\* As many completions are in the CQ or still to come as threads wait for one,
\* and StaleCQEs more: no poll can wait for ever, and the lag the connection
\* messages left never goes away (rdma.cpp:570-578).
CQBalance == cq + Len(wire) = StaleCQEs + Cardinality(Pollers)

InFlight == {wire[i] : i \in 1 .. Len(wire)}

\* When a poll has returned, the request of the thread that polled has been
\* executed: the CQE it took was its own (rdma.cpp:569-578, ecal.cpp:270, 339).
OwnCompletion ==
    \A t \in Threads : pc[t] \in {"polled", "copy"} => \A w \in InFlight : w.thread # t

\* What the adapter is to send is still in its region: nobody was given the
\* region and copied other data into it (ecal.cpp:336-340).
InFlightIntact ==
    \A w \in InFlight : w.kind = "write" => buf[w.peer][w.region] = w.data

\* Calls in progress do not come to a halt.  A read holds a region of each of
\* its peers while it waits for the next: only because all calls go through
\* the peers in the same order can they not wait for each other
\* (ecal.cpp:265-275).
CallsFinish ==
    (\E t \in Threads : pc[t] \in {"acquire", "post", "poll"})
        ~> (\E t \in Threads : pc[t] = "polled")
=============================================================================
