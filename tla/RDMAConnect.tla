---------------------------- MODULE RDMAConnect -----------------------------
(***************************************************************************)
(* How the nodes of a cluster connect to each other (network/rdma.cpp).    *)
(*                                                                         *)
(* On every node two threads run: the constructor of RDMASocket, which     *)
(* resolves the addresses of the peers it connects to, sleeps on a         *)
(* condition variable until enough peers are connected and then tests a    *)
(* remote write to each, and the listener, which handles one connection    *)
(* manager event at a time.  The adapter (external) moves messages and     *)
(* reports completions: all connections of a node share one send CQ and    *)
(* one receive CQ.                                                         *)
(*                                                                         *)
(* A connection has an active end, at the node that asked for it, and a    *)
(* passive one.  Connection manager events wait in a set: events of        *)
(* different connections may come in any order, and one end has at most    *)
(* one of them that can be handled.                                        *)
(***************************************************************************)
EXTENDS Integers, FiniteSets, Sequences, SequencesExt

CONSTANTS ClusterSize,   \* getClusterSize()
          Restartable,   \* nodes of which one may end and start with RECOVER
          InOrder,       \* the operator starts the nodes in order of id
          Spurious,      \* starts in which a constructor may wake up unnotified, once
          Uninit,        \* what reading a region no message reached may do
          NoEnd          \* a null rdma_cm_id

Nodes == 0 .. (ClusterSize - 1)

ASSUME SizeAssumption == ClusterSize \in Nat \ {0, 1}
ASSUME RoleAssumption == /\ Restartable \subseteq Nodes
                         /\ Spurious \subseteq {"first", "recover"} /\ InOrder \in BOOLEAN
                         /\ Uninit \subseteq {"exit", "garbage"} /\ Uninit # {}
ASSUME NoEndAssumption == NoEnd \notin [from: Nodes, to: Nodes, active: BOOLEAN]

\* Connect to all peers with id < myId, or all nodes if recovering.  The loop
\* skips nobody when recovering, not even this node itself.
Targets(n, recover) == IF recover THEN Nodes ELSE {p \in Nodes : p < n}

\* Both ends of every connection some node may ask for.
Ends == {e \in [from: Nodes, to: Nodes, active: BOOLEAN] :
           e.to \in Targets(e.from, e.from \in Restartable)}

ActiveEnd(n, p) == [from |-> n, to |-> p, active |-> TRUE]
Here(e)  == IF e.active THEN e.from ELSE e.to
Peer(e)  == IF e.active THEN e.to ELSE e.from
Other(e) == [e EXCEPT !.active = ~@]

VARIABLES
    recovering, \* nodes that have been started again, with RECOVER
    spurious,   \* nodes whose constructor has woken up unnotified
    ctor,       \* where each node's constructor is
    tested,     \* peers whose remote write it has reported as tested
    listener,   \* where each node's listener is: [at, end]
    events,     \* connection manager events that wait for the listener
    up,         \* ends whose connection the connection manager established
    peerEnd,    \* peers[p].cmId: the end in use for each peer
    connected,  \* peers[p].connected
    peerMR,     \* peers[p].peerMR: unset, the peer's, or read from garbage
    incoming,   \* incomingConns
    degraded,   \* degraded
    writeLog,   \* the write log: no room yet, full of zeroes, or cleared
    recv,       \* the receive posted at an end, and its region
    recvCQ,     \* entries of the shared receive CQ
    sq,         \* requests posted at an end that have not completed
    sendCQ      \* entries of the shared send CQ

ctorVars   == <<ctor, tested>>
cmVars     == <<events, up>>
peerVars   == <<peerEnd, connected, peerMR, incoming>>
degradeVars == <<degraded, writeLog>>
nicVars    == <<recv, recvCQ, sq, sendCQ>>
runVars    == <<recovering, spurious>>
vars == <<runVars, ctorVars, listener, cmVars, peerVars, degradeVars, nicVars>>

CtorLocations == {"off",      \* not started
                  "check",    \* holds the lock, tests incomingConns
                  "sleep",    \* holds the lock, about to wait
                  "wait",     \* waits, the lock is free
                  "post",     \* woke up for good, holds the lock from here on
                  "poll",     \* polls for the completions of its test writes
                  "done",     \* initialized = true
                  "aborted"}  \* the process has ended

Event(kind, e) == [kind |-> kind, end |-> e]
EventKinds == {"ADDR_RESOLVED", "ROUTE_RESOLVED", "CONNECT_REQUEST",
               "ESTABLISHED", "DISCONNECTED"}

Waiting(n, kind) == {ev \in events[n] : ev.kind = kind}

Running(n)   == ctor[n] \notin {"off", "aborted"}
Idle         == [at |-> "loop", end |-> NoEnd]
InLoop(n)    == Running(n) /\ listener[n] = Idle
Others(n)    == Nodes \ {n}
MutexHeld(n) == ctor[n] \in {"check", "sleep", "post", "poll"}

Init ==
    /\ recovering = {}
    /\ spurious = {}
    /\ ctor      = [n \in Nodes |-> "off"]
    /\ tested    = [n \in Nodes |-> {}]
    /\ listener  = [n \in Nodes |-> Idle]
    /\ events    = [n \in Nodes |-> {}]
    /\ up        = {}
    /\ peerEnd   = [n \in Nodes |-> [p \in Nodes |-> NoEnd]]
    /\ connected = [n \in Nodes |-> [p \in Nodes |-> FALSE]]
    /\ peerMR    = [n \in Nodes |-> [p \in Nodes |-> "unset"]]
    /\ incoming  = [n \in Nodes |-> 0]
    /\ degraded  = [n \in Nodes |-> 0]
    /\ writeLog  = [n \in Nodes |-> "none"]
    /\ recv      = [e \in Ends |-> "none"]
    /\ recvCQ    = [n \in Nodes |-> 0]
    /\ sq        = [e \in Ends |-> <<>>]
    /\ sendCQ    = [n \in Nodes |-> 0]

-----------------------------------------------------------------------------
\* The listener takes event ev off n's channel; the events new arrive at m.
Handle(n, ev, m, new) == events' = [events EXCEPT ![n] = @ \ {ev}, ![m] = @ \cup new]

\* exit(-1), or a null pointer followed: the peers see the connection go.
Die(n) ==
    /\ ctor' = [ctor EXCEPT ![n] = "aborted"]
    /\ listener' = [listener EXCEPT ![n] = Idle]
    /\ events' = [m \in Nodes |->
                    IF m = n THEN {}
                    ELSE events[m] \cup {Event("DISCONNECTED", e) :
                                           e \in {d \in up : Here(d) = m /\ Peer(d) = n}}]

\* buildConnection: fresh regions for the peer and a receive for its MR.
BuildConnection(e) ==
    /\ peerEnd'   = [peerEnd EXCEPT ![Here(e)][Peer(e)] = e]
    /\ connected' = [connected EXCEPT ![Here(e)][Peer(e)] = FALSE]
    /\ recv'      = [recv EXCEPT ![e] = "posted"]

-----------------------------------------------------------------------------
\* The constructor

\* Listen, resolve the addresses of the peers to connect to, start the
\* listener and take the lock (rdma.cpp:39-79).
Start(n) ==
    /\ ctor[n] = "off"
    /\ InOrder => \A m \in Nodes : m < n => ctor[m] # "off"
    /\ ctor' = [ctor EXCEPT ![n] = "check"]
    /\ events' = [events EXCEPT ![n] =
                    {Event("ADDR_RESOLVED", ActiveEnd(n, p)) : p \in Targets(n, FALSE)}]
    /\ UNCHANGED <<runVars, tested, listener, up, peerVars, degradeVars, nicVars>>

\* A slip: the node counts itself among the peers it waits for.
CtorCheckOneMore(n) ==
    /\ ctor[n] = "check"
    /\ ctor' = [ctor EXCEPT ![n] = IF incoming[n] < ClusterSize THEN "sleep" ELSE "post"]
    /\ UNCHANGED <<runVars, tested, listener, cmVars, peerVars, degradeVars, nicVars>>

\* A slip: the wait happens once, whatever the count is at the wake-up.
CtorCheckOnce(n) ==
    /\ ctor[n] = "check"
    /\ ctor' = [ctor EXCEPT ![n] = IF incoming[n] = 0 THEN "sleep" ELSE "post"]
    /\ UNCHANGED <<runVars, tested, listener, cmVars, peerVars, degradeVars, nicVars>>

CtorCheck(n) ==
    /\ ctor[n] = "check"
    /\ ctor' = [ctor EXCEPT ![n] = IF incoming[n] < ClusterSize - 1 THEN "sleep" ELSE "post"]
    /\ UNCHANGED <<runVars, tested, listener, cmVars, peerVars, degradeVars, nicVars>>

\* wait() gives the lock up.
CtorSleep(n) ==
    /\ ctor[n] = "sleep"
    /\ ctor' = [ctor EXCEPT ![n] = "wait"]
    /\ UNCHANGED <<runVars, tested, listener, cmVars, peerVars, degradeVars, nicVars>>

\* A condition variable may wake a thread that nobody notified.
SpuriousWake(n) ==
    /\ (IF n \in recovering THEN "recover" ELSE "first") \in Spurious
    /\ n \notin spurious
    /\ spurious' = spurious \cup {n}
    /\ ctor[n] = "wait"
    /\ ctor' = [ctor EXCEPT ![n] = "check"]
    /\ UNCHANGED <<recovering, tested, listener, cmVars, peerVars, degradeVars, nicVars>>

\* A slip: each test write is posted a second time.
CtorPostTwice(n) ==
    /\ ctor[n] = "post"
    /\ \A p \in Others(n) : peerEnd[n][p] # NoEnd
    /\ sq' = [e \in Ends |-> IF \E p \in Others(n) : e = peerEnd[n][p]
                             THEN sq[e] \o <<"test", "test">> ELSE sq[e]]
    /\ ctor' = [ctor EXCEPT ![n] = "poll"]
    /\ writeLog' = [writeLog EXCEPT ![n] = "full"]
    /\ UNCHANGED <<runVars, tested, listener, cmVars, peerVars, degraded,
                   recv, recvCQ, sendCQ>>

\* Make room in the write log and post a test write to every peer; a peer
\* whose connection is gone has no queue pair, and the process dies.
CtorPost(n) ==
    /\ ctor[n] = "post"
    /\ writeLog' = [writeLog EXCEPT ![n] = "full"]
    /\ \/ /\ \A p \in Others(n) : peerEnd[n][p] # NoEnd
          /\ sq' = [e \in Ends |-> IF \E p \in Others(n) : e = peerEnd[n][p]
                                   THEN Append(sq[e], "test") ELSE sq[e]]
          /\ ctor' = [ctor EXCEPT ![n] = "poll"]
          /\ UNCHANGED <<listener, events>>
       \/ /\ \E p \in Others(n) : peerEnd[n][p] = NoEnd
          /\ Die(n)
          /\ UNCHANGED sq
    /\ UNCHANGED <<runVars, tested, up, peerVars, degraded, recv, recvCQ, sendCQ>>

\* One turn of the polling loop: whatever completion comes next is taken for
\* the write to the next peer.  The lock is released with the last one.
CtorPoll(n) ==
    /\ ctor[n] = "poll"
    /\ sendCQ[n] > 0
    /\ sendCQ' = [sendCQ EXCEPT ![n] = @ - 1]
    /\ \E p \in Others(n) \ tested[n] :
         /\ \A q \in Others(n) \ tested[n] : p <= q
         /\ tested' = [tested EXCEPT ![n] = @ \cup {p}]
    /\ ctor' = [ctor EXCEPT ![n] = IF tested'[n] = Others(n) THEN "done" ELSE @]
    /\ UNCHANGED <<runVars, listener, cmVars, peerVars, degradeVars, recv, recvCQ, sq>>

-----------------------------------------------------------------------------
\* The listener: one event at a time

OnAddrResolved(n) ==
    /\ InLoop(n)
    /\ \E ev \in Waiting(n, "ADDR_RESOLVED") :
         LET e == ev.end IN
         /\ BuildConnection(e)
         /\ Handle(n, ev, n, {Event("ROUTE_RESOLVED", e)})
    /\ UNCHANGED <<runVars, ctorVars, listener, up, peerMR, incoming, degradeVars,
                   recvCQ, sq, sendCQ>>

\* rdma_connect.  A node that does not listen rejects the request; nothing
\* handles that event and nothing asks again.
OnRouteResolved(n) ==
    /\ InLoop(n)
    /\ \E ev \in Waiting(n, "ROUTE_RESOLVED") :
         LET e == ev.end
             request == Event("CONNECT_REQUEST", Other(e))
         IN /\ Handle(n, ev, e.to, IF Running(e.to) THEN {request} ELSE {})
    /\ UNCHANGED <<runVars, ctorVars, listener, up, peerVars, degradeVars, nicVars>>

\* Build the passive end and accept, which establishes the active one.
OnConnectionRequest(n) ==
    /\ InLoop(n)
    /\ \E ev \in Waiting(n, "CONNECT_REQUEST") :
         LET e == ev.end
             new == IF Running(e.from) THEN {Other(e)} ELSE {}
         IN /\ BuildConnection(e)
            /\ Handle(n, ev, e.from, {Event("ESTABLISHED", a) : a \in new})
            /\ up' = up \cup new
    /\ UNCHANGED <<runVars, ctorVars, listener, peerMR, incoming, degradeVars,
                   recvCQ, sq, sendCQ>>

\* A slip: the poll is not skipped by a node that is initialized.
OnConnectionEstablishedAlwaysPolls(n) ==
    /\ InLoop(n)
    /\ \E ev \in Waiting(n, "ESTABLISHED") :
         LET e == ev.end
             new == IF e.active /\ Running(e.to) THEN {Other(e)} ELSE {}
         IN /\ Handle(n, ev, e.to, {Event("ESTABLISHED", a) : a \in new})
            /\ up' = up \cup new
            /\ sq' = [sq EXCEPT ![peerEnd[n][Peer(e)]] = Append(@, "mr")]
            /\ listener' = [listener EXCEPT ![n] = [at |-> "poll", end |-> e]]
    /\ UNCHANGED <<runVars, ctorVars, peerVars, degradeVars, recv, recvCQ, sendCQ>>

\* Send this node's MR over the peer's present end.  Taking the event at the
\* active end establishes the passive one.  A node that is initialized stops
\* here; any other goes on to poll the receive CQ.
OnConnectionEstablished(n) ==
    /\ InLoop(n)
    /\ \E ev \in Waiting(n, "ESTABLISHED") :
         LET e == ev.end
             new == IF e.active /\ Running(e.to) THEN {Other(e)} ELSE {}
         IN /\ Handle(n, ev, e.to, {Event("ESTABLISHED", a) : a \in new})
            /\ up' = up \cup new
            /\ sq' = [sq EXCEPT ![peerEnd[n][Peer(e)]] = Append(@, "mr")]
            /\ listener' = IF ctor[n] = "done" THEN listener
                           ELSE [listener EXCEPT ![n] = [at |-> "poll", end |-> e]]
    /\ UNCHANGED <<runVars, ctorVars, peerVars, degradeVars, recv, recvCQ, sendCQ>>

\* The poll takes whichever receive completes first, on any connection, and
\* then reads the region of the peer this event is about.  A region that no
\* message has reached holds whatever the allocator left there: what looks like
\* an MR message, or most likely not, and then the process exits.
PollRecv(n) ==
    LET p == Peer(listener[n].end)
        arrived == recv[peerEnd[n][p]] = "filled"
        Connect(mr) ==
            /\ connected' = [connected EXCEPT ![n][p] = TRUE]
            /\ peerMR'    = [peerMR EXCEPT ![n][p] = mr]
            /\ incoming'  = [incoming EXCEPT ![n] = @ + 1]
            /\ listener'  = [listener EXCEPT ![n].at = "notify"]
            /\ UNCHANGED <<ctor, events>>
    IN /\ Running(n)
       /\ listener[n].at = "poll"
       /\ recvCQ[n] > 0
       /\ recvCQ' = [recvCQ EXCEPT ![n] = @ - 1]
       /\ \/ arrived /\ Connect("peer")
          \/ ~arrived /\ "garbage" \in Uninit /\ Connect("garbage")
          \/ ~arrived /\ "exit" \in Uninit /\ Die(n) /\ UNCHANGED <<connected, peerMR, incoming>>
       /\ UNCHANGED <<runVars, tested, up, peerEnd, degradeVars, recv, sq, sendCQ>>

\* Take the lock and notify.
Notify(n) ==
    /\ Running(n)
    /\ listener[n].at = "notify"
    /\ ~MutexHeld(n)
    /\ ctor' = [ctor EXCEPT ![n] = IF @ = "wait" THEN "check" ELSE @]
    /\ listener' = [listener EXCEPT ![n] = Idle]
    /\ UNCHANGED <<runVars, tested, cmVars, peerVars, degradeVars, nicVars>>

\* Clear the log on the first disconnection and destroy the connection: what
\* its queue pair had not sent is gone.
OnDisconnected(n) ==
    /\ InLoop(n)
    /\ \E ev \in Waiting(n, "DISCONNECTED") :
         LET e == ev.end IN
         /\ Event("ESTABLISHED", e) \notin events[n]
         /\ Handle(n, ev, n, {})
         /\ up' = up \ {e}
         /\ writeLog' = [writeLog EXCEPT ![n] = IF degraded[n] = 0 THEN "cleared" ELSE @]
         /\ degraded' = [degraded EXCEPT ![n] = @ + 1]
         /\ connected' = [connected EXCEPT ![n][Peer(e)] = FALSE]
         /\ peerEnd' = [peerEnd EXCEPT ![n][Peer(e)] = NoEnd]
         /\ sq' = [sq EXCEPT ![e] = <<>>]
         /\ recv' = [recv EXCEPT ![e] = "none"]
    /\ UNCHANGED <<runVars, ctorVars, listener, peerMR, incoming, recvCQ, sendCQ>>

-----------------------------------------------------------------------------
\* A node ends and starts again

\* Start-up is over, and every message of it has been sent.
Settled == /\ \A n \in Nodes : ctor[n] = "done" /\ listener[n] = Idle /\ events[n] = {}
           /\ \A e \in Ends : sq[e] = <<>>

Crash(n) ==
    /\ n \in Restartable /\ recovering = {}
    /\ Settled
    /\ Die(n)
    /\ UNCHANGED <<runVars, tested, up, peerVars, degradeVars, nicVars>>

\* Once the others have noticed, it starts with RECOVER and fresh variables, and
\* connects to all nodes (rdma.cpp:19-79).
Recover(n) ==
    /\ n \in Restartable /\ recovering = {}
    /\ ctor[n] = "aborted"
    /\ \A m \in Others(n) : ctor[m] = "done" /\ ~connected[m][n]
    /\ recovering' = {n}
    /\ ctor'      = [ctor EXCEPT ![n] = "check"]
    /\ tested'    = [tested EXCEPT ![n] = {}]
    /\ events'    = [events EXCEPT ![n] =
                       {Event("ADDR_RESOLVED", ActiveEnd(n, p)) : p \in Targets(n, TRUE)}]
    /\ up'        = {e \in up : Here(e) # n}
    /\ peerEnd'   = [peerEnd EXCEPT ![n] = [p \in Nodes |-> NoEnd]]
    /\ connected' = [connected EXCEPT ![n] = [p \in Nodes |-> FALSE]]
    /\ peerMR'    = [peerMR EXCEPT ![n] = [p \in Nodes |-> "unset"]]
    /\ incoming'  = [incoming EXCEPT ![n] = 0]
    /\ degraded'  = [degraded EXCEPT ![n] = 0]
    /\ writeLog'  = [writeLog EXCEPT ![n] = "none"]
    /\ recv'      = [e \in Ends |-> IF Here(e) = n THEN "none" ELSE recv[e]]
    /\ sq'        = [e \in Ends |-> IF Here(e) = n THEN <<>> ELSE sq[e]]
    /\ recvCQ'    = [recvCQ EXCEPT ![n] = 0]
    /\ sendCQ'    = [sendCQ EXCEPT ![n] = 0]
    /\ UNCHANGED <<spurious, listener>>

-----------------------------------------------------------------------------
\* The adapter (external): requests of one connection complete in order

Finish(e) ==
    /\ Running(Here(e))
    /\ sq[e] # <<>>
    /\ sq' = [sq EXCEPT ![e] = Tail(@)]
    /\ sendCQ' = [sendCQ EXCEPT ![Here(e)] = @ + 1]

\* A message needs a receive at the other end, and retries until there is one.
DeliverMR(e) ==
    /\ Running(Peer(e))
    /\ Finish(e)
    /\ Head(sq[e]) = "mr"
    /\ recv[Other(e)] = "posted"
    /\ recv' = [recv EXCEPT ![Other(e)] = "filled"]
    /\ recvCQ' = [recvCQ EXCEPT ![Peer(e)] = @ + 1]
    /\ UNCHANGED <<runVars, ctorVars, listener, cmVars, peerVars, degradeVars>>

DeliverWrite(e) ==
    /\ Running(Peer(e))
    /\ Finish(e)
    /\ Head(sq[e]) = "test"
    /\ UNCHANGED <<runVars, ctorVars, listener, cmVars, peerVars, degradeVars, recv, recvCQ>>

\* A request to a dead peer completes with an error nobody looks at.
FailRequest(e) ==
    /\ ctor[Peer(e)] = "aborted"
    /\ Finish(e)
    /\ UNCHANGED <<runVars, ctorVars, listener, cmVars, peerVars, degradeVars, recv, recvCQ>>

-----------------------------------------------------------------------------
Ctor(n)     == CtorCheck(n) \/ CtorSleep(n) \/ CtorPost(n) \/ CtorPoll(n)
Listener(n) == \/ OnAddrResolved(n) \/ OnRouteResolved(n) \/ OnConnectionRequest(n)
               \/ OnConnectionEstablished(n) \/ PollRecv(n) \/ OnDisconnected(n)
Adapter(e)  == DeliverMR(e) \/ DeliverWrite(e) \/ FailRequest(e)

Next == \/ \E n \in Nodes : \/ Start(n) \/ Ctor(n) \/ SpuriousWake(n)
                            \/ Listener(n) \/ Notify(n)
                            \/ Crash(n) \/ Recover(n)
        \/ \E e \in Ends : Adapter(e)

Spec == Init /\ [][Next]_vars

(***************************************************************************)
(* The weakest fairness: while something can happen, something does.  It   *)
(* is enough because no behaviour goes on for ever, as spurious wake-ups   *)
(* are bounded: every thread that can run does so in the end.              *)
(***************************************************************************)
FairSpec == Spec /\ WF_vars(Next)

-----------------------------------------------------------------------------
\* Types of the connection state of RDMASocket.  A node counts each peer once,
\* and a recovering one may count both ends of its connection to itself; it
\* sends each peer one MR and one test write.
TypeOK ==
    /\ recovering \in {{}} \cup {{n} : n \in Restartable}
    /\ spurious \subseteq Nodes
    /\ ctor \in [Nodes -> CtorLocations]
    /\ tested \in [Nodes -> SUBSET Nodes]
    /\ listener \in [Nodes -> [at: {"loop", "poll", "notify"}, end: Ends \cup {NoEnd}]]
    /\ \A n \in Nodes : events[n] \subseteq [kind: EventKinds, end: {e \in Ends : Here(e) = n}]
    /\ up \subseteq Ends
    /\ peerEnd \in [Nodes -> [Nodes -> Ends \cup {NoEnd}]]
    /\ connected \in [Nodes -> [Nodes -> BOOLEAN]]
    /\ peerMR \in [Nodes -> [Nodes -> {"unset", "peer", "garbage"}]]
    /\ incoming \in [Nodes -> Nat]
    /\ \A n \in Nodes : incoming[n] <= ClusterSize - 1 + IF n \in recovering THEN 2 ELSE 0
    /\ degraded \in [Nodes -> 0 .. ClusterSize]
    /\ writeLog \in [Nodes -> {"none", "full", "cleared"}]
    /\ recv \in [Ends -> {"none", "posted", "filled"}]
    /\ recvCQ \in [Nodes -> 0 .. ClusterSize]
    /\ sq \in [Ends -> Seq({"mr", "test"})]
    /\ sendCQ \in [Nodes -> Nat]
    /\ \A n \in Nodes : sendCQ[n] <= 2 * (ClusterSize - 1) + IF n \in recovering THEN 2 ELSE 0

\* Nobody dies while starting: the receive polled after ESTABLISHED is the
\* one of this connection (rdma.cpp:247-259).
NobodyDied == \A n \in Nodes : ctor[n] # "aborted"

\* The constructor goes on only when every peer is connected, except for
\* peers that have ended since: the counter it waits for counts each peer once
\* (rdma.cpp:77-84, 264-272).  A recovering node counts itself as well.
ReadyMeansConnected ==
    \A n \in Nodes \ recovering : ctor[n] \in {"post", "poll", "done"} =>
        \A p \in Others(n) : connected[n][p] \/ ctor[p] = "aborted" \/ p \in recovering

\* The requests posted at a node's ends and not completed, by end and place.
Posted(n) == UNION {{e} \X DOMAIN sq[e] : e \in {d \in Ends : Here(d) = n}}

\* The completions of requests nobody has polled for yet.
Uncollected(n) == sendCQ[n] + Cardinality(Posted(n))

\* When RDMASocket is ready, its send CQ is behind by one completion for each
\* peer: those of the MR messages, which are signalled and never polled; a node
\* that comes back adds one more to those of the others (rdma.cpp:238, 325,
\* 99-106).
SendCQLag ==
    NobodyDied => \A n \in Nodes \ recovering :
        ctor[n] = "done" =>
            Uncollected(n) - (ClusterSize - 1) \in 0 .. Cardinality(recovering)

\* A poll may take the receive of another connection, but once the constructor
\* has been woken for good the MR of every peer is there and the receive CQ is
\* empty, up to the MR of a node that has come back (rdma.cpp:247-272).
ReceivesAllIn ==
    NobodyDied => \A n \in Nodes \ recovering :
        ctor[n] \in {"post", "poll", "done"} =>
            /\ recvCQ[n] <= Cardinality(recovering)
            /\ recovering = {} => \A p \in Others(n) :
                 peerEnd[n][p] # NoEnd /\ recv[peerEnd[n][p]] = "filled"

\* A recovering node polls for the MR of a connection to itself: the active end
\* has been forgotten when the passive one was built (rdma.cpp:61, 333-337), and
\* the MR it polls for may never come.
WaitsForItself(n) == n \in recovering /\ listener[n].at = "poll" /\ recvCQ[n] = 0

\* No start-up gets stuck: whenever nodes start, all are up in the end, unless
\* one of them has died, which leaves the others waiting (rdma.cpp:79-84), or
\* has come back and waits for itself.  In particular no wake-up of the
\* constructor is lost.
EveryoneComesUp ==
    []<>(\/ \A n \in Nodes : ctor[n] = "done"
         \/ ~NobodyDied
         \/ \E n \in Nodes : WaitsForItself(n))

\* The nodes that were up never take a restarted node back: its MR message
\* arrives, but an initialized listener does not look at it (rdma.cpp:240-245,
\* the code that did in pollRecvCompletion is disabled, 602-614).
RestartedStaysDead ==
    \A r \in recovering, s \in Nodes \ recovering : ~connected[s][r]

=============================================================================
