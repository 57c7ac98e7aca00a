-------------------------- MODULE RDMAConnectProofs --------------------------
(***************************************************************************)
(* For any number of nodes: RDMASocket's constructor goes on only with all *)
(* peers connected, nodes that are up never take a restarted one back, and *)
(* the send CQ lags behind by one completion for each peer.                *)
(*                                                                         *)
(* The heart of the first two is that a connection is set up once: of the  *)
(* events and listener locations it goes through, each end is at one at    *)
(* most.  Hence a node counts each peer once, has finished with all its    *)
(* connections when the count is complete, and does not poll for a receive *)
(* again.                                                                  *)
(*                                                                         *)
(* For the third, requests and receives are counted as they move from the  *)
(* queues to the completion queues and are polled for: against the peers a *)
(* node has sent to and received from until a node comes back (Before), and *)
(* with one more for the connections of that node afterwards (After).  The *)
(* bounds of the types follow from the same counts.                        *)
(***************************************************************************)
EXTENDS RDMAConnect, FiniteSetTheorems, TLAPS

\* The two ends of the connection n asks of p.
Passive(n, p) == [from |-> n, to |-> p, active |-> FALSE]

Types ==
    /\ recovering \in {{}} \cup {{n} : n \in Nodes}
    /\ ctor \in [Nodes -> CtorLocations]
    /\ listener \in [Nodes -> [at: {"loop", "poll", "notify"}, end: Ends \cup {NoEnd}]]
    /\ events \in [Nodes -> SUBSET [kind: EventKinds, end: Ends]]
    /\ connected \in [Nodes -> [Nodes -> BOOLEAN]]
    /\ peerMR \in [Nodes -> [Nodes -> {"unset", "peer", "garbage"}]]
    /\ incoming \in [Nodes -> Nat]
    /\ up \subseteq Ends

\* What the listener of a node works on belongs to that node.
AtHome ==
    \A n \in Nodes :
        /\ \A ev \in events[n] :
             /\ Here(ev.end) = n
             /\ ev.kind \in {"ADDR_RESOLVED", "ROUTE_RESOLVED"} => ev.end.active
             /\ ev.kind = "CONNECT_REQUEST" => ~ev.end.active
        /\ listener[n].at = "poll" => listener[n].end \in Ends /\ Here(listener[n].end) = n

\* Until a node has come back, nodes have asked those of lower ids only.
DownwardsOnly ==
    recovering = {} => \A n \in Nodes :
        /\ \A ev \in events[n] : ev.kind # "DISCONNECTED" => ev.end.to < ev.end.from
        /\ listener[n].at = "poll" => listener[n].end.to < listener[n].end.from

\* Where the connection n asks of p is, at its active end ...
Resolving(n, p)  == Event("ADDR_RESOLVED", ActiveEnd(n, p)) \in events[n]
Resolved(n, p)   == Event("ROUTE_RESOLVED", ActiveEnd(n, p)) \in events[n]
Requested(n, p)  == Event("CONNECT_REQUEST", Passive(n, p)) \in events[p]
Accepted(n, p)   == Event("ESTABLISHED", ActiveEnd(n, p)) \in events[n]
Polling(n, p)    == listener[n].at = "poll" /\ listener[n].end = ActiveEnd(n, p)
Counted(n, p)    == peerMR[n][p] # "unset"
\* ... and at its passive one.
AcceptedAt(n, p) == Event("ESTABLISHED", Passive(n, p)) \in events[p]
PollingAt(n, p)  == listener[p].at = "poll" /\ listener[p].end = Passive(n, p)

AtPassive(n, p) == AcceptedAt(n, p) \/ PollingAt(n, p) \/ Counted(p, n)
Answered(n, p) == Accepted(n, p) \/ Polling(n, p) \/ Counted(n, p) \/ AtPassive(n, p)

Once(n, p) ==
    /\ ctor[n] = "off" =>
         ~Resolving(n, p) /\ ~Resolved(n, p) /\ ~Requested(n, p) /\ ~Answered(n, p)
    /\ Resolving(n, p) => ~Resolved(n, p) /\ ~Requested(n, p) /\ ~Answered(n, p)
    /\ Resolved(n, p) => ~Requested(n, p) /\ ~Answered(n, p)
    /\ Requested(n, p) => ~Answered(n, p)
    /\ Accepted(n, p) => ~Polling(n, p) /\ ~Counted(n, p) /\ ~AtPassive(n, p)
    /\ Polling(n, p) => ~Counted(n, p)
    /\ AcceptedAt(n, p) => ~PollingAt(n, p) /\ ~Counted(p, n)
    /\ PollingAt(n, p) => ~Counted(p, n)

EachOnce == recovering = {} => \A n, p \in Nodes : p < n => Once(n, p)

\* The counter counts the peers whose MR has been looked at.
CountedPeers(n) == {p \in Nodes : Counted(n, p)}
CountRight ==
    recovering = {} => \A n \in Nodes : /\ n \notin CountedPeers(n)
                                        /\ incoming[n] = Cardinality(CountedPeers(n))

Gone(p) == ctor[p] = "aborted" \/ p \in recovering

ReadyMeansCounted ==
    \A n \in Nodes \ recovering : ctor[n] \in {"post", "poll", "done"} =>
        \A p \in Others(n) : Counted(n, p)

CountedMeansConnected ==
    \A n \in Nodes \ recovering : \A p \in Nodes : Counted(n, p) => connected[n][p] \/ Gone(p)

OnlyGoneDisconnect ==
    \A n \in Nodes : \A ev \in events[n] : ev.kind = "DISCONNECTED" => Gone(Peer(ev.end))

\* Once a node has come back, the others are up and only it asks for
\* connections.
OthersAreUp ==
    \A r \in recovering : \A s \in Others(r) :
        /\ ctor[s] = "done"
        /\ listener[s].at # "poll"
        /\ \A ev \in events[s] : /\ ev.kind \notin {"ADDR_RESOLVED", "ROUTE_RESOLVED"}
                                 /\ ev.kind = "CONNECT_REQUEST" => ev.end.from = r

IInv == /\ Types /\ AtHome /\ DownwardsOnly /\ EachOnce /\ CountRight
        /\ ReadyMeansCounted /\ CountedMeansConnected /\ OnlyGoneDisconnect
        /\ OthersAreUp /\ RestartedStaysDead

-----------------------------------------------------------------------------
(* Ends and events.                                                        *)

LEMMA EndForms ==
  ASSUME NEW e \in Ends
  PROVE  /\ e.from \in Nodes /\ e.to \in Nodes
         /\ Other(e) \in Ends
         /\ e.active => /\ e = ActiveEnd(e.from, e.to) /\ Other(e) = Passive(e.from, e.to)
                        /\ Here(e) = e.from /\ Peer(e) = e.to
         /\ ~e.active => /\ e = Passive(e.from, e.to) /\ Other(e) = ActiveEnd(e.from, e.to)
                         /\ Here(e) = e.to /\ Peer(e) = e.from
  <1>1. e = [from |-> e.from, to |-> e.to, active |-> e.active]
    BY DEF Ends
  <1>2. e.active \in BOOLEAN /\ e.from \in Nodes /\ e.to \in Nodes
    BY DEF Ends
  <1>3. Other(e) = [from |-> e.from, to |-> e.to, active |-> ~e.active]
    BY <1>1 DEF Other
  <1>4. Other(e) \in Ends
    BY <1>2, <1>3 DEF Ends
  <1>5. CASE e.active
    <2>1. e.active = TRUE /\ (~e.active) = FALSE
      BY <1>2, <1>5
    <2> QED
      BY <1>1, <1>2, <1>3, <1>4, <2>1 DEF ActiveEnd, Passive, Here, Peer
  <1>6. CASE ~e.active
    <2>1. e.active = FALSE /\ (~e.active) = TRUE
      BY <1>2, <1>6
    <2> QED
      BY <1>1, <1>2, <1>3, <1>4, <2>1 DEF ActiveEnd, Passive, Here, Peer
  <1> QED
    BY <1>5, <1>6

\* An event that waits for a node.
LEMMA EventForms ==
  ASSUME IInv, NEW n \in Nodes, NEW ev \in events[n]
  PROVE  /\ ev = Event(ev.kind, ev.end) /\ ev.end \in Ends /\ Other(ev.end) \in Ends
         /\ Here(ev.end) = n /\ Peer(ev.end) \in Nodes
         /\ ev.end.from \in Nodes /\ ev.end.to \in Nodes
         /\ ev.kind \in {"ADDR_RESOLVED", "ROUTE_RESOLVED"} => ev.end.active
         /\ ev.kind = "CONNECT_REQUEST" => ~ev.end.active
         /\ ev.end.active => /\ ev.end = ActiveEnd(n, ev.end.to)
                             /\ Other(ev.end) = Passive(n, ev.end.to)
                             /\ ev.end.from = n /\ Peer(ev.end) = ev.end.to
         /\ ~ev.end.active => /\ ev.end = Passive(ev.end.from, n)
                              /\ Other(ev.end) = ActiveEnd(ev.end.from, n)
                              /\ ev.end.to = n /\ Peer(ev.end) = ev.end.from
  <1>1. events[n] \subseteq [kind: EventKinds, end: Ends]
    BY DEF IInv, Types
  <1>2. ev = Event(ev.kind, ev.end) /\ ev.end \in Ends
    BY <1>1 DEF Event
  <1>3. /\ Here(ev.end) = n
        /\ ev.kind \in {"ADDR_RESOLVED", "ROUTE_RESOLVED"} => ev.end.active
        /\ ev.kind = "CONNECT_REQUEST" => ~ev.end.active
    BY DEF IInv, AtHome
  <1> QED
    BY <1>2, <1>3, EndForms

\* What a constructor starts with.
LEMMA AskedEvents ==
  ASSUME NEW n \in Nodes, NEW again \in BOOLEAN, again => n \in Restartable,
         NEW x \in {Event("ADDR_RESOLVED", ActiveEnd(n, p)) : p \in Targets(n, again)}
  PROVE  /\ x \in [kind: EventKinds, end: Ends]
         /\ x.kind = "ADDR_RESOLVED" /\ x.end.active /\ Here(x.end) = n
         /\ ~again => x.end.to < x.end.from
  <1>1. PICK p \in Targets(n, again) : x = Event("ADDR_RESOLVED", ActiveEnd(n, p))
    OBVIOUS
  <1>2. p \in Nodes /\ (~again => p < n)
    BY DEF Targets
  <1>3. p \in Targets(n, n \in Restartable)
    BY <1>2 DEF Targets
  <1>4. ActiveEnd(n, p) \in Ends
    BY <1>2, <1>3 DEF Ends, ActiveEnd
  <1> QED
    BY <1>1, <1>2, <1>4 DEF Event, EventKinds, ActiveEnd, Here

LEMMA HandleEvents ==
  ASSUME Types, NEW n \in Nodes, NEW m \in Nodes, NEW ev, NEW new, Handle(n, ev, m, new)
  PROVE  \A q \in Nodes : \A x :
            x \in events'[q] <=> \/ x \in events[q] /\ ~(q = n /\ x = ev)
                                 \/ q = m /\ x \in new
  BY DEF Types, Handle

LEMMA DieEvents ==
  ASSUME Types, NEW n \in Nodes, Die(n)
  PROVE  /\ ctor' = [ctor EXCEPT ![n] = "aborted"]
         /\ listener' = [listener EXCEPT ![n] = Idle]
         /\ events' \in [Nodes -> SUBSET [kind: EventKinds, end: Ends]]
         /\ \A q \in Nodes : \A x \in events'[q] :
              \/ x \in events[q]
              \/ x.kind = "DISCONNECTED" /\ Here(x.end) = q /\ Peer(x.end) = n
  BY DEF Types, Die, Event, EventKinds

LEMMA InitInv == Init => IInv
  <1> SUFFICES ASSUME Init PROVE IInv
    OBVIOUS
  <1>1. Types /\ AtHome /\ DownwardsOnly
    BY DEF Init, Types, AtHome, DownwardsOnly, CtorLocations, Idle
  <1>2. \A n, p \in Nodes : Once(n, p)
    BY DEF Init, Once, Resolving, Resolved, Requested, Answered, AtPassive, Accepted,
       AcceptedAt, Polling, PollingAt, Counted, Idle
  <1>3. CountRight
    <2>1. \A n \in Nodes : CountedPeers(n) = {}
      BY DEF Init, CountedPeers, Counted
    <2> QED
      BY <2>1, FS_EmptySet DEF Init, CountRight
  <1> QED
    BY <1>1, <1>2, <1>3 DEF Init, IInv, EachOnce, ReadyMeansCounted, CountedMeansConnected,
       OnlyGoneDisconnect, OthersAreUp, RestartedStaysDead, Counted

-----------------------------------------------------------------------------
(* Steps of the constructor and of the adapter.                            *)

\* A node that has counted enough has counted everybody.
LEMMA CountedAll ==
  ASSUME CountRight, recovering = {}, NEW n \in Nodes, incoming[n] >= ClusterSize - 1
  PROVE  \A p \in Others(n) : Counted(n, p)
  <1>1. IsFiniteSet(Nodes) /\ Cardinality(Nodes) = ClusterSize
    <2>1. 0 \in Int /\ ClusterSize - 1 \in Int /\ 0 <= ClusterSize - 1
      BY SizeAssumption
    <2> QED
      BY <2>1, SizeAssumption, FS_Interval DEF Nodes
  <1>2. IsFiniteSet(Others(n)) /\ Cardinality(Others(n)) = ClusterSize - 1
    BY <1>1, FS_RemoveElement DEF Others
  <1>3. CountedPeers(n) \subseteq Others(n)
    BY DEF CountRight, CountedPeers, Others
  <1>4. /\ IsFiniteSet(CountedPeers(n))
        /\ Cardinality(CountedPeers(n)) <= Cardinality(Others(n))
        /\ Cardinality(Others(n)) = Cardinality(CountedPeers(n)) => Others(n) = CountedPeers(n)
    BY <1>2, <1>3, FS_Subset
  <1>5. Cardinality(CountedPeers(n)) \in Nat
    BY <1>4, FS_CardinalityType
  <1>6. Others(n) = CountedPeers(n)
    BY <1>2, <1>4, <1>5, SizeAssumption DEF CountRight
  <1> QED
    BY <1>6 DEF CountedPeers

\* A constructor gets past its wait only by its count.
CtorMove(n) ==
    \/ ctor'[n] = ctor[n]
    \/ /\ ctor[n] \notin {"off", "done", "aborted"}
       /\ ctor'[n] \notin {"off", "aborted"}
       /\ ctor'[n] \in {"post", "poll", "done"} =>
            ctor[n] \in {"post", "poll"} \/ incoming[n] >= ClusterSize - 1

LEMMA CtorMovesKeep ==
  ASSUME IInv, ctor' \in [Nodes -> CtorLocations], \A n \in Nodes : CtorMove(n),
         UNCHANGED <<recovering, listener, events, up, connected, peerMR, incoming>>
  PROVE  IInv'
  <1>1. Types' /\ AtHome' /\ DownwardsOnly'
    BY DEF IInv, Types, AtHome, DownwardsOnly
  <1>2. EachOnce'
    <2>1. ASSUME NEW n \in Nodes, NEW p \in Nodes, Once(n, p) PROVE Once(n, p)'
      BY <2>1 DEF CtorMove, Once, Resolving, Resolved, Requested, Answered, AtPassive,
         Accepted, AcceptedAt, Polling, PollingAt, Counted
    <2> QED
      BY <2>1 DEF IInv, EachOnce
  <1>3. CountRight'
    BY DEF IInv, CountRight, CountedPeers, Counted
  <1>4. ReadyMeansCounted'
    <2> SUFFICES ASSUME NEW n \in Nodes \ recovering, ctor'[n] \in {"post", "poll", "done"},
                        NEW p \in Others(n)
                 PROVE  Counted(n, p)
      BY DEF ReadyMeansCounted, Counted
    <2>1. CASE ctor[n] \in {"post", "poll", "done"}
      BY <2>1 DEF IInv, ReadyMeansCounted
    <2>2. CASE ctor[n] \notin {"post", "poll", "done"}
      <3>1. incoming[n] >= ClusterSize - 1
        BY <2>2 DEF CtorMove
      <3>2. recovering = {}
        BY <2>2 DEF IInv, OthersAreUp, Others, Types
      <3> QED
        BY <3>1, <3>2, CountedAll DEF IInv
    <2> QED
      BY <2>1, <2>2
  <1>5. \A n \in Nodes : Gone(n)' <=> Gone(n)
    BY DEF CtorMove, Gone
  <1>6. CountedMeansConnected' /\ RestartedStaysDead'
    BY <1>5 DEF IInv, CountedMeansConnected, Counted, RestartedStaysDead
  <1>7. OnlyGoneDisconnect'
    <2>1. \A n \in Nodes : \A ev \in events[n] : Peer(ev.end) \in Nodes
      BY EndForms DEF IInv, Types, Peer
    <2> QED
      BY <1>5, <2>1 DEF IInv, OnlyGoneDisconnect
  <1>8. OthersAreUp'
    BY DEF IInv, OthersAreUp, Others, CtorMove, Types
  <1> QED
    BY <1>1, <1>2, <1>3, <1>4, <1>6, <1>7, <1>8 DEF IInv

LEMMA CtorStep ==
  ASSUME IInv, NEW n \in Nodes,
         CtorCheck(n) \/ CtorSleep(n) \/ SpuriousWake(n) \/ CtorPoll(n)
  PROVE  IInv'
  <1>1. /\ UNCHANGED <<recovering, listener, events, up, connected, peerMR, incoming>>
        /\ \E l \in CtorLocations : ctor' = [ctor EXCEPT ![n] = l]
    <2>1. CASE CtorCheck(n)
      BY <2>1 DEF CtorCheck, CtorLocations, runVars, cmVars, peerVars
    <2>2. CASE CtorSleep(n)
      BY <2>2 DEF CtorSleep, CtorLocations, runVars, cmVars, peerVars
    <2>3. CASE SpuriousWake(n)
      BY <2>3 DEF SpuriousWake, CtorLocations, cmVars, peerVars
    <2>4. CASE CtorPoll(n)
      BY <2>4 DEF CtorPoll, CtorLocations, runVars, cmVars, peerVars
    <2> QED
      BY <2>1, <2>2, <2>3, <2>4
  <1>2. ctor' \in [Nodes -> CtorLocations]
    BY <1>1 DEF IInv, Types
  <1>3. \A m \in Nodes : m # n => ctor'[m] = ctor[m]
    BY <1>1 DEF IInv, Types
  <1>4. CtorMove(n)
    BY SizeAssumption DEF IInv, Types, CtorMove, CtorCheck, CtorSleep, SpuriousWake, CtorPoll
  <1>5. \A m \in Nodes : CtorMove(m)
    BY <1>3, <1>4 DEF CtorMove
  <1> QED
    BY <1>1, <1>2, <1>5, CtorMovesKeep

LEMMA AdapterStep ==
  ASSUME IInv, NEW e \in Ends, Adapter(e)
  PROVE  IInv'
  <1>1. UNCHANGED <<ctor, recovering, listener, events, up, connected, peerMR, incoming>>
    BY DEF Adapter, DeliverMR, DeliverWrite, FailRequest, runVars, ctorVars, cmVars, peerVars
  <1> QED
    BY <1>1, CtorMovesKeep DEF CtorMove, IInv, Types

LEMMA StutterStep == IInv /\ UNCHANGED vars => IInv'
  BY CtorMovesKeep DEF CtorMove, IInv, Types, vars, runVars, ctorVars, cmVars, peerVars

LEMMA NotifyStep ==
  ASSUME IInv, NEW n \in Nodes, Notify(n)
  PROVE  IInv'
  <1> DEFINE woken == [ctor EXCEPT ![n] = IF @ = "wait" THEN "check" ELSE @]
  <1>1. /\ ctor' = woken /\ listener' = [listener EXCEPT ![n] = Idle]
        /\ listener[n].at = "notify"
        /\ UNCHANGED <<recovering, events, up, connected, peerMR, incoming>>
    BY DEF Notify, runVars, cmVars, peerVars
  <1>2. listener' \in [Nodes -> [at: {"loop", "poll", "notify"}, end: Ends \cup {NoEnd}]]
    BY <1>1 DEF IInv, Types, Idle
  <1>3. \A m \in Nodes : m # n => listener'[m] = listener[m] /\ ctor'[m] = ctor[m]
    BY <1>1 DEF IInv, Types
  <1>4. listener'[n].at = "loop" /\ ctor' \in [Nodes -> CtorLocations]
    BY <1>1 DEF IInv, Types, Idle, CtorLocations
  <1>5. /\ ctor'[n] \in {"off", "aborted", "post", "poll", "done"} => ctor'[n] = ctor[n]
        /\ ctor[n] \in {"off", "aborted", "post", "poll", "done"} => ctor'[n] = ctor[n]
    BY <1>1 DEF IInv, Types
  <1>6. \A m \in Nodes : Gone(m)' <=> Gone(m)
    BY <1>1, <1>3, <1>5 DEF Gone
  <1>7. Types' /\ AtHome' /\ DownwardsOnly'
    BY <1>1, <1>2, <1>3, <1>4 DEF IInv, Types, AtHome, DownwardsOnly
  <1>8. EachOnce'
    <2>1. ASSUME NEW m \in Nodes, NEW p \in Nodes, Once(m, p) PROVE Once(m, p)'
      <3>1. /\ Polling(m, p)' => Polling(m, p)
            /\ PollingAt(m, p)' => PollingAt(m, p)
        BY <1>3, <1>4 DEF Polling, PollingAt
      <3>2. ctor'[m] = "off" => ctor[m] = "off"
        BY <1>3, <1>5
      <3> QED
        BY <1>1, <2>1, <3>1, <3>2 DEF Once, Resolving, Resolved, Requested, Answered, AtPassive,
           Accepted, AcceptedAt, Counted
    <2> QED
      BY <1>1, <2>1 DEF IInv, EachOnce
  <1>9. CountRight' /\ ReadyMeansCounted' /\ CountedMeansConnected' /\ RestartedStaysDead'
    BY <1>1, <1>3, <1>5, <1>6 DEF IInv, CountRight, CountedPeers, Counted, ReadyMeansCounted,
       CountedMeansConnected, RestartedStaysDead
  <1>10. OnlyGoneDisconnect'
    <2>1. \A m \in Nodes : \A ev \in events[m] : Peer(ev.end) \in Nodes
      BY EndForms DEF IInv, Types, Peer
    <2> QED
      BY <1>1, <1>6, <2>1 DEF IInv, OnlyGoneDisconnect
  <1>11. OthersAreUp'
    BY <1>1, <1>3, <1>4, <1>5 DEF IInv, OthersAreUp, Others, Types
  <1> QED
    BY <1>7, <1>8, <1>9, <1>10, <1>11 DEF IInv

-----------------------------------------------------------------------------
(* A process that ends.                                                    *)

\* A step that takes a connection nowhere.
LEMMA NoFurther ==
  ASSUME NEW n \in Nodes, NEW p \in Nodes, Once(n, p),
         ctor'[n] = "off" => ctor[n] = "off",
         Resolving(n, p)' => Resolving(n, p), Resolved(n, p)' => Resolved(n, p),
         Requested(n, p)' => Requested(n, p), Accepted(n, p)' => Accepted(n, p),
         Polling(n, p)' => Polling(n, p), AcceptedAt(n, p)' => AcceptedAt(n, p),
         PollingAt(n, p)' => PollingAt(n, p),
         UNCHANGED peerMR
  PROVE  Once(n, p)'
  BY DEF Once, Answered, AtPassive, Counted

LEMMA DieStep ==
  ASSUME IInv, NEW n \in Nodes, Die(n),
         recovering \subseteq {n} \/ ctor[n] # "done",
         UNCHANGED <<recovering, up, connected, peerMR, incoming>>
  PROVE  IInv'
  <1>1. /\ ctor' = [ctor EXCEPT ![n] = "aborted"]
        /\ listener' = [listener EXCEPT ![n] = Idle]
        /\ events' \in [Nodes -> SUBSET [kind: EventKinds, end: Ends]]
        /\ \A q \in Nodes : \A x \in events'[q] :
             \/ x \in events[q]
             \/ x.kind = "DISCONNECTED" /\ Here(x.end) = q /\ Peer(x.end) = n
    BY DieEvents DEF IInv
  <1>2. /\ ctor'[n] = "aborted" /\ listener'[n].at = "loop"
        /\ \A m \in Nodes : m # n => listener'[m] = listener[m] /\ ctor'[m] = ctor[m]
    BY <1>1 DEF IInv, Types, Idle
  <1>3. \A m \in Nodes : Gone(m) => Gone(m)'
    BY <1>2 DEF Gone
  <1>4. Types'
    <2>1. ctor' \in [Nodes -> CtorLocations]
      BY <1>1 DEF IInv, Types, CtorLocations
    <2>2. listener' \in [Nodes -> [at: {"loop", "poll", "notify"}, end: Ends \cup {NoEnd}]]
      BY <1>1 DEF IInv, Types, Idle
    <2> QED
      BY <1>1, <2>1, <2>2 DEF IInv, Types
  <1>5. AtHome' /\ DownwardsOnly'
    BY <1>1, <1>2 DEF IInv, AtHome, DownwardsOnly
  <1>6. EachOnce'
    <2>1. ASSUME NEW m \in Nodes, NEW p \in Nodes, Once(m, p) PROVE Once(m, p)'
      <3>1. \A q \in Nodes : \A k \in EventKinds \ {"DISCONNECTED"}, e \in {ActiveEnd(m, p), Passive(m, p)} :
              Event(k, e) \in events'[q] => Event(k, e) \in events[q]
        BY <1>1 DEF Event
      <3>2. Polling(m, p)' => Polling(m, p)
        BY <1>2 DEF Polling
      <3>3. PollingAt(m, p)' => PollingAt(m, p)
        BY <1>2 DEF PollingAt
      <3>4. ctor'[m] = "off" => ctor[m] = "off"
        BY <1>2
      <3>5. /\ Resolving(m, p)' => Resolving(m, p)
            /\ Resolved(m, p)' => Resolved(m, p)
            /\ Requested(m, p)' => Requested(m, p)
            /\ Accepted(m, p)' => Accepted(m, p)
            /\ AcceptedAt(m, p)' => AcceptedAt(m, p)
        BY <3>1 DEF Resolving, Resolved, Requested, Accepted, AcceptedAt, EventKinds
      <3> QED
        BY <2>1, <3>2, <3>3, <3>4, <3>5, NoFurther
    <2> QED
      BY <2>1 DEF IInv, EachOnce
  <1>7. CountRight' /\ ReadyMeansCounted' /\ CountedMeansConnected' /\ RestartedStaysDead'
    BY <1>2, <1>3 DEF IInv, CountRight, CountedPeers, Counted, ReadyMeansCounted,
       CountedMeansConnected, RestartedStaysDead
  <1>8. OnlyGoneDisconnect'
    <2>1. \A m \in Nodes : \A ev \in events[m] : Peer(ev.end) \in Nodes
      BY EndForms DEF IInv, Types, Peer
    <2>2. Gone(n)'
      BY <1>2 DEF Gone
    <2> QED
      BY <1>1, <1>3, <2>1, <2>2 DEF IInv, OnlyGoneDisconnect
  <1>9. OthersAreUp'
    BY <1>1, <1>2 DEF IInv, OthersAreUp, Others, Types
  <1> QED
    BY <1>4, <1>5, <1>6, <1>7, <1>8, <1>9 DEF IInv

LEMMA CtorPostStep ==
  ASSUME IInv, NEW n \in Nodes, CtorPost(n)
  PROVE  IInv'
  <1>1. UNCHANGED <<recovering, up, connected, peerMR, incoming>> /\ ctor[n] = "post"
    BY DEF CtorPost, runVars, peerVars
  <1>2. CASE Die(n)
    BY <1>1, <1>2, DieStep
  <1>3. CASE ctor' = [ctor EXCEPT ![n] = "poll"] /\ UNCHANGED <<listener, events>>
    <2>1. ctor' \in [Nodes -> CtorLocations]
      BY <1>3 DEF IInv, Types, CtorLocations
    <2>2. \A m \in Nodes : CtorMove(m)
      BY <1>1, <1>3 DEF IInv, Types, CtorMove
    <2> QED
      BY <1>1, <1>3, <2>1, <2>2, CtorMovesKeep
  <1> QED
    BY <1>2, <1>3 DEF CtorPost

LEMMA CrashStep ==
  ASSUME IInv, NEW n \in Nodes, Crash(n)
  PROVE  IInv'
  BY DieStep DEF Crash, runVars, peerVars

-----------------------------------------------------------------------------
(* Steps of the listener.                                                  *)

LEMMA DisconnectedStep ==
  ASSUME IInv, NEW n \in Nodes, OnDisconnected(n)
  PROVE  IInv'
  <1>1. PICK ev \in events[n] :
          /\ ev.kind = "DISCONNECTED"
          /\ Handle(n, ev, n, {})
          /\ up' = up \ {ev.end}
          /\ connected' = [connected EXCEPT ![n][Peer(ev.end)] = FALSE]
    BY DEF OnDisconnected, Waiting
  <1>2. UNCHANGED <<recovering, ctor, listener, peerMR, incoming>>
    BY DEF OnDisconnected, runVars, ctorVars
  <1>3. Peer(ev.end) \in Nodes /\ Gone(Peer(ev.end))
    BY <1>1, EndForms DEF IInv, Types, OnlyGoneDisconnect, Peer
  <1>4. /\ events' \in [Nodes -> SUBSET [kind: EventKinds, end: Ends]]
        /\ \A q \in Nodes : events'[q] \subseteq events[q]
    BY <1>1 DEF IInv, Types, Handle
  <1>5. Types' /\ AtHome' /\ DownwardsOnly'
    BY <1>1, <1>2, <1>3, <1>4 DEF IInv, Types, AtHome, DownwardsOnly
  <1>6. EachOnce'
    <2>1. ASSUME NEW m \in Nodes, NEW p \in Nodes, Once(m, p) PROVE Once(m, p)'
      BY <1>2, <1>4, <2>1, NoFurther DEF Resolving, Resolved, Requested, Accepted, AcceptedAt,
         Polling, PollingAt
    <2> QED
      BY <1>2, <2>1 DEF IInv, EachOnce
  <1>7. \A m \in Nodes : Gone(m)' <=> Gone(m)
    BY <1>2 DEF Gone
  <1>8. CountedMeansConnected' /\ RestartedStaysDead'
    BY <1>1, <1>2, <1>3, <1>7 DEF IInv, Types, Counted, CountedMeansConnected, RestartedStaysDead
  <1>9. CountRight' /\ ReadyMeansCounted' /\ OthersAreUp'
    BY <1>2, <1>4 DEF IInv, CountRight, CountedPeers, Counted, ReadyMeansCounted, OthersAreUp,
       Others, Types
  <1>10. OnlyGoneDisconnect'
    <2>1. \A m \in Nodes : \A x \in events[m] : Peer(x.end) \in Nodes
      BY EndForms DEF IInv, Types, Peer
    <2> QED
      BY <1>4, <1>7, <2>1 DEF IInv, OnlyGoneDisconnect
  <1> QED
    BY <1>5, <1>6, <1>8, <1>9, <1>10 DEF IInv

\* What the four events of a connection have in common: the event is taken,
\* and at most one other comes of it.
Taken(n, ev, m, new) ==
    /\ ev \in events[n] /\ ev.kind # "DISCONNECTED"
    /\ Handle(n, ev, m, new)
    /\ new \subseteq [kind: EventKinds \ {"DISCONNECTED"}, end: Ends]
    /\ UNCHANGED <<recovering, ctor, peerMR, incoming>>

LEMMA TakenKeeps ==
  ASSUME IInv, NEW n \in Nodes, NEW m \in Nodes, NEW ev, NEW new, Taken(n, ev, m, new)
  PROVE  /\ events' \in [Nodes -> SUBSET [kind: EventKinds, end: Ends]]
         /\ ReadyMeansCounted' /\ OnlyGoneDisconnect' /\ CountRight'
         /\ \A q \in Nodes : Gone(q)' <=> Gone(q)
  <1>1. events' \in [Nodes -> SUBSET [kind: EventKinds, end: Ends]]
    BY DEF IInv, Types, Taken, Handle
  <1>2. \A q \in Nodes : \A x \in events'[q] : x \in events[q] \/ x.kind # "DISCONNECTED"
    <2>1. \A x \in new : x.kind # "DISCONNECTED"
      BY DEF Taken
    <2> QED
      BY <2>1, HandleEvents DEF IInv, Taken
  <1>3. \A q \in Nodes : Gone(q)' <=> Gone(q)
    BY DEF Taken, Gone
  <1>4. OnlyGoneDisconnect'
    <2>1. \A q \in Nodes : \A x \in events[q] : Peer(x.end) \in Nodes
      BY EndForms DEF IInv, Types, Peer
    <2> QED
      BY <1>2, <1>3, <2>1 DEF IInv, OnlyGoneDisconnect
  <1>5. ReadyMeansCounted' /\ CountRight'
    BY DEF IInv, Taken, ReadyMeansCounted, CountRight, CountedPeers, Counted
  <1> QED
    BY <1>1, <1>3, <1>4, <1>5

LEMMA AddrResolvedStep ==
  ASSUME IInv, NEW n \in Nodes, OnAddrResolved(n)
  PROVE  IInv'
  <1>1. PICK ev \in events[n] :
          /\ ev.kind = "ADDR_RESOLVED"
          /\ BuildConnection(ev.end)
          /\ Handle(n, ev, n, {Event("ROUTE_RESOLVED", ev.end)})
    BY DEF OnAddrResolved, Waiting
  <1>2. UNCHANGED <<recovering, ctor, listener, up, peerMR, incoming>>
    BY DEF OnAddrResolved, runVars, ctorVars
  <1> DEFINE e == ev.end
             p == ev.end.to
  <1>3. /\ e \in Ends /\ e = ActiveEnd(n, p) /\ p \in Nodes /\ Here(e) = n /\ Peer(e) = p
        /\ ev = Event("ADDR_RESOLVED", ActiveEnd(n, p))
    BY <1>1, EventForms
  <1>4. Taken(n, ev, n, {Event("ROUTE_RESOLVED", e)})
    BY <1>1, <1>2, <1>3 DEF Taken, Event, EventKinds
  <1>5. connected' = [connected EXCEPT ![n][p] = FALSE]
    BY <1>1, <1>3 DEF BuildConnection
  <1>6. \A q \in Nodes : \A x : x \in events'[q] <=>
          \/ x \in events[q] /\ ~(q = n /\ x = ev)
          \/ q = n /\ x = Event("ROUTE_RESOLVED", ActiveEnd(n, p))
    BY <1>1, <1>3, HandleEvents DEF IInv
  <1>7. Types' /\ AtHome' /\ DownwardsOnly'
    <2>1. Types'
      BY <1>2, <1>3, <1>4, <1>5, TakenKeeps DEF IInv, Types
    <2>2. AtHome'
      BY <1>2, <1>3, <1>6 DEF IInv, AtHome, Event, ActiveEnd, Here
    <2>3. DownwardsOnly'
      BY <1>1, <1>2, <1>3, <1>6 DEF IInv, DownwardsOnly, Event
    <2> QED
      BY <2>1, <2>2, <2>3
  <1>8. ASSUME recovering = {} PROVE p < n /\ Once(n, p) /\ Resolving(n, p)
    BY <1>1, <1>3, <1>8 DEF IInv, DownwardsOnly, EachOnce, Resolving, ActiveEnd
  <1>9. EachOnce'
    <2> SUFFICES ASSUME recovering = {}, NEW k \in Nodes, NEW l \in Nodes, l < k PROVE Once(k, l)'
      BY <1>2 DEF EachOnce
    <2>1. Once(k, l)
      BY DEF IInv, EachOnce
    <2>2. CASE k = n /\ l = p
      <3>1. ~Resolving(n, p)' /\ Resolved(n, p)'
        BY <1>3, <1>6 DEF Resolving, Resolved, Event
      <3>2. /\ Requested(n, p)' => Requested(n, p)
            /\ Accepted(n, p)' => Accepted(n, p)
            /\ AcceptedAt(n, p)' => AcceptedAt(n, p)
        BY <1>3, <1>6 DEF Requested, Accepted, AcceptedAt, Event
      <3>3. /\ Polling(n, p)' <=> Polling(n, p)
            /\ PollingAt(n, p)' <=> PollingAt(n, p)
            /\ Counted(n, p)' <=> Counted(n, p)
            /\ Counted(p, n)' <=> Counted(p, n)
            /\ ctor'[n] = ctor[n]
        BY <1>2 DEF Counted, Polling, PollingAt
      <3>4. Once(n, p)'
        BY <1>8, <3>1, <3>2, <3>3 DEF Once, Answered, AtPassive
      <3> QED
        BY <2>2, <3>4
    <2>3. CASE ~(k = n /\ l = p)
      <3>1. ActiveEnd(k, l) # ActiveEnd(n, p)
        BY <2>3 DEF ActiveEnd
      <3>2. /\ Resolving(k, l)' => Resolving(k, l)
            /\ Resolved(k, l)' => Resolved(k, l)
            /\ Requested(k, l)' => Requested(k, l)
            /\ Accepted(k, l)' => Accepted(k, l)
            /\ AcceptedAt(k, l)' => AcceptedAt(k, l)
        BY <1>6, <3>1 DEF Resolving, Resolved, Requested, Accepted, AcceptedAt, Event
      <3>3. /\ Polling(k, l)' => Polling(k, l)
            /\ PollingAt(k, l)' => PollingAt(k, l)
        BY <1>2 DEF Polling, PollingAt
      <3> QED
        BY <1>2, <2>1, <3>2, <3>3, NoFurther
    <2> QED
      BY <2>2, <2>3
  <1>10. CountedMeansConnected'
    <2>1. n \in recovering \/ ~Counted(n, p)
      <3>1. CASE recovering = {}
        BY <1>8, <3>1 DEF Once, Answered
      <3>2. CASE recovering # {}
        BY <1>1, <3>2 DEF IInv, Types, OthersAreUp, Others
      <3> QED
        BY <3>1, <3>2
    <2> QED
      BY <1>2, <1>3, <1>4, <1>5, <2>1, TakenKeeps DEF IInv, Types, CountedMeansConnected, Counted
  <1>11. RestartedStaysDead'
    BY <1>2, <1>3, <1>5 DEF IInv, Types, RestartedStaysDead
  <1>12. OthersAreUp'
    BY <1>1, <1>2, <1>6 DEF IInv, Types, OthersAreUp, Others
  <1> QED
    BY <1>4, <1>7, <1>9, <1>10, <1>11, <1>12, TakenKeeps DEF IInv

LEMMA RouteResolvedStep ==
  ASSUME IInv, NEW n \in Nodes, OnRouteResolved(n)
  PROVE  IInv'
  <1>1. PICK ev \in events[n] :
          /\ ev.kind = "ROUTE_RESOLVED"
          /\ Handle(n, ev, ev.end.to, IF Running(ev.end.to)
                                      THEN {Event("CONNECT_REQUEST", Other(ev.end))} ELSE {})
    BY DEF OnRouteResolved, Waiting
  <1>2. UNCHANGED <<recovering, ctor, listener, up, peerMR, incoming, connected>>
    BY DEF OnRouteResolved, runVars, ctorVars, peerVars
  <1> DEFINE e == ev.end
             p == ev.end.to
             request == Event("CONNECT_REQUEST", Passive(n, p))
             new == IF Running(p) THEN {request} ELSE {}
  <1>3. /\ e \in Ends /\ e = ActiveEnd(n, p) /\ p \in Nodes
        /\ Other(e) = Passive(n, p) /\ Passive(n, p) \in Ends
        /\ ev = Event("ROUTE_RESOLVED", ActiveEnd(n, p))
    BY <1>1, EventForms
  <1>4. Taken(n, ev, p, new)
    BY <1>1, <1>2, <1>3 DEF Taken, Event, EventKinds
  <1>5. \A q \in Nodes : \A x :
          /\ x \in events'[q] => x \in events[q] \/ (q = p /\ x = request)
          /\ ~(ev \in events'[n])
    <2>1. ev # request
      BY <1>3 DEF Event
    <2> HIDE DEF request
    <2> QED
      BY <1>3, <1>4, <2>1, HandleEvents DEF IInv, Taken
  <1>6. Types' /\ AtHome' /\ DownwardsOnly'
    <2>1. Types'
      BY <1>2, <1>3, <1>4, TakenKeeps DEF IInv, Types
    <2>2. AtHome'
      BY <1>2, <1>3, <1>5 DEF IInv, AtHome, Event, Passive, Here
    <2>3. DownwardsOnly'
      <3>1. recovering = {} => p < n
        BY <1>1, <1>3 DEF IInv, DownwardsOnly, ActiveEnd
      <3> QED
        BY <1>2, <1>3, <1>5, <3>1 DEF IInv, DownwardsOnly, Event, Passive
    <2> QED
      BY <2>1, <2>2, <2>3
  <1>7. ASSUME recovering = {} PROVE Once(n, p) /\ Resolved(n, p)
    BY <1>1, <1>3, <1>7 DEF IInv, DownwardsOnly, EachOnce, Resolved, ActiveEnd
  <1>8. EachOnce'
    <2> SUFFICES ASSUME recovering = {}, NEW k \in Nodes, NEW l \in Nodes, l < k PROVE Once(k, l)'
      BY <1>2 DEF EachOnce
    <2>1. Once(k, l)
      BY DEF IInv, EachOnce
    <2>2. /\ Polling(k, l)' <=> Polling(k, l)
          /\ PollingAt(k, l)' <=> PollingAt(k, l)
          /\ Counted(k, l)' <=> Counted(k, l)
          /\ Counted(l, k)' <=> Counted(l, k)
          /\ ctor'[k] = ctor[k]
      BY <1>2 DEF Counted, Polling, PollingAt
    <2>3. /\ Resolving(k, l)' => Resolving(k, l)
          /\ Resolved(k, l)' => Resolved(k, l)
          /\ Accepted(k, l)' => Accepted(k, l)
          /\ AcceptedAt(k, l)' => AcceptedAt(k, l)
      BY <1>5 DEF Resolving, Resolved, Accepted, AcceptedAt, Event
    <2>4. CASE k = n /\ l = p
      <3>1. ~Resolved(n, p)'
        BY <1>3, <1>5 DEF Resolved
      <3> QED
        BY <1>7, <2>2, <2>3, <2>4, <3>1 DEF Once, Answered, AtPassive
    <2>5. CASE ~(k = n /\ l = p)
      <3>1. Requested(k, l)' => Requested(k, l)
        BY <1>5, <2>5 DEF Requested, Event, Passive
      <3> QED
        BY <1>2, <2>1, <2>2, <2>3, <3>1, NoFurther
    <2> QED
      BY <2>4, <2>5
  <1>9. CountedMeansConnected' /\ RestartedStaysDead'
    BY <1>2, <1>3, <1>4, TakenKeeps DEF IInv, CountedMeansConnected, RestartedStaysDead, Counted
  <1>10. OthersAreUp'
    <2> SUFFICES ASSUME NEW r \in recovering, NEW s \in Others(r), NEW x \in events'[s],
                        x \notin events[s]
                 PROVE  x = request /\ n = r
      BY <1>2 DEF IInv, OthersAreUp, Event, Passive
    <2>1. r \in Nodes /\ s \in Nodes
      BY DEF IInv, Types, Others
    <2>2. x = request
      BY <1>5, <2>1
    <2>3. n = r
      BY <1>1 DEF IInv, OthersAreUp, Others
    <2> QED
      BY <2>2, <2>3
  <1> QED
    BY <1>3, <1>4, <1>6, <1>8, <1>9, <1>10, TakenKeeps DEF IInv

LEMMA ConnectionRequestStep ==
  ASSUME IInv, NEW n \in Nodes, OnConnectionRequest(n)
  PROVE  IInv'
  <1>1. PICK ev \in events[n] :
          /\ ev.kind = "CONNECT_REQUEST"
          /\ BuildConnection(ev.end)
          /\ LET new == IF Running(ev.end.from) THEN {Other(ev.end)} ELSE {}
             IN  /\ Handle(n, ev, ev.end.from, {Event("ESTABLISHED", a) : a \in new})
                 /\ up' = up \cup new
    BY DEF OnConnectionRequest, Waiting
  <1>2. UNCHANGED <<recovering, ctor, listener, peerMR, incoming>>
    BY DEF OnConnectionRequest, runVars, ctorVars
  <1> DEFINE e == ev.end
             p == ev.end.from
             answer == Event("ESTABLISHED", ActiveEnd(p, n))
             new == IF Running(p) THEN {Other(e)} ELSE {}
             answers == {Event("ESTABLISHED", a) : a \in new}
  <1>3. /\ e \in Ends /\ e = Passive(p, n) /\ p \in Nodes /\ Here(e) = n /\ Peer(e) = p
        /\ Other(e) = ActiveEnd(p, n) /\ ActiveEnd(p, n) \in Ends
        /\ ev = Event("CONNECT_REQUEST", Passive(p, n))
    BY <1>1, EventForms
  <1>4. answers \subseteq {answer} /\ new \subseteq {ActiveEnd(p, n)}
    BY <1>3
  <1>5. Handle(n, ev, p, answers) /\ up' = up \cup new
    BY <1>1
  <1>6. Taken(n, ev, p, answers)
    <2>1. answer \in [kind: EventKinds \ {"DISCONNECTED"}, end: Ends]
      BY <1>3 DEF Event, EventKinds
    <2> HIDE DEF answers, answer
    <2> QED
      BY <1>1, <1>2, <1>4, <1>5, <2>1 DEF Taken
  <1>7. connected' = [connected EXCEPT ![n][p] = FALSE]
    BY <1>1, <1>3 DEF BuildConnection
  <1>8. \A q \in Nodes : \A x :
          /\ x \in events'[q] => x \in events[q] \/ (q = p /\ x = answer)
          /\ ~(ev \in events'[n])
    <2>1. ev # answer
      BY <1>3 DEF Event
    <2> HIDE DEF answer, answers
    <2> QED
      BY <1>3, <1>4, <1>6, <2>1, HandleEvents DEF IInv, Taken
  <1>9. Types' /\ AtHome' /\ DownwardsOnly'
    <2>1. Types'
      BY <1>2, <1>3, <1>4, <1>5, <1>6, <1>7, TakenKeeps DEF IInv, Types
    <2>2. AtHome'
      BY <1>2, <1>3, <1>8 DEF IInv, AtHome, Event, ActiveEnd, Here
    <2>3. DownwardsOnly'
      <3>1. recovering = {} => n < p
        BY <1>1, <1>3 DEF IInv, DownwardsOnly, Passive
      <3> QED
        BY <1>2, <1>3, <1>8, <3>1 DEF IInv, DownwardsOnly, Event, ActiveEnd
    <2> QED
      BY <2>1, <2>2, <2>3
  <1>10. ASSUME recovering = {} PROVE Once(p, n) /\ Requested(p, n)
    BY <1>1, <1>3, <1>10 DEF IInv, DownwardsOnly, EachOnce, Requested, Passive
  <1>11. EachOnce'
    <2> SUFFICES ASSUME recovering = {}, NEW k \in Nodes, NEW l \in Nodes, l < k PROVE Once(k, l)'
      BY <1>2 DEF EachOnce
    <2>1. Once(k, l)
      BY DEF IInv, EachOnce
    <2>2. /\ Polling(k, l)' <=> Polling(k, l)
          /\ PollingAt(k, l)' <=> PollingAt(k, l)
          /\ Counted(k, l)' <=> Counted(k, l)
          /\ Counted(l, k)' <=> Counted(l, k)
          /\ ctor'[k] = ctor[k]
      BY <1>2 DEF Counted, Polling, PollingAt
    <2>3. /\ Resolving(k, l)' => Resolving(k, l)
          /\ Resolved(k, l)' => Resolved(k, l)
          /\ Requested(k, l)' => Requested(k, l)
          /\ AcceptedAt(k, l)' => AcceptedAt(k, l)
      BY <1>8 DEF Resolving, Resolved, Requested, AcceptedAt, Event, ActiveEnd, Passive
    <2>4. CASE k = p /\ l = n
      <3>1. ~Requested(p, n)'
        BY <1>3, <1>8 DEF Requested
      <3> QED
        BY <1>10, <2>2, <2>3, <2>4, <3>1 DEF Once, Answered, AtPassive
    <2>5. CASE ~(k = p /\ l = n)
      <3>1. Accepted(k, l)' => Accepted(k, l)
        BY <1>8, <2>5 DEF Accepted, Event, ActiveEnd
      <3> QED
        BY <1>2, <2>1, <2>2, <2>3, <3>1, NoFurther
    <2> QED
      BY <2>4, <2>5
  <1>12. CountedMeansConnected'
    <2>1. n \in recovering \/ p \in recovering \/ ~Counted(n, p)
      <3>1. CASE recovering = {}
        BY <1>10, <3>1 DEF Once, Answered, AtPassive
      <3>2. CASE recovering # {}
        BY <1>1, <3>2 DEF IInv, Types, OthersAreUp, Others
      <3> QED
        BY <3>1, <3>2
    <2>2. p \in recovering => Gone(p)
      BY DEF Gone
    <2> QED
      BY <1>2, <1>3, <1>6, <1>7, <2>1, <2>2, TakenKeeps
      DEF IInv, Types, CountedMeansConnected, Counted
  <1>13. RestartedStaysDead'
    BY <1>2, <1>3, <1>7 DEF IInv, Types, RestartedStaysDead
  <1>14. OthersAreUp'
    BY <1>2, <1>8 DEF IInv, Types, OthersAreUp, Others, Event
  <1> QED
    BY <1>3, <1>6, <1>9, <1>11, <1>12, <1>13, <1>14, TakenKeeps DEF IInv

LEMMA EstablishedStep ==
  ASSUME IInv, NEW n \in Nodes, OnConnectionEstablished(n)
  PROVE  IInv'
  <1>1. PICK ev \in events[n] :
          /\ ev.kind = "ESTABLISHED"
          /\ LET new == IF ev.end.active /\ Running(ev.end.to) THEN {Other(ev.end)} ELSE {}
             IN  /\ Handle(n, ev, ev.end.to, {Event("ESTABLISHED", a) : a \in new})
                 /\ up' = up \cup new
          /\ listener' = IF ctor[n] = "done" THEN listener
                         ELSE [listener EXCEPT ![n] = [at |-> "poll", end |-> ev.end]]
    BY DEF OnConnectionEstablished, Waiting
  <1>2. /\ UNCHANGED <<recovering, ctor, peerMR, incoming, connected>>
        /\ listener[n].at = "loop"
    BY DEF OnConnectionEstablished, runVars, ctorVars, peerVars, InLoop, Idle
  <1> DEFINE e == ev.end
             f == ev.end.from
             t == ev.end.to
             passive == Event("ESTABLISHED", Passive(f, t))
             new == IF e.active /\ Running(t) THEN {Other(e)} ELSE {}
             answers == {Event("ESTABLISHED", a) : a \in new}
  <1>3. /\ e \in Ends /\ f \in Nodes /\ t \in Nodes /\ Here(e) = n
        /\ e.active => e = ActiveEnd(f, t) /\ Other(e) = Passive(f, t) /\ f = n
        /\ ~e.active => e = Passive(f, t) /\ t = n
        /\ Other(e) \in Ends
        /\ ev = Event("ESTABLISHED", e)
    BY <1>1, EventForms
  <1>4. /\ new # {} => e.active
        /\ new \subseteq {Passive(f, t)} /\ new \subseteq Ends /\ answers \subseteq {passive}
    BY <1>3
  <1>5. Handle(n, ev, t, answers) /\ up' = up \cup new
    BY <1>1
  <1>6. Taken(n, ev, t, answers)
    <2>1. answers \subseteq [kind: EventKinds \ {"DISCONNECTED"}, end: Ends]
      BY <1>4 DEF Event, EventKinds
    <2> HIDE DEF answers
    <2> QED
      BY <1>1, <1>2, <1>5, <2>1 DEF Taken
  <1>7. \A q \in Nodes : \A x : x \in events'[q] =>
          \/ x \in events[q] /\ ~(q = n /\ x = ev)
          \/ q = t /\ x = passive /\ e.active
    <2>1. answers # {} => e.active
      BY <1>4
    <2> HIDE DEF answers, passive
    <2> QED
      BY <1>3, <1>4, <1>6, <2>1, HandleEvents DEF IInv, Taken
  <1>8. /\ \A m \in Nodes : m # n => listener'[m] = listener[m]
        /\ listener'[n].at = "poll" => listener'[n].end = e /\ ctor[n] # "done"
        /\ listener' \in [Nodes -> [at: {"loop", "poll", "notify"}, end: Ends \cup {NoEnd}]]
    BY <1>1, <1>2, <1>3 DEF IInv, Types
  <1>9. Types' /\ AtHome' /\ DownwardsOnly'
    <2>1. Types'
      BY <1>2, <1>3, <1>4, <1>5, <1>6, <1>8, TakenKeeps DEF IInv, Types
    <2>2. AtHome'
      BY <1>2, <1>3, <1>7, <1>8 DEF IInv, AtHome, Event, Passive, Here
    <2>3. DownwardsOnly'
      <3>1. recovering = {} => t < f
        BY <1>1 DEF IInv, DownwardsOnly
      <3> QED
        BY <1>2, <1>3, <1>7, <1>8, <3>1 DEF IInv, DownwardsOnly, Event, Passive
    <2> QED
      BY <2>1, <2>2, <2>3
  <1>10. ASSUME recovering = {} PROVE Once(f, t)
    BY <1>1, <1>3, <1>10 DEF IInv, DownwardsOnly, EachOnce
  <1>11. EachOnce'
    <2> SUFFICES ASSUME recovering = {}, NEW k \in Nodes, NEW l \in Nodes, l < k PROVE Once(k, l)'
      BY <1>2 DEF EachOnce
    <2>1. Once(k, l)
      BY DEF IInv, EachOnce
    <2>2. /\ Counted(k, l)' <=> Counted(k, l)
          /\ Counted(l, k)' <=> Counted(l, k)
          /\ ctor'[k] = ctor[k]
      BY <1>2 DEF Counted
    <2>3. /\ Resolving(k, l)' => Resolving(k, l)
          /\ Resolved(k, l)' => Resolved(k, l)
          /\ Requested(k, l)' => Requested(k, l)
          /\ Accepted(k, l)' => Accepted(k, l)
      BY <1>7 DEF Resolving, Resolved, Requested, Accepted, Event, ActiveEnd, Passive
    <2>4. CASE ~(k = f /\ l = t)
      <3>1. ActiveEnd(k, l) # e /\ Passive(k, l) # e /\ Passive(k, l) # Passive(f, t)
        BY <1>3, <2>4 DEF ActiveEnd, Passive
      <3>2. AcceptedAt(k, l)' => AcceptedAt(k, l)
        BY <1>7, <3>1 DEF AcceptedAt, Event
      <3>3. Polling(k, l)' => Polling(k, l)
        BY <1>8, <3>1 DEF Polling
      <3>4. PollingAt(k, l)' => PollingAt(k, l)
        BY <1>8, <3>1 DEF PollingAt
      <3> QED
        BY <1>2, <2>1, <2>2, <2>3, <3>2, <3>3, <3>4, NoFurther
    <2>5. CASE k = f /\ l = t /\ e.active
      <3>1. Accepted(f, t) /\ ~Accepted(f, t)'
        <4>1. f = n /\ ev = Event("ESTABLISHED", ActiveEnd(f, t)) /\ ev \in events[n]
          BY <1>3, <2>5
        <4>2. ev # passive
          BY <4>1 DEF Event, ActiveEnd, Passive
        <4> QED
          BY <1>3, <1>7, <4>1, <4>2 DEF Accepted
      <3>2. ~PollingAt(f, t)'
        <4>1. ~PollingAt(f, t)
          BY <1>3, <1>10, <3>1 DEF Once, AtPassive
        <4>2. Passive(f, t) # e
          BY <1>3, <2>5 DEF ActiveEnd, Passive
        <4> QED
          BY <1>3, <1>8, <4>1, <4>2 DEF PollingAt
      <3> QED
        BY <1>10, <2>2, <2>3, <2>5, <3>1, <3>2 DEF Once, Answered, AtPassive
    <2>6. CASE k = f /\ l = t /\ ~e.active
      <3>1. AcceptedAt(f, t) /\ ~AcceptedAt(f, t)'
        BY <1>3, <1>7, <2>6 DEF AcceptedAt, Event
      <3>2. Polling(f, t)' => Polling(f, t)
        <4>1. ActiveEnd(f, t) # e
          BY <1>3, <2>6 DEF ActiveEnd, Passive
        <4> QED
          BY <1>3, <1>8, <4>1 DEF Polling
      <3> QED
        BY <1>10, <2>2, <2>3, <2>6, <3>1, <3>2 DEF Once, Answered, AtPassive
    <2> QED
      BY <2>4, <2>5, <2>6
  <1>12. CountedMeansConnected' /\ RestartedStaysDead'
    BY <1>2, <1>3, <1>6, TakenKeeps DEF IInv, CountedMeansConnected, RestartedStaysDead, Counted
  <1>13. OthersAreUp'
    BY <1>2, <1>7, <1>8 DEF IInv, Types, OthersAreUp, Others, Event
  <1> QED
    BY <1>3, <1>6, <1>9, <1>11, <1>12, <1>13, TakenKeeps DEF IInv

LEMMA PollRecvStep ==
  ASSUME IInv, NEW n \in Nodes, PollRecv(n)
  PROVE  IInv'
  <1>1. /\ UNCHANGED <<recovering, up>> /\ listener[n].at = "poll"
        /\ ctor[n] \notin {"off", "aborted"}
    BY DEF PollRecv, runVars, Running
  <1>2. PICK e \in Ends : e = listener[n].end /\ Here(e) = n
    BY <1>1 DEF IInv, AtHome
  <1>3. PICK p \in Nodes : p = Peer(e)
    BY EndForms DEF Peer
  <1>4. recovering \subseteq {n}
    BY <1>1 DEF IInv, OthersAreUp, Others, Types
  <1>5. CASE Die(n) /\ UNCHANGED <<connected, peerMR, incoming>>
    BY <1>1, <1>4, <1>5, DieStep
  <1>6. ASSUME NEW mr \in {"peer", "garbage"},
               connected' = [connected EXCEPT ![n][p] = TRUE],
               peerMR' = [peerMR EXCEPT ![n][p] = mr],
               incoming' = [incoming EXCEPT ![n] = @ + 1],
               listener' = [listener EXCEPT ![n].at = "notify"],
               UNCHANGED <<ctor, events>>
        PROVE  IInv'
    <2>1. /\ e \in Ends /\ e.from \in Nodes /\ e.to \in Nodes /\ p \in Nodes
          /\ e.active => e = ActiveEnd(n, p)
          /\ ~e.active => e = Passive(p, n)
      BY <1>2, <1>3, EndForms
    <2>2. /\ listener'[n].at = "notify"
          /\ \A m \in Nodes : m # n => listener'[m] = listener[m]
          /\ listener' \in [Nodes -> [at: {"loop", "poll", "notify"}, end: Ends \cup {NoEnd}]]
      <3>1. [listener[n] EXCEPT !.at = "notify"] = [at |-> "notify", end |-> listener[n].end]
        BY DEF IInv, Types
      <3>2. listener' = [listener EXCEPT ![n] = [at |-> "notify", end |-> listener[n].end]]
        BY <1>6, <3>1
      <3> QED
        BY <1>2, <2>1, <3>2 DEF IInv, Types
    <2>3. /\ Counted(n, p)'
          /\ \A k, l \in Nodes : ~(k = n /\ l = p) => (Counted(k, l)' <=> Counted(k, l))
          /\ \A k, l \in Nodes : Counted(k, l) => Counted(k, l)'
      BY <1>6, <2>1 DEF IInv, Types, Counted
    <2>4. \A k \in Nodes : Gone(k)' <=> Gone(k)
      BY <1>1, <1>6 DEF Gone
    <2>5. Types'
      <3>1. peerMR' \in [Nodes -> [Nodes -> {"unset", "peer", "garbage"}]]
        BY <1>6, <2>1 DEF IInv, Types
      <3>2. connected' \in [Nodes -> [Nodes -> BOOLEAN]]
        BY <1>6, <2>1 DEF IInv, Types
      <3>3. incoming' \in [Nodes -> Nat]
        BY <1>6 DEF IInv, Types
      <3> QED
        BY <1>1, <1>6, <2>2, <3>1, <3>2, <3>3 DEF IInv, Types
    <2>6. AtHome' /\ DownwardsOnly'
      BY <1>1, <1>6, <2>2 DEF IInv, AtHome, DownwardsOnly
    <2>7. ASSUME recovering = {}
          PROVE  /\ e.active => p < n /\ Once(n, p) /\ Polling(n, p)
                 /\ ~e.active => n < p /\ Once(p, n) /\ PollingAt(p, n)
      <3>1. e.to < e.from
        BY <1>1, <1>2, <2>7 DEF IInv, DownwardsOnly
      <3>2. CASE e.active
        <4>1. p < n
          BY <2>1, <3>1, <3>2 DEF ActiveEnd
        <4> QED
          BY <1>1, <1>2, <2>1, <2>7, <3>2, <4>1 DEF IInv, EachOnce, Polling
      <3>3. CASE ~e.active
        <4>1. n < p
          BY <2>1, <3>1, <3>3 DEF Passive
        <4> QED
          BY <1>1, <1>2, <2>1, <2>7, <3>3, <4>1 DEF IInv, EachOnce, PollingAt
      <3> QED
        BY <3>2, <3>3
    <2>8. recovering = {} => ~Counted(n, p) /\ n # p
      BY <2>1, <2>7 DEF Once, Nodes
    <2>9. EachOnce'
      <3> SUFFICES ASSUME recovering = {}, NEW k \in Nodes, NEW l \in Nodes, l < k
                   PROVE  Once(k, l)'
        BY <1>1 DEF EachOnce
      <3>1. Once(k, l)
        BY DEF IInv, EachOnce
      <3>2. /\ Polling(k, l)' => Polling(k, l)
            /\ PollingAt(k, l)' => PollingAt(k, l)
        BY <2>2 DEF Polling, PollingAt
      <3>3. /\ Resolving(k, l)' <=> Resolving(k, l)
            /\ Resolved(k, l)' <=> Resolved(k, l)
            /\ Requested(k, l)' <=> Requested(k, l)
            /\ Accepted(k, l)' <=> Accepted(k, l)
            /\ AcceptedAt(k, l)' <=> AcceptedAt(k, l)
            /\ ctor'[k] = ctor[k]
        BY <1>6 DEF Resolving, Resolved, Requested, Accepted, AcceptedAt
      <3>4. CASE k = n /\ l = p
        <4>1. e.active /\ Polling(k, l)
          BY <2>1, <2>7, <3>4 DEF Nodes
        <4>2. ~Polling(k, l)'
          BY <2>2, <3>4 DEF Polling
        <4>3. Counted(l, k)' <=> Counted(l, k)
          BY <2>1, <2>3, <2>8, <3>4
        <4> QED
          BY <3>1, <3>2, <3>3, <4>1, <4>2, <4>3 DEF Once, Answered, AtPassive
      <3>5. CASE k = p /\ l = n
        <4>1. ~e.active /\ PollingAt(k, l)
          BY <2>1, <2>7, <3>5 DEF Nodes
        <4>2. ~PollingAt(k, l)'
          BY <2>2, <3>5 DEF PollingAt
        <4>3. Counted(k, l)' <=> Counted(k, l)
          BY <2>1, <2>3, <2>8, <3>5
        <4> QED
          BY <3>1, <3>2, <3>3, <4>1, <4>2, <4>3 DEF Once, Answered, AtPassive
      <3>6. CASE ~(k = n /\ l = p) /\ ~(k = p /\ l = n)
        <4>1. /\ Counted(k, l)' <=> Counted(k, l)
              /\ Counted(l, k)' <=> Counted(l, k)
          BY <2>3, <3>6
        <4> QED
          BY <3>1, <3>2, <3>3, <4>1 DEF Once, Answered, AtPassive
      <3> QED
        BY <3>4, <3>5, <3>6
    <2>10. CountRight'
      <3> SUFFICES ASSUME recovering = {}, NEW m \in Nodes
                   PROVE  m \notin CountedPeers(m)' /\ incoming'[m] = Cardinality(CountedPeers(m)')
        BY <1>1 DEF CountRight
      <3>1. m \notin CountedPeers(m) /\ incoming[m] = Cardinality(CountedPeers(m))
        BY DEF IInv, CountRight
      <3>2. CASE m # n
        <4>1. CountedPeers(m)' = CountedPeers(m)
          BY <2>3, <3>2 DEF CountedPeers
        <4> QED
          BY <1>6, <3>1, <3>2, <4>1 DEF IInv, Types
      <3>3. CASE m = n
        <4>1. CountedPeers(n)' = CountedPeers(n) \cup {p}
          <5>1. \A q \in Nodes : Counted(n, q)' <=> Counted(n, q) \/ q = p
            BY <2>1, <2>3
          <5> QED
            BY <2>1, <5>1, Zenon DEF CountedPeers
        <4>2. p \notin CountedPeers(n)
          BY <2>8 DEF CountedPeers
        <4>3. IsFiniteSet(CountedPeers(n))
          <5>1. IsFiniteSet(Nodes)
            BY SizeAssumption, FS_Interval DEF Nodes
          <5> QED
            BY <5>1, FS_Subset DEF CountedPeers
        <4>4. Cardinality(CountedPeers(n)') = Cardinality(CountedPeers(n)) + 1
          BY <4>1, <4>2, <4>3, FS_AddElement
        <4> QED
          BY <1>6, <2>8, <3>1, <3>3, <4>1, <4>4 DEF IInv, Types
      <3> QED
        BY <3>2, <3>3
    <2>11. ReadyMeansCounted'
      BY <1>1, <1>6, <2>3 DEF IInv, ReadyMeansCounted, Others
    <2>12. CountedMeansConnected'
      <3>1. /\ connected'[n][p]
            /\ \A k, l \in Nodes : connected[k][l] => connected'[k][l]
        BY <1>6, <2>1 DEF IInv, Types
      <3> QED
        BY <1>1, <2>3, <2>4, <3>1 DEF IInv, CountedMeansConnected
    <2>13. RestartedStaysDead'
      BY <1>1, <1>4, <1>6 DEF IInv, Types, RestartedStaysDead
    <2>14. OnlyGoneDisconnect'
      <3>1. \A m \in Nodes : \A ev \in events[m] : Peer(ev.end) \in Nodes
        BY EndForms DEF IInv, Types, Peer
      <3> QED
        BY <1>6, <2>4, <3>1 DEF IInv, OnlyGoneDisconnect
    <2>15. OthersAreUp'
      BY <1>1, <1>6, <2>2 DEF IInv, Types, OthersAreUp, Others
    <2> QED
      BY <2>5, <2>6, <2>9, <2>10, <2>11, <2>12, <2>13, <2>14, <2>15 DEF IInv
  <1> QED
    BY <1>5, <1>6, <1>2, <1>3 DEF PollRecv

-----------------------------------------------------------------------------
(* A process that starts.                                                  *)

LEMMA StartStep ==
  ASSUME IInv, NEW n \in Nodes, Start(n)
  PROVE  IInv'
  <1> DEFINE asked == {Event("ADDR_RESOLVED", ActiveEnd(n, p)) : p \in Targets(n, FALSE)}
  <1>1. /\ ctor[n] = "off" /\ ctor' = [ctor EXCEPT ![n] = "check"]
        /\ events' = [events EXCEPT ![n] = asked]
        /\ UNCHANGED <<recovering, listener, up, connected, peerMR, incoming>>
    BY DEF Start, runVars, peerVars
  <1>2. /\ asked \subseteq [kind: EventKinds, end: Ends]
        /\ \A x \in asked : /\ x.kind = "ADDR_RESOLVED" /\ x.end.active /\ Here(x.end) = n
                            /\ x.end.to < x.end.from
    BY AskedEvents
  <1>3. /\ \A q \in Nodes : q # n => events'[q] = events[q] /\ ctor'[q] = ctor[q]
        /\ events'[n] = asked /\ ctor'[n] = "check"
        /\ events' \in [Nodes -> SUBSET [kind: EventKinds, end: Ends]]
    <2> HIDE DEF asked
    <2> QED
      BY <1>1, <1>2 DEF IInv, Types
  <1>4. \A k \in Nodes : Gone(k)' <=> Gone(k)
    BY <1>1, <1>3 DEF Gone
  <1>5. recovering \subseteq {n}
    BY <1>1 DEF IInv, OthersAreUp, Others, Types
  <1>6. Types' /\ AtHome' /\ DownwardsOnly'
    <2> HIDE DEF asked
    <2>1. Types'
      BY <1>1, <1>3 DEF IInv, Types, CtorLocations
    <2> QED
      BY <1>1, <1>2, <1>3, <2>1 DEF IInv, AtHome, DownwardsOnly
  <1>7. EachOnce'
    <2> SUFFICES ASSUME recovering = {}, NEW k \in Nodes, NEW l \in Nodes, l < k PROVE Once(k, l)'
      BY <1>1 DEF EachOnce
    <2>1. Once(k, l) /\ k # l
      BY DEF IInv, EachOnce, Nodes
    <2>2. /\ Polling(k, l)' <=> Polling(k, l)
          /\ PollingAt(k, l)' <=> PollingAt(k, l)
          /\ Counted(k, l)' <=> Counted(k, l)
          /\ Counted(l, k)' <=> Counted(l, k)
      BY <1>1 DEF Counted, Polling, PollingAt
    <2>3. /\ Resolved(k, l)' => Resolved(k, l)
          /\ Requested(k, l)' => Requested(k, l)
          /\ Accepted(k, l)' => Accepted(k, l)
          /\ AcceptedAt(k, l)' => AcceptedAt(k, l)
      <3>1. \A q \in Nodes : \A x \in events'[q] : x \in events[q] \/ x.kind = "ADDR_RESOLVED"
        <4> HIDE DEF asked
        <4> QED
          BY <1>2, <1>3
      <3> QED
        BY <3>1 DEF Resolved, Requested, Accepted, AcceptedAt, Event
    <2>4. CASE k = n
      BY <1>1, <1>3, <2>1, <2>2, <2>3, <2>4 DEF Once, Answered, AtPassive
    <2>5. CASE k # n
      <3>1. Resolving(k, l)' <=> Resolving(k, l)
        BY <1>3, <2>5 DEF Resolving
      <3> QED
        BY <1>1, <1>3, <2>1, <2>2, <2>3, <2>5, <3>1, NoFurther
    <2> QED
      BY <2>4, <2>5
  <1>8. CountRight' /\ ReadyMeansCounted' /\ RestartedStaysDead'
    BY <1>1, <1>3 DEF IInv, CountRight, CountedPeers, Counted, ReadyMeansCounted, RestartedStaysDead
  <1>9. CountedMeansConnected'
    BY <1>1, <1>4 DEF IInv, CountedMeansConnected, Counted
  <1>10. OnlyGoneDisconnect'
    <2>1. \A m \in Nodes : \A ev \in events[m] : Peer(ev.end) \in Nodes
      BY EndForms DEF IInv, Types, Peer
    <2> HIDE DEF asked
    <2> QED
      BY <1>2, <1>3, <1>4, <2>1 DEF IInv, OnlyGoneDisconnect
  <1>11. OthersAreUp'
    <2> HIDE DEF asked
    <2>1. \A s \in Nodes \ {n} : /\ ctor'[s] = ctor[s] /\ listener'[s] = listener[s]
                                /\ events'[s] = events[s]
      BY <1>1, <1>3
    <2>2. \A r \in recovering : Others(r) = Nodes \ {n}
      BY <1>5 DEF Others
    <2>3. recovering' = recovering /\ \A r \in recovering : Others(r)' = Others(r)
      BY <1>1 DEF Others
    <2> QED
      BY <2>1, <2>2, <2>3 DEF IInv, OthersAreUp
  <1> QED
    BY <1>6, <1>7, <1>8, <1>9, <1>10, <1>11 DEF IInv

\* When a node comes back, the others have finished with all connections.
LEMMA NothingLeft ==
  ASSUME IInv, recovering = {}, NEW s \in Nodes, ctor[s] = "done"
  PROVE  /\ listener[s].at # "poll"
         /\ \A ev \in events[s] : ev.kind \notin {"ADDR_RESOLVED", "ROUTE_RESOLVED", "CONNECT_REQUEST"}
  <1>1. \A p \in Others(s) : Counted(s, p)
    BY DEF IInv, ReadyMeansCounted
  <1>2. ASSUME NEW p \in Nodes, p < s PROVE Once(s, p) /\ Counted(s, p)
    BY <1>1, <1>2 DEF IInv, EachOnce, Others, Nodes
  <1>3. ASSUME NEW p \in Nodes, s < p PROVE Once(p, s) /\ Counted(s, p)
    BY <1>1, <1>3 DEF IInv, EachOnce, Others, Nodes
  <1>4. ASSUME NEW ev \in events[s], ev.kind \in {"ADDR_RESOLVED", "ROUTE_RESOLVED"}
        PROVE  FALSE
    <2>1. /\ ev.end = ActiveEnd(s, ev.end.to) /\ ev.end.to \in Nodes /\ ev.end.to < s
          /\ ev = Event(ev.kind, ev.end)
      <3>1. /\ ev \in [kind: EventKinds, end: Ends]
            /\ Here(ev.end) = s /\ ev.end.active /\ ev.end.to < ev.end.from
        BY <1>4 DEF IInv, Types, AtHome, DownwardsOnly
      <3>2. ev.end \in Ends /\ ev = Event(ev.kind, ev.end)
        BY <3>1 DEF Event
      <3>3. ev.end.from = s
        BY <3>1, <3>2, EndForms
      <3> QED
        BY <3>1, <3>2, <3>3, EndForms
    <2>2. Resolving(s, ev.end.to) \/ Resolved(s, ev.end.to)
      BY <1>4, <2>1 DEF Resolving, Resolved
    <2> QED
      BY <1>2, <2>1, <2>2 DEF Once, Answered
  <1>5. ASSUME NEW ev \in events[s], ev.kind = "CONNECT_REQUEST"
        PROVE  FALSE
    <2>1. /\ ev.end = Passive(ev.end.from, s) /\ ev.end.from \in Nodes /\ s < ev.end.from
          /\ ev = Event("CONNECT_REQUEST", ev.end)
      <3>1. /\ ev \in [kind: EventKinds, end: Ends]
            /\ Here(ev.end) = s /\ ~ev.end.active /\ ev.end.to < ev.end.from
        BY <1>5 DEF IInv, Types, AtHome, DownwardsOnly
      <3>2. ev.end \in Ends /\ ev = Event("CONNECT_REQUEST", ev.end)
        BY <1>5, <3>1 DEF Event
      <3>3. ev.end.to = s
        BY <3>1, <3>2, EndForms
      <3> QED
        BY <3>1, <3>2, <3>3, EndForms
    <2>2. Requested(ev.end.from, s)
      BY <2>1 DEF Requested
    <2> QED
      BY <1>3, <2>1, <2>2 DEF Once, Answered, AtPassive
  <1>6. ASSUME listener[s].at = "poll" PROVE FALSE
    <2> DEFINE e == listener[s].end
    <2>1. e \in Ends /\ Here(e) = s /\ e.to < e.from
      BY <1>6 DEF IInv, AtHome, DownwardsOnly
    <2>2. CASE e.active
      <3>1. e.to \in Nodes /\ e.to < s /\ Polling(s, e.to)
        BY <1>6, <2>1, <2>2, EndForms DEF Polling
      <3> QED
        BY <1>2, <3>1 DEF Once
    <2>3. CASE ~e.active
      <3>1. e.from \in Nodes /\ s < e.from /\ PollingAt(e.from, s)
        BY <1>6, <2>1, <2>3, EndForms DEF PollingAt
      <3> QED
        BY <1>3, <3>1 DEF Once
    <2> QED
      BY <2>2, <2>3
  <1> QED
    BY <1>4, <1>5, <1>6

LEMMA RecoverStep ==
  ASSUME IInv, NEW n \in Nodes, Recover(n)
  PROVE  IInv'
  <1> DEFINE asked == {Event("ADDR_RESOLVED", ActiveEnd(n, p)) : p \in Targets(n, TRUE)}
  <1>1. /\ n \in Restartable /\ recovering = {} /\ recovering' = {n}
        /\ ctor[n] = "aborted" /\ ctor' = [ctor EXCEPT ![n] = "check"]
        /\ \A m \in Others(n) : ctor[m] = "done" /\ ~connected[m][n]
        /\ events' = [events EXCEPT ![n] = asked]
        /\ up' \subseteq up
        /\ connected' = [connected EXCEPT ![n] = [p \in Nodes |-> FALSE]]
        /\ peerMR' = [peerMR EXCEPT ![n] = [p \in Nodes |-> "unset"]]
        /\ incoming' = [incoming EXCEPT ![n] = 0]
        /\ UNCHANGED listener
    BY DEF Recover
  <1>2. /\ asked \subseteq [kind: EventKinds, end: Ends]
        /\ \A x \in asked : x.kind = "ADDR_RESOLVED" /\ x.end.active /\ Here(x.end) = n
    BY <1>1, AskedEvents
  <1> HIDE DEF asked
  <1>3. /\ \A q \in Nodes : q # n => /\ events'[q] = events[q] /\ ctor'[q] = ctor[q]
                                     /\ connected'[q] = connected[q] /\ peerMR'[q] = peerMR[q]
        /\ events'[n] = asked
    BY <1>1, <1>2 DEF IInv, Types
  <1>4. Types'
    <2>1. ctor' \in [Nodes -> CtorLocations]
      BY <1>1 DEF IInv, Types, CtorLocations
    <2>2. connected' \in [Nodes -> [Nodes -> BOOLEAN]]
      BY <1>1 DEF IInv, Types
    <2>3. peerMR' \in [Nodes -> [Nodes -> {"unset", "peer", "garbage"}]]
      BY <1>1 DEF IInv, Types
    <2>4. events' \in [Nodes -> SUBSET [kind: EventKinds, end: Ends]]
      BY <1>1, <1>2 DEF IInv, Types
    <2> QED
      BY <1>1, <2>1, <2>2, <2>3, <2>4 DEF IInv, Types
  <1>5. AtHome' /\ DownwardsOnly' /\ EachOnce' /\ CountRight'
    BY <1>1, <1>2, <1>3 DEF IInv, AtHome, DownwardsOnly, EachOnce, CountRight
  <1>6. ReadyMeansCounted'
    BY <1>1, <1>3 DEF IInv, ReadyMeansCounted, Counted, Others
  <1>7. \A p \in Nodes : Gone(p) => Gone(p)'
    BY <1>1, <1>3 DEF Gone
  <1>8. CountedMeansConnected'
    BY <1>1, <1>3, <1>7 DEF IInv, CountedMeansConnected, Counted
  <1>9. OnlyGoneDisconnect'
    <2>1. \A m \in Nodes : \A ev \in events[m] : Peer(ev.end) \in Nodes
      BY EndForms DEF IInv, Types, Peer
    <2> QED
      BY <1>2, <1>3, <1>7, <2>1 DEF IInv, OnlyGoneDisconnect
  <1>10. OthersAreUp'
    BY <1>1, <1>3, NothingLeft DEF OthersAreUp, Others
  <1>11. RestartedStaysDead'
    BY <1>1, <1>3 DEF RestartedStaysDead, Others
  <1> QED
    BY <1>4, <1>5, <1>6, <1>8, <1>9, <1>10, <1>11 DEF IInv

-----------------------------------------------------------------------------
LEMMA StepKeeps == IInv /\ [Next]_vars => IInv'
  <1> SUFFICES ASSUME IInv, [Next]_vars PROVE IInv'
    OBVIOUS
  <1>1. ASSUME NEW n \in Nodes, Ctor(n) \/ SpuriousWake(n) PROVE IInv'
    BY <1>1, CtorStep, CtorPostStep DEF Ctor
  <1>2. ASSUME NEW n \in Nodes, Listener(n) PROVE IInv'
    BY <1>2, AddrResolvedStep, RouteResolvedStep, ConnectionRequestStep, EstablishedStep,
       PollRecvStep, DisconnectedStep DEF Listener
  <1>3. ASSUME NEW n \in Nodes, Start(n) \/ Notify(n) \/ Crash(n) \/ Recover(n) PROVE IInv'
    BY <1>3, StartStep, NotifyStep, CrashStep, RecoverStep
  <1>4. ASSUME NEW e \in Ends, Adapter(e) PROVE IInv'
    BY <1>4, AdapterStep
  <1>5. CASE UNCHANGED vars
    BY <1>5, StutterStep
  <1> QED
    BY <1>1, <1>2, <1>3, <1>4, <1>5 DEF Next

LEMMA Inductive == Spec => []IInv
  BY InitInv, StepKeeps, PTL DEF Spec

-----------------------------------------------------------------------------
(* Completions, and the bounds on what waits for them.                      *)

EndAt(n, p) == IF p < n THEN ActiveEnd(n, p) ELSE Passive(p, n)

\* Types of what the theorems above do not need.
QueueTypes ==
    /\ recovering \subseteq Restartable
    /\ spurious \subseteq Nodes
    /\ tested \in [Nodes -> SUBSET Nodes]
    /\ peerEnd \in [Nodes -> [Nodes -> Ends \cup {NoEnd}]]
    /\ degraded \in [Nodes -> Nat]
    /\ writeLog \in [Nodes -> {"none", "full", "cleared"}]
    /\ recv \in [Ends -> {"none", "posted", "filled"}]
    /\ recvCQ \in [Nodes -> Nat]
    /\ sq \in [Ends -> Seq({"mr", "test"})]
    /\ sendCQ \in [Nodes -> Nat]

Broken(n, e) == Event("DISCONNECTED", e) \in events[n]

\* The end in use for a peer is one to that peer.
EndsAtHome ==
    \A n, p \in Nodes : peerEnd[n][p] # NoEnd => Here(peerEnd[n][p]) = n /\ Peer(peerEnd[n][p]) = p

HasPosted(n) == ctor[n] \in {"poll", "done"}

TestedRight ==
    \A n \in Nodes :
        /\ tested[n] \subseteq Others(n)
        /\ ctor[n] \in {"off", "check", "sleep", "wait", "post"} => tested[n] = {}
        /\ ctor[n] = "poll" => tested[n] # Others(n)
        /\ ctor[n] = "done" => tested[n] = Others(n)

\* A process that has ended has no listener, and one that comes back has been
\* started.
ProcessRight ==
    /\ \A n \in Nodes : ctor[n] = "aborted" => listener[n] = Idle
    /\ \A r \in recovering : ctor[r] # "off"

-----------------------------------------------------------------------------
(* Before a node comes back.                                               *)

Downwards ==
    /\ \A e \in up : e.to < e.from
    /\ \A e \in Ends : e.from <= e.to => recv[e] = "none" /\ sq[e] = <<>>
    /\ \A n, p \in Nodes : peerEnd[n][p] # NoEnd => p # n /\ peerEnd[n][p] = EndAt(n, p)

\* A connection whose active, whose passive end is still to be built.
Coming(n, p)   == ctor[n] = "off" \/ Resolving(n, p)
ComingAt(n, p) == Coming(n, p) \/ Resolved(n, p) \/ Requested(n, p)
Unbuilt(n, p)  == IF p < n THEN Coming(n, p) ELSE ComingAt(p, n)

UnbuiltBare == \A n \in Nodes : \A p \in Others(n) : Unbuilt(n, p) => recv[EndAt(n, p)] = "none"

\* Peers whose MR does not come any more, as it has come or their end is gone.
Reached(n) == {p \in Others(n) : ~Unbuilt(n, p) /\ recv[EndAt(n, p)] # "posted"}

ReceivesBound == \A n \in Nodes : recvCQ[n] + incoming[n] <= Cardinality(Reached(n))

\* Peers that this node has sent its MR.
Polls(n, p) == listener[n].at = "poll" /\ Peer(listener[n].end) = p
Sent(n) == {p \in Others(n) : Counted(n, p) \/ Polls(n, p)}

\* Of these messages and of the test writes it has not seen more complete than
\* it has sent.
Owed(n) == Cardinality(Sent(n)) + IF HasPosted(n) THEN ClusterSize - 1 ELSE 0
SendsAt(n) == IF ctor[n] = "aborted" THEN Uncollected(n) <= 2 * (ClusterSize - 1)
              ELSE Uncollected(n) + Cardinality(tested[n]) <= Owed(n)
SendsBound == \A n \in Nodes : SendsAt(n)

Lost(n) == {p \in Others(n) : ctor[p] = "aborted" /\ ~Broken(n, EndAt(n, p))}
DegradedBound == \A n \in Nodes : degraded[n] <= Cardinality(Lost(n))

DisconnectedUp == \A n \in Nodes, e \in Ends : Broken(n, e) => e \in up /\ Here(e) = n

Filled(n) == {p \in Others(n) : recv[EndAt(n, p)] = "filled"}

\* As long as nobody has died, the bounds are exact, and an end is there when it
\* is used.
ReceivedExactly == \A n \in Nodes : recvCQ[n] + incoming[n] = Cardinality(Filled(n))
FilledWasSent   == \A n \in Nodes : \A p \in Filled(n) : n \in Sent(p)
PostedWasSent   ==
    \A e \in Ends : \A i \in DOMAIN sq[e] : sq[e][i] = "mr" => Peer(e) \in Sent(Here(e))
SentExactly     == \A n \in Nodes : Owed(n) <= Uncollected(n) + Cardinality(tested[n])
InUse ==
    \A n, p \in Nodes : p < n =>
        /\ Resolved(n, p) \/ Requested(n, p) \/ Accepted(n, p) \/ p \in Sent(n)
             => peerEnd[n][p] # NoEnd
        /\ Accepted(n, p) \/ AcceptedAt(n, p) \/ n \in Sent(p)
             => peerEnd[p][n] # NoEnd

Undisturbed == ReceivedExactly /\ FilledWasSent /\ PostedWasSent /\ SentExactly /\ InUse

\* A node has ended with all connections set up ...
Clean ==
    \E r \in Nodes :
        /\ ctor[r] = "aborted"
        /\ \A e \in Ends : sq[e] = <<>>
        /\ \A m \in Others(r) :
             /\ ctor[m] = "done"
             /\ sendCQ[m] = ClusterSize - 1
             /\ connected[m][r] \/ EndAt(m, r) \notin up

\* ... or before, and then a receive of another never completes.
Dirty ==
    \E r, q \in Nodes :
        /\ r # q /\ ctor[r] = "aborted"
        /\ recvCQ[q] + incoming[q] <= Cardinality(Reached(q) \ {r})

Before ==
    /\ Downwards /\ UnbuiltBare /\ ReceivesBound /\ SendsBound /\ DegradedBound
    /\ DisconnectedUp
    /\ IF NobodyDied THEN Undisturbed ELSE Clean \/ Dirty

-----------------------------------------------------------------------------
(* After node r has come back.                                             *)

Ahead(r, p) == Resolving(r, p) \/ Resolved(r, p) \/ Requested(r, p) \/ Accepted(r, p)

InTurn(r) ==
    \A p \in Nodes :
        /\ Resolving(r, p) => ~Resolved(r, p) /\ ~Requested(r, p) /\ ~Accepted(r, p) /\ ~AcceptedAt(r, p)
        /\ Resolved(r, p) => ~Requested(r, p) /\ ~Accepted(r, p) /\ ~AcceptedAt(r, p)
        /\ Requested(r, p) => ~Accepted(r, p) /\ ~AcceptedAt(r, p)
        /\ Accepted(r, p) => ~AcceptedAt(r, p)

\* Only r's connections are being set up, and only with r are any broken.
OnlyItsOwn(r) ==
    /\ \A k \in Others(r), p \in Nodes : ~Ahead(k, p) /\ ~AcceptedAt(k, p)
    /\ \A m \in Nodes, e \in Ends :
          Broken(m, e) => m # r /\ e = Passive(r, m) /\ ctor[r] = "aborted"
    /\ \A e \in up : Here(e) # r /\ Peer(e) = r => ~e.active

\* An other node owes the new connection one completion at most.
OtherSends(r, m) ==
    /\ Uncollected(m) <= ClusterSize - IF Ahead(r, m) \/ AcceptedAt(r, m) THEN 1 ELSE 0
    /\ ctor[r] # "aborted" => ClusterSize - 1 <= Uncollected(m)
OtherReceives(r, m) ==
    LET open == \/ Resolving(r, m) \/ Resolved(r, m) \/ Requested(r, m)
                \/ recv[Passive(r, m)] = "posted"
    IN  /\ recvCQ[m] <= IF open THEN 0 ELSE 1
        /\ Resolving(r, m) \/ Resolved(r, m) \/ Requested(r, m) => recv[Passive(r, m)] # "posted"
        /\ \A e \in Ends : Here(e) = m /\ recv[e] = "posted" => e = Passive(r, m)
OtherDegraded(r, m) ==
    degraded[m] <= IF ctor[r] = "aborted" /\ ~Broken(m, Passive(r, m)) THEN 2 ELSE 1

OpenEnds(r) == {ActiveEnd(r, p) : p \in {q \in Nodes : Ahead(r, q)}}
               \cup {e \in {Passive(r, r)} : Ahead(r, r) \/ AcceptedAt(r, r)}

Unreceived(r) == {p \in Nodes : Resolving(r, p) \/ recv[ActiveEnd(r, p)] = "posted"}

Own(r) ==
    /\ incoming[r] + Cardinality(OpenEnds(r)) + (IF listener[r].at = "poll" THEN 1 ELSE 0) <= ClusterSize + 1
    /\ IF ctor[r] = "aborted" THEN Uncollected(r) <= 2 * ClusterSize
       ELSE Uncollected(r) + Cardinality(tested[r]) + Cardinality(OpenEnds(r))
              <= ClusterSize + 1 + IF HasPosted(r) THEN ClusterSize - 1 ELSE 0
    /\ recvCQ[r] + Cardinality(Unreceived(r)) <= ClusterSize
    /\ \A p \in Nodes : Resolving(r, p) => recv[ActiveEnd(r, p)] # "posted"
    /\ \A e \in Ends : Here(e) = r /\ ~e.active /\ recv[e] = "posted" => e = Passive(r, r)
    /\ sq[ActiveEnd(r, r)] = <<>>
    /\ Accepted(r, r) \/ AcceptedAt(r, r) => peerEnd[r][r] # ActiveEnd(r, r)
    /\ degraded[r] = 0

OtherRight(r, m) == /\ OtherSends(r, m) /\ OtherReceives(r, m) /\ OtherDegraded(r, m)
                    /\ incoming[m] <= ClusterSize - 1

After(r) ==
    /\ InTurn(r) /\ OnlyItsOwn(r) /\ Own(r)
    /\ \A m \in Others(r) : OtherRight(r, m)

QInv == /\ QueueTypes /\ EndsAtHome /\ TestedRight /\ ProcessRight
        /\ recovering = {} => Before
        /\ \A r \in recovering : After(r)


-----------------------------------------------------------------------------
(* Nodes and ends.                                                         *)

LEMMA NodesFinite ==
  /\ IsFiniteSet(Nodes) /\ Cardinality(Nodes) = ClusterSize
  /\ \A n \in Nodes : IsFiniteSet(Others(n)) /\ Cardinality(Others(n)) = ClusterSize - 1
  <1>1. IsFiniteSet(Nodes) /\ Cardinality(Nodes) = ClusterSize
    <2>1. 0 \in Int /\ ClusterSize - 1 \in Int /\ 0 <= ClusterSize - 1
      BY SizeAssumption
    <2> QED
      BY <2>1, SizeAssumption, FS_Interval DEF Nodes
  <1>2. ASSUME NEW n \in Nodes
        PROVE  IsFiniteSet(Others(n)) /\ Cardinality(Others(n)) = ClusterSize - 1
    BY <1>1, FS_RemoveElement DEF Others
  <1> QED
    BY <1>1, <1>2

LEMMA SomeNodes ==
  ASSUME NEW S, S \subseteq Nodes
  PROVE  /\ IsFiniteSet(S) /\ Cardinality(S) \in Nat /\ Cardinality(S) <= ClusterSize
         /\ \A T \in SUBSET S : Cardinality(T) \in Nat /\ Cardinality(T) <= Cardinality(S)
         /\ \A n \in Nodes : S \subseteq Others(n) => Cardinality(S) <= ClusterSize - 1
         /\ \A p : p \in S => Cardinality(S \ {p}) = Cardinality(S) - 1
         /\ \A p : p \notin S => Cardinality(S \cup {p}) = Cardinality(S) + 1
  <1>1. IsFiniteSet(S) /\ Cardinality(S) <= Cardinality(Nodes)
    BY NodesFinite, FS_Subset
  <1>2. Cardinality(S) \in Nat
    BY <1>1, FS_CardinalityType
  <1>3. ASSUME NEW T \in SUBSET S PROVE Cardinality(T) \in Nat /\ Cardinality(T) <= Cardinality(S)
    BY <1>1, FS_Subset, FS_CardinalityType
  <1>4. ASSUME NEW n \in Nodes, S \subseteq Others(n) PROVE Cardinality(S) <= ClusterSize - 1
    BY <1>4, NodesFinite, FS_Subset
  <1>5. ASSUME NEW p, p \in S PROVE Cardinality(S \ {p}) = Cardinality(S) - 1
    BY <1>1, <1>5, FS_RemoveElement
  <1>6. ASSUME NEW p, p \notin S PROVE Cardinality(S \cup {p}) = Cardinality(S) + 1
    BY <1>1, <1>6, FS_AddElement
  <1> QED
    BY <1>1, <1>2, <1>3, <1>4, <1>5, <1>6, NodesFinite

LEMMA EndsFinite == IsFiniteSet(Ends)
  <1> DEFINE All == (Nodes \X Nodes) \X {TRUE, FALSE}
             f == [e \in Ends |-> <<<<e.from, e.to>>, e.active>>]
  <1>1. IsFiniteSet({TRUE, FALSE})
    <2>1. IsFiniteSet({TRUE}) /\ IsFiniteSet({FALSE}) /\ {TRUE, FALSE} = {TRUE} \cup {FALSE}
      BY FS_Singleton
    <2> QED
      BY <2>1, FS_Union
  <1>2. IsFiniteSet(All)
    BY <1>1, NodesFinite, FS_Product
  <1>3. ASSUME NEW e \in Ends
        PROVE  e = [from |-> e.from, to |-> e.to, active |-> e.active] /\ f[e] \in All
    BY DEF Ends
  <1>4. f \in [Ends -> All]
    BY <1>3
  <1>5. ASSUME NEW d \in Ends, NEW e \in Ends, f[d] = f[e] PROVE d = e
    BY <1>3, <1>5
  <1>6. f \in Injection(Ends, All)
    BY <1>4, <1>5 DEF Injection, IsInjective
  <1> QED
    BY <1>2, <1>6, FS_Injection

LEMMA PassiveIs ==
  ASSUME NEW n \in Nodes, NEW p \in Nodes
  PROVE  /\ ActiveEnd(n, p) \in Ends <=> Passive(n, p) \in Ends
         /\ n \in Restartable \/ p < n => ActiveEnd(n, p) \in Ends
         /\ Here(ActiveEnd(n, p)) = n /\ Peer(ActiveEnd(n, p)) = p
         /\ Here(Passive(n, p)) = p /\ Peer(Passive(n, p)) = n
         /\ Other(ActiveEnd(n, p)) = Passive(n, p) /\ Other(Passive(n, p)) = ActiveEnd(n, p)
         /\ ActiveEnd(n, p).from = n /\ ActiveEnd(n, p).to = p /\ ActiveEnd(n, p).active
         /\ Passive(n, p).from = n /\ Passive(n, p).to = p /\ ~Passive(n, p).active
  <1>1. /\ ActiveEnd(n, p) \in [from: Nodes, to: Nodes, active: BOOLEAN]
        /\ Passive(n, p) \in [from: Nodes, to: Nodes, active: BOOLEAN]
        /\ ActiveEnd(n, p).from = n /\ ActiveEnd(n, p).to = p /\ ActiveEnd(n, p).active
        /\ Passive(n, p).from = n /\ Passive(n, p).to = p /\ ~Passive(n, p).active
    BY DEF ActiveEnd, Passive
  <1>2. /\ ActiveEnd(n, p) \in Ends <=> p \in Targets(n, n \in Restartable)
        /\ Passive(n, p) \in Ends <=> p \in Targets(n, n \in Restartable)
    BY <1>1 DEF Ends
  <1>3. n \in Restartable \/ p < n => p \in Targets(n, n \in Restartable)
    BY DEF Targets
  <1>4. /\ Here(ActiveEnd(n, p)) = n /\ Peer(ActiveEnd(n, p)) = p
        /\ Here(Passive(n, p)) = p /\ Peer(Passive(n, p)) = n
    BY <1>1 DEF Here, Peer
  <1>5. \A e \in [from: Nodes, to: Nodes, active: BOOLEAN] :
          Other(e) = [from |-> e.from, to |-> e.to, active |-> ~e.active]
    BY DEF Other
  <1>6. (~TRUE) = FALSE /\ (~FALSE) = TRUE
    OBVIOUS
  <1>7. Other(ActiveEnd(n, p)) = Passive(n, p) /\ Other(Passive(n, p)) = ActiveEnd(n, p)
    BY <1>1, <1>5, <1>6 DEF ActiveEnd, Passive
  <1> QED
    BY <1>1, <1>2, <1>3, <1>4, <1>7

LEMMA EndAtIs ==
  ASSUME NEW n \in Nodes, NEW p \in Nodes, n # p
  PROVE  /\ EndAt(n, p) \in Ends
         /\ Here(EndAt(n, p)) = n /\ Peer(EndAt(n, p)) = p
         /\ Other(EndAt(n, p)) = EndAt(p, n)
         /\ EndAt(n, p).to < EndAt(n, p).from
  <1>1. n \in Int /\ p \in Int
    BY DEF Nodes
  <1>2. CASE p < n
    <2>1. EndAt(n, p) = ActiveEnd(n, p) /\ EndAt(p, n) = Passive(n, p)
      BY <1>1, <1>2 DEF EndAt
    <2> QED
      BY <1>1, <1>2, <2>1, PassiveIs
  <1>3. CASE n < p
    <2>1. EndAt(n, p) = Passive(p, n) /\ EndAt(p, n) = ActiveEnd(p, n)
      BY <1>1, <1>3 DEF EndAt
    <2> QED
      BY <1>1, <1>3, <2>1, PassiveIs
  <1> QED
    BY <1>1, <1>2, <1>3

LEMMA DownEnd ==
  ASSUME NEW e \in Ends, e.to < e.from
  PROVE  /\ Here(e) \in Nodes /\ Peer(e) \in Nodes /\ Here(e) # Peer(e)
         /\ e = EndAt(Here(e), Peer(e)) /\ Other(e) = EndAt(Peer(e), Here(e))
  <1>1. e.from \in Nodes /\ e.to \in Nodes /\ e.from \in Int /\ e.to \in Int
    BY DEF Ends, Nodes
  <1>2. CASE e.active
    BY <1>1, <1>2, EndForms DEF EndAt
  <1>3. CASE ~e.active
    BY <1>1, <1>3, EndForms DEF EndAt
  <1> QED
    BY <1>2, <1>3

LEMMA OneEnd ==
  ASSUME NEW n \in Nodes, NEW p \in Nodes, NEW k \in Nodes, NEW l \in Nodes
  PROVE  /\ ActiveEnd(n, p) = ActiveEnd(k, l) <=> n = k /\ p = l
         /\ Passive(n, p) = Passive(k, l) <=> n = k /\ p = l
         /\ ActiveEnd(n, p) # Passive(k, l)
         /\ n # p /\ k # l => (EndAt(n, p) = EndAt(k, l) <=> n = k /\ p = l)
  <1>1. /\ ActiveEnd(n, p) = ActiveEnd(k, l) <=> n = k /\ p = l
        /\ Passive(n, p) = Passive(k, l) <=> n = k /\ p = l
        /\ ActiveEnd(n, p) # Passive(k, l)
    BY DEF ActiveEnd, Passive
  <1> QED
    BY <1>1, EndAtIs

LEMMA NoEndIsNone == NoEnd \notin Ends
  BY NoEndAssumption DEF Ends

-----------------------------------------------------------------------------
(* How many requests have been posted and not collected.                   *)

Queues == [Ends -> Seq({"mr", "test"})]
Pushed(s, t, x, v) == /\ s \in Queues /\ x \in Ends /\ v \in {"mr", "test"}
                      /\ t = [s EXCEPT ![x] = Append(@, v)]
Popped(s, t, x) == /\ s \in Queues /\ x \in Ends /\ s[x] # <<>>
                   /\ t = [s EXCEPT ![x] = Tail(@)]
Dropped(s, t) == /\ s \in Queues /\ t \in Queues
                 /\ \A e \in Ends : t[e] = s[e] \/ t[e] = <<>>

PostedIn(s, n) == UNION {{e} \X DOMAIN s[e] : e \in {d \in Ends : Here(d) = n}}

LEMMA PostedInIs ==
  ASSUME NEW s, s \in Queues, NEW n \in Nodes
  PROVE  /\ IsFiniteSet(PostedIn(s, n)) /\ Cardinality(PostedIn(s, n)) \in Nat
         /\ \A x : x \in PostedIn(s, n) <=> \E e \in Ends : /\ Here(e) = n
                                                           /\ x \in {e} \X DOMAIN s[e]
  <1> DEFINE mine == {d \in Ends : Here(d) = n}
             f == [e \in mine |-> {e} \X DOMAIN s[e]]
             parts == {{e} \X DOMAIN s[e] : e \in mine}
  <1>1. IsFiniteSet(mine)
    BY EndsFinite, FS_Subset
  <1>2. f \in Surjection(mine, parts)
    BY DEF Surjection
  <1>3. IsFiniteSet(parts)
    BY <1>1, <1>2, FS_Surjection
  <1>4. ASSUME NEW e \in mine PROVE IsFiniteSet({e} \X DOMAIN s[e])
    <2>1. s[e] \in Seq({"mr", "test"})
      BY DEF Queues
    <2>2. DOMAIN s[e] = 1 .. Len(s[e]) /\ Len(s[e]) \in Int /\ 1 \in Int
      BY <2>1
    <2>3. IsFiniteSet(DOMAIN s[e])
      BY <2>2, FS_Interval
    <2> QED
      BY <2>3, FS_Singleton, FS_Product
  <1>5. \A T \in parts : IsFiniteSet(T)
    BY <1>4
  <1>6. IsFiniteSet(PostedIn(s, n))
    BY <1>3, <1>5, FS_UNION DEF PostedIn
  <1>7. Cardinality(PostedIn(s, n)) \in Nat
    BY <1>6, FS_CardinalityType
  <1> QED
    BY <1>6, <1>7 DEF PostedIn

LEMMA PostedGrows ==
  ASSUME NEW s, NEW t, NEW x, NEW v, Pushed(s, t, x, v)
  PROVE  /\ t \in Queues
         /\ \A n \in Nodes : Cardinality(PostedIn(t, n))
                = Cardinality(PostedIn(s, n)) + IF Here(x) = n THEN 1 ELSE 0
  <1> SUFFICES ASSUME NEW n \in Nodes
               PROVE  /\ t \in Queues
                      /\ Cardinality(PostedIn(t, n))
                           = Cardinality(PostedIn(s, n)) + IF Here(x) = n THEN 1 ELSE 0
    <2>1. 0 \in Nodes
      BY SizeAssumption DEF Nodes
    <2> QED
      BY <2>1
  <1> DEFINE new == <<x, Len(s[x]) + 1>>
  <1>a. /\ s \in [Ends -> Seq({"mr", "test"})] /\ x \in Ends
        /\ t = [s EXCEPT ![x] = Append(@, v)] /\ v \in {"mr", "test"}
    BY DEF Pushed, Queues
  <1>1. s[x] \in Seq({"mr", "test"}) /\ Len(s[x]) \in Nat /\ DOMAIN s[x] = 1 .. Len(s[x])
    BY <1>a
  <1>2. /\ Append(s[x], v) \in Seq({"mr", "test"})
        /\ DOMAIN Append(s[x], v) = DOMAIN s[x] \cup {Len(s[x]) + 1}
        /\ Len(s[x]) + 1 \notin DOMAIN s[x]
    BY <1>1, <1>a
  <1>3. t \in Queues /\ t[x] = Append(s[x], v)
        /\ \A e \in Ends : e # x => t[e] = s[e]
    BY <1>a, <1>2 DEF Queues
  <1>4. CASE Here(x) = n
    <2>1. PostedIn(t, n) = PostedIn(s, n) \cup {new}
      <3>1. {e \in Ends : Here(e) = n} = {e \in Ends \ {x} : Here(e) = n} \cup {x}
        BY <1>4, <1>a
      <3> QED
        BY <1>2, <1>3, <3>1 DEF PostedIn
    <2>2. new \notin PostedIn(s, n)
      BY <1>2, <1>a, PostedInIs DEF Queues
    <2> QED
      <3>1. IsFiniteSet(PostedIn(s, n)) /\ Cardinality(PostedIn(s, n)) \in Nat
        BY <1>a, PostedInIs DEF Queues
      <3> HIDE DEF new
      <3>2. Cardinality(PostedIn(t, n)) = Cardinality(PostedIn(s, n)) + 1
        BY <2>1, <2>2, <3>1, FS_AddElement
      <3> QED
        BY <1>3, <1>4, <3>2
  <1>5. CASE Here(x) # n
    <2>1. PostedIn(t, n) = PostedIn(s, n)
      BY <1>3, <1>5 DEF PostedIn
    <2>2. Cardinality(PostedIn(s, n)) \in Nat
      BY <1>a, PostedInIs DEF Queues
    <2> QED
      BY <1>3, <1>5, <2>1, <2>2
  <1> QED
    BY <1>4, <1>5

LEMMA PostedShrinks ==
  ASSUME NEW s, NEW t, NEW x, Popped(s, t, x)
  PROVE  /\ t \in Queues
         /\ \A n \in Nodes : Cardinality(PostedIn(t, n))
                = Cardinality(PostedIn(s, n)) - IF Here(x) = n THEN 1 ELSE 0
  <1> SUFFICES ASSUME NEW n \in Nodes
               PROVE  /\ t \in Queues
                      /\ Cardinality(PostedIn(t, n))
                           = Cardinality(PostedIn(s, n)) - IF Here(x) = n THEN 1 ELSE 0
    <2>1. 0 \in Nodes
      BY SizeAssumption DEF Nodes
    <2> QED
      BY <2>1
  <1> DEFINE old == <<x, Len(s[x])>>
  <1>a. /\ s \in [Ends -> Seq({"mr", "test"})] /\ x \in Ends
        /\ t = [s EXCEPT ![x] = Tail(@)] /\ s[x] # <<>>
    BY DEF Popped, Queues
  <1>1. s[x] \in Seq({"mr", "test"}) /\ Len(s[x]) \in Nat \ {0} /\ DOMAIN s[x] = 1 .. Len(s[x])
    BY <1>a
  <1>2. /\ Tail(s[x]) \in Seq({"mr", "test"})
        /\ DOMAIN Tail(s[x]) = DOMAIN s[x] \ {Len(s[x])}
        /\ Len(s[x]) \in DOMAIN s[x]
    <2>1. Tail(s[x]) \in Seq({"mr", "test"}) /\ Len(Tail(s[x])) = Len(s[x]) - 1
      BY <1>1
    <2>2. DOMAIN Tail(s[x]) = 1 .. (Len(s[x]) - 1)
      BY <1>1, <2>1
    <2> QED
      BY <1>1, <2>1, <2>2
  <1>3. t \in Queues /\ t[x] = Tail(s[x])
        /\ \A e \in Ends : e # x => t[e] = s[e]
    BY <1>a, <1>2 DEF Queues
  <1>4. CASE Here(x) = n
    <2>1. PostedIn(t, n) = PostedIn(s, n) \ {old}
      <3>1. {e \in Ends : Here(e) = n} = {e \in Ends \ {x} : Here(e) = n} \cup {x}
        BY <1>4, <1>a
      <3> QED
        BY <1>a, <1>1, <1>2, <1>3, <3>1 DEF PostedIn
    <2>2. old \in PostedIn(s, n)
      BY <1>2, <1>4, <1>a, PostedInIs DEF Queues
    <2>3. Cardinality(PostedIn(t, n)) = Cardinality(PostedIn(s, n)) - 1
      <3>1. IsFiniteSet(PostedIn(s, n))
        BY <1>a, PostedInIs DEF Queues
      <3> HIDE DEF old
      <3> QED
        BY <2>1, <2>2, <3>1, FS_RemoveElement
    <2> QED
      BY <1>3, <1>4, <2>3
  <1>5. CASE Here(x) # n
    <2>1. PostedIn(t, n) = PostedIn(s, n)
      BY <1>3, <1>5 DEF PostedIn
    <2>2. Cardinality(PostedIn(s, n)) \in Nat
      BY <1>a, PostedInIs DEF Queues
    <2> QED
      BY <1>3, <1>5, <2>1, <2>2
  <1> QED
    BY <1>4, <1>5

LEMMA PostedDropped ==
  ASSUME NEW s, NEW t, Dropped(s, t), NEW n \in Nodes
  PROVE  /\ Cardinality(PostedIn(t, n)) <= Cardinality(PostedIn(s, n))
         /\ (\A e \in Ends : Here(e) = n => t[e] = s[e]) => PostedIn(t, n) = PostedIn(s, n)
         /\ (\A e \in Ends : Here(e) = n => t[e] = <<>>) => Cardinality(PostedIn(t, n)) = 0
  <1>1. PostedIn(t, n) \subseteq PostedIn(s, n)
    <2>1. \A e \in Ends : DOMAIN t[e] \subseteq DOMAIN s[e]
      BY DEF Dropped, Queues
    <2> QED
      BY <2>1 DEF PostedIn
  <1>2. (\A e \in Ends : Here(e) = n => t[e] = s[e]) => PostedIn(t, n) = PostedIn(s, n)
    BY DEF PostedIn
  <1>3. ASSUME \A e \in Ends : Here(e) = n => t[e] = <<>> PROVE PostedIn(t, n) = {}
    BY <1>3 DEF PostedIn
  <1> QED
    BY <1>1, <1>2, <1>3, PostedInIs, FS_Subset, FS_EmptySet DEF Dropped

LEMMA UncollectedType ==
  ASSUME QueueTypes, NEW n \in Nodes
  PROVE  /\ Uncollected(n) \in Nat
         /\ Uncollected(n) = sendCQ[n] + Cardinality(PostedIn(sq, n))
         /\ Cardinality(PostedIn(sq, n)) \in Nat /\ sendCQ[n] \in Nat
         /\ sendCQ[n] <= Uncollected(n)
  <1>1. Posted(n) = PostedIn(sq, n)
    BY DEF Posted, PostedIn
  <1>2. sendCQ[n] \in Nat /\ IsFiniteSet(PostedIn(sq, n))
    BY PostedInIs DEF QueueTypes, Queues
  <1>3. Cardinality(PostedIn(sq, n)) \in Nat
    BY <1>2, FS_CardinalityType
  <1> QED
    BY <1>1, <1>2, <1>3 DEF Uncollected


-----------------------------------------------------------------------------
(* What the handlers of the listener do to connections.                    *)

\* The stages of other connections are as before, and so are broken ones.
StagesBut(n, p) ==
    \A k, l \in Nodes : ~(k = n /\ l = p) =>
        /\ Resolving(k, l)' <=> Resolving(k, l)
        /\ Resolved(k, l)' <=> Resolved(k, l)
        /\ Requested(k, l)' <=> Requested(k, l)
        /\ Accepted(k, l)' <=> Accepted(k, l)
        /\ AcceptedAt(k, l)' <=> AcceptedAt(k, l)
BrokenSame == \A m \in Nodes, e \in Ends : Broken(m, e)' <=> Broken(m, e)

Handles(n) == ctor[n] \notin {"off", "aborted"} /\ listener[n] = Idle

Built(n, p, e) ==
    /\ e \in Ends /\ Here(e) = n /\ Peer(e) = p
    /\ peerEnd' = [peerEnd EXCEPT ![n][p] = e]
    /\ connected' = [connected EXCEPT ![n][p] = FALSE]
    /\ recv' = [recv EXCEPT ![e] = "posted"]
    /\ UNCHANGED <<runVars, ctorVars, listener, peerMR, incoming, degradeVars, recvCQ, sq, sendCQ>>

Asks(n, p) ==
    /\ Handles(n) /\ Built(n, p, ActiveEnd(n, p))
    /\ StagesBut(n, p) /\ BrokenSame
    /\ Resolving(n, p) /\ ~Resolving(n, p)' /\ Resolved(n, p)'
    /\ Requested(n, p)' <=> Requested(n, p)
    /\ Accepted(n, p)' <=> Accepted(n, p)
    /\ AcceptedAt(n, p)' <=> AcceptedAt(n, p)
    /\ UNCHANGED up

LEMMA AddrIs ==
  ASSUME IInv, NEW n \in Nodes, OnAddrResolved(n)
  PROVE  \E p \in Nodes : Asks(n, p)
  <1>1. PICK ev \in events[n] :
          /\ ev.kind = "ADDR_RESOLVED"
          /\ BuildConnection(ev.end)
          /\ Handle(n, ev, n, {Event("ROUTE_RESOLVED", ev.end)})
    BY DEF OnAddrResolved, Waiting
  <1> DEFINE p == ev.end.to
             e == ActiveEnd(n, p)
  <1>2. /\ ev.end = e /\ e \in Ends /\ p \in Nodes /\ Here(e) = n /\ Peer(e) = p
        /\ ev = Event("ADDR_RESOLVED", e)
    BY <1>1, EventForms
  <1>3. \A q \in Nodes : \A x : x \in events'[q] <=>
          \/ x \in events[q] /\ ~(q = n /\ x = Event("ADDR_RESOLVED", e))
          \/ q = n /\ x = Event("ROUTE_RESOLVED", e)
    BY <1>1, <1>2, HandleEvents DEF IInv
  <1>4. Handles(n) /\ Built(n, p, e) /\ UNCHANGED up
    BY <1>1, <1>2 DEF OnAddrResolved, InLoop, Running, Handles, Built, BuildConnection
  <1> HIDE DEF p
  <1>5. BrokenSame
    BY <1>3 DEF BrokenSame, Broken, Event
  <1>6. StagesBut(n, p)
    BY <1>2, <1>3, OneEnd DEF StagesBut, Resolving, Resolved, Requested, Accepted, AcceptedAt, Event
  <1>7. /\ Resolving(n, p) /\ ~Resolving(n, p)' /\ Resolved(n, p)'
        /\ Requested(n, p)' <=> Requested(n, p)
        /\ Accepted(n, p)' <=> Accepted(n, p)
        /\ AcceptedAt(n, p)' <=> AcceptedAt(n, p)
    BY <1>1, <1>2, <1>3, OneEnd DEF Resolving, Resolved, Requested, Accepted, AcceptedAt, Event
  <1> QED
    BY <1>2, <1>4, <1>5, <1>6, <1>7 DEF Asks

Requests(n, p) ==
    /\ Handles(n)
    /\ StagesBut(n, p) /\ BrokenSame
    /\ Resolved(n, p) /\ ~Resolved(n, p)'
    /\ Resolving(n, p)' <=> Resolving(n, p)
    /\ Requested(n, p)' <=> Requested(n, p) \/ Running(p)
    /\ Accepted(n, p)' <=> Accepted(n, p)
    /\ AcceptedAt(n, p)' <=> AcceptedAt(n, p)
    /\ UNCHANGED <<runVars, ctorVars, listener, up, peerVars, degradeVars, nicVars>>

LEMMA RouteIs ==
  ASSUME IInv, NEW n \in Nodes, OnRouteResolved(n)
  PROVE  \E p \in Nodes : ActiveEnd(n, p) \in Ends /\ Requests(n, p)
  <1>1. PICK ev \in events[n] :
          /\ ev.kind = "ROUTE_RESOLVED"
          /\ Handle(n, ev, ev.end.to, IF Running(ev.end.to)
                                      THEN {Event("CONNECT_REQUEST", Other(ev.end))} ELSE {})
    BY DEF OnRouteResolved, Waiting
  <1> DEFINE p == ev.end.to
             e == ActiveEnd(n, p)
  <1>2. /\ ev.end = e /\ e \in Ends /\ p \in Nodes /\ Other(e) = Passive(n, p)
        /\ ev = Event("ROUTE_RESOLVED", e)
    BY <1>1, EventForms
  <1>3. \A q \in Nodes : \A x : x \in events'[q] <=>
          \/ x \in events[q] /\ ~(q = n /\ x = Event("ROUTE_RESOLVED", e))
          \/ q = p /\ x = Event("CONNECT_REQUEST", Passive(n, p)) /\ Running(p)
    BY <1>1, <1>2, HandleEvents DEF IInv
  <1>4. Handles(n) /\ UNCHANGED <<runVars, ctorVars, listener, up, peerVars, degradeVars, nicVars>>
    BY DEF OnRouteResolved, InLoop, Running, Handles
  <1> HIDE DEF p
  <1>5. BrokenSame
    BY <1>3 DEF BrokenSame, Broken, Event
  <1>6. StagesBut(n, p)
    BY <1>2, <1>3, OneEnd DEF StagesBut, Resolving, Resolved, Requested, Accepted, AcceptedAt, Event
  <1>7. /\ Resolved(n, p) /\ ~Resolved(n, p)'
        /\ Resolving(n, p)' <=> Resolving(n, p)
        /\ Requested(n, p)' <=> Requested(n, p) \/ Running(p)
        /\ Accepted(n, p)' <=> Accepted(n, p)
        /\ AcceptedAt(n, p)' <=> AcceptedAt(n, p)
    BY <1>1, <1>2, <1>3, OneEnd DEF Resolving, Resolved, Requested, Accepted, AcceptedAt, Event
  <1> QED
    BY <1>2, <1>4, <1>5, <1>6, <1>7 DEF Requests

\* n is asked by p.
Accepts(p, n) ==
    /\ Handles(n) /\ Built(n, p, Passive(p, n))
    /\ StagesBut(p, n) /\ BrokenSame
    /\ Requested(p, n) /\ ~Requested(p, n)'
    /\ Resolving(p, n)' <=> Resolving(p, n)
    /\ Resolved(p, n)' <=> Resolved(p, n)
    /\ Accepted(p, n)' <=> Accepted(p, n) \/ Running(p)
    /\ AcceptedAt(p, n)' <=> AcceptedAt(p, n)
    /\ up' = up \cup (IF Running(p) THEN {ActiveEnd(p, n)} ELSE {})

LEMMA RequestIs ==
  ASSUME IInv, NEW n \in Nodes, OnConnectionRequest(n)
  PROVE  \E p \in Nodes : ActiveEnd(p, n) \in Ends /\ Accepts(p, n)
  <1>1. PICK ev \in events[n] :
          /\ ev.kind = "CONNECT_REQUEST"
          /\ BuildConnection(ev.end)
          /\ LET new == IF Running(ev.end.from) THEN {Other(ev.end)} ELSE {}
             IN  /\ Handle(n, ev, ev.end.from, {Event("ESTABLISHED", a) : a \in new})
                 /\ up' = up \cup new
    BY DEF OnConnectionRequest, Waiting
  <1> DEFINE p == ev.end.from
             e == Passive(p, n)
             new == IF Running(p) THEN {ActiveEnd(p, n)} ELSE {}
             answers == {Event("ESTABLISHED", a) : a \in new}
  <1>2. /\ ev.end = e /\ e \in Ends /\ p \in Nodes /\ Here(e) = n /\ Peer(e) = p
        /\ Other(e) = ActiveEnd(p, n) /\ ActiveEnd(p, n) \in Ends
        /\ ev = Event("CONNECT_REQUEST", e)
    BY <1>1, EventForms
  <1>3. Handle(n, ev, p, answers) /\ up' = up \cup new
    BY <1>1, <1>2
  <1>4. \A x : x \in answers <=> x = Event("ESTABLISHED", ActiveEnd(p, n)) /\ Running(p)
    OBVIOUS
  <1>5. Handles(n) /\ Built(n, p, e)
    BY <1>1, <1>2 DEF OnConnectionRequest, InLoop, Running, Handles, Built, BuildConnection
  <1> HIDE DEF answers, p
  <1>6. \A q \in Nodes : \A x : x \in events'[q] <=>
          \/ x \in events[q] /\ ~(q = n /\ x = Event("CONNECT_REQUEST", e))
          \/ q = p /\ x = Event("ESTABLISHED", ActiveEnd(p, n)) /\ Running(p)
    BY <1>2, <1>3, <1>4, HandleEvents DEF IInv
  <1>7. BrokenSame
    BY <1>6 DEF BrokenSame, Broken, Event
  <1>8. StagesBut(p, n)
    BY <1>2, <1>6, OneEnd DEF StagesBut, Resolving, Resolved, Requested, Accepted, AcceptedAt, Event
  <1>9. /\ Requested(p, n) /\ ~Requested(p, n)'
        /\ Resolving(p, n)' <=> Resolving(p, n)
        /\ Resolved(p, n)' <=> Resolved(p, n)
        /\ Accepted(p, n)' <=> Accepted(p, n) \/ Running(p)
        /\ AcceptedAt(p, n)' <=> AcceptedAt(p, n)
    BY <1>1, <1>2, <1>6, OneEnd DEF Resolving, Resolved, Requested, Accepted, AcceptedAt, Event
  <1> QED
    BY <1>2, <1>3, <1>5, <1>7, <1>8, <1>9 DEF Accepts

\* n sends its MR over its end for p, and polls for that of p over end e unless
\* it is up.
Greets(n, p, e) ==
    /\ Handles(n)
    /\ sq' = [sq EXCEPT ![peerEnd[n][p]] = Append(@, "mr")]
    /\ listener' = IF ctor[n] = "done" THEN listener
                   ELSE [listener EXCEPT ![n] = [at |-> "poll", end |-> e]]
    /\ UNCHANGED <<runVars, ctorVars, peerVars, degradeVars, recv, recvCQ, sendCQ>>

GreetsFirst(n, p) ==
    /\ Greets(n, p, ActiveEnd(n, p))
    /\ StagesBut(n, p) /\ BrokenSame
    /\ Accepted(n, p) /\ ~Accepted(n, p)'
    /\ Resolving(n, p)' <=> Resolving(n, p)
    /\ Resolved(n, p)' <=> Resolved(n, p)
    /\ Requested(n, p)' <=> Requested(n, p)
    /\ AcceptedAt(n, p)' <=> AcceptedAt(n, p) \/ Running(p)
    /\ up' = up \cup (IF Running(p) THEN {Passive(n, p)} ELSE {})

\* The same at the passive end of what p asked of n.
GreetsBack(p, n) ==
    /\ Greets(n, p, Passive(p, n))
    /\ StagesBut(p, n) /\ BrokenSame
    /\ AcceptedAt(p, n) /\ ~AcceptedAt(p, n)'
    /\ Resolving(p, n)' <=> Resolving(p, n)
    /\ Resolved(p, n)' <=> Resolved(p, n)
    /\ Requested(p, n)' <=> Requested(p, n)
    /\ Accepted(p, n)' <=> Accepted(p, n)
    /\ UNCHANGED up

LEMMA EstablishedIs ==
  ASSUME IInv, NEW n \in Nodes, OnConnectionEstablished(n)
  PROVE  \E p \in Nodes : \/ ActiveEnd(n, p) \in Ends /\ GreetsFirst(n, p)
                          \/ ActiveEnd(p, n) \in Ends /\ GreetsBack(p, n)
  <1>1. PICK ev \in events[n] :
          /\ ev.kind = "ESTABLISHED"
          /\ LET new == IF ev.end.active /\ Running(ev.end.to) THEN {Other(ev.end)} ELSE {}
             IN  /\ Handle(n, ev, ev.end.to, {Event("ESTABLISHED", a) : a \in new})
                 /\ up' = up \cup new
          /\ sq' = [sq EXCEPT ![peerEnd[n][Peer(ev.end)]] = Append(@, "mr")]
          /\ listener' = IF ctor[n] = "done" THEN listener
                         ELSE [listener EXCEPT ![n] = [at |-> "poll", end |-> ev.end]]
    BY DEF OnConnectionEstablished, Waiting
  <1> DEFINE e == ev.end
             p == Peer(e)
             new == IF e.active /\ Running(e.to) THEN {Other(e)} ELSE {}
             answers == {Event("ESTABLISHED", a) : a \in new}
  <1>2. /\ e \in Ends /\ Here(e) = n /\ ev = Event("ESTABLISHED", e) /\ p \in Nodes
        /\ e.active => e = ActiveEnd(n, p) /\ Other(e) = Passive(n, p) /\ e.to = p
        /\ ~e.active => e = Passive(p, n) /\ ActiveEnd(p, n) \in Ends /\ e.to = n
    BY <1>1, EventForms
  <1>3. Handle(n, ev, e.to, answers) /\ up' = up \cup new
    BY <1>1
  <1>4. Greets(n, p, e)
    BY <1>1 DEF OnConnectionEstablished, InLoop, Running, Handles, Greets
  <1>5. CASE e.active
    <2>1. new = IF Running(p) THEN {Passive(n, p)} ELSE {}
      BY <1>2, <1>5
    <2>2. \A x : x \in answers <=> x = Event("ESTABLISHED", Passive(n, p)) /\ Running(p)
      BY <2>1
    <2> HIDE DEF answers, new, p, e
    <2>3. \A q \in Nodes : \A x : x \in events'[q] <=>
            \/ x \in events[q] /\ ~(q = n /\ x = Event("ESTABLISHED", ActiveEnd(n, p)))
            \/ q = p /\ x = Event("ESTABLISHED", Passive(n, p)) /\ Running(p)
      BY <1>2, <1>3, <1>5, <2>2, HandleEvents DEF IInv
    <2>4. BrokenSame
      BY <2>3 DEF BrokenSame, Broken, Event
    <2>5. StagesBut(n, p)
      BY <1>2, <2>3, OneEnd DEF StagesBut, Resolving, Resolved, Requested, Accepted, AcceptedAt, Event
    <2>6. /\ Accepted(n, p) /\ ~Accepted(n, p)'
          /\ Resolving(n, p)' <=> Resolving(n, p)
          /\ Resolved(n, p)' <=> Resolved(n, p)
          /\ Requested(n, p)' <=> Requested(n, p)
          /\ AcceptedAt(n, p)' <=> AcceptedAt(n, p) \/ Running(p)
      BY <1>1, <1>2, <1>5, <2>3, OneEnd
      DEF Resolving, Resolved, Requested, Accepted, AcceptedAt, Event
    <2> QED
      BY <1>2, <1>3, <1>4, <1>5, <2>1, <2>4, <2>5, <2>6 DEF GreetsFirst
  <1>6. CASE ~e.active
    <2>1. new = {} /\ answers = {}
      BY <1>6
    <2> HIDE DEF answers, new, p, e
    <2>2. \A q \in Nodes : \A x : x \in events'[q] <=>
            x \in events[q] /\ ~(q = n /\ x = Event("ESTABLISHED", Passive(p, n)))
      BY <1>2, <1>3, <1>6, <2>1, HandleEvents DEF IInv
    <2>3. BrokenSame
      BY <2>2 DEF BrokenSame, Broken, Event
    <2>4. StagesBut(p, n)
      BY <1>2, <2>2, OneEnd DEF StagesBut, Resolving, Resolved, Requested, Accepted, AcceptedAt, Event
    <2>5. /\ AcceptedAt(p, n) /\ ~AcceptedAt(p, n)'
          /\ Resolving(p, n)' <=> Resolving(p, n)
          /\ Resolved(p, n)' <=> Resolved(p, n)
          /\ Requested(p, n)' <=> Requested(p, n)
          /\ Accepted(p, n)' <=> Accepted(p, n)
      BY <1>1, <1>2, <1>6, <2>2, OneEnd
      DEF Resolving, Resolved, Requested, Accepted, AcceptedAt, Event
    <2> QED
      BY <1>2, <1>3, <1>4, <1>6, <2>1, <2>3, <2>4, <2>5 DEF GreetsBack
  <1> QED
    BY <1>5, <1>6


\* The process of n ends.
DieStages(n) ==
    /\ \A k, l \in Nodes :
         /\ Resolving(k, l)' <=> Resolving(k, l) /\ k # n
         /\ Resolved(k, l)' <=> Resolved(k, l) /\ k # n
         /\ Requested(k, l)' <=> Requested(k, l) /\ l # n
         /\ Accepted(k, l)' <=> Accepted(k, l) /\ k # n
         /\ AcceptedAt(k, l)' <=> AcceptedAt(k, l) /\ l # n
    /\ \A m \in Nodes, e \in Ends :
         Broken(m, e)' <=> m # n /\ (Broken(m, e) \/ (e \in up /\ Here(e) = m /\ Peer(e) = n))

LEMMA DieIs ==
  ASSUME IInv, NEW n \in Nodes, Die(n)
  PROVE  /\ DieStages(n)
         /\ ctor'[n] = "aborted" /\ listener'[n] = Idle
         /\ \A m \in Others(n) : ctor'[m] = ctor[m] /\ listener'[m] = listener[m]
  <1>1. \A m \in Nodes : \A x : x \in events'[m] <=>
          /\ m # n
          /\ \/ x \in events[m]
             \/ \E e \in up : Here(e) = m /\ Peer(e) = n /\ x = Event("DISCONNECTED", e)
    BY DEF Die
  <1>2. \A m \in Nodes, e \in Ends :
          Broken(m, e)' <=> m # n /\ (Broken(m, e) \/ (e \in up /\ Here(e) = m /\ Peer(e) = n))
    BY <1>1 DEF Broken, Event
  <1>3. \A k, l \in Nodes :
          /\ Resolving(k, l)' <=> Resolving(k, l) /\ k # n
          /\ Resolved(k, l)' <=> Resolved(k, l) /\ k # n
          /\ Requested(k, l)' <=> Requested(k, l) /\ l # n
          /\ Accepted(k, l)' <=> Accepted(k, l) /\ k # n
          /\ AcceptedAt(k, l)' <=> AcceptedAt(k, l) /\ l # n
    BY <1>1 DEF Resolving, Resolved, Requested, Accepted, AcceptedAt, Event
  <1>4. /\ ctor'[n] = "aborted" /\ listener'[n] = Idle
        /\ \A m \in Others(n) : ctor'[m] = ctor[m] /\ listener'[m] = listener[m]
    BY DEF Die, IInv, Types, Others
  <1> QED
    BY <1>2, <1>3, <1>4 DEF DieStages

StagesSame ==
    \A k, l \in Nodes :
        /\ Resolving(k, l)' <=> Resolving(k, l)
        /\ Resolved(k, l)' <=> Resolved(k, l)
        /\ Requested(k, l)' <=> Requested(k, l)
        /\ Accepted(k, l)' <=> Accepted(k, l)
        /\ AcceptedAt(k, l)' <=> AcceptedAt(k, l)

LEMMA EventsSame == UNCHANGED events => StagesSame /\ BrokenSame
  BY DEF StagesSame, BrokenSame, Broken, Resolving, Resolved, Requested, Accepted, AcceptedAt

\* n finds its end e broken.
Drops(n, e) ==
    /\ Handles(n) /\ Broken(n, e) /\ Here(e) = n
    /\ StagesSame
    /\ \A m \in Nodes, d \in Ends : Broken(m, d)' <=> Broken(m, d) /\ ~(m = n /\ d = e)
    /\ up' = up \ {e}
    /\ writeLog' = [writeLog EXCEPT ![n] = IF degraded[n] = 0 THEN "cleared" ELSE @]
    /\ degraded' = [degraded EXCEPT ![n] = @ + 1]
    /\ connected' = [connected EXCEPT ![n][Peer(e)] = FALSE]
    /\ peerEnd' = [peerEnd EXCEPT ![n][Peer(e)] = NoEnd]
    /\ sq' = [sq EXCEPT ![e] = <<>>]
    /\ recv' = [recv EXCEPT ![e] = "none"]
    /\ UNCHANGED <<runVars, ctorVars, listener, peerMR, incoming, recvCQ, sendCQ>>

LEMMA DisconnectedIs ==
  ASSUME IInv, NEW n \in Nodes, OnDisconnected(n)
  PROVE  \E e \in Ends : Peer(e) \in Nodes /\ Gone(Peer(e)) /\ Drops(n, e)
  <1>1. PICK ev \in events[n] :
          /\ ev.kind = "DISCONNECTED"
          /\ Handle(n, ev, n, {})
          /\ up' = up \ {ev.end}
          /\ writeLog' = [writeLog EXCEPT ![n] = IF degraded[n] = 0 THEN "cleared" ELSE @]
          /\ degraded' = [degraded EXCEPT ![n] = @ + 1]
          /\ connected' = [connected EXCEPT ![n][Peer(ev.end)] = FALSE]
          /\ peerEnd' = [peerEnd EXCEPT ![n][Peer(ev.end)] = NoEnd]
          /\ sq' = [sq EXCEPT ![ev.end] = <<>>]
          /\ recv' = [recv EXCEPT ![ev.end] = "none"]
    BY DEF OnDisconnected, Waiting
  <1> DEFINE e == ev.end
  <1>2. /\ e \in Ends /\ Here(e) = n /\ Peer(e) \in Nodes /\ ev = Event("DISCONNECTED", e)
        /\ Gone(Peer(e))
    BY <1>1, EventForms DEF IInv, OnlyGoneDisconnect
  <1>3. \A q \in Nodes : \A x : x \in events'[q] <=>
          x \in events[q] /\ ~(q = n /\ x = Event("DISCONNECTED", e))
    BY <1>1, <1>2, HandleEvents DEF IInv
  <1>4. /\ UNCHANGED <<runVars, ctorVars, listener, peerMR, incoming, recvCQ, sendCQ>>
        /\ Handles(n)
    BY DEF OnDisconnected, InLoop, Running, Handles
  <1> HIDE DEF e
  <1>5. StagesSame
    BY <1>3 DEF StagesSame, Resolving, Resolved, Requested, Accepted, AcceptedAt, Event
  <1>6. Broken(n, e) /\ \A m \in Nodes, d \in Ends : Broken(m, d)' <=> Broken(m, d) /\ ~(m = n /\ d = e)
    BY <1>2, <1>3 DEF Broken, Event
  <1> QED
    BY <1>1, <1>2, <1>4, <1>5, <1>6 DEF Drops, e

\* The constructor of n asks for its connections, and no other event is left.
AskedStages(n, again) ==
    /\ \A k, l \in Nodes :
         /\ Resolving(k, l)' <=> IF k = n THEN l \in Targets(n, again) ELSE Resolving(k, l)
         /\ Resolved(k, l)' <=> Resolved(k, l) /\ k # n
         /\ Requested(k, l)' <=> Requested(k, l) /\ l # n
         /\ Accepted(k, l)' <=> Accepted(k, l) /\ k # n
         /\ AcceptedAt(k, l)' <=> AcceptedAt(k, l) /\ l # n
    /\ \A m \in Nodes, e \in Ends : Broken(m, e)' <=> Broken(m, e) /\ m # n

LEMMA AskedIs ==
  ASSUME IInv, NEW n \in Nodes, NEW again \in BOOLEAN,
         events' = [events EXCEPT ![n] =
                      {Event("ADDR_RESOLVED", ActiveEnd(n, p)) : p \in Targets(n, again)}]
  PROVE  AskedStages(n, again)
  <1>1. \A m \in Nodes : \A x : x \in events'[m] <=>
          IF m = n THEN \E p \in Targets(n, again) : x = Event("ADDR_RESOLVED", ActiveEnd(n, p))
          ELSE x \in events[m]
    BY DEF IInv, Types
  <1>2. Targets(n, again) \subseteq Nodes
    BY DEF Targets
  <1>3. \A k, l \in Nodes :
          Resolving(k, l)' <=> IF k = n THEN l \in Targets(n, again) ELSE Resolving(k, l)
    BY <1>1, <1>2, OneEnd DEF Resolving, Event
  <1>4. \A k, l \in Nodes :
          /\ Resolved(k, l)' <=> Resolved(k, l) /\ k # n
          /\ Requested(k, l)' <=> Requested(k, l) /\ l # n
          /\ Accepted(k, l)' <=> Accepted(k, l) /\ k # n
          /\ AcceptedAt(k, l)' <=> AcceptedAt(k, l) /\ l # n
    BY <1>1 DEF Resolved, Requested, Accepted, AcceptedAt, Event
  <1>5. \A m \in Nodes, e \in Ends : Broken(m, e)' <=> Broken(m, e) /\ m # n
    BY <1>1 DEF Broken, Event
  <1> QED
    BY <1>3, <1>4, <1>5 DEF AskedStages


-----------------------------------------------------------------------------
(* What steps do to requests and completions.                              *)

QTypes == QueueTypes /\ EndsAtHome /\ TestedRight
SqTyped == sq' \in [Ends -> Seq({"mr", "test"})]

LEMMA UncollectedNext ==
  ASSUME NEW n \in Nodes
  PROVE  Uncollected(n)' = sendCQ'[n] + Cardinality(PostedIn(sq', n))
  BY DEF Uncollected, Posted, PostedIn

LEMMA UncollectedSame ==
  ASSUME QTypes, UNCHANGED <<sq, sendCQ>>, NEW n \in Nodes
  PROVE  Uncollected(n)' = Uncollected(n)
  BY UncollectedNext, UncollectedType DEF QTypes

LEMMA GreetsSends ==
  ASSUME QTypes, NEW n \in Nodes, NEW p \in Nodes, NEW e \in Ends, Greets(n, p, e)
  PROVE  /\ SqTyped
         /\ peerEnd[n][p] = NoEnd => sq' = sq
         /\ \A m \in Nodes :
              Uncollected(m)' = Uncollected(m) + IF m = n /\ peerEnd[n][p] # NoEnd THEN 1 ELSE 0
  <1>1. /\ sq' = [sq EXCEPT ![peerEnd[n][p]] = Append(@, "mr")] /\ sendCQ' = sendCQ
        /\ sq \in [Ends -> Seq({"mr", "test"})]
        /\ peerEnd[n][p] \in Ends \cup {NoEnd}
    BY DEF Greets, QTypes, QueueTypes
  <1>2. CASE peerEnd[n][p] = NoEnd
    <2>1. peerEnd[n][p] \notin Ends
      BY <1>2, NoEndIsNone
    <2>2. sq' = sq
      BY <1>1, <2>1
    <2> QED
      <3>1. SqTyped
        BY <1>1, <2>2 DEF SqTyped
      <3>2. ASSUME NEW m \in Nodes PROVE Uncollected(m)' = Uncollected(m) + 0
        BY <1>1, <2>2, UncollectedSame, UncollectedType DEF QTypes
      <3> QED
        BY <1>2, <2>2, <3>1, <3>2
  <1>3. CASE peerEnd[n][p] # NoEnd
    <2>1. peerEnd[n][p] \in Ends /\ Here(peerEnd[n][p]) = n
      BY <1>1, <1>3 DEF QTypes, EndsAtHome
    <2>0. Pushed(sq, sq', peerEnd[n][p], "mr")
      BY <1>1, <2>1 DEF Pushed, Queues
    <2>2. SqTyped
      BY <2>0, PostedGrows DEF SqTyped, Queues
    <2>3. ASSUME NEW m \in Nodes
          PROVE  Uncollected(m)' = Uncollected(m) + IF m = n THEN 1 ELSE 0
      <3>1. Cardinality(PostedIn(sq', m)) = Cardinality(PostedIn(sq, m)) + IF n = m THEN 1 ELSE 0
        BY <2>0, <2>1, PostedGrows
      <3>2. /\ Uncollected(m)' = sendCQ'[m] + Cardinality(PostedIn(sq', m))
            /\ Uncollected(m) = sendCQ[m] + Cardinality(PostedIn(sq, m))
            /\ Cardinality(PostedIn(sq, m)) \in Nat /\ sendCQ[m] \in Nat
        BY UncollectedNext, UncollectedType DEF QTypes
      <3> QED
        BY <1>1, <3>1, <3>2
    <2> QED
      BY <1>3, <2>2, <2>3
  <1> QED
    BY <1>2, <1>3

LEMMA FinishSends ==
  ASSUME QTypes, NEW e \in Ends, Finish(e)
  PROVE  /\ SqTyped /\ sendCQ' \in [Nodes -> Nat] /\ sq[e] # <<>>
         /\ sq' = [sq EXCEPT ![e] = Tail(@)]
         /\ ctor[Here(e)] # "aborted"
         /\ \A m \in Nodes : Uncollected(m)' = Uncollected(m)
  <1>1. /\ sq' = [sq EXCEPT ![e] = Tail(@)] /\ sq[e] # <<>>
        /\ sendCQ' = [sendCQ EXCEPT ![Here(e)] = @ + 1]
        /\ sq \in [Ends -> Seq({"mr", "test"})] /\ sendCQ \in [Nodes -> Nat]
        /\ ctor[Here(e)] # "aborted"
    BY DEF Finish, QTypes, QueueTypes, Running
  <1>a. Popped(sq, sq', e)
    BY <1>1 DEF Popped, Queues
  <1>2. SqTyped /\ sendCQ' \in [Nodes -> Nat]
    <2>1. SqTyped
      BY <1>a, PostedShrinks, NodesFinite DEF SqTyped, Queues
    <2> QED
      <3>1. Here(e) \in Nodes
        BY EndForms
      <3> QED
        BY <1>1, <2>1, <3>1
  <1>3. ASSUME NEW m \in Nodes PROVE Uncollected(m)' = Uncollected(m)
    <2>1. Cardinality(PostedIn(sq', m)) = Cardinality(PostedIn(sq, m)) - IF Here(e) = m THEN 1 ELSE 0
      BY <1>a, PostedShrinks
    <2>2. sendCQ'[m] = sendCQ[m] + IF Here(e) = m THEN 1 ELSE 0
      BY <1>1
    <2>3. /\ Uncollected(m)' = sendCQ'[m] + Cardinality(PostedIn(sq', m))
          /\ Uncollected(m) = sendCQ[m] + Cardinality(PostedIn(sq, m))
          /\ Cardinality(PostedIn(sq, m)) \in Nat /\ sendCQ[m] \in Nat
      BY UncollectedNext, UncollectedType DEF QTypes
    <2> QED
      BY <2>1, <2>2, <2>3
  <1> QED
    BY <1>1, <1>2, <1>3

LEMMA DropSends ==
  ASSUME QTypes, NEW n \in Nodes, NEW e \in Ends, Drops(n, e)
  PROVE  /\ SqTyped
         /\ \A m \in Nodes : /\ Uncollected(m)' <= Uncollected(m)
                             /\ m # n => Uncollected(m)' = Uncollected(m)
  <1>1. /\ sq' = [sq EXCEPT ![e] = <<>>] /\ sendCQ' = sendCQ /\ Here(e) = n
        /\ sq \in [Ends -> Seq({"mr", "test"})]
    BY DEF Drops, QTypes, QueueTypes
  <1>2. /\ sq' \in [Ends -> Seq({"mr", "test"})]
        /\ \A d \in Ends : sq'[d] = sq[d] \/ sq'[d] = <<>>
        /\ \A d \in Ends : Here(d) # n => sq'[d] = sq[d]
    BY <1>1
  <1>3. ASSUME NEW m \in Nodes
        PROVE  /\ Uncollected(m)' <= Uncollected(m)
               /\ m # n => Uncollected(m)' = Uncollected(m)
    <2>1. /\ Cardinality(PostedIn(sq', m)) <= Cardinality(PostedIn(sq, m))
          /\ m # n => PostedIn(sq', m) = PostedIn(sq, m)
      <3>1. Dropped(sq, sq')
        BY <1>1, <1>2 DEF Dropped, Queues
      <3> QED
        <4>1. Cardinality(PostedIn(sq', m)) <= Cardinality(PostedIn(sq, m))
          BY <3>1, PostedDropped
        <4>2. ASSUME m # n PROVE PostedIn(sq', m) = PostedIn(sq, m)
          <5>1. \A d \in Ends : Here(d) = m => sq'[d] = sq[d]
            BY <1>2, <4>2
          <5> QED
            BY <5>1 DEF PostedIn
        <4> QED
          BY <4>1, <4>2
    <2>2. Cardinality(PostedIn(sq', m)) \in Nat
      BY <1>2, PostedInIs DEF Queues
    <2> QED
      <3>1. /\ Uncollected(m)' = sendCQ'[m] + Cardinality(PostedIn(sq', m))
            /\ Uncollected(m) = sendCQ[m] + Cardinality(PostedIn(sq, m))
            /\ Cardinality(PostedIn(sq, m)) \in Nat /\ sendCQ[m] \in Nat
        BY UncollectedNext, UncollectedType DEF QTypes
      <3> QED
        BY <1>1, <2>1, <2>2, <3>1
  <1> QED
    BY <1>2, <1>3 DEF SqTyped

\* The test writes: one to each peer.
Tests(n) ==
    /\ ctor[n] = "post" /\ ctor' = [ctor EXCEPT ![n] = "poll"]
    /\ \A p \in Others(n) : peerEnd[n][p] # NoEnd
    /\ sq' = [e \in Ends |-> IF \E p \in Others(n) : e = peerEnd[n][p]
                             THEN Append(sq[e], "test") ELSE sq[e]]
    /\ writeLog' = [writeLog EXCEPT ![n] = "full"]
    /\ UNCHANGED <<runVars, tested, listener, cmVars, peerVars, degraded, recv, recvCQ, sendCQ>>

LEMMA TestSends ==
  ASSUME QTypes, NEW n \in Nodes, Tests(n)
  PROVE  /\ SqTyped
         /\ \A m \in Nodes :
              Uncollected(m)' = Uncollected(m) + IF m = n THEN ClusterSize - 1 ELSE 0
  <1> DEFINE ends == {peerEnd[n][p] : p \in Others(n)}
             f == [p \in Others(n) |-> <<peerEnd[n][p], Len(sq[peerEnd[n][p]]) + 1>>]
             new == {f[p] : p \in Others(n)}
  <1>1. /\ \A p \in Others(n) : /\ p \in Nodes /\ peerEnd[n][p] \in Ends
                                /\ Here(peerEnd[n][p]) = n /\ Peer(peerEnd[n][p]) = p
        /\ sq \in [Ends -> Seq({"mr", "test"})] /\ sendCQ' = sendCQ
    BY DEF Tests, QTypes, QueueTypes, EndsAtHome, Others
  <1>2. ASSUME NEW e \in Ends
        PROVE  /\ sq'[e] \in Seq({"mr", "test"})
               /\ e \in ends => DOMAIN sq'[e] = DOMAIN sq[e] \cup {Len(sq[e]) + 1}
               /\ e \notin ends => sq'[e] = sq[e]
               /\ Len(sq[e]) + 1 \notin DOMAIN sq[e]
    <2>1. sq[e] \in Seq({"mr", "test"}) /\ Len(sq[e]) \in Nat /\ DOMAIN sq[e] = 1 .. Len(sq[e])
      BY <1>1
    <2>2. sq'[e] = IF e \in ends THEN Append(sq[e], "test") ELSE sq[e]
      BY DEF Tests
    <2>3. /\ Append(sq[e], "test") \in Seq({"mr", "test"})
          /\ DOMAIN Append(sq[e], "test") = 1 .. (Len(sq[e]) + 1)
      BY <2>1
    <2> HIDE DEF ends
    <2>4. e \in ends => sq'[e] = Append(sq[e], "test")
      BY <2>2
    <2>5. e \notin ends => sq'[e] = sq[e]
      BY <2>2
    <2>6. 1 .. (Len(sq[e]) + 1) = DOMAIN sq[e] \cup {Len(sq[e]) + 1}
      BY <2>1
    <2>7. Len(sq[e]) + 1 \notin DOMAIN sq[e]
      BY <2>1
    <2> QED
      BY <2>1, <2>3, <2>4, <2>5, <2>6, <2>7
  <1>3. SqTyped
    <2>1. DOMAIN sq' = Ends /\ sq' = [e \in Ends |-> sq'[e]]
      BY DEF Tests
    <2> QED
      BY <1>2, <2>1 DEF SqTyped
  <1>4. ASSUME NEW m \in Nodes, m # n PROVE PostedIn(sq', m) = PostedIn(sq, m)
    <2>1. \A e \in Ends : Here(e) = m => sq'[e] = sq[e]
      BY <1>1, <1>2, <1>4
    <2> QED
      BY <2>1 DEF PostedIn
  <1>5. f \in Bijection(Others(n), new)
    <2>1. \A p, q \in Others(n) : f[p] = f[q] => p = q
      BY <1>1
    <2> QED
      BY <2>1 DEF Bijection, Injection, IsInjective, Surjection
  <1>6. IsFiniteSet(new) /\ Cardinality(new) = ClusterSize - 1
    BY <1>5, NodesFinite, FS_Bijection DEF ExistsBijection
  <1>7. ends \subseteq {d \in Ends : Here(d) = n}
    BY <1>1
  <1>8. PostedIn(sq', n) = PostedIn(sq, n) \cup new
    <2>1. new = {<<e, Len(sq[e]) + 1>> : e \in ends}
      OBVIOUS
    <2> HIDE DEF ends, new
    <2>2. ASSUME NEW x \in PostedIn(sq', n) PROVE x \in PostedIn(sq, n) \cup new
      <3>1. PICK e \in Ends : Here(e) = n /\ x \in {e} \X DOMAIN sq'[e]
        BY <1>3, PostedInIs DEF SqTyped, Queues
      <3>2. CASE e \in ends
        BY <1>1, <1>2, <2>1, <3>1, <3>2, PostedInIs DEF Queues
      <3>3. CASE e \notin ends
        BY <1>1, <1>2, <3>1, <3>3, PostedInIs DEF Queues
      <3> QED
        BY <3>2, <3>3
    <2>3. ASSUME NEW x \in new PROVE x \in PostedIn(sq', n)
      <3>1. PICK e \in ends : x = <<e, Len(sq[e]) + 1>>
        BY <2>1
      <3>2. e \in Ends /\ Here(e) = n /\ x \in {e} \X DOMAIN sq'[e]
        BY <1>2, <1>7, <3>1
      <3> QED
        BY <1>3, <3>2, PostedInIs DEF SqTyped, Queues
    <2>4. ASSUME NEW x \in PostedIn(sq, n) PROVE x \in PostedIn(sq', n)
      <3>1. PICK e \in Ends : Here(e) = n /\ x \in {e} \X DOMAIN sq[e]
        BY <1>1, PostedInIs DEF Queues
      <3>2. DOMAIN sq[e] \subseteq DOMAIN sq'[e]
        BY <1>2
      <3>3. x \in {e} \X DOMAIN sq'[e]
        BY <3>1, <3>2
      <3> QED
        BY <1>3, <3>1, <3>3, PostedInIs DEF SqTyped, Queues
    <2> QED
      BY <2>2, <2>3, <2>4
  <1>9. PostedIn(sq, n) \cap new = {}
    <2>1. new = {<<e, Len(sq[e]) + 1>> : e \in ends}
      OBVIOUS
    <2> HIDE DEF ends, new
    <2>2. ASSUME NEW x \in PostedIn(sq, n), x \in new PROVE FALSE
      <3>1. PICK e \in Ends : Here(e) = n /\ x \in {e} \X DOMAIN sq[e]
        BY <1>1, PostedInIs DEF Queues
      <3>2. PICK d \in ends : x = <<d, Len(sq[d]) + 1>>
        BY <2>1, <2>2
      <3>3. e = d /\ Len(sq[e]) + 1 \in DOMAIN sq[e]
        BY <3>1, <3>2
      <3> QED
        BY <1>2, <3>3
    <2> QED
      BY <2>2
  <1>10. /\ IsFiniteSet(PostedIn(sq, n)) /\ Cardinality(PostedIn(sq, n)) \in Nat
         /\ Cardinality(PostedIn(sq', n)) = Cardinality(PostedIn(sq, n)) + ClusterSize - 1
    <2>1. IsFiniteSet(PostedIn(sq, n))
      BY <1>1, PostedInIs DEF Queues
    <2>2. Cardinality(PostedIn(sq, n)) \in Nat
      BY <2>1, FS_CardinalityType
    <2> HIDE DEF new
    <2>3. Cardinality(PostedIn(sq', n)) = Cardinality(PostedIn(sq, n)) + Cardinality(new) - Cardinality({})
      BY <1>6, <1>8, <1>9, <2>1, FS_Union
    <2> QED
      BY <1>6, <2>1, <2>2, <2>3, FS_EmptySet, SizeAssumption
  <1>11. ASSUME NEW m \in Nodes
         PROVE  Uncollected(m)' = Uncollected(m) + IF m = n THEN ClusterSize - 1 ELSE 0
    <2>a. /\ Uncollected(m) = sendCQ[m] + Cardinality(PostedIn(sq, m))
          /\ Uncollected(m)' = sendCQ'[m] + Cardinality(PostedIn(sq', m))
          /\ sendCQ[m] \in Nat /\ Cardinality(PostedIn(sq, m)) \in Nat /\ ClusterSize \in Nat
      BY UncollectedNext, UncollectedType, SizeAssumption DEF QTypes
    <2>b. sendCQ'[m] = sendCQ[m]
      BY <1>1
    <2>1. CASE m # n
      BY <1>4, <2>a, <2>b, <2>1
    <2>2. CASE m = n
      BY <1>10, <2>a, <2>b, <2>2
    <2> QED
      BY <2>1, <2>2
  <1> QED
    BY <1>3, <1>11

-----------------------------------------------------------------------------
(* Types.                                                                  *)

EarlyPlaces == {"off", "check", "sleep", "wait", "post"}

LEMMA TestedKept ==
  ASSUME TestedRight, UNCHANGED tested,
         \A m \in Nodes : \/ ctor'[m] = ctor[m] \/ ctor'[m] = "aborted"
                          \/ ctor[m] \in EarlyPlaces /\ ctor'[m] \in EarlyPlaces
  PROVE  TestedRight'
  BY DEF TestedRight, EarlyPlaces

\* Steps that move constructors only.
Moves(n) ==
    /\ ctor[n] \in EarlyPlaces /\ ctor[n] # "off"
    /\ \E l \in EarlyPlaces \ {"off"} : ctor' = [ctor EXCEPT ![n] = l]
    /\ spurious' \subseteq spurious \cup {n}
    /\ UNCHANGED <<recovering, tested, listener, cmVars, peerVars, degradeVars, nicVars>>

LEMMA MovesIs ==
  ASSUME NEW n \in Nodes, CtorCheck(n) \/ CtorSleep(n) \/ SpuriousWake(n)
  PROVE  Moves(n)
  BY DEF CtorCheck, CtorSleep, SpuriousWake, Moves, EarlyPlaces, runVars

LEMMA MovesTypes ==
  ASSUME IInv, QTypes, NEW n \in Nodes, Moves(n)
  PROVE  QTypes'
  <1>1. QueueTypes' /\ EndsAtHome'
    BY DEF QTypes, QueueTypes, EndsAtHome, Moves, cmVars, peerVars, degradeVars, nicVars
  <1>2. TestedRight'
    <2>1. \A m \in Nodes : \/ ctor'[m] = ctor[m] \/ ctor'[m] = "aborted"
                           \/ ctor[m] \in EarlyPlaces /\ ctor'[m] \in EarlyPlaces
      BY DEF Moves, IInv, Types
    <2> QED
      BY <2>1, TestedKept DEF QTypes, Moves
  <1> QED
    BY <1>1, <1>2 DEF QTypes

LEMMA StartTypes ==
  ASSUME IInv, QTypes, NEW n \in Nodes, Start(n)
  PROVE  QTypes'
  <1>1. QueueTypes' /\ EndsAtHome'
    BY DEF QTypes, QueueTypes, EndsAtHome, Start, runVars, peerVars, degradeVars, nicVars
  <1>2. TestedRight'
    <2>1. \A m \in Nodes : \/ ctor'[m] = ctor[m] \/ ctor'[m] = "aborted"
                           \/ ctor[m] \in EarlyPlaces /\ ctor'[m] \in EarlyPlaces
      BY DEF Start, EarlyPlaces, IInv, Types
    <2> QED
      BY <2>1, TestedKept DEF QTypes, Start
  <1> QED
    BY <1>1, <1>2 DEF QTypes

LEMMA NotifyTypes ==
  ASSUME IInv, QTypes, NEW n \in Nodes, Notify(n)
  PROVE  QTypes'
  <1>1. QueueTypes' /\ EndsAtHome'
    BY DEF QTypes, QueueTypes, EndsAtHome, Notify, runVars, peerVars, degradeVars, nicVars
  <1>2. TestedRight'
    <2>1. \A m \in Nodes : \/ ctor'[m] = ctor[m] \/ ctor'[m] = "aborted"
                           \/ ctor[m] \in EarlyPlaces /\ ctor'[m] \in EarlyPlaces
      BY DEF Notify, EarlyPlaces, IInv, Types
    <2> QED
      BY <2>1, TestedKept DEF QTypes, Notify
  <1> QED
    BY <1>1, <1>2 DEF QTypes

LEMMA BuiltTypes ==
  ASSUME IInv, QTypes, NEW n \in Nodes, NEW p \in Nodes, NEW e, Built(n, p, e)
  PROVE  QTypes'
  <1>1. e \in Ends /\ Here(e) = n /\ Peer(e) = p
    BY DEF Built
  <1>2. /\ peerEnd' = [peerEnd EXCEPT ![n][p] = e] /\ recv' = [recv EXCEPT ![e] = "posted"]
        /\ UNCHANGED <<runVars, ctorVars, degradeVars, recvCQ, sq, sendCQ>>
    BY DEF Built
  <1>3. QueueTypes'
    BY <1>1, <1>2 DEF QTypes, QueueTypes, runVars, ctorVars, degradeVars
  <1>4. EndsAtHome'
    BY <1>1, <1>2 DEF QTypes, QueueTypes, EndsAtHome
  <1>5. TestedRight'
    BY <1>2, TestedKept DEF QTypes, ctorVars
  <1> QED
    BY <1>3, <1>4, <1>5 DEF QTypes

LEMMA RequestsTypes ==
  ASSUME IInv, QTypes, NEW n \in Nodes, NEW p \in Nodes, Requests(n, p)
  PROVE  QTypes'
  <1>1. QueueTypes' /\ EndsAtHome'
    BY DEF QTypes, QueueTypes, EndsAtHome, Requests, runVars, ctorVars, peerVars, degradeVars, nicVars
  <1>2. TestedRight'
    BY TestedKept DEF QTypes, Requests, ctorVars
  <1> QED
    BY <1>1, <1>2 DEF QTypes

LEMMA GreetsTypes ==
  ASSUME IInv, QTypes, NEW n \in Nodes, NEW p \in Nodes, NEW e \in Ends, Greets(n, p, e)
  PROVE  QTypes'
  <1>1. SqTyped
    BY GreetsSends
  <1>2. UNCHANGED <<runVars, ctorVars, peerVars, degradeVars, recv, recvCQ, sendCQ>>
    BY DEF Greets
  <1>3. QueueTypes' /\ EndsAtHome'
    BY <1>1, <1>2 DEF QTypes, QueueTypes, EndsAtHome, SqTyped, runVars, ctorVars, peerVars, degradeVars
  <1>4. TestedRight'
    BY <1>2, TestedKept DEF QTypes, ctorVars
  <1> QED
    BY <1>3, <1>4 DEF QTypes

\* n polls for the completion of its test write to p.
Tested(n, p) ==
    /\ ctor[n] = "poll" /\ sendCQ[n] > 0 /\ sendCQ' = [sendCQ EXCEPT ![n] = @ - 1]
    /\ p \in Others(n) \ tested[n] /\ tested' = [tested EXCEPT ![n] = @ \cup {p}]
    /\ ctor' = [ctor EXCEPT ![n] = IF tested'[n] = Others(n) THEN "done" ELSE @]
    /\ UNCHANGED <<runVars, listener, cmVars, peerVars, degradeVars, recv, recvCQ, sq>>

LEMMA TestedIs ==
  ASSUME NEW n \in Nodes, CtorPoll(n)
  PROVE  \E p \in Nodes : Tested(n, p)
  BY DEF CtorPoll, Tested, Others

LEMMA TestedTypes ==
  ASSUME IInv, QTypes, NEW n \in Nodes, NEW p \in Nodes, Tested(n, p)
  PROVE  QTypes'
  <1>1. /\ tested' = [tested EXCEPT ![n] = @ \cup {p}] /\ p \in Others(n)
        /\ sendCQ' = [sendCQ EXCEPT ![n] = @ - 1] /\ sendCQ[n] > 0
        /\ ctor[n] = "poll"
        /\ ctor' = [ctor EXCEPT ![n] = IF tested'[n] = Others(n) THEN "done" ELSE @]
        /\ UNCHANGED <<runVars, listener, cmVars, peerVars, degradeVars, recv, recvCQ, sq>>
    BY DEF Tested
  <1>2. sendCQ[n] \in Nat /\ sendCQ[n] - 1 \in Nat
    BY <1>1 DEF QTypes, QueueTypes
  <1>3. QueueTypes' /\ EndsAtHome'
    BY <1>1, <1>2 DEF QTypes, QueueTypes, EndsAtHome, runVars, peerVars, degradeVars
  <1>4. TestedRight'
    <2>1. \A m \in Nodes : m # n => ctor'[m] = ctor[m] /\ tested'[m] = tested[m]
      BY <1>1 DEF IInv, Types, QTypes, QueueTypes
    <2>2. /\ tested'[n] = tested[n] \cup {p}
          /\ ctor'[n] = IF tested'[n] = Others(n) THEN "done" ELSE "poll"
      BY <1>1 DEF IInv, Types, QTypes, QueueTypes
    <2> QED
      BY <1>1, <2>1, <2>2 DEF QTypes, TestedRight
  <1> QED
    BY <1>3, <1>4 DEF QTypes


LEMMA TestsTypes ==
  ASSUME IInv, QTypes, NEW n \in Nodes, Tests(n)
  PROVE  QTypes'
  <1>1. SqTyped
    BY TestSends
  <1>2. /\ ctor[n] = "post" /\ ctor' = [ctor EXCEPT ![n] = "poll"]
        /\ writeLog' = [writeLog EXCEPT ![n] = "full"]
        /\ UNCHANGED <<runVars, tested, listener, cmVars, peerVars, degraded, recv, recvCQ, sendCQ>>
    BY DEF Tests
  <1>3. QueueTypes' /\ EndsAtHome'
    BY <1>1, <1>2 DEF QTypes, QueueTypes, EndsAtHome, SqTyped, runVars, peerVars
  <1>4. TestedRight'
    <2>1. \A m \in Nodes : m # n => ctor'[m] = ctor[m]
      BY <1>2 DEF IInv, Types
    <2>2. ctor'[n] = "poll" /\ tested[n] = {} /\ tested' = tested
      BY <1>2 DEF IInv, Types, QTypes, TestedRight
    <2>3. Others(n) # {}
      BY NodesFinite, FS_EmptySet, SizeAssumption
    <2> QED
      BY <2>1, <2>2, <2>3 DEF QTypes, TestedRight
  <1> QED
    BY <1>3, <1>4 DEF QTypes

\* The process of n ends, and nothing else happens but that its log gets room
\* or that it takes a completion first.
Ends1(n) ==
    /\ Die(n)
    /\ \E l \in {"none", "full", "cleared"} : writeLog' = [writeLog EXCEPT ![n] = l]
    /\ \E c \in Nat : recvCQ[n] >= c /\ recvCQ' = [recvCQ EXCEPT ![n] = c]
    /\ UNCHANGED <<runVars, tested, up, peerVars, degraded, recv, sq, sendCQ>>

LEMMA Ends1Types ==
  ASSUME IInv, QTypes, NEW n \in Nodes, Ends1(n)
  PROVE  QTypes'
  <1>1. /\ UNCHANGED <<runVars, tested, up, peerVars, degraded, recv, sq, sendCQ>>
        /\ \E l \in {"none", "full", "cleared"} : writeLog' = [writeLog EXCEPT ![n] = l]
        /\ \E c \in Nat : recvCQ' = [recvCQ EXCEPT ![n] = c]
    BY DEF Ends1
  <1>2. QueueTypes' /\ EndsAtHome'
    BY <1>1 DEF QTypes, QueueTypes, EndsAtHome, runVars, peerVars
  <1>3. \A m \in Nodes : ctor'[m] = ctor[m] \/ ctor'[m] = "aborted"
    BY DieIs DEF Ends1, Others
  <1>4. TestedRight'
    BY <1>1, <1>3, TestedKept DEF QTypes
  <1> QED
    BY <1>2, <1>4 DEF QTypes

LEMMA PostIs ==
  ASSUME IInv, QTypes, NEW n \in Nodes, CtorPost(n)
  PROVE  \/ Tests(n)
         \/ ctor[n] = "post" /\ Ends1(n) /\ recvCQ' = recvCQ /\ \E p \in Others(n) : peerEnd[n][p] = NoEnd
  <1>1. CASE Tests(n)
    BY <1>1
  <1>2. CASE ~Tests(n)
    <2>1. /\ Die(n) /\ ctor[n] = "post" /\ sq' = sq /\ writeLog' = [writeLog EXCEPT ![n] = "full"]
          /\ UNCHANGED <<runVars, tested, up, peerVars, degraded, recv, recvCQ, sendCQ>>
          /\ \E p \in Others(n) : peerEnd[n][p] = NoEnd
      BY <1>2 DEF CtorPost, Tests, cmVars
    <2>2. recvCQ' = [recvCQ EXCEPT ![n] = recvCQ[n]] /\ recvCQ[n] \in Nat /\ recvCQ[n] >= recvCQ[n]
      BY <2>1 DEF QTypes, QueueTypes
    <2> QED
      BY <2>1, <2>2 DEF Ends1
  <1> QED
    BY <1>1, <1>2

LEMMA CrashIs ==
  ASSUME IInv, QTypes, NEW n \in Nodes, Crash(n)
  PROVE  Ends1(n) /\ recvCQ' = recvCQ
  <1>1. Die(n) /\ UNCHANGED <<runVars, tested, up, peerVars, degradeVars, nicVars>>
    BY DEF Crash
  <1>2. /\ recvCQ' = [recvCQ EXCEPT ![n] = recvCQ[n]] /\ recvCQ[n] \in Nat /\ recvCQ[n] >= recvCQ[n]
        /\ writeLog' = [writeLog EXCEPT ![n] = writeLog[n]] /\ writeLog[n] \in {"none", "full", "cleared"}
    BY <1>1 DEF QTypes, QueueTypes, degradeVars, nicVars
  <1> QED
    BY <1>1, <1>2 DEF Ends1, degradeVars, nicVars

\* n takes a completion for the receive of its end for p: it counts p, or ends.
Connects(n, p, mr) ==
    /\ mr \in {"peer", "garbage"}
    /\ connected' = [connected EXCEPT ![n][p] = TRUE]
    /\ peerMR'    = [peerMR EXCEPT ![n][p] = mr]
    /\ incoming'  = [incoming EXCEPT ![n] = @ + 1]
    /\ listener'  = [listener EXCEPT ![n].at = "notify"]
    /\ recvCQ' = [recvCQ EXCEPT ![n] = @ - 1]
    /\ UNCHANGED <<runVars, ctor, events, tested, up, peerEnd, degradeVars, recv, sq, sendCQ>>

Exits(n, p) ==
    /\ recv[peerEnd[n][p]] # "filled"
    /\ Ends1(n)
    /\ recvCQ' = [recvCQ EXCEPT ![n] = @ - 1]

LEMMA PollIs ==
  ASSUME IInv, QTypes, NEW n \in Nodes, PollRecv(n)
  PROVE  \E e \in Ends, p \in Nodes :
            /\ listener[n].at = "poll" /\ listener[n].end = e /\ Here(e) = n /\ Peer(e) = p
            /\ ctor[n] \notin {"off", "aborted"}
            /\ recvCQ[n] > 0
            /\ \/ \E mr \in {"peer", "garbage"} : Connects(n, p, mr)
               \/ Exits(n, p)
  <1> DEFINE p == Peer(listener[n].end)
  <1>1. /\ listener[n].at = "poll" /\ recvCQ[n] > 0 /\ recvCQ' = [recvCQ EXCEPT ![n] = @ - 1]
        /\ UNCHANGED <<runVars, tested, up, peerEnd, degradeVars, recv, sq, sendCQ>>
        /\ ctor[n] \notin {"off", "aborted"}
    BY DEF PollRecv, Running
  <1>2. listener[n].end \in Ends /\ Here(listener[n].end) = n /\ p \in Nodes
    BY <1>1, EndForms DEF IInv, AtHome, Peer
  <1>3. \/ \E mr \in {"peer", "garbage"} :
            /\ connected' = [connected EXCEPT ![n][p] = TRUE]
            /\ peerMR'    = [peerMR EXCEPT ![n][p] = mr]
            /\ incoming'  = [incoming EXCEPT ![n] = @ + 1]
            /\ listener'  = [listener EXCEPT ![n].at = "notify"]
            /\ UNCHANGED <<ctor, events>>
        \/ recv[peerEnd[n][p]] # "filled" /\ Die(n) /\ UNCHANGED <<connected, peerMR, incoming>>
    BY DEF PollRecv
  <1> HIDE DEF p
  <1>4. CASE \E mr \in {"peer", "garbage"} :
            /\ connected' = [connected EXCEPT ![n][p] = TRUE]
            /\ peerMR'    = [peerMR EXCEPT ![n][p] = mr]
            /\ incoming'  = [incoming EXCEPT ![n] = @ + 1]
            /\ listener'  = [listener EXCEPT ![n].at = "notify"]
            /\ UNCHANGED <<ctor, events>>
    <2>1. \E mr \in {"peer", "garbage"} : Connects(n, p, mr)
      BY <1>1, <1>4 DEF Connects
    <2> QED
      BY <1>1, <1>2, <2>1 DEF p
  <1>5. CASE recv[peerEnd[n][p]] # "filled" /\ Die(n) /\ UNCHANGED <<connected, peerMR, incoming>>
    <2>1. recvCQ[n] - 1 \in Nat /\ recvCQ[n] >= recvCQ[n] - 1
      BY <1>1 DEF QTypes, QueueTypes
    <2>2. /\ writeLog' = [writeLog EXCEPT ![n] = writeLog[n]] /\ writeLog[n] \in {"none", "full", "cleared"}
      BY <1>1 DEF QTypes, QueueTypes, degradeVars
    <2>3. Exits(n, p)
      BY <1>1, <1>5, <2>1, <2>2 DEF Exits, Ends1, degradeVars, peerVars
    <2> QED
      BY <1>1, <1>2, <2>3 DEF p
  <1> QED
    BY <1>3, <1>4, <1>5

LEMMA ConnectsTypes ==
  ASSUME IInv, QTypes, NEW n \in Nodes, NEW p \in Nodes, NEW mr, Connects(n, p, mr), recvCQ[n] > 0
  PROVE  QTypes'
  <1>1. /\ recvCQ' = [recvCQ EXCEPT ![n] = @ - 1]
        /\ UNCHANGED <<runVars, ctor, tested, peerEnd, degradeVars, recv, sq, sendCQ>>
    BY DEF Connects
  <1>2. recvCQ[n] - 1 \in Nat
    BY DEF QTypes, QueueTypes
  <1>3. QueueTypes' /\ EndsAtHome'
    BY <1>1, <1>2 DEF QTypes, QueueTypes, EndsAtHome, runVars, degradeVars
  <1>4. TestedRight'
    BY <1>1, TestedKept DEF QTypes
  <1> QED
    BY <1>3, <1>4 DEF QTypes

LEMMA DropsTypes ==
  ASSUME IInv, QTypes, NEW n \in Nodes, NEW e \in Ends, Peer(e) \in Nodes, Drops(n, e)
  PROVE  QTypes'
  <1>1. SqTyped
    BY DropSends
  <1>2. /\ writeLog' = [writeLog EXCEPT ![n] = IF degraded[n] = 0 THEN "cleared" ELSE @]
        /\ degraded' = [degraded EXCEPT ![n] = @ + 1]
        /\ peerEnd' = [peerEnd EXCEPT ![n][Peer(e)] = NoEnd]
        /\ recv' = [recv EXCEPT ![e] = "none"]
        /\ UNCHANGED <<runVars, ctorVars, recvCQ, sendCQ>>
    BY DEF Drops
  <1>3. peerEnd' \in [Nodes -> [Nodes -> Ends \cup {NoEnd}]] /\ degraded' \in [Nodes -> Nat]
    BY <1>2 DEF QTypes, QueueTypes
  <1>4. QueueTypes'
    BY <1>1, <1>2, <1>3 DEF QTypes, QueueTypes, SqTyped, runVars, ctorVars
  <1>5. EndsAtHome'
    BY <1>2 DEF QTypes, QueueTypes, EndsAtHome
  <1>6. TestedRight'
    BY <1>2, TestedKept DEF QTypes, ctorVars
  <1> QED
    BY <1>4, <1>5, <1>6 DEF QTypes


\* A request of end e completes: as the MR that fills the receive at the other
\* end, or with nothing else.
Fills(e) ==
    /\ Finish(e)
    /\ Head(sq[e]) = "mr" /\ recv[Other(e)] = "posted" /\ Running(Peer(e))
    /\ recv' = [recv EXCEPT ![Other(e)] = "filled"]
    /\ recvCQ' = [recvCQ EXCEPT ![Peer(e)] = @ + 1]
    /\ UNCHANGED <<runVars, ctorVars, listener, cmVars, peerVars, degradeVars>>

Completes(e) ==
    /\ Finish(e)
    /\ UNCHANGED <<runVars, ctorVars, listener, cmVars, peerVars, degradeVars, recv, recvCQ>>

LEMMA AdapterIs ==
  ASSUME NEW e \in Ends, Adapter(e)
  PROVE  Fills(e) \/ Completes(e)
  BY DEF Adapter, DeliverMR, DeliverWrite, FailRequest, Fills, Completes

LEMMA FillsTypes ==
  ASSUME IInv, QTypes, NEW e \in Ends, Fills(e)
  PROVE  QTypes'
  <1>1. SqTyped /\ sendCQ' \in [Nodes -> Nat]
    BY FinishSends DEF Fills
  <1>2. /\ recv' = [recv EXCEPT ![Other(e)] = "filled"]
        /\ recvCQ' = [recvCQ EXCEPT ![Peer(e)] = @ + 1]
        /\ UNCHANGED <<runVars, ctorVars, peerVars, degradeVars>>
    BY DEF Fills
  <1>a. recv' \in [Ends -> {"none", "posted", "filled"}] /\ recvCQ' \in [Nodes -> Nat]
    <2>1. Peer(e) \in Nodes
      BY EndForms DEF Peer
    <2>2. recv \in [Ends -> {"none", "posted", "filled"}] /\ recvCQ \in [Nodes -> Nat]
      BY DEF QTypes, QueueTypes
    <2>3. recv' \in [Ends -> {"none", "posted", "filled"}]
      BY <1>2, <2>2
    <2>4. recvCQ' \in [Nodes -> Nat]
      BY <1>2, <2>1, <2>2
    <2> QED
      BY <2>3, <2>4
  <1>3. QueueTypes' /\ EndsAtHome'
    BY <1>1, <1>2, <1>a DEF QTypes, QueueTypes, EndsAtHome, SqTyped, runVars, ctorVars, peerVars, degradeVars
  <1>4. TestedRight'
    BY <1>2, TestedKept DEF QTypes, ctorVars
  <1> QED
    BY <1>3, <1>4 DEF QTypes

LEMMA CompletesTypes ==
  ASSUME IInv, QTypes, NEW e \in Ends, Completes(e)
  PROVE  QTypes'
  <1>1. SqTyped /\ sendCQ' \in [Nodes -> Nat]
    BY FinishSends DEF Completes
  <1>2. UNCHANGED <<runVars, ctorVars, peerVars, degradeVars, recv, recvCQ>>
    BY DEF Completes
  <1>3. QueueTypes' /\ EndsAtHome'
    BY <1>1, <1>2 DEF QTypes, QueueTypes, EndsAtHome, SqTyped, runVars, ctorVars, peerVars, degradeVars
  <1>4. TestedRight'
    BY <1>2, TestedKept DEF QTypes, ctorVars
  <1> QED
    BY <1>3, <1>4 DEF QTypes

LEMMA RecoverTypes ==
  ASSUME IInv, QTypes, NEW n \in Nodes, Recover(n)
  PROVE  QTypes'
  <1>1. QueueTypes'
    <2>1. /\ recovering' \subseteq Restartable /\ spurious' = spurious
          /\ tested' = [tested EXCEPT ![n] = {}]
          /\ degraded' = [degraded EXCEPT ![n] = 0]
          /\ writeLog' = [writeLog EXCEPT ![n] = "none"]
          /\ recvCQ' = [recvCQ EXCEPT ![n] = 0]
          /\ sendCQ' = [sendCQ EXCEPT ![n] = 0]
      BY DEF Recover
    <2>2. recv' \in [Ends -> {"none", "posted", "filled"}]
      BY DEF Recover, QTypes, QueueTypes
    <2>3. sq' \in [Ends -> Seq({"mr", "test"})]
      <3>1. /\ sq' = [e \in Ends |-> IF Here(e) = n THEN <<>> ELSE sq[e]]
            /\ sq \in [Ends -> Seq({"mr", "test"})]
        BY DEF Recover, QTypes, QueueTypes
      <3> QED
        BY <3>1
    <2>4. peerEnd' \in [Nodes -> [Nodes -> Ends \cup {NoEnd}]]
      BY DEF Recover, QTypes, QueueTypes
    <2> QED
      BY <2>1, <2>2, <2>3, <2>4 DEF QTypes, QueueTypes
  <1>2. EndsAtHome'
    <2>1. peerEnd' = [peerEnd EXCEPT ![n] = [p \in Nodes |-> NoEnd]]
      BY DEF Recover
    <2> QED
      BY <2>1 DEF QTypes, QueueTypes, EndsAtHome
  <1>3. TestedRight'
    <2>1. /\ ctor' = [ctor EXCEPT ![n] = "check"] /\ tested' = [tested EXCEPT ![n] = {}]
      BY DEF Recover
    <2> QED
      BY <2>1 DEF QTypes, QueueTypes, TestedRight, IInv, Types
  <1> QED
    BY <1>1, <1>2, <1>3 DEF QTypes

LEMMA StutterTypes == QTypes /\ UNCHANGED vars => QTypes'
  <1> SUFFICES ASSUME QTypes, UNCHANGED vars PROVE QTypes'
    OBVIOUS
  <1>1. UNCHANGED <<runVars, ctorVars, peerVars, degradeVars, nicVars>>
    BY DEF vars
  <1>2. QueueTypes' /\ EndsAtHome'
    BY <1>1 DEF QTypes, QueueTypes, EndsAtHome, runVars, ctorVars, peerVars, degradeVars, nicVars
  <1>3. TestedRight'
    BY <1>1, TestedKept DEF QTypes, ctorVars
  <1> QED
    BY <1>2, <1>3 DEF QTypes

-----------------------------------------------------------------------------
(* Before a node comes back: what steps have in common.                    *)

BInv == IInv /\ QTypes /\ recovering = {} /\ Before

Stage(n, p) == Resolving(n, p) \/ Resolved(n, p) \/ Requested(n, p) \/ Accepted(n, p) \/ AcceptedAt(n, p)

LEMMA StageDown ==
  ASSUME IInv, recovering = {}, NEW n \in Nodes, NEW p \in Nodes, Stage(n, p)
  PROVE  /\ p < n /\ n # p /\ p \in Others(n) /\ n \in Others(p) /\ Once(n, p)
         /\ ActiveEnd(n, p) = EndAt(n, p) /\ Passive(n, p) = EndAt(p, n)
  <1>1. n \in Int /\ p \in Int
    BY DEF Nodes
  <1>2. p < n
    <2>1. DownwardsOnly
      BY DEF IInv
    <2>2. \A k \in Nodes : \A kind, e : Event(kind, e) \in events[k] /\ kind # "DISCONNECTED" => e.to < e.from
      BY <2>1 DEF DownwardsOnly, Event
    <2>3. /\ ActiveEnd(n, p).to = p /\ ActiveEnd(n, p).from = n
          /\ Passive(n, p).to = p /\ Passive(n, p).from = n
      BY PassiveIs
    <2> QED
      BY <2>2, <2>3 DEF Stage, Resolving, Resolved, Requested, Accepted, AcceptedAt
  <1>3. Once(n, p)
    BY <1>2 DEF IInv, EachOnce
  <1> QED
    BY <1>1, <1>2, <1>3 DEF EndAt, Others

LEMMA PollsDown ==
  ASSUME IInv, recovering = {}, NEW n \in Nodes, listener[n].at = "poll"
  PROVE  LET p == Peer(listener[n].end)
         IN  /\ p \in Others(n) /\ listener[n].end = EndAt(n, p)
             /\ ~Counted(n, p)
  <1> DEFINE e == listener[n].end
             p == Peer(e)
  <1>1. e \in Ends /\ Here(e) = n /\ e.to < e.from
    BY DEF IInv, AtHome, DownwardsOnly
  <1>2. p \in Nodes /\ n # p /\ e = EndAt(n, p)
    BY <1>1, DownEnd
  <1>3. n \in Int /\ p \in Int
    BY <1>2 DEF Nodes
  <1>4. CASE p < n
    <2>1. e = ActiveEnd(n, p)
      BY <1>2, <1>4 DEF EndAt
    <2>2. Once(n, p) /\ Polling(n, p)
      BY <1>2, <1>4, <2>1 DEF IInv, EachOnce, Polling
    <2> QED
      BY <1>2, <2>2 DEF Once, Others
  <1>5. CASE n < p
    <2>1. e = Passive(p, n)
      BY <1>2, <1>3, <1>5 DEF EndAt
    <2>2. Once(p, n) /\ PollingAt(p, n)
      BY <1>2, <1>5, <2>1 DEF IInv, EachOnce, PollingAt
    <2> QED
      BY <1>2, <2>2 DEF Once, Others
  <1> QED
    BY <1>2, <1>3, <1>4, <1>5

LEMMA DoneIdle ==
  ASSUME IInv, recovering = {}, NEW n \in Nodes, ctor[n] = "done", NEW p \in Nodes
  PROVE  /\ ~Resolving(n, p) /\ ~Resolved(n, p) /\ ~Requested(p, n) /\ ~Accepted(n, p)
         /\ ~AcceptedAt(p, n) /\ listener[n].at # "poll"
  <1>1. \A q \in Others(n) : Counted(n, q)
    BY DEF IInv, ReadyMeansCounted
  <1>2. ASSUME Resolving(n, p) \/ Resolved(n, p) \/ Accepted(n, p) PROVE FALSE
    <2>1. p \in Others(n) /\ Once(n, p)
      BY <1>2, StageDown DEF Stage
    <2> QED
      BY <1>1, <1>2, <2>1 DEF Once, Answered
  <1>3. ASSUME Requested(p, n) \/ AcceptedAt(p, n) PROVE FALSE
    <2>1. p \in Others(n) /\ Once(p, n)
      BY <1>3, StageDown DEF Stage
    <2> QED
      BY <1>1, <1>3, <2>1 DEF Once, Answered, AtPassive
  <1>4. listener[n].at # "poll"
    BY NothingLeft
  <1> QED
    BY <1>2, <1>3, <1>4

\* No step sets a connection up anew, or takes back what has been received.
Progress ==
    \A n \in Nodes : \A p \in Others(n) :
        /\ Unbuilt(n, p)' => Unbuilt(n, p)
        /\ \/ recv'[EndAt(n, p)] \in {recv[EndAt(n, p)], "none"}
           \/ ~Unbuilt(n, p)' /\ (recv'[EndAt(n, p)] = "posted" => Unbuilt(n, p))

LEMMA Advance ==
  ASSUME UnbuiltBare, Progress
  PROVE  UnbuiltBare' /\ \A n \in Nodes : Reached(n) \subseteq Reached(n)'
  <1>1. UnbuiltBare'
    BY DEF UnbuiltBare, Progress
  <1>2. ASSUME NEW n \in Nodes, NEW p \in Reached(n) PROVE p \in Reached(n)'
    <2>1. p \in Others(n) /\ ~Unbuilt(n, p) /\ recv[EndAt(n, p)] # "posted"
      BY DEF Reached
    <2>2. ~Unbuilt(n, p)' /\ recv'[EndAt(n, p)] # "posted"
      BY <2>1 DEF Progress
    <2> QED
      BY <2>1, <2>2 DEF Reached
  <1> QED
    BY <1>1, <1>2

\* A property of a step that does not take from the counts.
LEMMA ReceivesKept ==
  ASSUME IInv, QTypes, ReceivesBound, IInv', QTypes', \A n \in Nodes : Reached(n) \subseteq Reached(n)',
         \A n \in Nodes : recvCQ'[n] + incoming'[n] <= recvCQ[n] + incoming[n]
  PROVE  ReceivesBound'
  <1> SUFFICES ASSUME NEW n \in Nodes PROVE recvCQ'[n] + incoming'[n] <= Cardinality(Reached(n)')
    BY DEF ReceivesBound
  <1>1. Reached(n)' \subseteq Nodes
    BY DEF Reached, Others
  <1>2. /\ Cardinality(Reached(n)) <= Cardinality(Reached(n)')
        /\ Cardinality(Reached(n)) \in Nat /\ Cardinality(Reached(n)') \in Nat
    BY <1>1, SomeNodes
  <1>3. recvCQ[n] + incoming[n] <= Cardinality(Reached(n))
    BY DEF ReceivesBound
  <1>4. recvCQ[n] + incoming[n] \in Nat /\ recvCQ'[n] + incoming'[n] \in Nat
    <2>1. /\ recvCQ \in [Nodes -> Nat] /\ incoming \in [Nodes -> Nat]
          /\ recvCQ' \in [Nodes -> Nat] /\ incoming' \in [Nodes -> Nat]
      BY DEF IInv, Types, QTypes, QueueTypes
    <2> QED
      BY <2>1
  <1> QED
    BY <1>2, <1>3, <1>4

LEMMA DirtyKept ==
  ASSUME IInv, QTypes, Dirty, IInv', QTypes', \A n \in Nodes : Reached(n) \subseteq Reached(n)',
         \A n \in Nodes : recvCQ'[n] + incoming'[n] <= recvCQ[n] + incoming[n],
         \A n \in Nodes : ctor[n] = "aborted" => ctor'[n] = "aborted"
  PROVE  Dirty'
  <1>1. PICK r \in Nodes, q \in Nodes :
          /\ r # q /\ ctor[r] = "aborted"
          /\ recvCQ[q] + incoming[q] <= Cardinality(Reached(q) \ {r})
    BY DEF Dirty
  <1>2. Reached(q)' \ {r} \subseteq Nodes /\ Reached(q) \ {r} \subseteq Reached(q)' \ {r}
    BY DEF Reached, Others
  <1>3. /\ Cardinality(Reached(q) \ {r}) <= Cardinality(Reached(q)' \ {r})
        /\ Cardinality(Reached(q) \ {r}) \in Nat /\ Cardinality(Reached(q)' \ {r}) \in Nat
    BY <1>2, SomeNodes
  <1>4. \A m \in Nodes : recvCQ[m] + incoming[m] \in Nat /\ recvCQ'[m] + incoming'[m] \in Nat
    <2>1. /\ recvCQ \in [Nodes -> Nat] /\ incoming \in [Nodes -> Nat]
          /\ recvCQ' \in [Nodes -> Nat] /\ incoming' \in [Nodes -> Nat]
      BY DEF IInv, Types, QTypes, QueueTypes
    <2> QED
      BY <2>1
  <1>5. recvCQ'[q] + incoming'[q] <= Cardinality(Reached(q)' \ {r})
    BY <1>1, <1>3, <1>4
  <1> QED
    BY <1>1, <1>5 DEF Dirty

\* Who has ended stays so, and no end of its peers breaks again.
LEMMA DegradedKept ==
  ASSUME QTypes, DegradedBound, degraded' = degraded,
         \A n, p \in Nodes : ctor[p] = "aborted" =>
             ctor'[p] = "aborted" /\ (Broken(n, EndAt(n, p))' => Broken(n, EndAt(n, p)))
  PROVE  DegradedBound'
  <1> SUFFICES ASSUME NEW n \in Nodes PROVE degraded[n] <= Cardinality(Lost(n)')
    BY DEF DegradedBound
  <1>1. Lost(n)' \subseteq Nodes /\ Lost(n) \subseteq Lost(n)'
    BY DEF Lost, Others
  <1>2. /\ Cardinality(Lost(n)) <= Cardinality(Lost(n)')
        /\ Cardinality(Lost(n)) \in Nat /\ Cardinality(Lost(n)') \in Nat
    BY <1>1, SomeNodes
  <1>3. degraded[n] <= Cardinality(Lost(n)) /\ degraded[n] \in Nat
    BY DEF DegradedBound, QTypes, QueueTypes
  <1> QED
    BY <1>2, <1>3

LEMMA SentIs ==
  ASSUME NEW n \in Nodes, UNCHANGED peerMR,
         listener'[n] = listener[n] \/ (listener[n].at # "poll" /\ listener'[n].at # "poll")
  PROVE  Sent(n)' = Sent(n)
  BY DEF Sent, Counted, Polls

\* A node with what it has sent as before.
SendsSame(n) ==
    /\ Uncollected(n)' = Uncollected(n) /\ tested'[n] = tested[n] /\ Sent(n)' = Sent(n)
    /\ HasPosted(n)' <=> HasPosted(n)
    /\ ctor[n] = "aborted" <=> ctor'[n] = "aborted"

LEMMA SendsKept ==
  ASSUME NEW n \in Nodes, SendsSame(n)
  PROVE  /\ SendsAt(n) => SendsAt(n)'
         /\ Owed(n) <= Uncollected(n) + Cardinality(tested[n])
              => Owed(n)' <= Uncollected(n)' + Cardinality(tested'[n])
         /\ Owed(n)' = Owed(n)
  <1>1. Owed(n)' = Owed(n)
    BY DEF SendsSame, Owed
  <1> QED
    BY <1>1 DEF SendsSame, SendsAt


\* Steps in which no connection takes a step and no process ends.
LEMMA InnerKeeps ==
  ASSUME BInv, IInv', QTypes',
         UNCHANGED <<events, up, peerEnd, incoming, degraded, recv, recvCQ>>,
         \A n \in Nodes : /\ ctor'[n] = "off" <=> ctor[n] = "off"
                          /\ ctor'[n] = "aborted" <=> ctor[n] = "aborted",
         \A n \in Nodes : Sent(n)' = Sent(n) /\ SendsAt(n)',
         \A e \in Ends : e.from <= e.to => sq'[e] = <<>>,
         NobodyDied => PostedWasSent' /\ SentExactly',
         Clean => Clean'
  PROVE  Before'
  <1>1. StagesSame /\ BrokenSame
    BY EventsSame
  <1>2. \A n \in Nodes : \A p \in Others(n) : Unbuilt(n, p)' <=> Unbuilt(n, p)
    BY <1>1 DEF StagesSame, Unbuilt, ComingAt, Coming, Others
  <1>3. Progress
    BY <1>2 DEF Progress
  <1>4. UnbuiltBare' /\ \A n \in Nodes : Reached(n) \subseteq Reached(n)'
    BY <1>3, Advance DEF BInv, Before
  <1>5. Downwards'
    BY DEF BInv, Before, Downwards
  <1>6. \A n \in Nodes : recvCQ'[n] + incoming'[n] <= recvCQ[n] + incoming[n]
    BY DEF BInv, IInv, Types, QTypes, QueueTypes
  <1>7. ReceivesBound'
    BY <1>4, <1>6, ReceivesKept DEF BInv, Before
  <1>8. SendsBound'
    BY DEF SendsBound
  <1>9. DegradedBound'
    <2>1. \A n, p \in Nodes : n # p => (Broken(n, EndAt(n, p))' <=> Broken(n, EndAt(n, p)))
      BY <1>1, EndAtIs DEF BrokenSame
    <2>2. \A n, p \in Nodes : Broken(n, EndAt(n, p))' <=> Broken(n, EndAt(n, p))
      BY DEF Broken
    <2> QED
      BY <2>2, DegradedKept DEF BInv, Before
  <1>10. DisconnectedUp'
    BY <1>1 DEF BInv, Before, DisconnectedUp, BrokenSame
  <1>11. NobodyDied' <=> NobodyDied
    BY DEF NobodyDied
  <1>12. ASSUME NobodyDied PROVE Undisturbed'
    <2>1. \A n \in Nodes : Filled(n)' = Filled(n)
      BY DEF Filled
    <2>2. ReceivedExactly' /\ FilledWasSent'
      BY <1>12, <2>1 DEF BInv, Before, Undisturbed, ReceivedExactly, FilledWasSent, Filled, Others
    <2>3. InUse'
      BY <1>1, <1>12 DEF BInv, Before, Undisturbed, InUse, StagesSame
    <2> QED
      BY <1>12, <2>2, <2>3 DEF Undisturbed
  <1>13. ASSUME Dirty PROVE Dirty'
    BY <1>4, <1>6, <1>13, DirtyKept DEF BInv
  <1> QED
    BY <1>4, <1>5, <1>7, <1>8, <1>9, <1>10, <1>11, <1>12, <1>13 DEF BInv, Before

\* Once all but one are up, no constructor is under way.
LEMMA CleanIs ==
  ASSUME Clean, NEW n \in Nodes
  PROVE  ctor[n] \in {"done", "aborted"}
  BY DEF Clean, Others

LEMMA MovesBefore ==
  ASSUME BInv, IInv', QTypes', NEW n \in Nodes, Moves(n)
  PROVE  Before'
  <1>1. /\ ctor[n] \in EarlyPlaces /\ ctor[n] # "off" /\ ctor'[n] \in EarlyPlaces /\ ctor'[n] # "off"
        /\ \A m \in Nodes : m # n => ctor'[m] = ctor[m]
        /\ UNCHANGED <<tested, listener, cmVars, peerVars, degradeVars, nicVars>>
    BY DEF Moves, BInv, IInv, Types
  <1>2. UNCHANGED <<events, up, peerEnd, peerMR, incoming, degraded, recv, recvCQ, sq, sendCQ>>
    BY <1>1 DEF cmVars, peerVars, degradeVars, nicVars
  <1>3. \A m \in Nodes : /\ ctor'[m] = "off" <=> ctor[m] = "off"
                         /\ ctor'[m] = "aborted" <=> ctor[m] = "aborted"
    BY <1>1 DEF EarlyPlaces
  <1>4. \A m \in Nodes : Sent(m)' = Sent(m)
    BY <1>1, <1>2, SentIs
  <1>5. \A m \in Nodes : SendsSame(m)
    <2>1. \A m \in Nodes : Uncollected(m)' = Uncollected(m)
      BY <1>2, UncollectedSame DEF BInv
    <2>2. \A m \in Nodes : HasPosted(m)' <=> HasPosted(m)
      BY <1>1 DEF HasPosted, EarlyPlaces
    <2> QED
      BY <1>1, <1>3, <1>4, <2>1, <2>2 DEF SendsSame
  <1>6. \A m \in Nodes : SendsAt(m)'
    BY <1>5, SendsKept DEF BInv, Before, SendsBound
  <1>7. \A e \in Ends : e.from <= e.to => sq'[e] = <<>>
    BY <1>2 DEF BInv, Before, Downwards
  <1>8. NobodyDied => PostedWasSent' /\ SentExactly'
    <2>1. ASSUME NobodyDied PROVE PostedWasSent'
      BY <1>2, <1>4, <2>1, EndForms DEF BInv, Before, Undisturbed, PostedWasSent
    <2>2. ASSUME NobodyDied PROVE SentExactly'
      BY <1>5, <2>2, SendsKept DEF BInv, Before, Undisturbed, SentExactly
    <2> QED
      BY <2>1, <2>2
  <1>9. ~Clean
    BY <1>1, CleanIs DEF EarlyPlaces
  <1> QED
    BY <1>2, <1>3, <1>4, <1>6, <1>7, <1>8, <1>9, InnerKeeps

LEMMA NotifyBefore ==
  ASSUME BInv, IInv', QTypes', NEW n \in Nodes, Notify(n)
  PROVE  Before'
  <1>1. /\ ctor' = [ctor EXCEPT ![n] = IF @ = "wait" THEN "check" ELSE @]
        /\ listener' = [listener EXCEPT ![n] = Idle] /\ listener[n].at = "notify"
        /\ UNCHANGED <<tested, cmVars, peerVars, degradeVars, nicVars>>
    BY DEF Notify
  <1>2. UNCHANGED <<events, up, peerEnd, connected, peerMR, incoming, degraded, recv, recvCQ, sq, sendCQ>>
    BY <1>1 DEF cmVars, peerVars, degradeVars, nicVars
  <1>a. \A m \in Nodes : ctor'[m] = ctor[m] \/ (ctor[m] = "wait" /\ ctor'[m] = "check")
    <2>1. \A m \in Nodes : m # n => ctor'[m] = ctor[m]
      BY <1>1 DEF BInv, IInv, Types
    <2>2. ctor'[n] = IF ctor[n] = "wait" THEN "check" ELSE ctor[n]
      BY <1>1 DEF BInv, IInv, Types
    <2>3. ctor'[n] = ctor[n] \/ (ctor[n] = "wait" /\ ctor'[n] = "check")
      BY <2>2
    <2> QED
      BY <2>1, <2>3
  <1>b. \A m \in Nodes : listener'[m] = listener[m] \/ (listener[m].at # "poll" /\ listener'[m].at # "poll")
    BY <1>1 DEF BInv, IInv, Types, Idle
  <1>3. \A m \in Nodes : /\ ctor'[m] = "off" <=> ctor[m] = "off"
                         /\ ctor'[m] = "aborted" <=> ctor[m] = "aborted"
    BY <1>a
  <1>4. \A m \in Nodes : Sent(m)' = Sent(m)
    BY <1>b, <1>2, SentIs
  <1>5. \A m \in Nodes : SendsSame(m)
    <2>1. \A m \in Nodes : Uncollected(m)' = Uncollected(m)
      BY <1>2, UncollectedSame DEF BInv
    <2>2. \A m \in Nodes : HasPosted(m)' <=> HasPosted(m)
      BY <1>a DEF HasPosted
    <2> QED
      BY <1>1, <1>3, <1>4, <2>1, <2>2 DEF SendsSame
  <1>6. \A m \in Nodes : SendsAt(m)'
    BY <1>5, SendsKept DEF BInv, Before, SendsBound
  <1>7. \A e \in Ends : e.from <= e.to => sq'[e] = <<>>
    BY <1>2 DEF BInv, Before, Downwards
  <1>8. NobodyDied => PostedWasSent' /\ SentExactly'
    <2>1. ASSUME NobodyDied PROVE PostedWasSent'
      BY <1>2, <1>4, <2>1, EndForms DEF BInv, Before, Undisturbed, PostedWasSent
    <2>2. ASSUME NobodyDied PROVE SentExactly'
      BY <1>5, <2>2, SendsKept DEF BInv, Before, Undisturbed, SentExactly
    <2> QED
      BY <2>1, <2>2
  <1>9. Clean => Clean'
    BY <1>2, <1>a DEF Clean, Others
  <1> QED
    BY <1>2, <1>3, <1>4, <1>6, <1>7, <1>8, <1>9, InnerKeeps


LEMMA AppendedMR ==
  ASSUME NEW s \in Seq({"mr", "test"}), NEW v \in {"mr", "test"}, NEW i \in DOMAIN Append(s, v),
         Append(s, v)[i] = "mr", v = "mr" => i # Len(s) + 1
  PROVE  i \in DOMAIN s /\ s[i] = "mr"
  <1>1. DOMAIN Append(s, v) = 1 .. (Len(s) + 1) /\ DOMAIN s = 1 .. Len(s) /\ Len(s) \in Nat
    OBVIOUS
  <1>2. Append(s, v)[Len(s) + 1] = v
    OBVIOUS
  <1>3. i # Len(s) + 1
    BY <1>2
  <1>4. i \in 1 .. Len(s)
    BY <1>1, <1>3
  <1>5. Append(s, v)[i] = s[i]
    BY <1>4
  <1> QED
    BY <1>1, <1>4, <1>5

LEMMA TailMR ==
  ASSUME NEW s \in Seq({"mr", "test"}), s # <<>>, NEW i \in DOMAIN Tail(s)
  PROVE  i + 1 \in DOMAIN s /\ Tail(s)[i] = s[i + 1]
  <1>1. Len(s) \in Nat \ {0} /\ Len(Tail(s)) = Len(s) - 1 /\ Tail(s) \in Seq({"mr", "test"})
    OBVIOUS
  <1>2. DOMAIN Tail(s) = 1 .. (Len(s) - 1) /\ DOMAIN s = 1 .. Len(s)
    BY <1>1
  <1>3. i \in 1 .. (Len(s) - 1) /\ i + 1 \in 1 .. Len(s)
    BY <1>1, <1>2
  <1>4. Tail(s)[i] = s[i + 1]
    BY <1>1, <1>2, <1>3
  <1> QED
    BY <1>2, <1>3, <1>4

LEMMA TestsBefore ==
  ASSUME BInv, IInv', QTypes', NEW n \in Nodes, Tests(n)
  PROVE  Before'
  <1>1. /\ ctor[n] = "post" /\ ctor' = [ctor EXCEPT ![n] = "poll"]
        /\ \A p \in Others(n) : peerEnd[n][p] # NoEnd
        /\ sq' = [e \in Ends |-> IF \E p \in Others(n) : e = peerEnd[n][p]
                                 THEN Append(sq[e], "test") ELSE sq[e]]
        /\ UNCHANGED <<tested, listener, cmVars, peerVars, degraded, recv, recvCQ>>
    BY DEF Tests
  <1>2. UNCHANGED <<events, up, peerEnd, peerMR, incoming, degraded, recv, recvCQ>>
    BY <1>1 DEF cmVars, peerVars
  <1>3. ctor'[n] = "poll" /\ \A m \in Nodes : m # n => ctor'[m] = ctor[m]
    BY <1>1 DEF BInv, IInv, Types
  <1>4. \A m \in Nodes : /\ ctor'[m] = "off" <=> ctor[m] = "off"
                         /\ ctor'[m] = "aborted" <=> ctor[m] = "aborted"
    BY <1>1, <1>3
  <1>5. \A m \in Nodes : Sent(m)' = Sent(m)
    BY <1>1, <1>2, SentIs
  <1>6. ASSUME NEW m \in Nodes, m # n PROVE SendsSame(m)
    <2>1. Uncollected(m)' = Uncollected(m)
      <3>1. Uncollected(m)' = Uncollected(m) + 0
        BY <1>6, TestSends DEF BInv
      <3> QED
        BY <3>1, UncollectedType DEF BInv, QTypes
    <2> QED
      BY <1>1, <1>3, <1>5, <1>6, <2>1 DEF SendsSame, HasPosted
  <1>7. SendsAt(n)' /\ (Owed(n) <= Uncollected(n) + Cardinality(tested[n])
                          => Owed(n)' <= Uncollected(n)' + Cardinality(tested'[n]))
    <2>1. Uncollected(n)' = Uncollected(n) + ClusterSize - 1
      BY TestSends, UncollectedType, SizeAssumption DEF BInv, QTypes
    <2>2. Owed(n) = Cardinality(Sent(n)) + 0 /\ Owed(n)' = Cardinality(Sent(n)) + (ClusterSize - 1)
      BY <1>1, <1>3, <1>5 DEF Owed, HasPosted
    <2>3. Cardinality(Sent(n)) \in Nat /\ Cardinality(tested[n]) \in Nat /\ Uncollected(n) \in Nat
      <3>1. Sent(n) \subseteq Nodes /\ tested[n] \subseteq Nodes
        BY DEF Sent, Others, BInv, QTypes, QueueTypes
      <3> QED
        BY <3>1, SomeNodes, UncollectedType DEF BInv, QTypes
    <2>4. Uncollected(n) + Cardinality(tested[n]) <= Owed(n)
      BY <1>1 DEF BInv, Before, SendsBound, SendsAt
    <2>5. Uncollected(n)' + Cardinality(tested'[n]) <= Owed(n)'
      BY <1>1, <2>1, <2>2, <2>3, <2>4, SizeAssumption
    <2>6. Owed(n) <= Uncollected(n) + Cardinality(tested[n])
            => Owed(n)' <= Uncollected(n)' + Cardinality(tested'[n])
      BY <1>1, <2>1, <2>2, <2>3, SizeAssumption
    <2> QED
      BY <1>3, <2>5, <2>6 DEF SendsAt
  <1>8. \A m \in Nodes : SendsAt(m)'
    BY <1>6, <1>7, SendsKept DEF BInv, Before, SendsBound
  <1>9. \A e \in Ends : e.from <= e.to => sq'[e] = <<>>
    <2> SUFFICES ASSUME NEW e \in Ends, e.from <= e.to PROVE sq'[e] = <<>>
      OBVIOUS
    <2>1. ASSUME NEW p \in Others(n) PROVE e # peerEnd[n][p]
      <3>1. p \in Nodes /\ p # n /\ peerEnd[n][p] = EndAt(n, p)
        BY <1>1 DEF BInv, Before, Downwards, Others
      <3>2. EndAt(n, p).to < EndAt(n, p).from
        BY <3>1, EndAtIs
      <3>3. e.from \in Int /\ e.to \in Int
        BY DEF Ends, Nodes
      <3> QED
        BY <3>1, <3>2, <3>3
    <2>2. sq[e] = <<>>
      BY DEF BInv, Before, Downwards
    <2> QED
      BY <1>1, <2>1, <2>2
  <1>10. ASSUME NobodyDied PROVE PostedWasSent'
    <2> SUFFICES ASSUME NEW e \in Ends, NEW i \in DOMAIN sq'[e], sq'[e][i] = "mr"
                 PROVE  Peer(e) \in Sent(Here(e))'
      BY DEF PostedWasSent
    <2>1. sq[e] \in Seq({"mr", "test"}) /\ (sq'[e] = Append(sq[e], "test") \/ sq'[e] = sq[e])
      BY <1>1 DEF BInv, QTypes, QueueTypes
    <2>2. i \in DOMAIN sq[e] /\ sq[e][i] = "mr"
      BY <2>1, AppendedMR
    <2>3. Peer(e) \in Sent(Here(e)) /\ Here(e) \in Nodes
      BY <1>10, <2>2, EndForms DEF BInv, Before, Undisturbed, PostedWasSent, Here
    <2> QED
      BY <1>5, <2>3
  <1>11. ASSUME NobodyDied PROVE SentExactly'
    BY <1>6, <1>7, <1>11, SendsKept DEF BInv, Before, Undisturbed, SentExactly
  <1>12. ~Clean
    BY <1>1, CleanIs
  <1> QED
    BY <1>2, <1>4, <1>5, <1>8, <1>9, <1>10, <1>11, <1>12, InnerKeeps

LEMMA TestedBefore ==
  ASSUME BInv, IInv', QTypes', NEW n \in Nodes, NEW p \in Nodes, Tested(n, p)
  PROVE  Before'
  <1>1. /\ ctor[n] = "poll" /\ sendCQ[n] > 0 /\ sendCQ' = [sendCQ EXCEPT ![n] = @ - 1]
        /\ p \in Others(n) \ tested[n] /\ tested' = [tested EXCEPT ![n] = @ \cup {p}]
        /\ ctor' = [ctor EXCEPT ![n] = IF tested'[n] = Others(n) THEN "done" ELSE @]
        /\ UNCHANGED <<listener, cmVars, peerVars, degradeVars, recv, recvCQ, sq>>
    BY DEF Tested
  <1>2. UNCHANGED <<events, up, peerEnd, peerMR, incoming, degraded, recv, recvCQ, sq>>
    BY <1>1 DEF cmVars, peerVars, degradeVars
  <1>3. ctor'[n] \in {"poll", "done"} /\ \A m \in Nodes : m # n => ctor'[m] = ctor[m]
    BY <1>1 DEF BInv, IInv, Types
  <1>4. \A m \in Nodes : /\ ctor'[m] = "off" <=> ctor[m] = "off"
                         /\ ctor'[m] = "aborted" <=> ctor[m] = "aborted"
    BY <1>1, <1>3
  <1>5. \A m \in Nodes : Sent(m)' = Sent(m)
    BY <1>1, <1>2, SentIs
  <1>a. /\ sendCQ'[n] = sendCQ[n] - 1 /\ tested'[n] = tested[n] \cup {p}
        /\ \A m \in Nodes : m # n => sendCQ'[m] = sendCQ[m] /\ tested'[m] = tested[m]
    BY <1>1 DEF BInv, QTypes, QueueTypes
  <1>b. \A m \in Nodes : Uncollected(m)' = sendCQ'[m] + Cardinality(PostedIn(sq, m))
    BY <1>2, UncollectedNext
  <1>6. ASSUME NEW m \in Nodes, m # n PROVE SendsSame(m)
    <2>1. Uncollected(m)' = Uncollected(m)
      BY <1>a, <1>b, <1>6, UncollectedType DEF BInv, QTypes
    <2> QED
      BY <1>a, <1>3, <1>5, <1>6, <2>1 DEF SendsSame, HasPosted
  <1>7. SendsAt(n)' /\ (Owed(n) <= Uncollected(n) + Cardinality(tested[n])
                          => Owed(n)' <= Uncollected(n)' + Cardinality(tested'[n]))
    <2>1. /\ Uncollected(n) = sendCQ[n] + Cardinality(PostedIn(sq, n))
          /\ Cardinality(PostedIn(sq, n)) \in Nat /\ sendCQ[n] \in Nat
      BY UncollectedType DEF BInv, QTypes
    <2>2. Owed(n)' = Owed(n)
      BY <1>1, <1>3, <1>5 DEF Owed, HasPosted
    <2>3. tested[n] \subseteq Nodes
      BY DEF BInv, QTypes, QueueTypes
    <2>4. Cardinality(tested[n]) \in Nat /\ Cardinality(tested'[n]) = Cardinality(tested[n]) + 1
      BY <1>1, <1>a, <2>3, SomeNodes
    <2>5. Uncollected(n)' + Cardinality(tested'[n]) = Uncollected(n) + Cardinality(tested[n])
      BY <1>a, <1>b, <2>1, <2>4
    <2>6. Uncollected(n) + Cardinality(tested[n]) <= Owed(n)
      BY <1>1 DEF BInv, Before, SendsBound, SendsAt
    <2> QED
      BY <1>3, <2>2, <2>5, <2>6 DEF SendsAt
  <1>8. \A m \in Nodes : SendsAt(m)'
    BY <1>6, <1>7, SendsKept DEF BInv, Before, SendsBound
  <1>9. \A e \in Ends : e.from <= e.to => sq'[e] = <<>>
    BY <1>2 DEF BInv, Before, Downwards
  <1>10. ASSUME NobodyDied PROVE PostedWasSent'
    BY <1>2, <1>5, <1>10, EndForms DEF BInv, Before, Undisturbed, PostedWasSent
  <1>11. ASSUME NobodyDied PROVE SentExactly'
    BY <1>6, <1>7, <1>11, SendsKept DEF BInv, Before, Undisturbed, SentExactly
  <1>12. ~Clean
    BY <1>1, CleanIs
  <1> QED
    BY <1>2, <1>4, <1>5, <1>8, <1>9, <1>10, <1>11, <1>12, InnerKeeps

\* What completing a request does to what has been sent.
LEMMA FinishBefore ==
  ASSUME BInv, NEW e \in Ends, Finish(e), UNCHANGED <<ctor, tested, listener, peerMR>>
  PROVE  /\ \A m \in Nodes : Sent(m)' = Sent(m) /\ SendsAt(m)'
         /\ \A d \in Ends : d.from <= d.to => sq'[d] = <<>>
         /\ NobodyDied => PostedWasSent' /\ SentExactly'
         /\ ~Clean /\ e.to < e.from
  <1>1. /\ sq[e] # <<>> /\ sq' = [sq EXCEPT ![e] = Tail(@)]
        /\ \A m \in Nodes : Uncollected(m)' = Uncollected(m)
        /\ sq \in [Ends -> Seq({"mr", "test"})]
    BY FinishSends DEF BInv, QTypes, QueueTypes
  <1>2. \A m \in Nodes : Sent(m)' = Sent(m)
    BY SentIs
  <1>3. \A m \in Nodes : SendsSame(m)
    BY <1>1, <1>2 DEF SendsSame, HasPosted
  <1>4. \A m \in Nodes : SendsAt(m)'
    BY <1>3, SendsKept DEF BInv, Before, SendsBound
  <1>5. e.to < e.from
    <2>1. e.from \in Int /\ e.to \in Int
      BY DEF Ends, Nodes
    <2> QED
      BY <1>1, <2>1 DEF BInv, Before, Downwards
  <1>6. \A d \in Ends : d.from <= d.to => sq'[d] = <<>>
    <2>1. \A d \in Ends : d.from <= d.to => sq[d] = <<>> /\ d # e
      BY <1>1 DEF BInv, Before, Downwards
    <2> QED
      BY <1>1, <2>1
  <1>7. ASSUME NobodyDied PROVE PostedWasSent'
    <2> SUFFICES ASSUME NEW d \in Ends, NEW i \in DOMAIN sq'[d], sq'[d][i] = "mr"
                 PROVE  Peer(d) \in Sent(Here(d))'
      BY DEF PostedWasSent
    <2>1. \E j \in DOMAIN sq[d] : sq[d][j] = "mr"
      <3>1. CASE d = e
        <4>1. sq'[d] = Tail(sq[d]) /\ sq[d] \in Seq({"mr", "test"}) /\ sq[d] # <<>>
          BY <1>1, <3>1
        <4> QED
          BY <4>1, TailMR
      <3>2. CASE d # e
        BY <1>1, <3>2
      <3> QED
        BY <3>1, <3>2
    <2>2. Peer(d) \in Sent(Here(d)) /\ Here(d) \in Nodes
      BY <1>7, <2>1, EndForms DEF BInv, Before, Undisturbed, PostedWasSent, Here
    <2> QED
      BY <1>2, <2>2
  <1>8. ASSUME NobodyDied PROVE SentExactly'
    BY <1>3, <1>8, SendsKept DEF BInv, Before, Undisturbed, SentExactly
  <1>9. ~Clean
    BY <1>1 DEF Clean
  <1> QED
    BY <1>2, <1>4, <1>5, <1>6, <1>7, <1>8, <1>9

LEMMA CompletesBefore ==
  ASSUME BInv, IInv', QTypes', NEW e \in Ends, Completes(e)
  PROVE  Before'
  <1>1. Finish(e) /\ UNCHANGED <<ctor, tested, listener, events, up, peerEnd, peerMR, incoming, degraded,
                                 recv, recvCQ>>
    BY DEF Completes, ctorVars, cmVars, peerVars, degradeVars
  <1>2. /\ \A m \in Nodes : Sent(m)' = Sent(m) /\ SendsAt(m)'
        /\ \A d \in Ends : d.from <= d.to => sq'[d] = <<>>
        /\ NobodyDied => PostedWasSent' /\ SentExactly'
        /\ ~Clean
    BY <1>1, FinishBefore
  <1> QED
    BY <1>1, <1>2, InnerKeeps


\* Steps in which a connection takes a step, and no process ends.
LEMMA StageKeeps ==
  ASSUME BInv, IInv', QTypes', Progress, Downwards', up \subseteq up', degraded' = degraded,
         \A n \in Nodes : ctor'[n] = "aborted" <=> ctor[n] = "aborted",
         \A n \in Nodes, e \in Ends : Broken(n, e)' => Broken(n, e),
         \A n \in Nodes : recvCQ'[n] + incoming'[n] <= recvCQ[n] + incoming[n],
         \A n \in Nodes : SendsAt(n)',
         NobodyDied => Undisturbed',
         ~Clean
  PROVE  Before'
  <1>1. UnbuiltBare' /\ \A n \in Nodes : Reached(n) \subseteq Reached(n)'
    BY Advance DEF BInv, Before
  <1>2. ReceivesBound'
    BY <1>1, ReceivesKept DEF BInv, Before
  <1>3. SendsBound'
    BY DEF SendsBound
  <1>4. DegradedBound'
    <2>1. ASSUME NEW n \in Nodes, NEW p \in Nodes, Broken(n, EndAt(n, p))' PROVE Broken(n, EndAt(n, p))
      <3>1. EndAt(n, p) \in Ends
        <4>1. events' \in [Nodes -> SUBSET [kind: EventKinds, end: Ends]]
          BY DEF IInv, Types
        <4> QED
          BY <2>1, <4>1 DEF Broken, Event
      <3> QED
        BY <2>1, <3>1
    <2> QED
      BY <2>1, DegradedKept DEF BInv, Before
  <1>5. DisconnectedUp'
    BY DEF BInv, Before, DisconnectedUp
  <1>6. NobodyDied' <=> NobodyDied
    BY DEF NobodyDied
  <1>7. ASSUME Dirty PROVE Dirty'
    BY <1>1, <1>7, DirtyKept DEF BInv
  <1> QED
    BY <1>1, <1>2, <1>3, <1>4, <1>5, <1>6, <1>7 DEF BInv, Before

LEMMA SumSame ==
  ASSUME QTypes, IInv, UNCHANGED <<recvCQ, incoming>>
  PROVE  \A n \in Nodes : recvCQ'[n] + incoming'[n] <= recvCQ[n] + incoming[n]
  BY DEF IInv, Types, QTypes, QueueTypes

\* Nothing about messages changes.
LEMMA SendsQuiet ==
  ASSUME BInv, UNCHANGED <<tested, listener, peerMR, sq, sendCQ>>,
         \A m \in Nodes : /\ HasPosted(m)' <=> HasPosted(m)
                          /\ ctor[m] = "aborted" <=> ctor'[m] = "aborted"
  PROVE  /\ \A m \in Nodes : Sent(m)' = Sent(m) /\ SendsAt(m)'
         /\ NobodyDied => PostedWasSent' /\ SentExactly'
  <1>1. \A m \in Nodes : Sent(m)' = Sent(m)
    BY SentIs
  <1>2. \A m \in Nodes : SendsSame(m)
    BY <1>1, UncollectedSame DEF BInv, SendsSame
  <1>3. \A m \in Nodes : SendsAt(m)'
    BY <1>2, SendsKept DEF BInv, Before, SendsBound
  <1>4. NobodyDied => PostedWasSent'
    BY <1>1, EndForms DEF BInv, Before, Undisturbed, PostedWasSent
  <1>5. NobodyDied => SentExactly'
    BY <1>2, SendsKept DEF BInv, Before, Undisturbed, SentExactly
  <1> QED
    BY <1>1, <1>3, <1>4, <1>5

LEMMA StartBefore ==
  ASSUME BInv, IInv', QTypes', NEW n \in Nodes, Start(n)
  PROVE  Before'
  <1>1. /\ ctor[n] = "off" /\ ctor' = [ctor EXCEPT ![n] = "check"]
        /\ UNCHANGED <<runVars, tested, listener, up, peerVars, degradeVars, nicVars>>
        /\ AskedStages(n, FALSE)
    BY AskedIs DEF Start, BInv
  <1>2. UNCHANGED <<tested, listener, up, peerEnd, peerMR, incoming, degraded, recv, recvCQ, sq, sendCQ>>
    BY <1>1 DEF peerVars, degradeVars, nicVars
  <1>3. ctor'[n] = "check" /\ \A m \in Nodes : m # n => ctor'[m] = ctor[m]
    BY <1>1 DEF BInv, IInv, Types
  <1>4. \A m \in Nodes : /\ HasPosted(m)' <=> HasPosted(m)
                         /\ ctor[m] = "aborted" <=> ctor'[m] = "aborted"
    BY <1>1, <1>3 DEF HasPosted
  <1>5. /\ \A m \in Nodes : Sent(m)' = Sent(m) /\ SendsAt(m)'
        /\ NobodyDied => PostedWasSent' /\ SentExactly'
    BY <1>2, <1>4, SendsQuiet
  <1>6. Progress
    <2>1. ASSUME NEW k \in Nodes, NEW l \in Others(k), Unbuilt(k, l)' PROVE Unbuilt(k, l)
      <3>1. l \in Nodes /\ k \in Int /\ l \in Int /\ n \in Int
        BY DEF Others, Nodes
      <3>2. /\ Coming(k, l)' => Coming(k, l)
            /\ Coming(l, k)' => Coming(l, k)
        BY <1>1, <1>3, <3>1 DEF AskedStages, Coming
      <3>3. ComingAt(l, k)' => ComingAt(l, k)
        BY <1>1, <3>1, <3>2 DEF AskedStages, ComingAt
      <3> QED
        BY <2>1, <3>2, <3>3 DEF Unbuilt
    <2> QED
      BY <1>2, <2>1 DEF Progress
  <1>7. Downwards'
    BY <1>2 DEF BInv, Before, Downwards
  <1>8. ASSUME NobodyDied PROVE Undisturbed'
    <2>1. \A m \in Nodes : Filled(m)' = Filled(m)
      BY <1>2 DEF Filled
    <2>2. ReceivedExactly' /\ FilledWasSent'
      BY <1>2, <1>5, <1>8, <2>1 DEF BInv, Before, Undisturbed, ReceivedExactly, FilledWasSent, Filled, Others
    <2>3. InUse'
      BY <1>1, <1>2, <1>5, <1>8 DEF BInv, Before, Undisturbed, InUse, AskedStages
    <2> QED
      BY <1>5, <1>8, <2>2, <2>3 DEF Undisturbed
  <1>9. ~Clean
    BY <1>1, CleanIs
  <1>10. \A m \in Nodes, e \in Ends : Broken(m, e)' => Broken(m, e)
    BY <1>1 DEF AskedStages
  <1>11. \A m \in Nodes : recvCQ'[m] + incoming'[m] <= recvCQ[m] + incoming[m]
    BY <1>2, SumSame DEF BInv
  <1> QED
    BY <1>2, <1>4, <1>5, <1>6, <1>7, <1>8, <1>9, <1>10, <1>11, StageKeeps

\* n builds its end for p, which was still to be built.
LEMMA BuiltBefore ==
  ASSUME BInv, IInv', QTypes', NEW n \in Nodes, NEW p \in Others(n), Built(n, p, EndAt(n, p)),
         Unbuilt(n, p), ~Unbuilt(n, p)', \A k \in Nodes : \A l \in Others(k) : Unbuilt(k, l)' => Unbuilt(k, l),
         BrokenSame, up \subseteq up', \A e \in up' : e.to < e.from,
         NobodyDied => InUse', ~Clean
  PROVE  Before'
  <1> DEFINE e == EndAt(n, p)
  <1>1. /\ e \in Ends /\ Here(e) = n /\ Peer(e) = p /\ p \in Nodes
        /\ peerEnd' = [peerEnd EXCEPT ![n][p] = e] /\ recv' = [recv EXCEPT ![e] = "posted"]
        /\ UNCHANGED <<ctorVars, listener, peerMR, incoming, degradeVars, recvCQ, sq, sendCQ>>
    BY DEF Built, Others
  <1>2. UNCHANGED <<ctor, tested, listener, peerMR, incoming, degraded, recvCQ, sq, sendCQ>>
    BY <1>1 DEF ctorVars, degradeVars
  <1>3. e.to < e.from /\ n # p
    BY EndAtIs DEF Others
  <1>4. recv[e] = "none"
    BY DEF BInv, Before, UnbuiltBare
  <1> HIDE DEF e
  <1>5. recv'[e] = "posted" /\ \A d \in Ends : d # e => recv'[d] = recv[d]
    BY <1>1 DEF BInv, QTypes, QueueTypes
  <1>6. /\ \A m \in Nodes : Sent(m)' = Sent(m) /\ SendsAt(m)'
        /\ NobodyDied => PostedWasSent' /\ SentExactly'
    BY <1>2, SendsQuiet DEF HasPosted
  <1>7. \A k \in Nodes : \A l \in Others(k) : ~(k = n /\ l = p) => recv'[EndAt(k, l)] = recv[EndAt(k, l)]
    <2> SUFFICES ASSUME NEW k \in Nodes, NEW l \in Others(k), ~(k = n /\ l = p)
                 PROVE  EndAt(k, l) \in Ends /\ EndAt(k, l) # e
      BY <1>5
    <2> QED
      BY <1>1, <1>3, OneEnd, EndAtIs DEF e, Others
  <1>8. Progress
    BY <1>7 DEF Progress
  <1>9. Downwards'
    <2>1. \A d \in Ends : d.from <= d.to => recv'[d] = "none" /\ sq'[d] = <<>>
      <3> SUFFICES ASSUME NEW d \in Ends, d.from <= d.to PROVE recv'[d] = "none" /\ sq'[d] = <<>>
        OBVIOUS
      <3>1. recv[d] = "none" /\ sq[d] = <<>>
        BY DEF BInv, Before, Downwards
      <3>2. d # e
        <4>1. d.from \in Int /\ d.to \in Int
          BY DEF Ends, Nodes
        <4> QED
          BY <1>3, <4>1
      <3> QED
        BY <1>2, <1>5, <3>1, <3>2
    <2>2. \A k, l \in Nodes : peerEnd'[k][l] # NoEnd => l # k /\ peerEnd'[k][l] = EndAt(k, l)
      <3> SUFFICES ASSUME NEW k \in Nodes, NEW l \in Nodes, peerEnd'[k][l] # NoEnd
                   PROVE  l # k /\ peerEnd'[k][l] = EndAt(k, l)
        OBVIOUS
      <3>1. CASE k = n /\ l = p
        BY <1>1, <1>3, <3>1 DEF BInv, QTypes, QueueTypes, e
      <3>2. CASE ~(k = n /\ l = p)
        <4>1. peerEnd'[k][l] = peerEnd[k][l]
          BY <1>1, <3>2 DEF BInv, QTypes, QueueTypes
        <4> QED
          BY <4>1 DEF BInv, Before, Downwards
      <3> QED
        BY <3>1, <3>2
    <2> QED
      BY <2>1, <2>2 DEF Downwards
  <1>10. ASSUME NobodyDied PROVE Undisturbed'
    <2>1. ASSUME NEW m \in Nodes PROVE Filled(m)' = Filled(m)
      <3>1. \A l \in Others(m) : recv'[EndAt(m, l)] = "filled" <=> recv[EndAt(m, l)] = "filled"
        <4> SUFFICES ASSUME NEW l \in Others(m)
                     PROVE  recv'[EndAt(m, l)] = "filled" <=> recv[EndAt(m, l)] = "filled"
          OBVIOUS
        <4>1. CASE m = n /\ l = p
          BY <1>4, <1>5, <4>1 DEF e
        <4>2. CASE ~(m = n /\ l = p)
          BY <1>7, <4>2
        <4> QED
          BY <4>1, <4>2
      <3> QED
        BY <3>1 DEF Filled
    <2>2. ReceivedExactly' /\ FilledWasSent'
      BY <1>2, <1>6, <1>10, <2>1 DEF BInv, Before, Undisturbed, ReceivedExactly, FilledWasSent, Filled, Others
    <2> QED
      BY <1>6, <1>10, <2>2 DEF Undisturbed
  <1>11. \A m \in Nodes : recvCQ'[m] + incoming'[m] <= recvCQ[m] + incoming[m]
    BY <1>2, SumSame DEF BInv
  <1>12. \A m \in Nodes, d \in Ends : Broken(m, d)' => Broken(m, d)
    BY DEF BrokenSame
  <1> QED
    BY <1>2, <1>6, <1>8, <1>9, <1>10, <1>11, <1>12, StageKeeps


LEMMA UnbuiltBut ==
  ASSUME NEW n \in Nodes, NEW p \in Nodes, p < n, ctor' = ctor, StagesBut(n, p),
         Coming(n, p)' => Coming(n, p), ComingAt(n, p)' => ComingAt(n, p)
  PROVE  \A k \in Nodes : \A l \in Others(k) : Unbuilt(k, l)' => Unbuilt(k, l)
  <1> SUFFICES ASSUME NEW k \in Nodes, NEW l \in Others(k), Unbuilt(k, l)' PROVE Unbuilt(k, l)
    OBVIOUS
  <1>1. l \in Nodes /\ k # l /\ k \in Int /\ l \in Int
    BY DEF Others, Nodes
  <1>2. CASE l < k
    <2>1. Coming(k, l)'
      BY <1>2 DEF Unbuilt
    <2>2. Coming(k, l)
      BY <1>1, <2>1 DEF Coming, StagesBut
    <2> QED
      BY <1>2, <2>2 DEF Unbuilt
  <1>3. CASE ~(l < k)
    <2>1. ComingAt(l, k)'
      BY <1>3 DEF Unbuilt
    <2>2. ComingAt(l, k)
      BY <1>1, <2>1 DEF ComingAt, Coming, StagesBut
    <2> QED
      BY <1>3, <2>2 DEF Unbuilt
  <1> QED
    BY <1>2, <1>3

LEMMA NotClean ==
  ASSUME IInv, recovering = {}, NEW n \in Nodes, Handles(n), NEW p \in Nodes,
         \/ Resolving(n, p) \/ Resolved(n, p) \/ Requested(p, n) \/ Accepted(n, p)
         \/ AcceptedAt(p, n) \/ listener[n].at = "poll"
  PROVE  ~Clean
  BY CleanIs, DoneIdle DEF Handles

LEMMA AsksBefore ==
  ASSUME BInv, IInv', QTypes', NEW n \in Nodes, NEW p \in Nodes, Asks(n, p)
  PROVE  Before'
  <1>1. /\ Handles(n) /\ Built(n, p, ActiveEnd(n, p)) /\ StagesBut(n, p) /\ BrokenSame
        /\ Resolving(n, p) /\ ~Resolving(n, p)' /\ Resolved(n, p)'
        /\ Requested(n, p)' <=> Requested(n, p)
        /\ Accepted(n, p)' <=> Accepted(n, p)
        /\ AcceptedAt(n, p)' <=> AcceptedAt(n, p)
        /\ up' = up
    BY DEF Asks
  <1>2. /\ p < n /\ n # p /\ p \in Others(n) /\ Once(n, p) /\ ActiveEnd(n, p) = EndAt(n, p)
        /\ n \in Int /\ p \in Int
    BY <1>1, StageDown DEF BInv, Stage, Nodes
  <1>3. Built(n, p, EndAt(n, p)) /\ ctor' = ctor /\ ctor[n] # "off"
    BY <1>1, <1>2 DEF Built, ctorVars, Handles
  <1>4. Unbuilt(n, p) /\ ~Unbuilt(n, p)'
    BY <1>1, <1>2, <1>3 DEF Unbuilt, Coming
  <1>5. \A k \in Nodes : \A l \in Others(k) : Unbuilt(k, l)' => Unbuilt(k, l)
    <2>1. /\ Coming(n, p)' => Coming(n, p)
          /\ ComingAt(n, p)' => ComingAt(n, p)
      BY <1>1 DEF Coming, ComingAt
    <2> QED
      BY <1>1, <1>2, <1>3, <2>1, UnbuiltBut
  <1>6. \A e \in up' : e.to < e.from
    BY <1>1 DEF BInv, Before, Downwards
  <1>7. ~Clean
    BY <1>1, NotClean DEF BInv
  <1>8. ASSUME NobodyDied PROVE InUse'
    <2> SUFFICES ASSUME NEW k \in Nodes, NEW l \in Nodes, l < k
                 PROVE  /\ Resolved(k, l)' \/ Requested(k, l)' \/ Accepted(k, l)' \/ l \in Sent(k)'
                             => peerEnd'[k][l] # NoEnd
                        /\ Accepted(k, l)' \/ AcceptedAt(k, l)' \/ k \in Sent(l)' => peerEnd'[l][k] # NoEnd
      BY DEF InUse
    <2>1. \A m \in Nodes : Sent(m)' = Sent(m)
      BY <1>3, SentIs DEF Built
    <2>2. \A i, j \in Nodes : peerEnd[i][j] # NoEnd => peerEnd'[i][j] # NoEnd
      BY <1>3, EndAtIs, NoEndIsNone DEF Built, BInv, QTypes, QueueTypes
    <2>3. peerEnd'[n][p] # NoEnd
      BY <1>2, <1>3, EndAtIs, NoEndIsNone DEF Built, BInv, QTypes, QueueTypes
    <2>4. /\ Resolved(k, l) \/ Requested(k, l) \/ Accepted(k, l) \/ l \in Sent(k) => peerEnd[k][l] # NoEnd
          /\ Accepted(k, l) \/ AcceptedAt(k, l) \/ k \in Sent(l) => peerEnd[l][k] # NoEnd
      BY <1>8 DEF BInv, Before, Undisturbed, InUse
    <2>5. CASE k = n /\ l = p
      BY <1>1, <2>1, <2>2, <2>3, <2>4, <2>5
    <2>6. CASE ~(k = n /\ l = p)
      BY <1>1, <2>1, <2>2, <2>4, <2>6 DEF StagesBut
    <2> QED
      BY <2>5, <2>6
  <1> QED
    BY <1>1, <1>2, <1>3, <1>4, <1>5, <1>6, <1>7, <1>8, BuiltBefore

LEMMA AcceptsBefore ==
  ASSUME BInv, IInv', QTypes', NEW n \in Nodes, NEW p \in Nodes, Accepts(p, n)
  PROVE  Before'
  <1>1. /\ Handles(n) /\ Built(n, p, Passive(p, n)) /\ StagesBut(p, n) /\ BrokenSame
        /\ Requested(p, n) /\ ~Requested(p, n)'
        /\ Resolving(p, n)' <=> Resolving(p, n)
        /\ Resolved(p, n)' <=> Resolved(p, n)
        /\ Accepted(p, n)' <=> Accepted(p, n) \/ Running(p)
        /\ AcceptedAt(p, n)' <=> AcceptedAt(p, n)
        /\ up' = up \cup (IF Running(p) THEN {ActiveEnd(p, n)} ELSE {})
    BY DEF Accepts
  <1>2. /\ n < p /\ n # p /\ p \in Others(n) /\ Once(p, n) /\ Passive(p, n) = EndAt(n, p)
        /\ n \in Int /\ p \in Int
    BY <1>1, StageDown DEF BInv, Stage, Nodes
  <1>3. Built(n, p, EndAt(n, p)) /\ ctor' = ctor /\ ctor[p] # "off"
    BY <1>1, <1>2 DEF Built, ctorVars, Once
  <1>4. Unbuilt(n, p) /\ ~Unbuilt(n, p)'
    BY <1>1, <1>2, <1>3 DEF Unbuilt, Coming, ComingAt, Once
  <1>5. \A k \in Nodes : \A l \in Others(k) : Unbuilt(k, l)' => Unbuilt(k, l)
    <2>1. /\ Coming(p, n)' => Coming(p, n)
          /\ ComingAt(p, n)' => ComingAt(p, n)
      BY <1>1, <1>3 DEF Coming, ComingAt
    <2> QED
      BY <1>1, <1>2, <1>3, <2>1, UnbuiltBut
  <1>6. \A e \in up' : e.to < e.from
    <2>1. ActiveEnd(p, n).to < ActiveEnd(p, n).from
      BY <1>2, PassiveIs
    <2> QED
      BY <1>1, <2>1 DEF BInv, Before, Downwards
  <1>7. ~Clean
    BY <1>1, NotClean DEF BInv
  <1>8. ASSUME NobodyDied PROVE InUse'
    <2> SUFFICES ASSUME NEW k \in Nodes, NEW l \in Nodes, l < k
                 PROVE  /\ Resolved(k, l)' \/ Requested(k, l)' \/ Accepted(k, l)' \/ l \in Sent(k)'
                             => peerEnd'[k][l] # NoEnd
                        /\ Accepted(k, l)' \/ AcceptedAt(k, l)' \/ k \in Sent(l)' => peerEnd'[l][k] # NoEnd
      BY DEF InUse
    <2>1. \A m \in Nodes : Sent(m)' = Sent(m)
      BY <1>3, SentIs DEF Built
    <2>2. \A i, j \in Nodes : peerEnd[i][j] # NoEnd => peerEnd'[i][j] # NoEnd
      BY <1>3, EndAtIs, NoEndIsNone DEF Built, BInv, QTypes, QueueTypes
    <2>3. peerEnd'[n][p] # NoEnd
      BY <1>2, <1>3, EndAtIs, NoEndIsNone DEF Built, BInv, QTypes, QueueTypes
    <2>4. /\ Resolved(k, l) \/ Requested(k, l) \/ Accepted(k, l) \/ l \in Sent(k) => peerEnd[k][l] # NoEnd
          /\ Accepted(k, l) \/ AcceptedAt(k, l) \/ k \in Sent(l) => peerEnd[l][k] # NoEnd
      BY <1>8 DEF BInv, Before, Undisturbed, InUse
    <2>5. CASE k = p /\ l = n
      BY <1>1, <2>1, <2>2, <2>3, <2>4, <2>5
    <2>6. CASE ~(k = p /\ l = n)
      BY <1>1, <2>1, <2>2, <2>4, <2>6 DEF StagesBut
    <2> QED
      BY <2>5, <2>6
  <1> QED
    BY <1>1, <1>2, <1>3, <1>4, <1>5, <1>6, <1>7, <1>8, BuiltBefore

LEMMA RequestsBefore ==
  ASSUME BInv, IInv', QTypes', NEW n \in Nodes, NEW p \in Nodes, Requests(n, p)
  PROVE  Before'
  <1>1. /\ Handles(n) /\ StagesBut(n, p) /\ BrokenSame
        /\ Resolved(n, p) /\ ~Resolved(n, p)'
        /\ Resolving(n, p)' <=> Resolving(n, p)
        /\ Requested(n, p)' <=> Requested(n, p) \/ Running(p)
        /\ Accepted(n, p)' <=> Accepted(n, p)
        /\ AcceptedAt(n, p)' <=> AcceptedAt(n, p)
        /\ UNCHANGED <<ctorVars, listener, up, peerVars, degradeVars, nicVars>>
    BY DEF Requests
  <1>2. p < n
    BY <1>1, StageDown DEF BInv, Stage
  <1>3. UNCHANGED <<ctor, tested, listener, up, peerEnd, peerMR, incoming, degraded, recv, recvCQ, sq, sendCQ>>
    BY <1>1 DEF ctorVars, peerVars, degradeVars, nicVars
  <1>4. /\ \A m \in Nodes : Sent(m)' = Sent(m) /\ SendsAt(m)'
        /\ NobodyDied => PostedWasSent' /\ SentExactly'
    BY <1>3, SendsQuiet DEF HasPosted
  <1>5. Progress
    <2>1. /\ Coming(n, p)' => Coming(n, p)
          /\ ComingAt(n, p)' => ComingAt(n, p)
      BY <1>1, <1>3 DEF Coming, ComingAt
    <2>2. \A k \in Nodes : \A l \in Others(k) : Unbuilt(k, l)' => Unbuilt(k, l)
      BY <1>1, <1>2, <1>3, <2>1, UnbuiltBut
    <2> QED
      BY <1>3, <2>2 DEF Progress
  <1>6. Downwards'
    BY <1>3 DEF BInv, Before, Downwards
  <1>7. ASSUME NobodyDied PROVE Undisturbed'
    <2>1. \A m \in Nodes : Filled(m)' = Filled(m)
      BY <1>3 DEF Filled
    <2>2. ReceivedExactly' /\ FilledWasSent'
      BY <1>3, <1>4, <1>7, <2>1 DEF BInv, Before, Undisturbed, ReceivedExactly, FilledWasSent, Filled, Others
    <2>3. InUse'
      BY <1>1, <1>3, <1>4, <1>7 DEF BInv, Before, Undisturbed, InUse, StagesBut
    <2> QED
      BY <1>4, <1>7, <2>2, <2>3 DEF Undisturbed
  <1>8. ~Clean
    BY <1>1, NotClean DEF BInv
  <1>9. \A m \in Nodes, e \in Ends : Broken(m, e)' => Broken(m, e)
    BY <1>1 DEF BrokenSame
  <1>10. \A m \in Nodes : recvCQ'[m] + incoming'[m] <= recvCQ[m] + incoming[m]
    BY <1>3, SumSame DEF BInv
  <1> QED
    BY <1>3, <1>4, <1>5, <1>6, <1>7, <1>8, <1>9, <1>10, StageKeeps


LEMMA GreetsSent ==
  ASSUME BInv, QTypes', NEW n \in Nodes, NEW p \in Others(n), NEW e \in Ends, Peer(e) = p,
         Greets(n, p, e), ctor[n] # "done", ~Counted(n, p), NobodyDied => peerEnd[n][p] # NoEnd
  PROVE  /\ Sent(n)' = Sent(n) \cup {p} /\ \A m \in Nodes : m # n => Sent(m)' = Sent(m)
         /\ \A m \in Nodes : SendsAt(m)'
         /\ \A d \in Ends : d.from <= d.to => sq'[d] = <<>>
         /\ NobodyDied => PostedWasSent' /\ SentExactly'
  <1>1. /\ Handles(n) /\ listener' = [listener EXCEPT ![n] = [at |-> "poll", end |-> e]]
        /\ sq' = [sq EXCEPT ![peerEnd[n][p]] = Append(@, "mr")]
        /\ UNCHANGED <<ctor, tested, peerEnd, peerMR, sendCQ>>
        /\ p \in Nodes
    BY DEF Greets, ctorVars, peerVars, Others
  <1>2. /\ listener[n] = Idle /\ listener'[n] = [at |-> "poll", end |-> e]
        /\ \A m \in Nodes : m # n => listener'[m] = listener[m]
    BY <1>1 DEF Handles, BInv, IInv, Types
  <1>3. Sent(n)' = Sent(n) \cup {p} /\ \A m \in Nodes : m # n => Sent(m)' = Sent(m)
    <2>1. \A m \in Nodes : m # n => Sent(m)' = Sent(m)
      BY <1>1, <1>2, SentIs
    <2>2. \A q \in Nodes : ~Polls(n, q) /\ (Polls(n, q)' <=> q = p)
      BY <1>2 DEF Polls, Idle
    <2>3. Sent(n)' = Sent(n) \cup {p}
      BY <1>1, <2>2 DEF Sent, Counted, Others
    <2> QED
      BY <2>1, <2>3
  <1>4. p \notin Sent(n)
    BY <1>2 DEF Sent, Polls, Idle
  <1>5. Sent(n) \subseteq Nodes /\ Cardinality(Sent(n)') = Cardinality(Sent(n)) + 1 /\ Cardinality(Sent(n)) \in Nat
    <2>1. Sent(n) \subseteq Nodes
      BY DEF Sent, Others
    <2> QED
      BY <1>3, <1>4, <2>1, SomeNodes
  <1>6. \A m \in Nodes :
          Uncollected(m)' = Uncollected(m) + IF m = n /\ peerEnd[n][p] # NoEnd THEN 1 ELSE 0
    BY <1>1, GreetsSends DEF BInv
  <1>7. \A m \in Nodes : Uncollected(m) \in Nat
    BY UncollectedType DEF BInv, QTypes
  <1>8. \A m \in Nodes : m # n => SendsSame(m)
    BY <1>1, <1>3, <1>6, <1>7 DEF SendsSame, HasPosted
  <1>9. /\ SendsAt(n)'
        /\ Owed(n) <= Uncollected(n) + Cardinality(tested[n]) /\ peerEnd[n][p] # NoEnd
             => Owed(n)' <= Uncollected(n)' + Cardinality(tested'[n])
    <2>1. Owed(n)' = Owed(n) + 1 /\ Owed(n) \in Nat
      BY <1>1, <1>5, SizeAssumption DEF Owed, HasPosted
    <2>2. Cardinality(tested[n]) \in Nat
      <3>1. tested[n] \subseteq Nodes
        BY DEF BInv, QTypes, QueueTypes
      <3> QED
        BY <3>1, SomeNodes
    <2>3. Uncollected(n) + Cardinality(tested[n]) <= Owed(n)
      BY <1>1 DEF BInv, Before, SendsBound, SendsAt, Handles
    <2>4. Uncollected(n)' + Cardinality(tested'[n]) <= Owed(n)'
      BY <1>1, <1>6, <1>7, <2>1, <2>2, <2>3
    <2>5. Owed(n) <= Uncollected(n) + Cardinality(tested[n]) /\ peerEnd[n][p] # NoEnd
             => Owed(n)' <= Uncollected(n)' + Cardinality(tested'[n])
      BY <1>1, <1>6, <1>7, <2>1, <2>2
    <2> QED
      BY <1>1, <2>4, <2>5 DEF SendsAt, Handles
  <1>10. \A m \in Nodes : SendsAt(m)'
    BY <1>8, <1>9, SendsKept DEF BInv, Before, SendsBound
  <1>11. /\ peerEnd[n][p] = NoEnd => sq' = sq
         /\ peerEnd[n][p] # NoEnd =>
              /\ peerEnd[n][p] = EndAt(n, p) /\ EndAt(n, p) \in Ends
              /\ EndAt(n, p).to < EndAt(n, p).from
              /\ Here(EndAt(n, p)) = n /\ Peer(EndAt(n, p)) = p
    BY <1>1, GreetsSends, EndAtIs DEF BInv, Before, Downwards, Others
  <1>12. ASSUME NEW d \in Ends
         PROVE  \/ sq'[d] = sq[d]
                \/ /\ d.to < d.from /\ Here(d) = n /\ Peer(d) = p
                   /\ sq[d] \in Seq({"mr", "test"}) /\ sq'[d] = Append(sq[d], "mr")
    <2>1. sq \in [Ends -> Seq({"mr", "test"})]
      BY DEF BInv, QTypes, QueueTypes
    <2> QED
      BY <1>1, <1>11, <2>1
  <1>13. \A d \in Ends : d.from <= d.to => sq'[d] = <<>>
    <2> SUFFICES ASSUME NEW d \in Ends, d.from <= d.to PROVE sq'[d] = <<>>
      OBVIOUS
    <2>1. d.from \in Int /\ d.to \in Int /\ sq[d] = <<>>
      BY DEF Ends, Nodes, BInv, Before, Downwards
    <2> QED
      BY <1>12, <2>1
  <1>14. ASSUME NobodyDied PROVE PostedWasSent'
    <2> SUFFICES ASSUME NEW d \in Ends, NEW i \in DOMAIN sq'[d], sq'[d][i] = "mr"
                 PROVE  Peer(d) \in Sent(Here(d))'
      BY DEF PostedWasSent
    <2>1. Here(d) \in Nodes
      BY EndForms DEF Here
    <2>2. Sent(Here(d)) \subseteq Sent(Here(d))'
      BY <1>3, <2>1
    <2>3. CASE sq'[d] = sq[d]
      BY <1>14, <2>2, <2>3 DEF BInv, Before, Undisturbed, PostedWasSent
    <2>4. CASE sq'[d] # sq[d]
      BY <1>3, <1>12, <2>4
    <2> QED
      BY <2>3, <2>4
  <1>15. ASSUME NobodyDied PROVE SentExactly'
    BY <1>8, <1>9, <1>15, SendsKept DEF BInv, Before, Undisturbed, SentExactly
  <1> QED
    BY <1>3, <1>10, <1>13, <1>14, <1>15

\* The rest of it, with what is to be shown of the stages.
LEMMA GreetsBefore ==
  ASSUME BInv, IInv', QTypes', NEW n \in Nodes, NEW p \in Others(n), NEW e \in Ends, Peer(e) = p,
         Greets(n, p, e), ctor[n] # "done", ~Counted(n, p), NobodyDied => peerEnd[n][p] # NoEnd,
         \A k \in Nodes : \A l \in Others(k) : Unbuilt(k, l)' => Unbuilt(k, l),
         BrokenSame, up \subseteq up', \A d \in up' : d.to < d.from,
         NobodyDied => InUse', ~Clean
  PROVE  Before'
  <1>1. UNCHANGED <<ctor, peerEnd, incoming, degraded, recv, recvCQ>>
    BY DEF Greets, ctorVars, peerVars, degradeVars
  <1>2. /\ Sent(n)' = Sent(n) \cup {p} /\ \A m \in Nodes : m # n => Sent(m)' = Sent(m)
        /\ \A m \in Nodes : SendsAt(m)'
        /\ \A d \in Ends : d.from <= d.to => sq'[d] = <<>>
        /\ NobodyDied => PostedWasSent' /\ SentExactly'
    BY GreetsSent
  <1>3. Progress
    BY <1>1 DEF Progress
  <1>4. Downwards'
    BY <1>1, <1>2 DEF BInv, Before, Downwards
  <1>5. ASSUME NobodyDied PROVE Undisturbed'
    <2>1. \A m \in Nodes : Filled(m)' = Filled(m) /\ Sent(m) \subseteq Sent(m)'
      BY <1>1, <1>2 DEF Filled
    <2>2. ReceivedExactly' /\ FilledWasSent'
      BY <1>1, <1>5, <2>1 DEF BInv, Before, Undisturbed, ReceivedExactly, FilledWasSent, Filled, Others
    <2> QED
      BY <1>2, <1>5, <2>2 DEF Undisturbed
  <1>6. \A m \in Nodes : recvCQ'[m] + incoming'[m] <= recvCQ[m] + incoming[m]
    BY <1>1, SumSame DEF BInv
  <1>7. \A m \in Nodes, d \in Ends : Broken(m, d)' => Broken(m, d)
    BY DEF BrokenSame
  <1> QED
    BY <1>1, <1>2, <1>3, <1>4, <1>5, <1>6, <1>7, StageKeeps

LEMMA GreetsFirstBefore ==
  ASSUME BInv, IInv', QTypes', NEW n \in Nodes, NEW p \in Nodes, ActiveEnd(n, p) \in Ends, GreetsFirst(n, p)
  PROVE  Before'
  <1>1. /\ Greets(n, p, ActiveEnd(n, p)) /\ Handles(n) /\ StagesBut(n, p) /\ BrokenSame
        /\ Accepted(n, p) /\ ~Accepted(n, p)'
        /\ Resolving(n, p)' <=> Resolving(n, p)
        /\ Resolved(n, p)' <=> Resolved(n, p)
        /\ Requested(n, p)' <=> Requested(n, p)
        /\ AcceptedAt(n, p)' <=> AcceptedAt(n, p) \/ Running(p)
        /\ up' = up \cup (IF Running(p) THEN {Passive(n, p)} ELSE {})
        /\ UNCHANGED <<ctor, peerEnd, peerMR>>
    BY DEF GreetsFirst, Greets, ctorVars, peerVars
  <1>2. /\ p < n /\ n # p /\ p \in Others(n) /\ Once(n, p) /\ ActiveEnd(n, p) = EndAt(n, p)
        /\ n \in Int /\ p \in Int
    BY <1>1, StageDown DEF BInv, Stage, Nodes
  <1>3. ~Counted(n, p) /\ ctor[n] # "done" /\ Peer(ActiveEnd(n, p)) = p
    BY <1>1, <1>2, DoneIdle, PassiveIs DEF Once, BInv
  <1>4. NobodyDied => peerEnd[n][p] # NoEnd /\ peerEnd[p][n] # NoEnd
    BY <1>1, <1>2 DEF BInv, Before, Undisturbed, InUse
  <1>5. \A k \in Nodes : \A l \in Others(k) : Unbuilt(k, l)' => Unbuilt(k, l)
    <2>1. /\ Coming(n, p)' => Coming(n, p)
          /\ ComingAt(n, p)' => ComingAt(n, p)
      BY <1>1 DEF Coming, ComingAt
    <2> QED
      BY <1>1, <1>2, <2>1, UnbuiltBut
  <1>6. \A e \in up' : e.to < e.from
    <2>1. Passive(n, p).to < Passive(n, p).from
      BY <1>2, PassiveIs
    <2> QED
      BY <1>1, <2>1 DEF BInv, Before, Downwards
  <1>7. ~Clean
    BY <1>1, NotClean DEF BInv
  <1>8. ASSUME NobodyDied PROVE InUse'
    <2> SUFFICES ASSUME NEW k \in Nodes, NEW l \in Nodes, l < k
                 PROVE  /\ Resolved(k, l)' \/ Requested(k, l)' \/ Accepted(k, l)' \/ l \in Sent(k)'
                             => peerEnd[k][l] # NoEnd
                        /\ Accepted(k, l)' \/ AcceptedAt(k, l)' \/ k \in Sent(l)' => peerEnd[l][k] # NoEnd
      BY <1>1 DEF InUse
    <2>1. Sent(n)' = Sent(n) \cup {p} /\ \A m \in Nodes : m # n => Sent(m)' = Sent(m)
      BY <1>1, <1>2, <1>3, <1>4, GreetsSent
    <2>2. /\ Resolved(k, l) \/ Requested(k, l) \/ Accepted(k, l) \/ l \in Sent(k) => peerEnd[k][l] # NoEnd
          /\ Accepted(k, l) \/ AcceptedAt(k, l) \/ k \in Sent(l) => peerEnd[l][k] # NoEnd
      BY <1>8 DEF BInv, Before, Undisturbed, InUse
    <2>3. CASE k = n /\ l = p
      BY <1>4, <1>8, <2>3
    <2>4. CASE ~(k = n /\ l = p)
      <3>1. l \in Sent(k)' => l \in Sent(k)
        BY <2>1, <2>4
      <3>2. k \in Sent(l)' => k \in Sent(l)
        <4>1. ~(l = n /\ k = p)
          BY <1>2
        <4> QED
          BY <2>1, <4>1
      <3> QED
        BY <1>1, <2>2, <2>4, <3>1, <3>2 DEF StagesBut
    <2> QED
      BY <2>3, <2>4
  <1> QED
    BY <1>1, <1>2, <1>3, <1>4, <1>5, <1>6, <1>7, <1>8, GreetsBefore

LEMMA GreetsBackBefore ==
  ASSUME BInv, IInv', QTypes', NEW n \in Nodes, NEW p \in Nodes, ActiveEnd(p, n) \in Ends, GreetsBack(p, n)
  PROVE  Before'
  <1>1. /\ Greets(n, p, Passive(p, n)) /\ Handles(n) /\ StagesBut(p, n) /\ BrokenSame
        /\ AcceptedAt(p, n) /\ ~AcceptedAt(p, n)'
        /\ Resolving(p, n)' <=> Resolving(p, n)
        /\ Resolved(p, n)' <=> Resolved(p, n)
        /\ Requested(p, n)' <=> Requested(p, n)
        /\ Accepted(p, n)' <=> Accepted(p, n)
        /\ up' = up
        /\ UNCHANGED <<ctor, peerEnd, peerMR>>
    BY DEF GreetsBack, Greets, ctorVars, peerVars
  <1>2. /\ n < p /\ n # p /\ p \in Others(n) /\ Once(p, n) /\ Passive(p, n) = EndAt(n, p)
        /\ n \in Int /\ p \in Int /\ Passive(p, n) \in Ends
    BY <1>1, StageDown, PassiveIs DEF BInv, Stage, Nodes
  <1>3. ~Counted(n, p) /\ ctor[n] # "done" /\ Peer(Passive(p, n)) = p
    BY <1>1, <1>2, DoneIdle, PassiveIs DEF Once, BInv
  <1>4. NobodyDied => peerEnd[n][p] # NoEnd
    BY <1>1, <1>2 DEF BInv, Before, Undisturbed, InUse
  <1>5. \A k \in Nodes : \A l \in Others(k) : Unbuilt(k, l)' => Unbuilt(k, l)
    <2>1. /\ Coming(p, n)' => Coming(p, n)
          /\ ComingAt(p, n)' => ComingAt(p, n)
      BY <1>1 DEF Coming, ComingAt
    <2> QED
      BY <1>1, <1>2, <2>1, UnbuiltBut
  <1>6. \A e \in up' : e.to < e.from
    BY <1>1 DEF BInv, Before, Downwards
  <1>7. ~Clean
    BY <1>1, NotClean DEF BInv
  <1>8. ASSUME NobodyDied PROVE InUse'
    <2> SUFFICES ASSUME NEW k \in Nodes, NEW l \in Nodes, l < k
                 PROVE  /\ Resolved(k, l)' \/ Requested(k, l)' \/ Accepted(k, l)' \/ l \in Sent(k)'
                             => peerEnd[k][l] # NoEnd
                        /\ Accepted(k, l)' \/ AcceptedAt(k, l)' \/ k \in Sent(l)' => peerEnd[l][k] # NoEnd
      BY <1>1 DEF InUse
    <2>1. Sent(n)' = Sent(n) \cup {p} /\ \A m \in Nodes : m # n => Sent(m)' = Sent(m)
      BY <1>1, <1>2, <1>3, <1>4, GreetsSent
    <2>2. /\ Resolved(k, l) \/ Requested(k, l) \/ Accepted(k, l) \/ l \in Sent(k) => peerEnd[k][l] # NoEnd
          /\ Accepted(k, l) \/ AcceptedAt(k, l) \/ k \in Sent(l) => peerEnd[l][k] # NoEnd
      BY <1>8 DEF BInv, Before, Undisturbed, InUse
    <2>3. CASE k = p /\ l = n
      <3>1. l \in Sent(k)' => l \in Sent(k)
        BY <1>2, <2>1, <2>3
      <3> QED
        BY <1>1, <1>4, <1>8, <2>2, <2>3, <3>1
    <2>4. CASE ~(k = p /\ l = n)
      <3>1. l \in Sent(k)' => l \in Sent(k)
        <4>1. ~(k = n /\ l = p)
          BY <1>2
        <4> QED
          BY <2>1, <4>1
      <3>2. k \in Sent(l)' => k \in Sent(l)
        BY <2>1, <2>4
      <3> QED
        BY <1>1, <2>2, <2>4, <3>1, <3>2 DEF StagesBut
    <2> QED
      BY <2>3, <2>4
  <1> QED
    BY <1>1, <1>2, <1>3, <1>4, <1>5, <1>6, <1>7, <1>8, GreetsBefore


LEMMA ConnectsBefore ==
  ASSUME BInv, IInv', QTypes', NEW n \in Nodes, NEW p \in Nodes, NEW mr, Connects(n, p, mr),
         listener[n].at = "poll", Peer(listener[n].end) = p, ctor[n] \notin {"off", "aborted"}, recvCQ[n] > 0
  PROVE  Before'
  <1>1. /\ peerMR' = [peerMR EXCEPT ![n][p] = mr] /\ mr \in {"peer", "garbage"}
        /\ incoming' = [incoming EXCEPT ![n] = @ + 1]
        /\ listener' = [listener EXCEPT ![n].at = "notify"]
        /\ recvCQ' = [recvCQ EXCEPT ![n] = @ - 1]
        /\ UNCHANGED <<ctor, events, tested, up, peerEnd, degraded, recv, sq, sendCQ>>
    BY DEF Connects, degradeVars
  <1>2. p \in Others(n)
    BY PollsDown DEF BInv
  <1>3. /\ listener'[n].at = "notify" /\ \A m \in Nodes : m # n => listener'[m] = listener[m]
        /\ peerMR'[n][p] = mr
        /\ \A m, q \in Nodes : ~(m = n /\ q = p) => peerMR'[m][q] = peerMR[m][q]
    BY <1>1 DEF BInv, IInv, Types
  <1>4. ASSUME NEW m \in Nodes PROVE Sent(m)' = Sent(m)
    <2>1. ASSUME NEW q \in Others(m) PROVE Counted(m, q)' \/ Polls(m, q)' <=> Counted(m, q) \/ Polls(m, q)
      <3>1. q \in Nodes
        BY DEF Others
      <3>2. CASE m = n /\ q = p
        BY <1>1, <1>3, <3>2 DEF Counted, Polls
      <3>3. CASE m = n /\ q # p
        BY <1>1, <1>3, <3>1, <3>3 DEF Counted, Polls
      <3>4. CASE m # n
        BY <1>1, <1>3, <3>1, <3>4 DEF Counted, Polls
      <3> QED
        BY <3>2, <3>3, <3>4
    <2> QED
      BY <2>1 DEF Sent
  <1>5. \A m \in Nodes : SendsSame(m)
    BY <1>1, <1>4, UncollectedSame DEF BInv, SendsSame, HasPosted
  <1>6. \A m \in Nodes : SendsAt(m)'
    BY <1>5, SendsKept DEF BInv, Before, SendsBound
  <1>7. \A m \in Nodes : recvCQ'[m] + incoming'[m] = recvCQ[m] + incoming[m]
    <2>1. recvCQ \in [Nodes -> Nat] /\ incoming \in [Nodes -> Nat]
      BY DEF BInv, IInv, Types, QTypes, QueueTypes
    <2> QED
      BY <1>1, <2>1
  <1>8. \A m \in Nodes : recvCQ'[m] + incoming'[m] <= recvCQ[m] + incoming[m]
    <2>a. recvCQ \in [Nodes -> Nat] /\ incoming \in [Nodes -> Nat]
      BY DEF BInv, IInv, Types, QTypes, QueueTypes
    <2>1. \A m \in Nodes : recvCQ[m] + incoming[m] \in Nat
      BY <2>a
    <2> QED
      BY <1>7, <2>1
  <1>9. StagesSame /\ BrokenSame
    BY <1>1, EventsSame
  <1>10. Progress
    <2>1. \A k \in Nodes : \A l \in Others(k) : Unbuilt(k, l)' <=> Unbuilt(k, l)
      BY <1>1, <1>9 DEF StagesSame, Unbuilt, ComingAt, Coming, Others
    <2> QED
      BY <1>1, <2>1 DEF Progress
  <1>11. Downwards'
    BY <1>1 DEF BInv, Before, Downwards
  <1>12. ASSUME NobodyDied PROVE Undisturbed'
    <2>1. \A m \in Nodes : Filled(m)' = Filled(m)
      BY <1>1 DEF Filled
    <2>2. ReceivedExactly' /\ FilledWasSent'
      <3>1. ReceivedExactly /\ FilledWasSent
        BY <1>12 DEF BInv, Before, Undisturbed
      <3>2. ReceivedExactly'
        BY <1>7, <2>1, <3>1 DEF ReceivedExactly
      <3>3. FilledWasSent'
        <4> SUFFICES ASSUME NEW m \in Nodes, NEW q \in Filled(m) PROVE m \in Sent(q)'
          BY <2>1 DEF FilledWasSent
        <4>1. q \in Nodes
          BY DEF Filled, Others
        <4> QED
          BY <1>4, <3>1, <4>1 DEF FilledWasSent
      <3> QED
        BY <3>2, <3>3
    <2>3. PostedWasSent'
      BY <1>1, <1>4, <1>12, EndForms DEF BInv, Before, Undisturbed, PostedWasSent
    <2>4. SentExactly'
      BY <1>5, <1>12, SendsKept DEF BInv, Before, Undisturbed, SentExactly
    <2>5. InUse'
      BY <1>1, <1>4, <1>9, <1>12 DEF BInv, Before, Undisturbed, InUse, StagesSame
    <2> QED
      BY <2>2, <2>3, <2>4, <2>5 DEF Undisturbed
  <1>13. ~Clean
    BY CleanIs, DoneIdle DEF BInv
  <1>14. \A m \in Nodes, d \in Ends : Broken(m, d)' => Broken(m, d)
    BY <1>9 DEF BrokenSame
  <1> QED
    BY <1>1, <1>6, <1>8, <1>10, <1>11, <1>12, <1>13, <1>14, StageKeeps

LEMMA FillsBefore ==
  ASSUME BInv, IInv', QTypes', NEW e \in Ends, Fills(e)
  PROVE  Before'
  <1> DEFINE k == Here(e)
             m == Peer(e)
             f == EndAt(m, k)
  <1>1. /\ Finish(e) /\ Head(sq[e]) = "mr" /\ recv[Other(e)] = "posted" /\ sq[e] # <<>>
        /\ recv' = [recv EXCEPT ![Other(e)] = "filled"]
        /\ recvCQ' = [recvCQ EXCEPT ![m] = @ + 1]
        /\ UNCHANGED <<ctor, tested, listener, events, up, peerEnd, peerMR, incoming, degraded>>
        /\ ctor[k] # "aborted"
    BY DEF Fills, Finish, Running, ctorVars, cmVars, peerVars, degradeVars
  <1>2. /\ \A i \in Nodes : Sent(i)' = Sent(i) /\ SendsAt(i)'
        /\ \A d \in Ends : d.from <= d.to => sq'[d] = <<>>
        /\ NobodyDied => PostedWasSent' /\ SentExactly'
        /\ ~Clean /\ e.to < e.from
    BY <1>1, FinishBefore
  <1>3. /\ k \in Nodes /\ m \in Nodes /\ k # m /\ e = EndAt(k, m) /\ Other(e) = f
        /\ k \in Others(m) /\ m \in Others(k) /\ f \in Ends /\ f.to < f.from
    BY <1>2, DownEnd, EndAtIs DEF Others
  <1> HIDE DEF k, m, f
  <1>4. recv'[f] = "filled" /\ \A d \in Ends : d # f => recv'[d] = recv[d]
    BY <1>1, <1>3 DEF BInv, QTypes, QueueTypes
  <1>5. \A i \in Nodes : \A j \in Others(i) : ~(i = m /\ j = k) => recv'[EndAt(i, j)] = recv[EndAt(i, j)]
    <2> SUFFICES ASSUME NEW i \in Nodes, NEW j \in Others(i), ~(i = m /\ j = k)
                 PROVE  EndAt(i, j) \in Ends /\ EndAt(i, j) # f
      BY <1>4
    <2> QED
      BY <1>3, OneEnd, EndAtIs DEF f, Others
  <1>6. StagesSame /\ BrokenSame
    BY <1>1, EventsSame
  <1>7. \A i \in Nodes : \A j \in Others(i) : Unbuilt(i, j)' <=> Unbuilt(i, j)
    BY <1>1, <1>6 DEF StagesSame, Unbuilt, ComingAt, Coming, Others
  <1>8. recv[EndAt(m, k)] = "posted" /\ recv'[EndAt(m, k)] = "filled" /\ ~Unbuilt(m, k)
    BY <1>1, <1>3, <1>4 DEF BInv, Before, UnbuiltBare, f
  <1>9. Progress
    BY <1>3, <1>5, <1>7, <1>8 DEF Progress
  <1>10. UnbuiltBare' /\ \A i \in Nodes : Reached(i) \subseteq Reached(i)'
    BY <1>9, Advance DEF BInv, Before
  <1>11. k \notin Reached(m) /\ k \in Reached(m)'
    BY <1>3, <1>7, <1>8 DEF Reached
  <1>12. /\ recvCQ \in [Nodes -> Nat] /\ incoming \in [Nodes -> Nat]
         /\ recvCQ'[m] = recvCQ[m] + 1 /\ \A i \in Nodes : i # m => recvCQ'[i] = recvCQ[i]
    <2>1. recvCQ \in [Nodes -> Nat] /\ incoming \in [Nodes -> Nat]
      BY DEF BInv, IInv, Types, QTypes, QueueTypes
    <2> QED
      BY <1>1, <1>3, <2>1
  <1>13. ASSUME NEW S, k \notin S
         PROVE  Cardinality(Reached(m) \ S) + 1 <= Cardinality(Reached(m)' \ S)
    <2>1. /\ (Reached(m) \ S) \cup {k} \subseteq Reached(m)' \ S /\ k \notin Reached(m) \ S
          /\ Reached(m)' \ S \subseteq Nodes /\ Reached(m) \ S \subseteq Nodes
      BY <1>3, <1>10, <1>11, <1>13 DEF Reached, Others
    <2>2. Cardinality((Reached(m) \ S) \cup {k}) = Cardinality(Reached(m) \ S) + 1
      BY <2>1, SomeNodes
    <2>3. Cardinality((Reached(m) \ S) \cup {k}) <= Cardinality(Reached(m)' \ S)
      BY <2>1, SomeNodes
    <2> QED
      BY <2>2, <2>3
  <1>14. ASSUME NEW S \in SUBSET Nodes, NEW i \in Nodes
         PROVE  /\ Cardinality(Reached(i) \ S) \in Nat /\ Cardinality(Reached(i)' \ S) \in Nat
                /\ Cardinality(Reached(i) \ S) <= Cardinality(Reached(i)' \ S)
    <2>1. Reached(i) \ S \subseteq Reached(i)' \ S /\ Reached(i)' \ S \subseteq Nodes
      BY <1>10 DEF Reached, Others
    <2> QED
      BY <2>1, SomeNodes
  <1>15. ReceivesBound'
    <2> SUFFICES ASSUME NEW i \in Nodes PROVE recvCQ'[i] + incoming'[i] <= Cardinality(Reached(i)')
      BY DEF ReceivesBound
    <2>1. Reached(i) \ {} = Reached(i) /\ Reached(i)' \ {} = Reached(i)'
      OBVIOUS
    <2>2. recvCQ[i] + incoming[i] <= Cardinality(Reached(i))
      BY DEF BInv, Before, ReceivesBound
    <2>3. /\ Cardinality(Reached(i)) \in Nat /\ Cardinality(Reached(i)') \in Nat
          /\ Cardinality(Reached(i)) <= Cardinality(Reached(i)')
      BY <1>14, <2>1
    <2>4. i = m => Cardinality(Reached(i)) + 1 <= Cardinality(Reached(i)')
      BY <1>13, <2>1
    <2> QED
      BY <1>1, <1>12, <2>2, <2>3, <2>4
  <1>16. ASSUME Dirty PROVE Dirty'
    <2>1. PICK r \in Nodes, q \in Nodes :
            /\ r # q /\ ctor[r] = "aborted"
            /\ recvCQ[q] + incoming[q] <= Cardinality(Reached(q) \ {r})
      BY <1>16 DEF Dirty
    <2>2. /\ Cardinality(Reached(q) \ {r}) \in Nat /\ Cardinality(Reached(q)' \ {r}) \in Nat
          /\ Cardinality(Reached(q) \ {r}) <= Cardinality(Reached(q)' \ {r})
      BY <1>14
    <2>3. q = m => Cardinality(Reached(q) \ {r}) + 1 <= Cardinality(Reached(q)' \ {r})
      BY <1>1, <1>13, <2>1
    <2>4. recvCQ'[q] + incoming'[q] <= Cardinality(Reached(q)' \ {r})
      BY <1>1, <1>12, <2>1, <2>2, <2>3
    <2> QED
      BY <1>1, <2>1, <2>4 DEF Dirty
  <1>17. Downwards'
    <2>1. \A d \in Ends : d.from <= d.to => recv'[d] = "none"
      <3> SUFFICES ASSUME NEW d \in Ends, d.from <= d.to PROVE recv'[d] = "none"
        OBVIOUS
      <3>1. d.from \in Int /\ d.to \in Int /\ recv[d] = "none"
        BY DEF Ends, Nodes, BInv, Before, Downwards
      <3> QED
        BY <1>3, <1>4, <3>1
    <2> QED
      BY <1>1, <1>2, <2>1 DEF BInv, Before, Downwards
  <1>18. SendsBound'
    BY <1>2 DEF SendsBound
  <1>19. DegradedBound'
    <2>1. \A i, j \in Nodes : Broken(i, EndAt(i, j))' <=> Broken(i, EndAt(i, j))
      BY <1>1 DEF Broken
    <2> QED
      BY <1>1, <2>1, DegradedKept DEF BInv, Before
  <1>20. DisconnectedUp'
    BY <1>1, <1>6 DEF BInv, Before, DisconnectedUp, BrokenSame
  <1>21. ASSUME NobodyDied PROVE Undisturbed'
    <2>1. Filled(m)' = Filled(m) \cup {k} /\ k \notin Filled(m)
      BY <1>3, <1>5, <1>8 DEF Filled
    <2>2. \A i \in Nodes : i # m => Filled(i)' = Filled(i)
      BY <1>5 DEF Filled
    <2>3. Filled(m) \subseteq Nodes
      BY DEF Filled, Others
    <2>4. Cardinality(Filled(m)') = Cardinality(Filled(m)) + 1
      BY <2>1, <2>3, SomeNodes
    <2>5. ReceivedExactly'
      <3>1. ASSUME NEW i \in Nodes PROVE recvCQ'[i] + incoming[i] = Cardinality(Filled(i)')
        <4>1. recvCQ[i] + incoming[i] = Cardinality(Filled(i))
          BY <1>21 DEF BInv, Before, Undisturbed, ReceivedExactly
        <4>2. CASE i = m
          BY <1>12, <2>4, <4>1, <4>2
        <4>3. CASE i # m
          BY <1>12, <2>2, <4>1, <4>3
        <4> QED
          BY <4>2, <4>3
      <3> QED
        BY <1>1, <3>1 DEF ReceivedExactly
    <2>6. m \in Sent(k)
      <3>1. 1 \in DOMAIN sq[e] /\ sq[e][1] = "mr"
        BY <1>1 DEF BInv, QTypes, QueueTypes
      <3> QED
        BY <1>21, <3>1 DEF BInv, Before, Undisturbed, PostedWasSent, k, m
    <2>7. FilledWasSent'
      BY <1>2, <1>3, <1>21, <2>1, <2>2, <2>6
      DEF BInv, Before, Undisturbed, FilledWasSent, Filled, Others
    <2>8. InUse'
      BY <1>1, <1>2, <1>6, <1>21 DEF BInv, Before, Undisturbed, InUse, StagesSame
    <2> QED
      BY <1>2, <1>21, <2>5, <2>7, <2>8 DEF Undisturbed
  <1>22. NobodyDied' <=> NobodyDied
    BY <1>1 DEF NobodyDied
  <1> QED
    BY <1>2, <1>10, <1>15, <1>16, <1>17, <1>18, <1>19, <1>20, <1>21, <1>22 DEF BInv, Before


\* A process ends.
LEMMA EndsBefore ==
  ASSUME BInv, IInv', QTypes', NEW n \in Nodes, Ends1(n), ctor[n] # "aborted", ~Clean,
         NobodyDied => Clean' \/ Dirty'
  PROVE  Before'
  <1>1. /\ UNCHANGED <<tested, up, peerEnd, peerMR, incoming, degraded, recv, sq, sendCQ>>
        /\ \E c \in Nat : recvCQ[n] >= c /\ recvCQ' = [recvCQ EXCEPT ![n] = c]
    BY DEF Ends1, peerVars
  <1>2. /\ DieStages(n)
        /\ ctor'[n] = "aborted" /\ listener'[n] = Idle
        /\ \A m \in Others(n) : ctor'[m] = ctor[m] /\ listener'[m] = listener[m]
    BY DieIs DEF Ends1, BInv
  <1>3. /\ recvCQ \in [Nodes -> Nat] /\ incoming \in [Nodes -> Nat]
        /\ \A m \in Nodes : recvCQ'[m] <= recvCQ[m] /\ recvCQ'[m] \in Nat
    <2>1. recvCQ \in [Nodes -> Nat] /\ incoming \in [Nodes -> Nat]
      BY DEF BInv, IInv, Types, QTypes, QueueTypes
    <2> QED
      BY <1>1, <2>1
  <1>4. \A m \in Nodes : recvCQ'[m] + incoming'[m] <= recvCQ[m] + incoming[m]
    BY <1>1, <1>3
  <1>5. Progress
    <2>1. ASSUME NEW k \in Nodes, NEW l \in Others(k), Unbuilt(k, l)' PROVE Unbuilt(k, l)
      <3>1. l \in Nodes
        BY DEF Others
      <3>2. /\ Coming(k, l)' => Coming(k, l)
            /\ Coming(l, k)' => Coming(l, k)
        BY <1>2, <3>1 DEF DieStages, Coming, Others
      <3>3. ComingAt(l, k)' => ComingAt(l, k)
        BY <1>2, <3>1, <3>2 DEF DieStages, ComingAt
      <3> QED
        BY <2>1, <3>2, <3>3 DEF Unbuilt
    <2> QED
      BY <1>1, <2>1 DEF Progress
  <1>6. UnbuiltBare' /\ \A m \in Nodes : Reached(m) \subseteq Reached(m)'
    BY <1>5, Advance DEF BInv, Before
  <1>7. ReceivesBound'
    BY <1>4, <1>6, ReceivesKept DEF BInv, Before
  <1>8. Downwards'
    BY <1>1 DEF BInv, Before, Downwards
  <1>9. SendsBound'
    <2>1. \A m \in Nodes : Uncollected(m)' = Uncollected(m) /\ Uncollected(m) \in Nat
      BY <1>1, UncollectedSame, UncollectedType DEF BInv, QTypes
    <2>2. ASSUME NEW m \in Nodes, m # n PROVE SendsAt(m)'
      <3>1. Sent(m)' = Sent(m)
        BY <1>1, <1>2, <2>2, SentIs DEF Others
      <3>2. SendsSame(m)
        BY <1>1, <1>2, <2>1, <2>2, <3>1 DEF SendsSame, HasPosted, Others
      <3> QED
        BY <3>2, SendsKept DEF BInv, Before, SendsBound
    <2>3. Uncollected(n) <= 2 * (ClusterSize - 1)
      <3>1. Uncollected(n) + Cardinality(tested[n]) <= Owed(n)
        BY DEF BInv, Before, SendsBound, SendsAt
      <3>2. Sent(n) \subseteq Others(n) /\ Sent(n) \subseteq Nodes /\ tested[n] \subseteq Nodes
        BY DEF Sent, Others, BInv, QTypes, QueueTypes
      <3>3. /\ Cardinality(Sent(n)) \in Nat /\ Cardinality(Sent(n)) <= ClusterSize - 1
            /\ Cardinality(tested[n]) \in Nat
        BY <3>2, SomeNodes
      <3>4. Owed(n) <= 2 * (ClusterSize - 1) /\ Owed(n) \in Nat
        BY <3>3, SizeAssumption DEF Owed
      <3> QED
        BY <2>1, <3>1, <3>3, <3>4, SizeAssumption
    <2>4. SendsAt(n)'
      BY <1>2, <2>1, <2>3 DEF SendsAt
    <2> QED
      BY <2>2, <2>4 DEF SendsBound
  <1>10. DegradedBound'
    <2> SUFFICES ASSUME NEW m \in Nodes PROVE degraded[m] <= Cardinality(Lost(m)')
      BY <1>1 DEF DegradedBound
    <2>1. ASSUME NEW p \in Lost(m) PROVE p \in Lost(m)'
      <3>1. p \in Others(m) /\ p \in Nodes /\ m # p /\ ctor[p] = "aborted" /\ ~Broken(m, EndAt(m, p))
        BY DEF Lost, Others
      <3>2. EndAt(m, p) \in Ends /\ Peer(EndAt(m, p)) = p /\ p # n
        BY <3>1, EndAtIs
      <3>3. ~Broken(m, EndAt(m, p))'
        BY <1>2, <3>1, <3>2 DEF DieStages
      <3> QED
        BY <1>2, <3>1, <3>2, <3>3 DEF Lost, Others
    <2>2. Lost(m)' \subseteq Nodes /\ Lost(m) \subseteq Lost(m)'
      BY <2>1 DEF Lost, Others
    <2>3. /\ Cardinality(Lost(m)) <= Cardinality(Lost(m)')
          /\ Cardinality(Lost(m)) \in Nat /\ Cardinality(Lost(m)') \in Nat
      BY <2>2, SomeNodes
    <2>4. degraded[m] <= Cardinality(Lost(m)) /\ degraded[m] \in Nat
      BY DEF BInv, Before, DegradedBound, QTypes, QueueTypes
    <2> QED
      BY <2>3, <2>4
  <1>11. DisconnectedUp'
    BY <1>1, <1>2 DEF DieStages, BInv, Before, DisconnectedUp
  <1>12. ~NobodyDied'
    BY <1>2 DEF NobodyDied
  <1>13. ASSUME Dirty PROVE Dirty'
    BY <1>2, <1>4, <1>6, <1>13, DirtyKept DEF BInv, Others
  <1> QED
    BY <1>6, <1>7, <1>8, <1>9, <1>10, <1>11, <1>12, <1>13 DEF BInv, Before

LEMMA PostEndsBefore ==
  ASSUME BInv, IInv', QTypes', NEW n \in Nodes, Ends1(n), ctor[n] = "post",
         NEW p \in Others(n), peerEnd[n][p] = NoEnd
  PROVE  Before'
  <1>1. p \in Nodes /\ p # n /\ p \in Int /\ n \in Int
    BY DEF Others, Nodes
  <1>2. p \in Sent(n)
    BY DEF BInv, IInv, ReadyMeansCounted, Sent
  <1>3. ~NobodyDied
    BY <1>1, <1>2 DEF BInv, Before, Undisturbed, InUse
  <1>4. ~Clean
    BY CleanIs
  <1> QED
    BY <1>3, <1>4, EndsBefore

\* A node that reads a region too early has taken the completion of the receive
\* of a peer that it has not sent its MR; that peer will wait for it for ever.
LEMMA ExitsBefore ==
  ASSUME BInv, IInv', QTypes', NEW n \in Nodes, NEW p \in Nodes, Exits(n, p),
         listener[n].at = "poll", Peer(listener[n].end) = p, ctor[n] \notin {"off", "aborted"},
         recvCQ[n] > 0
  PROVE  Before'
  <1>1. p \in Others(n) /\ ~Counted(n, p) /\ p \in Sent(n) /\ n # p
    BY PollsDown DEF BInv, Sent, Polls, Others
  <1>2. ~Clean
    BY CleanIs, DoneIdle DEF BInv
  <1>3. ASSUME NobodyDied PROVE Dirty'
    <2>1. Undisturbed
      BY <1>3 DEF BInv, Before
    <2>2. p \notin Filled(n)
      <3>1. peerEnd[n][p] # NoEnd
        <4>1. p \in Int /\ n \in Int
          BY DEF Nodes
        <4> QED
          BY <1>1, <2>1, <4>1 DEF Undisturbed, InUse
      <3>2. peerEnd[n][p] = EndAt(n, p)
        BY <3>1 DEF BInv, Before, Downwards
      <3> QED
        BY <3>2 DEF Exits, Filled
    <2>3. PICK q \in Filled(n) : q \notin Sent(n)
      <3>1. Sent(n) = CountedPeers(n) \cup {p}
        <4>1. \A q \in Nodes : Polls(n, q) <=> q = p
          BY DEF Polls
        <4>2. CountedPeers(n) \subseteq Others(n)
          BY DEF BInv, IInv, CountRight, CountedPeers, Others
        <4> QED
          BY <1>1, <4>1, <4>2 DEF Sent, CountedPeers, Others
      <3>2. p \notin CountedPeers(n) /\ CountedPeers(n) \subseteq Nodes /\ Filled(n) \subseteq Nodes
        BY <1>1 DEF CountedPeers, Filled, Others
      <3>3. incoming[n] = Cardinality(CountedPeers(n)) /\ recvCQ[n] + incoming[n] = Cardinality(Filled(n))
        BY <2>1 DEF BInv, IInv, CountRight, Undisturbed, ReceivedExactly
      <3>4. ASSUME Filled(n) \subseteq Sent(n) PROVE FALSE
        <4>1. Filled(n) \subseteq CountedPeers(n)
          BY <2>2, <3>1, <3>4
        <4>2. Cardinality(Filled(n)) <= Cardinality(CountedPeers(n)) /\ Cardinality(CountedPeers(n)) \in Nat
          BY <3>2, <4>1, SomeNodes
        <4>3. recvCQ[n] \in Nat
          BY DEF BInv, QTypes, QueueTypes
        <4> QED
          BY <3>3, <4>2, <4>3
      <3> QED
        BY <3>4
    <2>4. q \in Nodes /\ q # n /\ n \in Others(q)
      BY DEF Filled, Others
    <2>5. n \notin Filled(q)
      BY <2>1, <2>3, <2>4 DEF Undisturbed, FilledWasSent
    <2>6. /\ UNCHANGED <<recv, incoming>>
          /\ DieStages(n) /\ ctor'[n] = "aborted" /\ \A m \in Others(n) : ctor'[m] = ctor[m]
          /\ recvCQ'[q] = recvCQ[q]
      BY <2>4, DieIs DEF Exits, Ends1, BInv, peerVars, QTypes, QueueTypes
    <2>7. Filled(q) \subseteq Reached(q)' \ {n}
      <3> SUFFICES ASSUME NEW l \in Filled(q) PROVE l \in Reached(q)' /\ l # n
        OBVIOUS
      <3>1. l \in Others(q) /\ l \in Nodes /\ recv[EndAt(q, l)] = "filled" /\ l # n
        BY <2>5 DEF Filled, Others
      <3>2. ~Unbuilt(q, l)
        BY <2>4, <3>1 DEF BInv, Before, UnbuiltBare
      <3>3. ~Unbuilt(q, l)'
        <4>1. /\ Coming(q, l)' => Coming(q, l)
              /\ Coming(l, q)' => Coming(l, q)
          BY <2>4, <2>6, <3>1 DEF DieStages, Coming, Others
        <4>2. ComingAt(l, q)' => ComingAt(l, q)
          BY <2>4, <2>6, <3>1, <4>1 DEF DieStages, ComingAt
        <4> QED
          BY <3>2, <4>1, <4>2 DEF Unbuilt
      <3> QED
        BY <2>6, <3>1, <3>3 DEF Reached
    <2>8. Cardinality(Filled(q)) <= Cardinality(Reached(q)' \ {n})
      <3>1. Reached(q)' \ {n} \subseteq Nodes
        BY DEF Reached, Others
      <3> QED
        BY <2>7, <3>1, SomeNodes
    <2>9. recvCQ[q] + incoming[q] = Cardinality(Filled(q))
      BY <2>1, <2>4 DEF Undisturbed, ReceivedExactly
    <2>10. recvCQ'[q] + incoming'[q] <= Cardinality(Reached(q)' \ {n})
      BY <2>6, <2>8, <2>9
    <2> QED
      BY <2>4, <2>6, <2>10 DEF Dirty
  <1> QED
    BY <1>2, <1>3, EndsBefore DEF Exits

LEMMA CrashBefore ==
  ASSUME BInv, IInv', QTypes', NEW n \in Nodes, Crash(n)
  PROVE  Before'
  <1>1. Ends1(n)
    BY CrashIs DEF BInv
  <1>2. /\ \A m \in Nodes : ctor[m] = "done"
        /\ \A e \in Ends : sq[e] = <<>>
    BY DEF Crash, Settled
  <1>3. NobodyDied
    BY <1>2 DEF NobodyDied
  <1>4. ~Clean
    BY <1>2 DEF Clean
  <1>5. UNCHANGED <<sq, sendCQ, connected>>
    BY DEF Crash, peerVars, nicVars
  <1>6. ctor'[n] = "aborted" /\ \A m \in Others(n) : ctor'[m] = ctor[m]
    BY <1>1, DieIs DEF Ends1, BInv
  <1>7. ASSUME NEW m \in Others(n) PROVE sendCQ[m] = ClusterSize - 1 /\ connected[m][n]
    <2>1. m \in Nodes /\ n \in Others(m)
      BY DEF Others
    <2>2. connected[m][n]
      BY <1>2, <2>1 DEF BInv, IInv, ReadyMeansCounted, CountedMeansConnected, Gone
    <2>3. Sent(m) = Others(m)
      BY <1>2, <2>1 DEF BInv, IInv, ReadyMeansCounted, Sent
    <2>4. tested[m] = Others(m)
      BY <1>2, <2>1 DEF BInv, QTypes, TestedRight
    <2>5. Cardinality(Others(m)) = ClusterSize - 1
      BY <2>1, NodesFinite
    <2>6. Owed(m) = 2 * (ClusterSize - 1)
      BY <1>2, <2>1, <2>3, <2>5, SizeAssumption DEF Owed, HasPosted
    <2>7. Uncollected(m) + (ClusterSize - 1) <= 2 * (ClusterSize - 1)
      BY <1>2, <2>1, <2>4, <2>5, <2>6 DEF BInv, Before, SendsBound, SendsAt
    <2>8. 2 * (ClusterSize - 1) <= Uncollected(m) + (ClusterSize - 1)
      BY <1>3, <2>1, <2>4, <2>5, <2>6 DEF BInv, Before, Undisturbed, SentExactly
    <2>9. PostedIn(sq, m) = {}
      BY <1>2 DEF PostedIn
    <2>10. Uncollected(m) = sendCQ[m] + 0 /\ sendCQ[m] \in Nat
      BY <2>1, <2>9, UncollectedType, FS_EmptySet DEF BInv, QTypes
    <2> QED
      BY <2>2, <2>7, <2>8, <2>10, SizeAssumption
  <1>8. Clean'
    <2>1. ctor'[n] = "aborted" /\ \A e \in Ends : sq'[e] = <<>>
      BY <1>2, <1>5, <1>6
    <2>2. \A m \in Others(n) : ctor'[m] = "done" /\ sendCQ'[m] = ClusterSize - 1 /\ connected'[m][n]
      BY <1>2, <1>5, <1>6, <1>7 DEF Others
    <2> QED
      BY <2>1, <2>2 DEF Clean
  <1> QED
    BY <1>1, <1>2, <1>4, <1>8, EndsBefore


LEMMA DropsBefore ==
  ASSUME BInv, IInv', QTypes', NEW n \in Nodes, NEW e \in Ends, Gone(Peer(e)), Drops(n, e)
  PROVE  Before'
  <1> DEFINE p == Peer(e)
  <1>1. e \in up /\ Here(e) = n /\ e.to < e.from
    BY DEF Drops, BInv, Before, DisconnectedUp, Downwards
  <1>2. p \in Nodes /\ p # n /\ e = EndAt(n, p) /\ ctor[p] = "aborted" /\ p \in Others(n)
    BY <1>1, DownEnd DEF Gone, BInv, Others
  <1> HIDE DEF p
  <1>3. /\ StagesSame
        /\ \A m \in Nodes, d \in Ends : Broken(m, d)' <=> Broken(m, d) /\ ~(m = n /\ d = e)
        /\ up' = up \ {e}
        /\ degraded' = [degraded EXCEPT ![n] = @ + 1]
        /\ connected' = [connected EXCEPT ![n][p] = FALSE]
        /\ peerEnd' = [peerEnd EXCEPT ![n][p] = NoEnd]
        /\ sq' = [sq EXCEPT ![e] = <<>>]
        /\ recv' = [recv EXCEPT ![e] = "none"]
        /\ UNCHANGED <<ctor, tested, listener, peerMR, incoming, recvCQ, sendCQ>>
    BY DEF Drops, ctorVars, p
  <1>4. /\ \A d \in Ends : recv'[d] \in {recv[d], "none"}
        /\ \A d \in Ends : sq'[d] \in {sq[d], <<>>}
        /\ \A m, q \in Nodes : peerEnd'[m][q] \in {peerEnd[m][q], NoEnd}
        /\ \A m, q \in Nodes : q # p => connected'[m][q] = connected[m][q]
        /\ \A m, q \in Nodes : m # n => connected'[m][q] = connected[m][q]
        /\ \A m \in Nodes : m # n => degraded'[m] = degraded[m]
        /\ degraded'[n] = degraded[n] + 1
    <2>a. /\ recv \in [Ends -> {"none", "posted", "filled"}] /\ sq \in [Ends -> Seq({"mr", "test"})]
          /\ peerEnd \in [Nodes -> [Nodes -> Ends \cup {NoEnd}]]
          /\ connected \in [Nodes -> [Nodes -> BOOLEAN]] /\ degraded \in [Nodes -> Nat]
      BY DEF BInv, IInv, Types, QTypes, QueueTypes
    <2>1. /\ \A d \in Ends : recv'[d] \in {recv[d], "none"}
          /\ \A d \in Ends : sq'[d] \in {sq[d], <<>>}
      BY <1>3, <2>a
    <2>2. \A m, q \in Nodes : peerEnd'[m][q] \in {peerEnd[m][q], NoEnd}
      BY <1>2, <1>3, <2>a
    <2>3. /\ \A m, q \in Nodes : q # p => connected'[m][q] = connected[m][q]
          /\ \A m, q \in Nodes : m # n => connected'[m][q] = connected[m][q]
      BY <1>2, <1>3, <2>a
    <2>4. /\ \A m \in Nodes : m # n => degraded'[m] = degraded[m]
          /\ degraded'[n] = degraded[n] + 1
      BY <1>3, <2>a
    <2> QED
      BY <2>1, <2>2, <2>3, <2>4
  <1>5. Progress
    <2>1. \A k \in Nodes : \A l \in Others(k) : Unbuilt(k, l)' <=> Unbuilt(k, l)
      BY <1>3 DEF StagesSame, Unbuilt, ComingAt, Coming, Others
    <2>2. \A k \in Nodes : \A l \in Others(k) : EndAt(k, l) \in Ends
      BY EndAtIs DEF Others
    <2> QED
      BY <1>4, <2>1, <2>2 DEF Progress
  <1>6. UnbuiltBare' /\ \A m \in Nodes : Reached(m) \subseteq Reached(m)'
    BY <1>5, Advance DEF BInv, Before
  <1>7. \A m \in Nodes : recvCQ'[m] + incoming'[m] <= recvCQ[m] + incoming[m]
    BY <1>3 DEF BInv, IInv, Types, QTypes, QueueTypes
  <1>8. ReceivesBound'
    BY <1>6, <1>7, ReceivesKept DEF BInv, Before
  <1>9. Downwards'
    BY <1>3, <1>4 DEF BInv, Before, Downwards
  <1>10. SendsBound'
    <2> SUFFICES ASSUME NEW m \in Nodes PROVE SendsAt(m)'
      BY DEF SendsBound
    <2>1. Uncollected(m)' <= Uncollected(m) /\ Uncollected(m) \in Nat /\ Uncollected(m)' \in Nat
      <3>1. Uncollected(m)' <= Uncollected(m) /\ SqTyped
        BY <1>2, DropSends DEF BInv
      <3>2. Uncollected(m) \in Nat /\ sendCQ[m] \in Nat
        BY UncollectedType DEF BInv, QTypes
      <3>3. Cardinality(PostedIn(sq', m)) \in Nat
        BY <3>1, PostedInIs DEF SqTyped, Queues
      <3>4. Uncollected(m)' = sendCQ[m] + Cardinality(PostedIn(sq', m))
        BY <1>3, UncollectedNext
      <3>5. Uncollected(m)' \in Nat
        BY <3>2, <3>3, <3>4
      <3> QED
        BY <3>1, <3>2, <3>5
    <2>2. Sent(m)' = Sent(m)
      BY <1>3, SentIs
    <2>3. Owed(m)' = Owed(m)
      BY <1>3, <2>2 DEF Owed, HasPosted
    <2>4. Cardinality(tested[m]) \in Nat /\ Owed(m) \in Nat
      <3>1. tested[m] \subseteq Nodes /\ Sent(m) \subseteq Nodes
        BY DEF BInv, QTypes, QueueTypes, Sent, Others
      <3>2. Cardinality(tested[m]) \in Nat /\ Cardinality(Sent(m)) \in Nat
        BY <3>1, SomeNodes
      <3> QED
        BY <3>2, SizeAssumption DEF Owed
    <2>5. SendsAt(m)
      BY DEF BInv, Before, SendsBound
    <2>6. CASE ctor[m] = "aborted"
      BY <1>3, <2>1, <2>5, <2>6, SizeAssumption DEF SendsAt
    <2>7. CASE ctor[m] # "aborted"
      <3>1. Uncollected(m)' + Cardinality(tested[m]) <= Owed(m)
        BY <2>1, <2>4, <2>5, <2>7 DEF SendsAt
      <3> QED
        BY <1>3, <2>3, <2>7, <3>1 DEF SendsAt
    <2> QED
      BY <2>6, <2>7
  <1>11. DegradedBound'
    <2> SUFFICES ASSUME NEW m \in Nodes PROVE degraded'[m] <= Cardinality(Lost(m)')
      BY DEF DegradedBound
    <2>1. \A q \in Others(m) : EndAt(m, q) \in Ends /\ (EndAt(m, q) = e => m = n /\ q = p)
      BY <1>2, EndAtIs, OneEnd DEF Others
    <2>2. Lost(m)' = Lost(m) \cup (IF m = n THEN {p} ELSE {})
      BY <1>2, <1>3, <2>1 DEF Lost
    <2>3. p \notin Lost(n) /\ Lost(m) \subseteq Nodes
      BY <1>2 DEF Lost, Drops, Others
    <2>4. degraded[m] <= Cardinality(Lost(m)) /\ degraded[m] \in Nat /\ Cardinality(Lost(m)) \in Nat
      BY <2>3, SomeNodes DEF BInv, Before, DegradedBound, QTypes, QueueTypes
    <2>5. Cardinality(Lost(m)') = Cardinality(Lost(m)) + IF m = n THEN 1 ELSE 0
      BY <2>2, <2>3, <2>4, SomeNodes
    <2> QED
      BY <1>4, <2>4, <2>5
  <1>12. DisconnectedUp'
    BY <1>1, <1>3 DEF BInv, Before, DisconnectedUp
  <1>13. ~NobodyDied /\ ~NobodyDied'
    BY <1>2, <1>3 DEF NobodyDied
  <1>14. ASSUME Dirty PROVE Dirty'
    BY <1>3, <1>6, <1>7, <1>14, DirtyKept DEF BInv
  <1>15. ASSUME Clean PROVE Clean'
    <2>1. PICK r \in Nodes :
            /\ ctor[r] = "aborted"
            /\ \A d \in Ends : sq[d] = <<>>
            /\ \A m \in Others(r) :
                 /\ ctor[m] = "done"
                 /\ sendCQ[m] = ClusterSize - 1
                 /\ connected[m][r] \/ EndAt(m, r) \notin up
      BY <1>15 DEF Clean
    <2>2. p = r
      BY <1>2, <2>1 DEF Others
    <2>3. ASSUME NEW m \in Others(r) PROVE connected'[m][r] \/ EndAt(m, r) \notin up'
      BY <1>2, <1>3, <1>4, <2>1, <2>2 DEF Others
    <2> QED
      BY <1>3, <1>4, <2>1, <2>3 DEF Clean
  <1> QED
    BY <1>6, <1>8, <1>9, <1>10, <1>11, <1>12, <1>13, <1>14, <1>15 DEF BInv, Before

LEMMA StutterBefore ==
  ASSUME BInv, IInv', QTypes', UNCHANGED vars
  PROVE  Before'
  <1>1. UNCHANGED <<runVars, ctorVars, listener, cmVars, peerVars, degradeVars, nicVars>>
    BY DEF vars
  <1>2. /\ UNCHANGED <<events, up, peerEnd, peerMR, incoming, degraded, recv, recvCQ>>
        /\ UNCHANGED <<ctor, tested, listener, connected, sq, sendCQ>>
    BY <1>1 DEF ctorVars, cmVars, peerVars, degradeVars, nicVars
  <1>3. \A m \in Nodes : Sent(m)' = Sent(m)
    BY <1>2, SentIs
  <1>4. \A m \in Nodes : SendsSame(m)
    <2>1. \A m \in Nodes : Uncollected(m)' = Uncollected(m)
      BY <1>2, UncollectedSame DEF BInv
    <2> QED
      BY <1>2, <1>3, <2>1 DEF SendsSame, HasPosted
  <1>5. \A m \in Nodes : SendsAt(m)'
    BY <1>4, SendsKept DEF BInv, Before, SendsBound
  <1>6. \A e \in Ends : e.from <= e.to => sq'[e] = <<>>
    BY <1>2 DEF BInv, Before, Downwards
  <1>7. NobodyDied => PostedWasSent' /\ SentExactly'
    <2>1. ASSUME NobodyDied PROVE PostedWasSent'
      BY <1>2, <1>3, <2>1, EndForms DEF BInv, Before, Undisturbed, PostedWasSent
    <2>2. ASSUME NobodyDied PROVE SentExactly'
      BY <1>4, <2>2, SendsKept DEF BInv, Before, Undisturbed, SentExactly
    <2> QED
      BY <2>1, <2>2
  <1>8. Clean => Clean'
    BY <1>2 DEF Clean
  <1> QED
    BY <1>2, <1>3, <1>5, <1>6, <1>7, <1>8, InnerKeeps

LEMMA StaysBefore ==
  ASSUME BInv, IInv', QTypes', [Next]_vars, \A n \in Nodes : ~Recover(n)
  PROVE  Before'
  <1>1. CASE UNCHANGED vars
    BY <1>1, StutterBefore
  <1>2. ASSUME NEW n \in Nodes, Start(n) PROVE Before'
    BY <1>2, StartBefore
  <1>3. ASSUME NEW n \in Nodes, Ctor(n) PROVE Before'
    <2>1. CASE CtorCheck(n) \/ CtorSleep(n)
      BY <2>1, MovesIs, MovesBefore
    <2>2. CASE CtorPost(n)
      BY <2>2, PostIs, TestsBefore, PostEndsBefore DEF BInv
    <2>3. CASE CtorPoll(n)
      BY <2>3, TestedIs, TestedBefore
    <2> QED
      BY <1>3, <2>1, <2>2, <2>3 DEF Ctor
  <1>4. ASSUME NEW n \in Nodes, SpuriousWake(n) PROVE Before'
    BY <1>4, MovesIs, MovesBefore
  <1>5. ASSUME NEW n \in Nodes, Listener(n) PROVE Before'
    <2>1. CASE OnAddrResolved(n)
      BY <2>1, AddrIs, AsksBefore DEF BInv
    <2>2. CASE OnRouteResolved(n)
      BY <2>2, RouteIs, RequestsBefore DEF BInv
    <2>3. CASE OnConnectionRequest(n)
      BY <2>3, RequestIs, AcceptsBefore DEF BInv
    <2>4. CASE OnConnectionEstablished(n)
      BY <2>4, EstablishedIs, GreetsFirstBefore, GreetsBackBefore DEF BInv
    <2>5. CASE PollRecv(n)
      BY <2>5, PollIs, ConnectsBefore, ExitsBefore DEF BInv
    <2>6. CASE OnDisconnected(n)
      BY <2>6, DisconnectedIs, DropsBefore DEF BInv
    <2> QED
      BY <1>5, <2>1, <2>2, <2>3, <2>4, <2>5, <2>6 DEF Listener
  <1>6. ASSUME NEW n \in Nodes, Notify(n) PROVE Before'
    BY <1>6, NotifyBefore
  <1>7. ASSUME NEW n \in Nodes, Crash(n) PROVE Before'
    BY <1>7, CrashBefore
  <1>8. ASSUME NEW e \in Ends, Adapter(e) PROVE Before'
    BY <1>8, AdapterIs, FillsBefore, CompletesBefore
  <1> QED
    BY <1>1, <1>2, <1>3, <1>4, <1>5, <1>6, <1>7, <1>8 DEF Next


-----------------------------------------------------------------------------
(* Processes that end, and the node that comes back.                       *)

LEMMA ProcessStep ==
  ASSUME IInv, ProcessRight, [Next]_vars
  PROVE  ProcessRight'
  <1>1. ASSUME \A n \in Nodes : ctor'[n] = "aborted" =>
                 listener'[n] = Idle \/ (ctor[n] = "aborted" /\ listener'[n] = listener[n]),
               \A r \in recovering' : ctor'[r] # "off" \/ (ctor[r] = "off" /\ r \in recovering)
        PROVE  ProcessRight'
    BY <1>1 DEF ProcessRight
  <1>a. recovering \subseteq Nodes /\ \A r \in recovering : ctor[r] # "off"
    BY DEF IInv, Types, ProcessRight
  <1>2. CASE UNCHANGED vars
    <2>1. UNCHANGED <<ctor, listener, recovering>>
      BY <1>2 DEF vars, runVars, ctorVars
    <2> QED
      BY <2>1 DEF ProcessRight
  <1>3. ASSUME NEW n \in Nodes, Die(n), UNCHANGED recovering PROVE ProcessRight'
    <2>1. /\ ctor'[n] = "aborted" /\ listener'[n] = Idle
          /\ \A m \in Others(n) : ctor'[m] = ctor[m] /\ listener'[m] = listener[m]
      BY <1>3, DieIs
    <2> QED
      BY <1>3, <1>a, <2>1 DEF ProcessRight, Others
  <1>4. ASSUME NEW n \in Nodes, ctor[n] # "aborted", UNCHANGED recovering,
               \E l \in CtorLocations \ {"off", "aborted"} : ctor' = [ctor EXCEPT ![n] = l],
               UNCHANGED listener \/ \E l : listener' = [listener EXCEPT ![n] = l]
        PROVE  ProcessRight'
    <2>1. \A m \in Nodes : m # n => ctor'[m] = ctor[m] /\ listener'[m] = listener[m]
      BY <1>4 DEF IInv, Types
    <2>2. ctor'[n] \notin {"off", "aborted"}
      BY <1>4 DEF IInv, Types
    <2> QED
      BY <1>4, <1>a, <2>1, <2>2 DEF ProcessRight
  <1>5. ASSUME UNCHANGED <<recovering, ctor, listener>> PROVE ProcessRight'
    BY <1>5 DEF ProcessRight
  <1>6. ASSUME NEW n \in Nodes, ctor[n] # "aborted", UNCHANGED <<recovering, ctor>>,
               \E l : listener' = [listener EXCEPT ![n] = l]
        PROVE  ProcessRight'
    <2>1. \A m \in Nodes : m # n => listener'[m] = listener[m]
      BY <1>6 DEF IInv, Types
    <2> QED
      BY <1>6, <2>1 DEF ProcessRight
  <1>7. ASSUME NEW n \in Nodes, Start(n) PROVE ProcessRight'
    BY <1>4, <1>7 DEF Start, runVars, CtorLocations
  <1>8. ASSUME NEW n \in Nodes, Ctor(n) PROVE ProcessRight'
    <2>1. CASE CtorCheck(n) \/ CtorSleep(n)
      BY <1>4, <2>1 DEF CtorCheck, CtorSleep, runVars, CtorLocations
    <2>2. CASE CtorPost(n)
      BY <1>3, <1>4, <2>2 DEF CtorPost, runVars, CtorLocations
    <2>3. CASE CtorPoll(n)
      BY <1>4, <2>3 DEF CtorPoll, runVars, CtorLocations
    <2> QED
      BY <1>8, <2>1, <2>2, <2>3 DEF Ctor
  <1>9. ASSUME NEW n \in Nodes, SpuriousWake(n) PROVE ProcessRight'
    BY <1>4, <1>9 DEF SpuriousWake, CtorLocations
  <1>10. ASSUME NEW n \in Nodes, Listener(n) PROVE ProcessRight'
    <2>1. CASE OnAddrResolved(n) \/ OnRouteResolved(n) \/ OnConnectionRequest(n) \/ OnDisconnected(n)
      BY <1>5, <2>1
      DEF OnAddrResolved, OnRouteResolved, OnConnectionRequest, OnDisconnected, runVars, ctorVars
    <2>2. CASE OnConnectionEstablished(n)
      <3>1. /\ ctor[n] # "aborted" /\ UNCHANGED <<recovering, ctor>>
            /\ UNCHANGED listener \/ \E l : listener' = [listener EXCEPT ![n] = l]
        BY <2>2 DEF OnConnectionEstablished, InLoop, Running, runVars, ctorVars
      <3> QED
        BY <1>5, <1>6, <3>1
    <2>3. CASE PollRecv(n)
      <3>1. /\ ctor[n] # "aborted" /\ UNCHANGED recovering
            /\ \/ UNCHANGED ctor /\ listener' = [listener EXCEPT ![n].at = "notify"]
               \/ Die(n)
        BY <2>3 DEF PollRecv, Running, runVars
      <3>2. CASE UNCHANGED ctor /\ listener' = [listener EXCEPT ![n].at = "notify"]
        <4>1. listener' = [listener EXCEPT ![n] = [listener[n] EXCEPT !.at = "notify"]]
          BY <3>2 DEF IInv, Types
        <4> QED
          BY <1>6, <3>1, <3>2, <4>1
      <3> QED
        BY <1>3, <3>1, <3>2
    <2> QED
      BY <1>10, <2>1, <2>2, <2>3 DEF Listener
  <1>11. ASSUME NEW n \in Nodes, Notify(n) PROVE ProcessRight'
    <2>1. /\ ctor[n] \notin {"off", "aborted"} /\ UNCHANGED recovering
          /\ ctor' = [ctor EXCEPT ![n] = IF ctor[n] = "wait" THEN "check" ELSE ctor[n]]
          /\ listener' = [listener EXCEPT ![n] = Idle]
      BY <1>11 DEF Notify, Running, runVars
    <2>2. (IF ctor[n] = "wait" THEN "check" ELSE ctor[n]) \in CtorLocations \ {"off", "aborted"}
      BY <2>1 DEF IInv, Types, CtorLocations
    <2> QED
      BY <1>4, <2>1, <2>2
  <1>12. ASSUME NEW n \in Nodes, Crash(n) PROVE ProcessRight'
    BY <1>3, <1>12 DEF Crash, runVars
  <1>13. ASSUME NEW n \in Nodes, Recover(n) PROVE ProcessRight'
    <2>1. /\ recovering' = {n} /\ ctor' = [ctor EXCEPT ![n] = "check"] /\ UNCHANGED listener
      BY <1>13 DEF Recover
    <2> QED
      BY <2>1 DEF IInv, Types, ProcessRight
  <1>14. ASSUME NEW e \in Ends, Adapter(e) PROVE ProcessRight'
    BY <1>5, <1>14 DEF Adapter, DeliverMR, DeliverWrite, FailRequest, runVars, ctorVars
  <1> QED
    BY <1>2, <1>7, <1>8, <1>9, <1>10, <1>11, <1>12, <1>13, <1>14 DEF Next


-----------------------------------------------------------------------------
(* A node comes back.                                                      *)

\* Only one node has ended: the others are up, have received everything and
\* sent it, and have taken their ends of its connections down.
LEMMA OthersSettled ==
  ASSUME BInv, NEW n \in Nodes, Recover(n)
  PROVE  \A m \in Others(n) :
            /\ incoming[m] = ClusterSize - 1 /\ recvCQ[m] = 0 /\ degraded[m] <= 1
            /\ Uncollected(m) = ClusterSize - 1
            /\ \A e \in Ends : Here(e) = m => recv[e] # "posted" /\ ~Broken(m, e)
            /\ \A e \in up : Here(e) = m => Peer(e) # n
  <1>1. /\ ctor[n] = "aborted"
        /\ \A m \in Others(n) : m \in Nodes /\ m # n /\ ctor[m] = "done" /\ ~connected[m][n]
    BY DEF Recover, Others
  <1>2. ASSUME NEW m \in Others(n)
        PROVE  incoming[m] = ClusterSize - 1 /\ Reached(m) \subseteq Others(m)
    <2>1. \A p \in Others(m) : Counted(m, p)
      BY <1>1 DEF BInv, IInv, ReadyMeansCounted
    <2>2. CountedPeers(m) = Others(m)
      BY <1>1, <2>1 DEF BInv, IInv, CountRight, CountedPeers, Others
    <2> QED
      BY <1>1, <2>2, NodesFinite DEF BInv, IInv, CountRight, Reached
  <1>3. Clean
    <2>1. Clean \/ Dirty
      BY <1>1 DEF BInv, Before, NobodyDied
    <2>2. ASSUME Dirty PROVE FALSE
      <3>1. PICK r \in Nodes, q \in Nodes :
              /\ r # q /\ ctor[r] = "aborted"
              /\ recvCQ[q] + incoming[q] <= Cardinality(Reached(q) \ {r})
        BY <2>2 DEF Dirty
      <3>2. r = n /\ q \in Others(n) /\ n \in Others(q)
        BY <1>1, <3>1 DEF Others
      <3>3. Reached(q) \ {n} \subseteq Others(q) \ {n} /\ Others(q) \subseteq Nodes
        BY <1>2, <3>2 DEF Others
      <3>4. /\ Cardinality(Others(q)) = ClusterSize - 1
            /\ Cardinality(Others(q) \ {n}) = Cardinality(Others(q)) - 1
        BY <3>2, <3>3, NodesFinite, SomeNodes
      <3>5. /\ Cardinality(Reached(q) \ {n}) <= Cardinality(Others(q) \ {n})
            /\ Cardinality(Reached(q) \ {n}) \in Nat
        <4>1. Others(q) \ {n} \subseteq Nodes
          BY <3>3
        <4> QED
          BY <3>3, <4>1, SomeNodes
      <3>6. incoming[q] = ClusterSize - 1 /\ recvCQ[q] \in Nat
        BY <1>2, <3>2 DEF BInv, QTypes, QueueTypes
      <3> QED
        BY <3>1, <3>2, <3>4, <3>5, <3>6, SizeAssumption
    <2> QED
      BY <2>1, <2>2
  <1>4. /\ \A e \in Ends : sq[e] = <<>>
        /\ \A m \in Others(n) : sendCQ[m] = ClusterSize - 1 /\ EndAt(m, n) \notin up
    <2>1. PICK r \in Nodes :
            /\ ctor[r] = "aborted"
            /\ \A e \in Ends : sq[e] = <<>>
            /\ \A m \in Others(r) : /\ sendCQ[m] = ClusterSize - 1
                                    /\ connected[m][r] \/ EndAt(m, r) \notin up
      BY <1>3 DEF Clean
    <2>2. r = n
      BY <1>1, <2>1 DEF Others
    <2> QED
      BY <1>1, <2>1, <2>2
  <1> SUFFICES ASSUME NEW m \in Others(n)
               PROVE  /\ incoming[m] = ClusterSize - 1 /\ recvCQ[m] = 0 /\ degraded[m] <= 1
                      /\ Uncollected(m) = ClusterSize - 1
                      /\ \A e \in Ends : Here(e) = m => recv[e] # "posted" /\ ~Broken(m, e)
                      /\ \A e \in up : Here(e) = m => Peer(e) # n
    OBVIOUS
  <1>5. m \in Nodes /\ m # n /\ n \in Others(m)
    BY DEF Others
  <1>6. recvCQ[m] = 0 /\ Reached(m) = Others(m)
    <2>1. /\ recvCQ[m] + incoming[m] <= Cardinality(Reached(m)) /\ recvCQ[m] \in Nat
          /\ incoming[m] = ClusterSize - 1
      BY <1>2, <1>5 DEF BInv, Before, ReceivesBound, QTypes, QueueTypes
    <2>2. /\ IsFiniteSet(Others(m)) /\ Cardinality(Others(m)) = ClusterSize - 1
          /\ Reached(m) \subseteq Others(m)
      BY <1>2, <1>5, NodesFinite
    <2>3. /\ Cardinality(Reached(m)) <= Cardinality(Others(m))
          /\ Cardinality(Others(m)) = Cardinality(Reached(m)) => Others(m) = Reached(m)
      BY <2>2, FS_Subset
    <2>4. Cardinality(Reached(m)) \in Nat
      BY <2>2, FS_Subset, FS_CardinalityType
    <2> QED
      BY <2>1, <2>2, <2>3, <2>4, SizeAssumption
  <1>7. degraded[m] <= 1
    <2>1. Lost(m) \subseteq {n}
      BY <1>1, <1>5 DEF Lost, Others
    <2>2. Cardinality(Lost(m)) <= 1 /\ Cardinality(Lost(m)) \in Nat
      <3>1. IsFiniteSet({n}) /\ Cardinality({n}) = 1
        BY FS_Singleton
      <3> QED
        BY <2>1, <3>1, FS_Subset, FS_CardinalityType
    <2>3. degraded[m] <= Cardinality(Lost(m)) /\ degraded[m] \in Nat
      BY <1>5 DEF BInv, Before, DegradedBound, QTypes, QueueTypes
    <2> QED
      BY <2>2, <2>3
  <1>8. Uncollected(m) = ClusterSize - 1
    <2>1. PostedIn(sq, m) = {}
      BY <1>4 DEF PostedIn
    <2>2. Uncollected(m) = sendCQ[m] + 0 /\ sendCQ[m] \in Nat
      BY <1>5, <2>1, UncollectedType, FS_EmptySet DEF BInv, QTypes
    <2> QED
      BY <1>4, <2>2
  <1>9. ASSUME NEW e \in Ends, Here(e) = m, recv[e] = "posted" PROVE FALSE
    <2>1. e.to < e.from
      <3>1. e.from \in Int /\ e.to \in Int
        BY EndForms DEF Nodes
      <3> QED
        BY <1>9, <3>1 DEF BInv, Before, Downwards
    <2>2. Peer(e) \in Others(m) /\ e = EndAt(m, Peer(e))
      BY <1>9, <2>1, DownEnd DEF Others
    <2> QED
      BY <1>6, <1>9, <2>2 DEF Reached
  <1>10. ASSUME NEW e \in Ends, e \in up, Here(e) = m, Peer(e) = n PROVE FALSE
    <2>1. e = EndAt(m, n)
      BY <1>10, DownEnd DEF BInv, Before, Downwards
    <2> QED
      BY <1>4, <1>10, <2>1
  <1>11. ASSUME NEW e \in Ends, Here(e) = m, Broken(m, e) PROVE FALSE
    <2>1. e \in up
      BY <1>5, <1>11 DEF BInv, Before, DisconnectedUp
    <2>2. Gone(Peer(e)) /\ Peer(e) \in Nodes
      BY <1>5, <1>11, EndForms DEF BInv, IInv, OnlyGoneDisconnect, Broken, Event, Peer
    <2>3. Peer(e) = n
      BY <1>1, <2>2 DEF Gone, BInv, Others
    <2> QED
      BY <1>10, <1>11, <2>1, <2>3
  <1>12. up \subseteq Ends
    BY DEF BInv, IInv, Types
  <1> QED
    BY <1>2, <1>6, <1>7, <1>8, <1>9, <1>10, <1>11, <1>12

LEMMA RecoverAfter ==
  ASSUME BInv, ProcessRight, QTypes', NEW n \in Nodes, Recover(n)
  PROVE  After(n)'
  <1>1. /\ n \in Restartable /\ ctor[n] = "aborted"
        /\ \A m \in Others(n) : ctor[m] = "done"
        /\ AskedStages(n, TRUE)
    BY AskedIs DEF Recover, BInv
  <1>2. /\ ctor' = [ctor EXCEPT ![n] = "check"] /\ tested' = [tested EXCEPT ![n] = {}]
        /\ up' = {e \in up : Here(e) # n} /\ listener' = listener
        /\ peerEnd' = [peerEnd EXCEPT ![n] = [p \in Nodes |-> NoEnd]]
        /\ incoming' = [incoming EXCEPT ![n] = 0]
        /\ degraded' = [degraded EXCEPT ![n] = 0]
        /\ recv' = [e \in Ends |-> IF Here(e) = n THEN "none" ELSE recv[e]]
        /\ sq' = [e \in Ends |-> IF Here(e) = n THEN <<>> ELSE sq[e]]
        /\ recvCQ' = [recvCQ EXCEPT ![n] = 0]
        /\ sendCQ' = [sendCQ EXCEPT ![n] = 0]
    BY DEF Recover
  <1>3. /\ ctor'[n] = "check" /\ tested'[n] = {} /\ listener'[n].at # "poll"
        /\ peerEnd'[n] = [p \in Nodes |-> NoEnd]
        /\ incoming'[n] = 0 /\ degraded'[n] = 0 /\ recvCQ'[n] = 0 /\ sendCQ'[n] = 0
        /\ \A m \in Others(n) : /\ incoming'[m] = incoming[m] /\ degraded'[m] = degraded[m]
                                  /\ recvCQ'[m] = recvCQ[m] /\ sendCQ'[m] = sendCQ[m]
    BY <1>1, <1>2 DEF BInv, IInv, Types, QTypes, QueueTypes, ProcessRight, Idle, Others
  <1>4. \A k, l \in Nodes :
          /\ Resolving(k, l)' <=> k = n
          /\ ~Resolved(k, l)' /\ ~Requested(k, l)' /\ ~Accepted(k, l)' /\ ~AcceptedAt(k, l)'
    <2>1. Targets(n, TRUE) = Nodes
      BY DEF Targets
    <2>2. ASSUME NEW k \in Nodes, k # n, NEW l \in Nodes
          PROVE  /\ ~Resolving(k, l) /\ ~Resolved(k, l) /\ ~Requested(l, k)
                 /\ ~Accepted(k, l) /\ ~AcceptedAt(l, k)
      BY <1>1, <2>2, DoneIdle DEF BInv, Others
    <2> QED
      BY <1>1, <2>1, <2>2 DEF AskedStages
  <1>5. \A m \in Others(n) : \A e \in Ends : Here(e) = m => recv'[e] # "posted" /\ ~Broken(m, e)
    BY <1>2, OthersSettled DEF Others
  <1>6. \A m \in Nodes, e \in Ends : ~Broken(m, e)'
    <2>1. \A m \in Nodes, e \in Ends : Broken(m, e)' => Broken(m, e) /\ m # n
      BY <1>1 DEF AskedStages
    <2>2. \A m \in Nodes, e \in Ends : Broken(m, e) => Here(e) = m
      BY DEF BInv, Before, DisconnectedUp
    <2> QED
      BY <1>5, <2>1, <2>2 DEF Others
  <1>7. InTurn(n)'
    BY <1>4 DEF InTurn
  <1>8. OnlyItsOwn(n)'
    <2>1. ASSUME NEW e \in up', Here(e) # n PROVE Peer(e) # n
      <3>1. e \in up /\ Here(e) \in Nodes
        BY <1>2, <2>1, EndForms DEF BInv, IInv, Types, Here
      <3> QED
        BY <2>1, <3>1, OthersSettled DEF Others
    <2> QED
      BY <1>4, <1>6, <2>1 DEF OnlyItsOwn, Ahead, Others
  <1>9. Uncollected(n)' = 0
    <2>1. PostedIn(sq', n) = {}
      BY <1>2 DEF PostedIn
    <2>2. Uncollected(n)' = 0 + Cardinality(PostedIn(sq', n))
      BY <1>3, UncollectedNext
    <2> QED
      BY <2>1, <2>2, FS_EmptySet
  <1>10. ASSUME NEW m \in Others(n) PROVE Uncollected(m)' = ClusterSize - 1
    <2>1. m \in Nodes /\ m # n
      BY DEF Others
    <2>2. PostedIn(sq', m) = PostedIn(sq, m)
      BY <1>2, <2>1 DEF PostedIn
    <2>3. Uncollected(m)' = sendCQ[m] + Cardinality(PostedIn(sq, m))
      BY <1>3, <2>1, <2>2, UncollectedNext
    <2>4. Uncollected(m)' = Uncollected(m)
      BY <2>1, <2>3, UncollectedType DEF BInv, QTypes
    <2> QED
      BY <2>4, OthersSettled
  <1>11. Own(n)'
    <2>1. Cardinality(OpenEnds(n)') <= ClusterSize + 1 /\ Cardinality(OpenEnds(n)') \in Nat
      <3> DEFINE f == [p \in Nodes |-> ActiveEnd(n, p)]
                 own == {f[p] : p \in Nodes}
      <3>1. f \in Surjection(Nodes, own)
        BY DEF Surjection
      <3>2. IsFiniteSet(own) /\ Cardinality(own) <= ClusterSize
        BY <3>1, NodesFinite, FS_Surjection
      <3>3. \A p \in Nodes : f[p] = ActiveEnd(n, p)
        OBVIOUS
      <3>4. OpenEnds(n)' \subseteq own \cup {Passive(n, n)}
        BY <3>3 DEF OpenEnds
      <3> HIDE DEF f, own
      <3>5. /\ IsFiniteSet(own \cup {Passive(n, n)})
            /\ Cardinality(own \cup {Passive(n, n)}) <= Cardinality(own) + 1
            /\ Cardinality(own) \in Nat
        BY <3>2, FS_AddElement, FS_CardinalityType
      <3>6. /\ Cardinality(OpenEnds(n)') <= Cardinality(own \cup {Passive(n, n)})
            /\ Cardinality(OpenEnds(n)') \in Nat /\ Cardinality(own \cup {Passive(n, n)}) \in Nat
        BY <3>4, <3>5, FS_Subset, FS_CardinalityType
      <3> QED
        BY <3>2, <3>5, <3>6, SizeAssumption
    <2>2. Cardinality(Unreceived(n)') <= ClusterSize /\ Cardinality(Unreceived(n)') \in Nat
      <3>1. Unreceived(n)' \subseteq Nodes
        BY DEF Unreceived
      <3> QED
        BY <3>1, SomeNodes
    <2>3. \A e \in Ends : Here(e) = n => recv'[e] = "none" /\ sq'[e] = <<>>
      BY <1>2
    <2>4. \A p \in Nodes : ActiveEnd(n, p) \in Ends /\ Here(ActiveEnd(n, p)) = n
      BY <1>1, PassiveIs
    <2>5. Cardinality(tested'[n]) = 0
      BY <1>3, FS_EmptySet
    <2>6. incoming'[n] + Cardinality(OpenEnds(n)') + (IF listener'[n].at = "poll" THEN 1 ELSE 0) <= ClusterSize + 1
      BY <1>3, <2>1
    <2>7. Uncollected(n)' + Cardinality(tested'[n]) + Cardinality(OpenEnds(n)')
            <= ClusterSize + 1 + IF HasPosted(n)' THEN ClusterSize - 1 ELSE 0
      BY <1>3, <1>9, <2>1, <2>5, SizeAssumption DEF HasPosted
    <2>8. recvCQ'[n] + Cardinality(Unreceived(n)') <= ClusterSize
      BY <1>3, <2>2
    <2>9. /\ \A p \in Nodes : recv'[ActiveEnd(n, p)] # "posted"
          /\ \A e \in Ends : Here(e) = n => recv'[e] # "posted"
          /\ sq'[ActiveEnd(n, n)] = <<>>
      BY <2>3, <2>4
    <2>10. ~Accepted(n, n)' /\ ~AcceptedAt(n, n)'
      BY <1>4
    <2> QED
      BY <1>3, <2>6, <2>7, <2>8, <2>9, <2>10 DEF Own
  <1>12. ASSUME NEW m \in Others(n)
         PROVE  OtherRight(n, m)'
    <2>1. /\ incoming[m] = ClusterSize - 1 /\ recvCQ[m] = 0 /\ degraded[m] <= 1
          /\ m \in Nodes /\ m # n
      BY OthersSettled DEF Others
    <2>2. OtherSends(n, m)'
      BY <1>10, SizeAssumption DEF OtherSends
    <2>3. OtherReceives(n, m)'
      <3>1. recv'[Passive(n, m)] # "posted"
        <4>1. Passive(n, m) \in Ends /\ Here(Passive(n, m)) = m
          BY <1>1, <2>1, PassiveIs
        <4> QED
          BY <1>5, <4>1
      <3>2. recvCQ'[m] = 0 /\ \A e \in Ends : Here(e) = m => recv'[e] # "posted"
        BY <1>3, <1>5, <2>1
      <3> QED
        BY <3>1, <3>2 DEF OtherReceives
    <2>4. OtherDegraded(n, m)'
      BY <1>3, <2>1 DEF OtherDegraded
    <2>5. incoming'[m] <= ClusterSize - 1
      BY <1>3, <2>1, SizeAssumption
    <2> QED
      BY <2>2, <2>3, <2>4, <2>5 DEF OtherRight
  <1> QED
    BY <1>7, <1>8, <1>11, <1>12 DEF After


-----------------------------------------------------------------------------
(* After node r has come back: what steps have in common.                  *)

AInv(r) == IInv /\ QTypes /\ ProcessRight /\ r \in recovering /\ After(r)

LEMMA AfterFacts ==
  ASSUME NEW r, AInv(r)
  PROVE  /\ r \in Nodes /\ r \in Restartable /\ recovering = {r} /\ ctor[r] # "off"
         /\ \A m \in Others(r) : m \in Nodes /\ m # r /\ ctor[m] = "done" /\ listener[m].at # "poll"
         /\ \A n \in Nodes : n # r => n \in Others(r)
         /\ \A p \in Nodes : ActiveEnd(r, p) \in Ends /\ Passive(r, p) \in Ends
  <1>1. r \in recovering /\ recovering \subseteq Restartable /\ recovering = {r}
    BY DEF AInv, QTypes, QueueTypes, IInv, Types
  <1>2. r \in Nodes /\ r \in Restartable
    BY <1>1, RoleAssumption
  <1>3. \A m \in Others(r) : ctor[m] = "done" /\ listener[m].at # "poll"
    BY <1>1 DEF AInv, IInv, OthersAreUp
  <1> QED
    BY <1>1, <1>2, <1>3, PassiveIs DEF AInv, ProcessRight, Others

LEMMA UncollectedTypeNext ==
  ASSUME QTypes', NEW n \in Nodes
  PROVE  Uncollected(n)' \in Nat
  <1>1. Cardinality(PostedIn(sq', n)) \in Nat /\ sendCQ'[n] \in Nat
    BY PostedInIs DEF QTypes, QueueTypes, Queues
  <1> QED
    BY <1>1, UncollectedNext

LEMMA SomeEnds ==
  ASSUME NEW S, S \subseteq Ends
  PROVE  /\ Cardinality(S) \in Nat
         /\ \A T \in SUBSET S : Cardinality(T) \in Nat /\ Cardinality(T) <= Cardinality(S)
         /\ \A x \in S : \A T \in SUBSET (S \ {x}) : /\ Cardinality(T) \in Nat
                                                    /\ Cardinality(T) <= Cardinality(S) - 1
  <1>1. IsFiniteSet(S)
    BY EndsFinite, FS_Subset
  <1>2. ASSUME NEW T \in SUBSET S PROVE Cardinality(T) \in Nat /\ Cardinality(T) <= Cardinality(S)
    BY <1>1, FS_Subset, FS_CardinalityType
  <1>3. ASSUME NEW x \in S, NEW T \in SUBSET (S \ {x})
        PROVE  Cardinality(T) \in Nat /\ Cardinality(T) <= Cardinality(S) - 1
    <2>1. IsFiniteSet(S \ {x}) /\ Cardinality(S \ {x}) = Cardinality(S) - 1
      BY <1>1, FS_RemoveElement
    <2> QED
      BY <2>1, FS_Subset, FS_CardinalityType
  <1> QED
    BY <1>1, <1>2, <1>3, FS_CardinalityType

LEMMA OpenEndsAre ==
  ASSUME NEW r, AInv(r)
  PROVE  /\ OpenEnds(r) \subseteq Ends /\ OpenEnds(r)' \subseteq Ends
         /\ \A e : e \in OpenEnds(r) <=>
              \/ \E p \in Nodes : e = ActiveEnd(r, p) /\ Ahead(r, p)
              \/ e = Passive(r, r) /\ (Ahead(r, r) \/ AcceptedAt(r, r))
         /\ \A e : e \in OpenEnds(r)' <=>
              \/ \E p \in Nodes : e = ActiveEnd(r, p) /\ Ahead(r, p)'
              \/ e = Passive(r, r) /\ (Ahead(r, r)' \/ AcceptedAt(r, r)')
  <1>1. r \in Nodes /\ \A p \in Nodes : ActiveEnd(r, p) \in Ends /\ Passive(r, p) \in Ends
    BY AfterFacts
  <1>2. Passive(r, r) \in Ends
    BY <1>1
  <1> QED
    BY <1>1, <1>2 DEF OpenEnds

LEMMA OpenSame ==
  ASSUME NEW r \in Nodes, \A q \in Nodes : Ahead(r, q)' <=> Ahead(r, q),
         AcceptedAt(r, r)' <=> AcceptedAt(r, r)
  PROVE  OpenEnds(r)' = OpenEnds(r)
  <1>1. {q \in Nodes : Ahead(r, q)'} = {q \in Nodes : Ahead(r, q)}
    OBVIOUS
  <1>2. Ahead(r, r)' \/ AcceptedAt(r, r)' <=> Ahead(r, r) \/ AcceptedAt(r, r)
    OBVIOUS
  <1> QED
    BY <1>1, <1>2 DEF OpenEnds

Setting(n, p)  == Ahead(n, p) \/ AcceptedAt(n, p)
Unaccepted(n, p) == Resolving(n, p) \/ Resolved(n, p) \/ Requested(n, p)

\* An other node has sent, received and lost no more.
LEMMA OtherKept ==
  ASSUME NEW r, AInv(r), QTypes', NEW m \in Others(r),
         ctor'[r] # "aborted" => ctor[r] # "aborted",
         Uncollected(m)' = Uncollected(m),
         Setting(r, m)' => Setting(r, m),
         Unaccepted(r, m)' => Unaccepted(r, m),
         recvCQ'[m] = recvCQ[m], incoming'[m] = incoming[m],
         \A e \in Ends : Here(e) = m => recv'[e] = recv[e],
         OtherDegraded(r, m)'
  PROVE  OtherRight(r, m)'
  <1>1. /\ OtherSends(r, m) /\ OtherReceives(r, m) /\ incoming[m] <= ClusterSize - 1
        /\ m \in Nodes /\ r \in Nodes
    BY AfterFacts DEF AInv, After, OtherRight
  <1>2. OtherSends(r, m)'
    <2>1. Uncollected(m) \in Nat
      BY <1>1, UncollectedType DEF AInv, QTypes
    <2> QED
      BY <1>1, <2>1, SizeAssumption DEF OtherSends, Setting
  <1>3. OtherReceives(r, m)'
    <2>1. recv'[Passive(r, m)] = recv[Passive(r, m)]
      BY <1>1, AfterFacts, PassiveIs
    <2>2. recvCQ[m] \in Nat
      BY <1>1 DEF AInv, QTypes, QueueTypes
    <2> QED
      BY <1>1, <2>1, <2>2 DEF OtherReceives, Unaccepted
  <1> QED
    BY <1>1, <1>2, <1>3 DEF OtherRight

LEMMA OthersKept ==
  ASSUME NEW r, AInv(r), QTypes',
         ctor'[r] # "aborted" => ctor[r] # "aborted",
         \A m \in Others(r) :
            /\ Uncollected(m)' = Uncollected(m)
            /\ Setting(r, m)' => Setting(r, m)
            /\ Unaccepted(r, m)' => Unaccepted(r, m)
            /\ recvCQ'[m] = recvCQ[m] /\ incoming'[m] = incoming[m]
            /\ \A e \in Ends : Here(e) = m => recv'[e] = recv[e]
            /\ OtherDegraded(r, m)'
  PROVE  \A m \in Others(r) : OtherRight(r, m)'
  BY OtherKept

LEMMA DegradedStays ==
  ASSUME NEW r, AInv(r), degraded' = degraded, ctor'[r] = "aborted" <=> ctor[r] = "aborted",
         \A m \in Nodes, e \in Ends : Broken(m, e)' => Broken(m, e)
  PROVE  \A m \in Others(r) : OtherDegraded(r, m)'
  <1> SUFFICES ASSUME NEW m \in Others(r) PROVE OtherDegraded(r, m)'
    OBVIOUS
  <1>1. OtherDegraded(r, m) /\ m \in Nodes /\ Passive(r, m) \in Ends
    BY AfterFacts DEF AInv, After, OtherRight
  <1>2. degraded[m] \in Nat
    BY <1>1 DEF AInv, QTypes, QueueTypes
  <1> QED
    BY <1>1, <1>2 DEF OtherDegraded

\* Steps in which no connection takes a step and no process ends.
LEMMA StillAfter ==
  ASSUME NEW r, AInv(r), QTypes', StagesSame, BrokenSame, UNCHANGED <<up, degraded>>,
         ctor'[r] = "aborted" <=> ctor[r] = "aborted",
         \A m \in Others(r) :
            /\ Uncollected(m)' = Uncollected(m)
            /\ recvCQ'[m] = recvCQ[m] /\ incoming'[m] = incoming[m]
            /\ \A e \in Ends : Here(e) = m => recv'[e] = recv[e],
         Own(r)'
  PROVE  After(r)'
  <1>1. r \in Nodes /\ \A m \in Others(r) : m \in Nodes
    BY AfterFacts
  <1>2. \A k, l \in Nodes : /\ Ahead(k, l)' <=> Ahead(k, l)
                            /\ Setting(k, l)' <=> Setting(k, l)
                            /\ Unaccepted(k, l)' <=> Unaccepted(k, l)
    BY DEF StagesSame, Ahead, Setting, Unaccepted
  <1>3. InTurn(r)'
    BY <1>1 DEF StagesSame, InTurn, AInv, After
  <1>4. OnlyItsOwn(r)'
    BY <1>1, <1>2 DEF StagesSame, BrokenSame, OnlyItsOwn, AInv, After
  <1>5. \A m \in Others(r) : OtherDegraded(r, m)'
    BY DegradedStays DEF BrokenSame
  <1>6. \A m \in Others(r) : OtherRight(r, m)'
    BY <1>1, <1>2, <1>5, OthersKept
  <1> QED
    BY <1>3, <1>4, <1>6 DEF After

\* What the new process counts.
PollingOne(n) == IF listener[n].at = "poll" THEN 1 ELSE 0
HasTested(n)  == IF HasPosted(n) THEN ClusterSize - 1 ELSE 0

LEMMA OwnStill ==
  ASSUME NEW r, AInv(r), IInv', QTypes', StagesSame, UNCHANGED <<degraded, peerEnd, recv>>,
         sq'[ActiveEnd(r, r)] = <<>>,
         incoming'[r] + PollingOne(r)' <= incoming[r] + PollingOne(r),
         recvCQ'[r] <= recvCQ[r],
         ctor'[r] = "aborted" <=> ctor[r] = "aborted",
         ctor[r] = "aborted" => Uncollected(r)' <= Uncollected(r),
         ctor[r] # "aborted" =>
            Uncollected(r)' + Cardinality(tested'[r]) + HasTested(r)
              <= Uncollected(r) + Cardinality(tested[r]) + HasTested(r)'
  PROVE  Own(r)'
  <1>1. r \in Nodes /\ Own(r)
    BY AfterFacts DEF AInv, After
  <1>2. OpenEnds(r)' = OpenEnds(r) /\ Cardinality(OpenEnds(r)) \in Nat
    <2>1. \A p \in Nodes : (Ahead(r, p)' <=> Ahead(r, p)) /\ (AcceptedAt(r, p)' <=> AcceptedAt(r, p))
      BY <1>1 DEF StagesSame, Ahead
    <2>2. OpenEnds(r)' = OpenEnds(r)
      BY <1>1, <2>1, OpenSame
    <2> QED
      BY <2>2, OpenEndsAre, SomeEnds
  <1>3. Unreceived(r)' = Unreceived(r) /\ Cardinality(Unreceived(r)) \in Nat
    <2>1. Unreceived(r)' = Unreceived(r) /\ Unreceived(r) \subseteq Nodes
      BY <1>1 DEF StagesSame, Unreceived
    <2> QED
      BY <2>1, SomeNodes
  <1>4. /\ incoming[r] \in Nat /\ incoming'[r] \in Nat /\ recvCQ[r] \in Nat /\ recvCQ'[r] \in Nat
        /\ PollingOne(r) \in Nat /\ PollingOne(r)' \in Nat
        /\ HasTested(r) \in Nat /\ HasTested(r)' \in Nat
        /\ Uncollected(r) \in Nat /\ Uncollected(r)' \in Nat
    <2>1. Uncollected(r) \in Nat /\ Uncollected(r)' \in Nat
      BY <1>1, UncollectedType, UncollectedTypeNext DEF AInv, QTypes
    <2>2. /\ incoming \in [Nodes -> Nat] /\ incoming' \in [Nodes -> Nat]
          /\ recvCQ \in [Nodes -> Nat] /\ recvCQ' \in [Nodes -> Nat]
      BY DEF AInv, IInv, Types, QTypes, QueueTypes
    <2> QED
      BY <1>1, <2>1, <2>2, SizeAssumption DEF PollingOne, HasTested
  <1>5. Cardinality(tested[r]) \in Nat /\ Cardinality(tested'[r]) \in Nat
    <2>1. tested[r] \subseteq Nodes /\ tested'[r] \subseteq Nodes
      BY <1>1 DEF AInv, QTypes, QueueTypes
    <2> QED
      BY <2>1, SomeNodes
  <1>6. incoming'[r] + Cardinality(OpenEnds(r)') + (IF listener'[r].at = "poll" THEN 1 ELSE 0) <= ClusterSize + 1
    <2>1. incoming[r] + Cardinality(OpenEnds(r)) + PollingOne(r) <= ClusterSize + 1
      BY <1>1 DEF Own, PollingOne
    <2>a. /\ incoming[r] \in Int /\ incoming'[r] \in Int /\ Cardinality(OpenEnds(r)) \in Int
          /\ PollingOne(r) \in Int /\ PollingOne(r)' \in Int /\ ClusterSize \in Int
      BY <1>2, <1>4, SizeAssumption
    <2>b. incoming'[r] + PollingOne(r)' <= incoming[r] + PollingOne(r)
      OBVIOUS
    <2>2. incoming'[r] + Cardinality(OpenEnds(r)) + PollingOne(r)' <= ClusterSize + 1
      BY <2>1, <2>a, <2>b
    <2> QED
      BY <1>2, <2>2 DEF PollingOne
  <1>7. IF ctor'[r] = "aborted" THEN Uncollected(r)' <= 2 * ClusterSize
        ELSE Uncollected(r)' + Cardinality(tested'[r]) + Cardinality(OpenEnds(r)')
              <= ClusterSize + 1 + IF HasPosted(r)' THEN ClusterSize - 1 ELSE 0
    <2>1. CASE ctor[r] = "aborted"
      BY <1>1, <1>4, <2>1, SizeAssumption DEF Own
    <2>2. CASE ctor[r] # "aborted"
      <3>1. Uncollected(r) + Cardinality(tested[r]) + Cardinality(OpenEnds(r)) <= ClusterSize + 1 + HasTested(r)
        BY <1>1, <2>2 DEF Own, HasTested
      <3>2. Uncollected(r)' + Cardinality(tested'[r]) + Cardinality(OpenEnds(r)) <= ClusterSize + 1 + HasTested(r)'
        <4>1. Uncollected(r)' + Cardinality(tested'[r]) + HasTested(r)
                <= Uncollected(r) + Cardinality(tested[r]) + HasTested(r)'
          BY <2>2
        <4>2. /\ Uncollected(r) \in Int /\ Uncollected(r)' \in Int
              /\ HasTested(r) \in Int /\ HasTested(r)' \in Int
              /\ Cardinality(tested[r]) \in Int /\ Cardinality(tested'[r]) \in Int
              /\ Cardinality(OpenEnds(r)) \in Int /\ ClusterSize \in Int
          BY <1>2, <1>4, <1>5, SizeAssumption
        <4>3. \A a, b, t, u, h, i, o, k \in Int :
                a + t + o <= k + 1 + h /\ b + u + h <= a + t + i => b + u + o <= k + 1 + i
          OBVIOUS
        <4> HIDE DEF HasTested
        <4> QED
          BY <3>1, <4>1, <4>2, <4>3
      <3> QED
        BY <1>2, <2>2, <3>2 DEF HasTested
    <2> QED
      BY <2>1, <2>2
  <1>8. recvCQ'[r] + Cardinality(Unreceived(r)') <= ClusterSize
    BY <1>1, <1>3, <1>4, SizeAssumption DEF Own
  <1>9. /\ \A p \in Nodes : Resolving(r, p)' => recv[ActiveEnd(r, p)] # "posted"
        /\ Accepted(r, r)' \/ AcceptedAt(r, r)' => peerEnd[r][r] # ActiveEnd(r, r)
    BY <1>1 DEF Own, StagesSame
  <1> QED
    BY <1>1, <1>6, <1>7, <1>8, <1>9 DEF Own


-----------------------------------------------------------------------------
(* Afterwards: steps inside a process.                                     *)

\* Only the new process is on its way.
LEMMA OnlyNew ==
  ASSUME NEW r, AInv(r), NEW n \in Nodes, ctor[n] # "done" \/ listener[n].at = "poll"
  PROVE  n = r
  BY AfterFacts

\* A queue that holds nothing.
LEMMA OwnQueueEmpty ==
  ASSUME NEW r, AInv(r)
  PROVE  ActiveEnd(r, r) \in Ends /\ Here(ActiveEnd(r, r)) = r /\ sq[ActiveEnd(r, r)] = <<>>
  BY AfterFacts, PassiveIs DEF AInv, After, Own

LEMMA CalmAfter ==
  ASSUME NEW r, AInv(r), IInv', QTypes',
         UNCHANGED <<tested, events, up, peerEnd, incoming, degraded, recv, recvCQ, sq, sendCQ>>,
         HasPosted(r)' <=> HasPosted(r), ctor'[r] = "aborted" <=> ctor[r] = "aborted",
         listener'[r].at = "poll" => listener[r].at = "poll"
  PROVE  After(r)'
  <1>1. StagesSame /\ BrokenSame
    BY EventsSame
  <1>2. r \in Nodes /\ \A m \in Others(r) : m \in Nodes
    BY AfterFacts
  <1>3. \A m \in Nodes : Uncollected(m)' = Uncollected(m) /\ Uncollected(m) \in Nat
    BY UncollectedSame, UncollectedType DEF AInv, QTypes
  <1>4. incoming'[r] + PollingOne(r)' <= incoming[r] + PollingOne(r) /\ recvCQ'[r] <= recvCQ[r]
    <2>1. incoming[r] \in Nat /\ recvCQ[r] \in Nat
      BY <1>2 DEF AInv, IInv, Types, QTypes, QueueTypes
    <2> QED
      BY <2>1 DEF PollingOne
  <1>5. Uncollected(r)' + Cardinality(tested'[r]) + HasTested(r)
              <= Uncollected(r) + Cardinality(tested[r]) + HasTested(r)'
    <2>1. tested[r] \subseteq Nodes
      BY <1>2 DEF AInv, QTypes, QueueTypes
    <2>2. Cardinality(tested[r]) \in Nat
      BY <2>1, SomeNodes
    <2>3. HasTested(r)' = HasTested(r) /\ HasTested(r) \in Nat
      BY SizeAssumption DEF HasTested
    <2> QED
      BY <1>2, <1>3, <2>2, <2>3
  <1>6. Own(r)'
    BY <1>1, <1>2, <1>3, <1>4, <1>5, OwnQueueEmpty, OwnStill
  <1> QED
    BY <1>1, <1>2, <1>3, <1>6, StillAfter

LEMMA MovesAfter ==
  ASSUME NEW r, AInv(r), IInv', QTypes', NEW n \in Nodes, Moves(n)
  PROVE  After(r)'
  <1>1. /\ ctor[n] \in EarlyPlaces /\ ctor[n] # "off" /\ ctor'[n] \in EarlyPlaces
        /\ UNCHANGED <<tested, listener, cmVars, peerVars, degradeVars, nicVars>>
    BY DEF Moves, AInv, IInv, Types
  <1>2. n = r
    BY <1>1, OnlyNew DEF EarlyPlaces
  <1> QED
    BY <1>1, <1>2, CalmAfter DEF HasPosted, EarlyPlaces, cmVars, peerVars, degradeVars, nicVars

LEMMA NotifyAfter ==
  ASSUME NEW r, AInv(r), IInv', QTypes', NEW n \in Nodes, Notify(n)
  PROVE  After(r)'
  <1>1. /\ ctor' = [ctor EXCEPT ![n] = IF @ = "wait" THEN "check" ELSE @]
        /\ listener' = [listener EXCEPT ![n] = Idle] /\ listener[n].at = "notify"
        /\ UNCHANGED <<tested, cmVars, peerVars, degradeVars, nicVars>>
    BY DEF Notify
  <1>2. r \in Nodes
    BY AfterFacts
  <1>3. ctor'[r] = ctor[r] \/ (ctor[r] = "wait" /\ ctor'[r] = "check")
    <2>1. r # n => ctor'[r] = ctor[r]
      BY <1>1, <1>2 DEF AInv, IInv, Types
    <2>2. ctor'[n] = IF ctor[n] = "wait" THEN "check" ELSE ctor[n]
      BY <1>1 DEF AInv, IInv, Types
    <2> QED
      BY <2>1, <2>2
  <1>4. listener'[r].at = "poll" => listener[r].at = "poll"
    BY <1>1, <1>2 DEF AInv, IInv, Types, Idle
  <1> QED
    BY <1>1, <1>3, <1>4, CalmAfter DEF HasPosted, cmVars, peerVars, degradeVars, nicVars

LEMMA StutterAfter ==
  ASSUME NEW r, AInv(r), IInv', QTypes', UNCHANGED vars
  PROVE  After(r)'
  <1>1. UNCHANGED <<ctorVars, listener, cmVars, peerVars, degradeVars, nicVars>>
    BY DEF vars
  <1> QED
    BY <1>1, CalmAfter DEF HasPosted, ctorVars, cmVars, peerVars, degradeVars, nicVars

LEMMA TestedAfter ==
  ASSUME NEW r, AInv(r), IInv', QTypes', NEW n \in Nodes, NEW p \in Nodes, Tested(n, p)
  PROVE  After(r)'
  <1>1. /\ ctor[n] = "poll" /\ sendCQ[n] > 0 /\ sendCQ' = [sendCQ EXCEPT ![n] = @ - 1]
        /\ p \notin tested[n] /\ tested' = [tested EXCEPT ![n] = @ \cup {p}]
        /\ ctor' = [ctor EXCEPT ![n] = IF tested'[n] = Others(n) THEN "done" ELSE @]
        /\ UNCHANGED <<listener, events, up, peerEnd, incoming, degraded, recv, recvCQ, sq>>
    BY DEF Tested, cmVars, peerVars, degradeVars
  <1>2. n = r /\ r \in Nodes /\ \A m \in Others(r) : m \in Nodes /\ m # r
    BY <1>1, OnlyNew, AfterFacts
  <1>3. StagesSame /\ BrokenSame
    BY <1>1, EventsSame
  <1>4. ASSUME NEW m \in Nodes
        PROVE  Uncollected(m)' = Uncollected(m) - (IF m = r THEN 1 ELSE 0) /\ Uncollected(m) \in Nat
    <2>1. Uncollected(m)' = sendCQ'[m] + Cardinality(PostedIn(sq, m))
      BY <1>1, UncollectedNext
    <2>2. /\ Uncollected(m) = sendCQ[m] + Cardinality(PostedIn(sq, m)) /\ Uncollected(m) \in Nat
          /\ Cardinality(PostedIn(sq, m)) \in Nat /\ sendCQ[m] \in Nat
      BY UncollectedType DEF AInv, QTypes
    <2>3. sendCQ'[m] = sendCQ[m] - (IF m = r THEN 1 ELSE 0)
      BY <1>1, <1>2, <2>2 DEF AInv, QTypes, QueueTypes
    <2> QED
      BY <2>1, <2>2, <2>3
  <1>5. incoming'[r] + PollingOne(r)' <= incoming[r] + PollingOne(r) /\ recvCQ'[r] <= recvCQ[r]
    <2>1. incoming[r] \in Nat /\ recvCQ[r] \in Nat
      BY <1>2 DEF AInv, IInv, Types, QTypes, QueueTypes
    <2> QED
      BY <1>1, <2>1 DEF PollingOne
  <1>6. ctor[r] = "poll" /\ ctor'[r] \in {"poll", "done"}
    BY <1>1, <1>2 DEF AInv, IInv, Types
  <1>7. Uncollected(r)' + Cardinality(tested'[r]) + HasTested(r)
              <= Uncollected(r) + Cardinality(tested[r]) + HasTested(r)'
    <2>1. tested[r] \subseteq Nodes /\ tested'[r] = tested[r] \cup {p}
      BY <1>1, <1>2 DEF AInv, QTypes, QueueTypes
    <2>2. Cardinality(tested'[r]) = Cardinality(tested[r]) + 1 /\ Cardinality(tested[r]) \in Nat
      BY <1>1, <1>2, <2>1, SomeNodes
    <2>3. HasTested(r)' = HasTested(r) /\ HasTested(r) \in Nat
      BY <1>6, SizeAssumption DEF HasTested, HasPosted
    <2>4. Uncollected(r)' = Uncollected(r) - 1 /\ Uncollected(r) \in Nat
      BY <1>2, <1>4
    <2> QED
      BY <2>2, <2>3, <2>4
  <1>8. Own(r)'
    BY <1>1, <1>3, <1>5, <1>6, <1>7, OwnQueueEmpty, OwnStill
  <1>9. \A m \in Others(r) : Uncollected(m)' = Uncollected(m)
    BY <1>2, <1>4
  <1> QED
    BY <1>1, <1>3, <1>6, <1>8, <1>9, StillAfter

LEMMA TestsAfter ==
  ASSUME NEW r, AInv(r), IInv', QTypes', NEW n \in Nodes, Tests(n)
  PROVE  After(r)'
  <1>1. /\ ctor[n] = "post" /\ ctor' = [ctor EXCEPT ![n] = "poll"]
        /\ \A p \in Others(n) : peerEnd[n][p] # NoEnd
        /\ sq' = [e \in Ends |-> IF \E p \in Others(n) : e = peerEnd[n][p]
                                 THEN Append(sq[e], "test") ELSE sq[e]]
        /\ UNCHANGED <<tested, listener, events, up, peerEnd, incoming, degraded, recv, recvCQ, sendCQ>>
    BY DEF Tests, cmVars, peerVars
  <1>2. n = r /\ r \in Nodes /\ \A m \in Others(r) : m \in Nodes /\ m # r
    BY <1>1, OnlyNew, AfterFacts
  <1>3. StagesSame /\ BrokenSame
    BY <1>1, EventsSame
  <1>4. \A m \in Nodes : /\ Uncollected(m)' = Uncollected(m) + IF m = r THEN ClusterSize - 1 ELSE 0
                         /\ Uncollected(m) \in Nat
    BY <1>2, TestSends, UncollectedType DEF AInv, QTypes
  <1>5. incoming'[r] + PollingOne(r)' <= incoming[r] + PollingOne(r) /\ recvCQ'[r] <= recvCQ[r]
    <2>1. incoming[r] \in Nat /\ recvCQ[r] \in Nat
      BY <1>2 DEF AInv, IInv, Types, QTypes, QueueTypes
    <2> QED
      BY <1>1, <2>1 DEF PollingOne
  <1>6. ctor[r] = "post" /\ ctor'[r] = "poll"
    BY <1>1, <1>2 DEF AInv, IInv, Types
  <1>7. Uncollected(r)' + Cardinality(tested'[r]) + HasTested(r)
              <= Uncollected(r) + Cardinality(tested[r]) + HasTested(r)'
    <2>1. tested[r] \subseteq Nodes
      BY <1>2 DEF AInv, QTypes, QueueTypes
    <2>2. Cardinality(tested[r]) \in Nat
      BY <2>1, SomeNodes
    <2>3. HasTested(r)' = ClusterSize - 1 /\ HasTested(r) = 0
      BY <1>6 DEF HasTested, HasPosted
    <2>4. Uncollected(r)' = Uncollected(r) + (ClusterSize - 1) /\ Uncollected(r) \in Nat
      BY <1>2, <1>4
    <2> QED
      BY <1>1, <2>2, <2>3, <2>4, SizeAssumption
  <1>8. sq'[ActiveEnd(r, r)] = <<>>
    <2>1. \A p \in Others(r) : ActiveEnd(r, r) # peerEnd[r][p]
      <3>1. \A p \in Others(r) : Peer(peerEnd[r][p]) = p
        BY <1>1, <1>2 DEF AInv, QTypes, EndsAtHome
      <3> QED
        BY <1>2, <3>1, PassiveIs
    <2> QED
      BY <1>1, <1>2, <2>1, OwnQueueEmpty
  <1>9. Own(r)'
    BY <1>1, <1>3, <1>5, <1>6, <1>7, <1>8, OwnStill
  <1>10. \A m \in Others(r) : Uncollected(m)' = Uncollected(m)
    BY <1>2, <1>4
  <1> QED
    BY <1>1, <1>3, <1>6, <1>9, <1>10, StillAfter


LEMMA ConnectsAfter ==
  ASSUME NEW r, AInv(r), IInv', QTypes', NEW n \in Nodes, NEW p \in Nodes, NEW mr, Connects(n, p, mr),
         listener[n].at = "poll", recvCQ[n] > 0
  PROVE  After(r)'
  <1>1. /\ incoming' = [incoming EXCEPT ![n] = @ + 1]
        /\ listener' = [listener EXCEPT ![n].at = "notify"]
        /\ recvCQ' = [recvCQ EXCEPT ![n] = @ - 1]
        /\ UNCHANGED <<ctor, events, tested, up, peerEnd, degraded, recv, sq, sendCQ>>
    BY DEF Connects, degradeVars
  <1>2. n = r /\ r \in Nodes /\ \A m \in Others(r) : m \in Nodes /\ m # r
    BY OnlyNew, AfterFacts
  <1>3. StagesSame /\ BrokenSame
    BY <1>1, EventsSame
  <1>4. \A m \in Nodes : Uncollected(m)' = Uncollected(m) /\ Uncollected(m) \in Nat
    BY <1>1, UncollectedSame, UncollectedType DEF AInv, QTypes
  <1>5. /\ incoming \in [Nodes -> Nat] /\ recvCQ \in [Nodes -> Nat]
        /\ listener \in [Nodes -> [at: {"loop", "poll", "notify"}, end: Ends \cup {NoEnd}]]
    BY DEF AInv, IInv, Types, QTypes, QueueTypes
  <1>6. incoming'[r] + PollingOne(r)' <= incoming[r] + PollingOne(r) /\ recvCQ'[r] <= recvCQ[r]
    <2>1. incoming'[r] = incoming[r] + 1 /\ recvCQ'[r] = recvCQ[r] - 1
      BY <1>1, <1>2, <1>5
    <2>2. listener'[r].at = "notify"
      BY <1>1, <1>2, <1>5
    <2>3. PollingOne(r) = 1 /\ PollingOne(r)' = 0
      BY <1>2, <2>2 DEF PollingOne
    <2> QED
      BY <1>2, <1>5, <2>1, <2>3
  <1>7. Uncollected(r)' + Cardinality(tested'[r]) + HasTested(r)
              <= Uncollected(r) + Cardinality(tested[r]) + HasTested(r)'
    <2>1. tested[r] \subseteq Nodes
      BY <1>2 DEF AInv, QTypes, QueueTypes
    <2>2. Cardinality(tested[r]) \in Nat
      BY <2>1, SomeNodes
    <2>3. HasTested(r)' = HasTested(r) /\ HasTested(r) \in Nat
      BY <1>1, SizeAssumption DEF HasTested, HasPosted
    <2> QED
      BY <1>1, <1>2, <1>4, <2>2, <2>3
  <1>8. Own(r)'
    <2>1. Uncollected(r)' <= Uncollected(r)
      BY <1>2, <1>4
    <2> QED
      BY <1>1, <1>3, <1>6, <1>7, <2>1, OwnQueueEmpty, OwnStill
  <1>9. \A m \in Others(r) : recvCQ'[m] = recvCQ[m] /\ incoming'[m] = incoming[m]
    BY <1>1, <1>2, <1>5
  <1> QED
    BY <1>1, <1>2, <1>3, <1>4, <1>8, <1>9, StillAfter

\* A request that completes takes nothing from the count and is not one of the
\* empty queue.
LEMMA FinishAfter ==
  ASSUME NEW r, AInv(r), NEW e \in Ends, Finish(e)
  PROVE  /\ \A m \in Nodes : Uncollected(m)' = Uncollected(m) /\ Uncollected(m) \in Nat
         /\ e # ActiveEnd(r, r) /\ sq'[ActiveEnd(r, r)] = <<>>
  <1>1. sq[e] # <<>> /\ sq' = [sq EXCEPT ![e] = Tail(@)]
    BY DEF Finish
  <1>2. \A m \in Nodes : Uncollected(m)' = Uncollected(m) /\ Uncollected(m) \in Nat
    BY FinishSends, UncollectedType DEF AInv, QTypes
  <1>3. sq \in [Ends -> Seq({"mr", "test"})]
    BY DEF AInv, QTypes, QueueTypes
  <1>4. e # ActiveEnd(r, r)
    BY <1>1, OwnQueueEmpty
  <1> QED
    BY <1>1, <1>2, <1>3, <1>4, OwnQueueEmpty

LEMMA CompletesAfter ==
  ASSUME NEW r, AInv(r), IInv', QTypes', NEW e \in Ends, Completes(e)
  PROVE  After(r)'
  <1>1. UNCHANGED <<ctor, tested, listener, events, up, peerEnd, incoming, degraded, recv, recvCQ>>
    BY DEF Completes, ctorVars, cmVars, peerVars, degradeVars
  <1>2. r \in Nodes /\ \A m \in Others(r) : m \in Nodes
    BY AfterFacts
  <1>3. StagesSame /\ BrokenSame
    BY <1>1, EventsSame
  <1>4. /\ \A m \in Nodes : Uncollected(m)' = Uncollected(m) /\ Uncollected(m) \in Nat
        /\ sq'[ActiveEnd(r, r)] = <<>>
    BY FinishAfter DEF Completes
  <1>5. incoming'[r] + PollingOne(r)' <= incoming[r] + PollingOne(r) /\ recvCQ'[r] <= recvCQ[r]
    <2>1. incoming[r] \in Nat /\ recvCQ[r] \in Nat
      BY <1>2 DEF AInv, IInv, Types, QTypes, QueueTypes
    <2> QED
      BY <1>1, <2>1 DEF PollingOne
  <1>6. Uncollected(r)' + Cardinality(tested'[r]) + HasTested(r)
              <= Uncollected(r) + Cardinality(tested[r]) + HasTested(r)'
    <2>1. tested[r] \subseteq Nodes
      BY <1>2 DEF AInv, QTypes, QueueTypes
    <2>2. Cardinality(tested[r]) \in Nat
      BY <2>1, SomeNodes
    <2>3. HasTested(r)' = HasTested(r) /\ HasTested(r) \in Nat
      BY <1>1, SizeAssumption DEF HasTested, HasPosted
    <2> QED
      BY <1>1, <1>2, <1>4, <2>2, <2>3
  <1>7. Own(r)'
    <2>1. Uncollected(r)' <= Uncollected(r)
      BY <1>2, <1>4
    <2> QED
      BY <1>1, <1>3, <1>4, <1>5, <1>6, <2>1, OwnStill
  <1> QED
    BY <1>1, <1>2, <1>3, <1>4, <1>7, StillAfter

LEMMA FillsAfter ==
  ASSUME NEW r, AInv(r), IInv', QTypes', NEW e \in Ends, Fills(e)
  PROVE  After(r)'
  <1> DEFINE f == Other(e)
             k == Peer(e)
  <1>1. /\ recv[f] = "posted" /\ recv' = [recv EXCEPT ![f] = "filled"]
        /\ recvCQ' = [recvCQ EXCEPT ![k] = @ + 1]
        /\ UNCHANGED <<ctor, tested, listener, events, up, peerEnd, incoming, degraded>>
    BY DEF Fills, ctorVars, cmVars, peerVars, degradeVars
  <1>2. r \in Nodes /\ \A m \in Others(r) : m \in Nodes /\ m # r
    BY AfterFacts
  <1>3. f \in Ends /\ k \in Nodes /\ Here(f) = k /\ e.from \in Nodes /\ e.to \in Nodes
        /\ (e.active => e = ActiveEnd(e.from, e.to) /\ f = Passive(e.from, e.to) /\ ~f.active /\ k = e.to)
        /\ (~e.active => f = ActiveEnd(e.from, e.to) /\ f.active /\ k = e.from)
    BY EndForms, PassiveIs
  <1>4. /\ \A m \in Nodes : Uncollected(m)' = Uncollected(m) /\ Uncollected(m) \in Nat
        /\ sq'[ActiveEnd(r, r)] = <<>> /\ e # ActiveEnd(r, r)
    BY FinishAfter DEF Fills
  <1>5. StagesSame /\ BrokenSame
    BY <1>1, EventsSame
  <1>6. /\ recv \in [Ends -> {"none", "posted", "filled"}] /\ recvCQ \in [Nodes -> Nat]
        /\ incoming \in [Nodes -> Nat]
    BY DEF AInv, IInv, Types, QTypes, QueueTypes
  <1>7. /\ recv'[f] = "filled" /\ \A d \in Ends : d # f => recv'[d] = recv[d]
        /\ recvCQ'[k] = recvCQ[k] + 1 /\ \A m \in Nodes : m # k => recvCQ'[m] = recvCQ[m]
    BY <1>1, <1>3, <1>6
  <1> HIDE DEF f, k
  <1>8. Own(r) /\ InTurn(r) /\ OnlyItsOwn(r) /\ \A m \in Others(r) : OtherRight(r, m)
    BY DEF AInv, After
  <1>9. CASE k # r
    <2>1. Own(r)'
      <3>1. \A d \in Ends : Here(d) = r => recv'[d] = recv[d]
        BY <1>3, <1>7, <1>9
      <3>2. \A p \in Nodes : recv'[ActiveEnd(r, p)] = recv[ActiveEnd(r, p)]
        BY <1>2, <3>1, AfterFacts, PassiveIs
      <3>3. Unreceived(r)' = Unreceived(r)
        BY <1>2, <1>5, <3>2 DEF Unreceived, StagesSame
      <3>4. OpenEnds(r)' = OpenEnds(r)
        <4>1. \A p \in Nodes : (Ahead(r, p)' <=> Ahead(r, p)) /\ (AcceptedAt(r, p)' <=> AcceptedAt(r, p))
          BY <1>2, <1>5 DEF StagesSame, Ahead
        <4> QED
          BY <1>2, <4>1, OpenSame
      <3>5. Uncollected(r)' = Uncollected(r) /\ recvCQ'[r] = recvCQ[r]
        BY <1>2, <1>4, <1>7, <1>9
      <3>6. \A p \in Nodes : Resolving(r, p)' <=> Resolving(r, p)
        BY <1>2, <1>5 DEF StagesSame
      <3>7. /\ Accepted(r, r)' <=> Accepted(r, r)
            /\ AcceptedAt(r, r)' <=> AcceptedAt(r, r)
        BY <1>2, <1>5 DEF StagesSame
      <3> QED
        BY <1>1, <1>4, <1>8, <3>1, <3>2, <3>3, <3>4, <3>5, <3>6, <3>7 DEF Own, HasPosted
    <2>2. \A m \in Others(r) : OtherRight(r, m)'
      <3> SUFFICES ASSUME NEW m \in Others(r) PROVE OtherRight(r, m)'
        OBVIOUS
      <3>1. /\ m \in Nodes /\ m # r /\ OtherSends(r, m) /\ OtherReceives(r, m) /\ incoming[m] <= ClusterSize - 1
        BY <1>2, <1>8 DEF OtherRight
      <3>2. /\ Setting(r, m)' <=> Setting(r, m)
            /\ Unaccepted(r, m)' <=> Unaccepted(r, m)
        BY <1>2, <1>5, <3>1 DEF StagesSame, Setting, Unaccepted, Ahead
      <3>3. OtherSends(r, m)'
        BY <1>1, <1>4, <3>1, <3>2 DEF OtherSends, Setting
      <3>4. OtherDegraded(r, m)'
        BY <1>1, <1>5, DegradedStays DEF BrokenSame
      <3>5. OtherReceives(r, m)'
        <4>1. Passive(r, m) \in Ends /\ Here(Passive(r, m)) = m
          BY <1>2, <3>1, AfterFacts, PassiveIs
        <4>2. CASE m = k
          <5>1. f = Passive(r, m)
            BY <1>1, <1>3, <3>1, <4>2 DEF OtherReceives
          <5>2. ~Unaccepted(r, m) /\ recvCQ[m] <= 0
            BY <1>1, <3>1, <5>1 DEF OtherReceives, Unaccepted
          <5>3. recvCQ'[m] <= 1 /\ recv'[Passive(r, m)] = "filled"
            BY <1>6, <1>7, <3>1, <4>2, <5>1, <5>2
          <5>4. \A d \in Ends : Here(d) = m /\ recv'[d] = "posted" => d = Passive(r, m)
            BY <1>7, <3>1 DEF OtherReceives
          <5>5. ~Resolving(r, m)' /\ ~Resolved(r, m)' /\ ~Requested(r, m)'
            BY <3>2, <5>2 DEF Unaccepted
          <5> QED
            BY <5>3, <5>4, <5>5 DEF OtherReceives
        <4>3. CASE m # k
          <5>1. recvCQ'[m] = recvCQ[m] /\ \A d \in Ends : Here(d) = m => recv'[d] = recv[d]
            BY <1>3, <1>7, <3>1, <4>3
          <5>2. /\ Resolving(r, m)' <=> Resolving(r, m)
                /\ Resolved(r, m)' <=> Resolved(r, m)
                /\ Requested(r, m)' <=> Requested(r, m)
            BY <1>2, <1>5, <3>1 DEF StagesSame
          <5> QED
            BY <3>1, <4>1, <5>1, <5>2 DEF OtherReceives
        <4> QED
          BY <4>2, <4>3
      <3> QED
        BY <1>1, <3>1, <3>3, <3>4, <3>5 DEF OtherRight
    <2>3. InTurn(r)' /\ OnlyItsOwn(r)'
      <3>1. InTurn(r)'
        BY <1>2, <1>5, <1>8 DEF StagesSame, InTurn
      <3>2. OnlyItsOwn(r)'
        BY <1>1, <1>2, <1>5, <1>8 DEF StagesSame, BrokenSame, OnlyItsOwn, Ahead
      <3> QED
        BY <3>1, <3>2
    <2> QED
      BY <2>1, <2>2, <2>3 DEF After
  <1>10. CASE k = r
    <2>1. PICK p \in Nodes : f = ActiveEnd(r, p)
      <3>1. f.active
        BY <1>1, <1>3, <1>4, <1>8, <1>10, OneEnd DEF Own
      <3> QED
        BY <1>3, <1>10, <3>1
    <2>2. ~Resolving(r, p) /\ p \in Unreceived(r)
      BY <1>1, <1>8, <2>1 DEF Own, Unreceived
    <2>3. Unreceived(r)' = Unreceived(r) \ {p}
      <3>1. \A q \in Nodes : q # p => recv'[ActiveEnd(r, q)] = recv[ActiveEnd(r, q)]
        BY <1>2, <1>7, <2>1, AfterFacts, OneEnd
      <3>2. \A q \in Nodes : Resolving(r, q)' <=> Resolving(r, q)
        BY <1>2, <1>5 DEF StagesSame
      <3> QED
        BY <1>7, <2>1, <2>2, <3>1, <3>2 DEF Unreceived
    <2>4. /\ Cardinality(Unreceived(r)') = Cardinality(Unreceived(r)) - 1
          /\ Cardinality(Unreceived(r)) \in Nat
      <3>1. Unreceived(r) \subseteq Nodes
        BY DEF Unreceived
      <3> QED
        BY <2>2, <2>3, <3>1, SomeNodes
    <2>5. recvCQ'[r] + Cardinality(Unreceived(r)') <= ClusterSize
      <3>1. recvCQ[r] + Cardinality(Unreceived(r)) <= ClusterSize /\ recvCQ[r] \in Nat
        BY <1>2, <1>6, <1>8 DEF Own
      <3> QED
        BY <1>7, <1>10, <2>4, <3>1, SizeAssumption
    <2>6. OpenEnds(r)' = OpenEnds(r)
      <3>1. \A q \in Nodes : (Ahead(r, q)' <=> Ahead(r, q)) /\ (AcceptedAt(r, q)' <=> AcceptedAt(r, q))
        BY <1>2, <1>5 DEF StagesSame, Ahead
      <3> QED
        BY <1>2, <3>1, OpenSame
    <2>7. \A d \in Ends : recv'[d] = "posted" => recv[d] = "posted"
      BY <1>7
    <2>8. \A q \in Nodes : Resolving(r, q)' => recv'[ActiveEnd(r, q)] # "posted"
      <3>1. \A q \in Nodes : Resolving(r, q)' => Resolving(r, q) /\ ActiveEnd(r, q) \in Ends
        BY <1>2, <1>5, AfterFacts DEF StagesSame
      <3> QED
        BY <1>8, <2>7, <3>1 DEF Own
    <2>9. /\ Accepted(r, r)' <=> Accepted(r, r)
          /\ AcceptedAt(r, r)' <=> AcceptedAt(r, r)
      BY <1>2, <1>5 DEF StagesSame
    <2>10. Own(r)'
      <3>1. Uncollected(r)' = Uncollected(r)
        BY <1>2, <1>4
      <3> QED
        BY <1>1, <1>4, <1>8, <2>5, <2>6, <2>7, <2>8, <2>9, <3>1 DEF Own, HasPosted
    <2>11. \A m \in Others(r) : /\ recvCQ'[m] = recvCQ[m]
                                /\ \A d \in Ends : Here(d) = m => recv'[d] = recv[d]
      BY <1>2, <1>3, <1>7, <1>10
    <2> QED
      BY <1>1, <1>2, <1>4, <1>5, <2>10, <2>11, StillAfter
  <1> QED
    BY <1>9, <1>10


-----------------------------------------------------------------------------
(* Afterwards: the new process ends, and the others notice.                *)

LEMMA EndsAfter ==
  ASSUME NEW r, AInv(r), IInv', QTypes', NEW n \in Nodes, Ends1(n),
         ctor[n] \notin {"aborted", "done"} \/ (listener[n].at = "poll" /\ ctor[n] # "aborted")
  PROVE  After(r)'
  <1>1. n = r /\ r \in Nodes /\ ctor[r] # "aborted"
    BY OnlyNew, AfterFacts
  <1>2. \A m \in Others(r) : m \in Nodes /\ m # r
    BY AfterFacts
  <1>3. /\ UNCHANGED <<tested, up, peerEnd, incoming, degraded, recv, sq, sendCQ>>
        /\ \E c \in Nat : recvCQ[r] >= c /\ recvCQ' = [recvCQ EXCEPT ![r] = c]
    BY <1>1 DEF Ends1, peerVars
  <1>4. /\ DieStages(r) /\ ctor'[r] = "aborted" /\ listener'[r] = Idle
        /\ \A m \in Others(r) : ctor'[m] = ctor[m] /\ listener'[m] = listener[m]
    BY <1>1, DieIs DEF Ends1, AInv
  <1>5. /\ recvCQ \in [Nodes -> Nat] /\ incoming \in [Nodes -> Nat]
        /\ recvCQ'[r] <= recvCQ[r] /\ recvCQ'[r] \in Nat
        /\ \A m \in Others(r) : recvCQ'[m] = recvCQ[m]
    <2>1. recvCQ \in [Nodes -> Nat] /\ incoming \in [Nodes -> Nat]
      BY DEF AInv, IInv, Types, QTypes, QueueTypes
    <2> QED
      BY <1>1, <1>2, <1>3, <2>1
  <1>6. \A k, l \in Nodes : /\ Ahead(k, l)' => Ahead(k, l)
                            /\ Accepted(k, l)' => Accepted(k, l)
                            /\ AcceptedAt(k, l)' => AcceptedAt(k, l)
                            /\ Setting(k, l)' => Setting(k, l)
                            /\ Unaccepted(k, l)' => Unaccepted(k, l)
                            /\ Resolving(k, l)' => Resolving(k, l)
    BY <1>4 DEF DieStages, Ahead, Setting, Unaccepted
  <1>7. Own(r) /\ InTurn(r) /\ OnlyItsOwn(r) /\ \A m \in Others(r) : OtherRight(r, m)
    BY DEF AInv, After
  <1>8. \A m \in Nodes : Uncollected(m)' = Uncollected(m) /\ Uncollected(m) \in Nat
    BY <1>3, UncollectedSame, UncollectedType DEF AInv, QTypes
  <1>9. InTurn(r)'
    BY <1>1, <1>4, <1>7 DEF DieStages, InTurn
  <1>10. OnlyItsOwn(r)'
    <2>1. ASSUME NEW m \in Nodes, NEW e \in Ends, Broken(m, e)' PROVE m # r /\ e = Passive(r, m)
      <3>1. m # r /\ e \in up /\ Here(e) = m /\ Peer(e) = r
        BY <1>1, <1>4, <1>7, <2>1 DEF DieStages, OnlyItsOwn
      <3> QED
        BY <1>7, <3>1, EndForms DEF OnlyItsOwn
    <2> QED
      BY <1>3, <1>4, <1>6, <1>7, <2>1 DEF OnlyItsOwn, Others
  <1>11. Cardinality(OpenEnds(r)') <= Cardinality(OpenEnds(r)) /\ Cardinality(OpenEnds(r)') \in Nat
         /\ Cardinality(OpenEnds(r)) \in Nat
    <2>1. OpenEnds(r)' \subseteq OpenEnds(r)
      BY <1>1, <1>6, OpenEndsAre
    <2> QED
      BY <2>1, OpenEndsAre, SomeEnds
  <1>12. Cardinality(Unreceived(r)') <= Cardinality(Unreceived(r)) /\ Cardinality(Unreceived(r)') \in Nat
         /\ Cardinality(Unreceived(r)) \in Nat
    <2>1. Unreceived(r)' \subseteq Unreceived(r) /\ Unreceived(r) \subseteq Nodes
      BY <1>1, <1>3, <1>6 DEF Unreceived
    <2> QED
      BY <2>1, SomeNodes
  <1>13. Own(r)'
    <2>1. incoming'[r] + Cardinality(OpenEnds(r)') + (IF listener'[r].at = "poll" THEN 1 ELSE 0) <= ClusterSize + 1
      <3>1. PollingOne(r) \in Nat /\ incoming[r] \in Nat
        BY <1>1, <1>5 DEF PollingOne
      <3>2. incoming[r] + Cardinality(OpenEnds(r)) + PollingOne(r) <= ClusterSize + 1
        BY <1>7 DEF Own, PollingOne
      <3>3. incoming[r] + Cardinality(OpenEnds(r)') + 0 <= ClusterSize + 1
        BY <1>11, <3>1, <3>2, SizeAssumption
      <3> QED
        BY <1>3, <1>4, <3>3 DEF Idle
    <2>2. Uncollected(r)' <= 2 * ClusterSize
      <3>1. Uncollected(r) + Cardinality(tested[r]) + Cardinality(OpenEnds(r)) <= ClusterSize + 1 + HasTested(r)
        BY <1>1, <1>7 DEF Own, HasTested
      <3>2. HasTested(r) \in Nat /\ HasTested(r) <= ClusterSize - 1
        BY SizeAssumption DEF HasTested
      <3>3. Cardinality(tested[r]) \in Nat
        <4>1. tested[r] \subseteq Nodes
          BY <1>1 DEF AInv, QTypes, QueueTypes
        <4> QED
          BY <4>1, SomeNodes
      <3> QED
        BY <1>1, <1>8, <1>11, <3>1, <3>2, <3>3, SizeAssumption
    <2>3. recvCQ'[r] + Cardinality(Unreceived(r)') <= ClusterSize
      BY <1>1, <1>5, <1>7, <1>12, SizeAssumption DEF Own
    <2> QED
      BY <1>1, <1>3, <1>4, <1>6, <1>7, <2>1, <2>2, <2>3 DEF Own
  <1>14. ASSUME NEW m \in Others(r) PROVE OtherDegraded(r, m)'
    <2>1. degraded[m] <= 1 /\ degraded[m] \in Nat
      BY <1>1, <1>2, <1>7 DEF OtherRight, OtherDegraded, AInv, QTypes, QueueTypes
    <2> QED
      BY <1>3, <2>1 DEF OtherDegraded
  <1>15. \A m \in Others(r) : OtherRight(r, m)'
    BY <1>1, <1>2, <1>3, <1>4, <1>5, <1>6, <1>8, <1>14, OthersKept
  <1> QED
    BY <1>9, <1>10, <1>13, <1>15 DEF After

LEMMA DropsAfter ==
  ASSUME NEW r, AInv(r), IInv', QTypes', NEW n \in Nodes, NEW e \in Ends, Drops(n, e)
  PROVE  After(r)'
  <1>1. /\ n # r /\ e = Passive(r, n) /\ ctor[r] = "aborted" /\ r \in Nodes /\ Broken(n, e)
        /\ n \in Others(r) /\ Here(e) = n /\ Peer(e) = r
        /\ \A m \in Others(r) : m \in Nodes /\ m # r
    <2>1. Broken(n, e) /\ OnlyItsOwn(r) /\ Here(e) = n
      BY DEF Drops, AInv, After
    <2>2. n # r /\ e = Passive(r, n) /\ ctor[r] = "aborted"
      BY <2>1 DEF OnlyItsOwn
    <2> QED
      BY <2>1, <2>2, AfterFacts, PassiveIs
  <1>2. /\ StagesSame
        /\ \A m \in Nodes, d \in Ends : Broken(m, d)' <=> Broken(m, d) /\ ~(m = n /\ d = e)
        /\ up' = up \ {e}
        /\ degraded' = [degraded EXCEPT ![n] = @ + 1]
        /\ peerEnd' = [peerEnd EXCEPT ![n][r] = NoEnd]
        /\ sq' = [sq EXCEPT ![e] = <<>>]
        /\ recv' = [recv EXCEPT ![e] = "none"]
        /\ UNCHANGED <<ctor, tested, listener, incoming, recvCQ, sendCQ>>
    BY <1>1 DEF Drops, ctorVars
  <1>3. /\ \A d \in Ends : d # e => recv'[d] = recv[d] /\ sq'[d] = sq[d]
        /\ recv'[e] = "none"
        /\ degraded'[n] = degraded[n] + 1
        /\ \A m \in Nodes : m # n => degraded'[m] = degraded[m] /\ peerEnd'[m] = peerEnd[m]
    BY <1>1, <1>2 DEF AInv, QTypes, QueueTypes
  <1>4. \A m \in Nodes : /\ Uncollected(m)' <= Uncollected(m)
                         /\ m # n => Uncollected(m)' = Uncollected(m)
                         /\ Uncollected(m) \in Nat /\ Uncollected(m)' \in Nat
    BY DropSends, UncollectedType, UncollectedTypeNext DEF AInv, QTypes
  <1>5. Own(r) /\ InTurn(r) /\ OnlyItsOwn(r) /\ \A m \in Others(r) : OtherRight(r, m)
    BY DEF AInv, After
  <1>6. \A k, l \in Nodes : /\ Ahead(k, l)' <=> Ahead(k, l)
                            /\ Setting(k, l)' <=> Setting(k, l)
                            /\ Unaccepted(k, l)' <=> Unaccepted(k, l)
    BY <1>2 DEF StagesSame, Ahead, Setting, Unaccepted
  <1>7. InTurn(r)'
    BY <1>1, <1>2, <1>5 DEF StagesSame, InTurn
  <1>8. OnlyItsOwn(r)'
    BY <1>1, <1>2, <1>5, <1>6 DEF StagesSame, OnlyItsOwn
  <1>9. Own(r)'
    <2>1. \A d \in Ends : Here(d) = r => recv'[d] = recv[d] /\ sq'[d] = sq[d]
      BY <1>1, <1>3
    <2>2. \A p \in Nodes : /\ ActiveEnd(r, p) \in Ends
                           /\ recv'[ActiveEnd(r, p)] = recv[ActiveEnd(r, p)]
                           /\ sq'[ActiveEnd(r, p)] = sq[ActiveEnd(r, p)]
      BY <1>1, <2>1, AfterFacts, PassiveIs
    <2>3. Unreceived(r)' = Unreceived(r)
      BY <1>1, <1>2, <2>2 DEF Unreceived, StagesSame
    <2>4. OpenEnds(r)' = OpenEnds(r)
      <3>1. \A q \in Nodes : (Ahead(r, q)' <=> Ahead(r, q)) /\ (AcceptedAt(r, q)' <=> AcceptedAt(r, q))
        BY <1>1, <1>2, <1>6 DEF StagesSame
      <3> QED
        BY <1>1, <3>1, OpenSame
    <2>5. /\ \A p \in Nodes : Resolving(r, p)' <=> Resolving(r, p)
          /\ Accepted(r, r)' <=> Accepted(r, r)
          /\ AcceptedAt(r, r)' <=> AcceptedAt(r, r)
      BY <1>1, <1>2 DEF StagesSame
    <2>6. Uncollected(r)' = Uncollected(r) /\ peerEnd'[r][r] = peerEnd[r][r] /\ degraded'[r] = degraded[r]
      BY <1>1, <1>3, <1>4
    <2> QED
      BY <1>1, <1>2, <1>5, <2>1, <2>2, <2>3, <2>4, <2>5, <2>6 DEF Own, HasPosted
  <1>10. ASSUME NEW m \in Others(r) PROVE OtherRight(r, m)'
    <2>1. /\ m \in Nodes /\ m # r /\ OtherRight(r, m)
          /\ Passive(r, m) \in Ends /\ (Passive(r, m) = e => m = n)
      BY <1>1, <1>5, AfterFacts, OneEnd
    <2>2. OtherSends(r, m)'
      <3>1. Uncollected(m)' <= Uncollected(m) /\ Uncollected(m) \in Nat /\ Uncollected(m)' \in Nat
        BY <1>4, <2>1
      <3> QED
        BY <1>1, <1>2, <1>6, <2>1, <3>1, SizeAssumption DEF OtherRight, OtherSends, Setting
    <2>3. OtherReceives(r, m)'
      <3>1. \A d \in Ends : recv'[d] = "posted" => recv[d] = "posted"
        BY <1>3
      <3>2. recvCQ[m] \in Nat /\ recvCQ'[m] = recvCQ[m]
        BY <1>2, <2>1 DEF AInv, QTypes, QueueTypes
      <3>3. /\ Resolving(r, m)' <=> Resolving(r, m)
            /\ Resolved(r, m)' <=> Resolved(r, m)
            /\ Requested(r, m)' <=> Requested(r, m)
        BY <1>1, <1>2, <2>1 DEF StagesSame
      <3> QED
        BY <2>1, <3>1, <3>2, <3>3 DEF OtherRight, OtherReceives
    <2>4. OtherDegraded(r, m)'
      <3>1. degraded[m] \in Nat
        BY <2>1 DEF AInv, QTypes, QueueTypes
      <3>2. CASE m = n
        <4>1. degraded[m] <= 1
          BY <1>1, <2>1, <3>1, <3>2 DEF OtherRight, OtherDegraded
        <4>2. ~Broken(m, Passive(r, m))'
          BY <1>1, <1>2, <3>2
        <4> QED
          BY <1>1, <1>2, <1>3, <3>1, <3>2, <4>1, <4>2 DEF OtherDegraded
      <3>3. CASE m # n
        <4>1. (Broken(m, Passive(r, m))' <=> Broken(m, Passive(r, m))) /\ degraded'[m] = degraded[m]
          BY <1>2, <1>3, <2>1, <3>3
        <4> QED
          BY <1>2, <2>1, <4>1 DEF OtherRight, OtherDegraded
      <3> QED
        BY <3>2, <3>3
    <2> QED
      BY <1>2, <2>1, <2>2, <2>3, <2>4 DEF OtherRight
  <1> QED
    BY <1>7, <1>8, <1>9, <1>10 DEF After


-----------------------------------------------------------------------------
(* Afterwards: steps of the connections of the new process.                *)

\* A step of the connection r asks of p: what is left to show.
LEMMA StageAfter ==
  ASSUME NEW r, AInv(r), NEW p \in Nodes, StagesBut(r, p), BrokenSame, ctor' = ctor,
         \A e \in up' : e \in up \/ Here(e) = r \/ ~e.active,
         ~Resolving(r, p)', Resolved(r, p)' => ~Requested(r, p)' /\ ~Accepted(r, p)' /\ ~AcceptedAt(r, p)',
         Requested(r, p)' => ~Accepted(r, p)' /\ ~AcceptedAt(r, p)',
         Accepted(r, p)' => ~AcceptedAt(r, p)',
         Own(r)', \A m \in Others(r) : OtherRight(r, m)'
  PROVE  After(r)'
  <1>1. r \in Nodes /\ InTurn(r) /\ OnlyItsOwn(r) /\ \A k \in Others(r) : k \in Nodes /\ k # r
    BY AfterFacts DEF AInv, After
  <1>2. InTurn(r)'
    <2> SUFFICES ASSUME NEW q \in Nodes
                 PROVE  /\ Resolving(r, q)' => ~Resolved(r, q)' /\ ~Requested(r, q)' /\ ~Accepted(r, q)' /\ ~AcceptedAt(r, q)'
                        /\ Resolved(r, q)' => ~Requested(r, q)' /\ ~Accepted(r, q)' /\ ~AcceptedAt(r, q)'
                        /\ Requested(r, q)' => ~Accepted(r, q)' /\ ~AcceptedAt(r, q)'
                        /\ Accepted(r, q)' => ~AcceptedAt(r, q)'
      BY DEF InTurn
    <2>1. CASE q # p
      BY <1>1, <2>1 DEF StagesBut, InTurn
    <2>2. CASE q = p
      BY <2>2
    <2> QED
      BY <2>1, <2>2
  <1>3. OnlyItsOwn(r)'
    <2>1. \A k \in Others(r), q \in Nodes : ~Ahead(k, q)' /\ ~AcceptedAt(k, q)'
      BY <1>1 DEF StagesBut, OnlyItsOwn, Ahead
    <2>2. \A m \in Nodes, e \in Ends : Broken(m, e)' => m # r /\ e = Passive(r, m) /\ ctor'[r] = "aborted"
      BY <1>1 DEF BrokenSame, OnlyItsOwn
    <2>3. \A e \in up' : Here(e) # r /\ Peer(e) = r => ~e.active
      BY <1>1 DEF OnlyItsOwn
    <2> QED
      BY <2>1, <2>2, <2>3 DEF OnlyItsOwn
  <1> QED
    BY <1>2, <1>3 DEF After

LEMMA AsksAfter ==
  ASSUME NEW r, AInv(r), IInv', QTypes', NEW n \in Nodes, NEW p \in Nodes, Asks(n, p)
  PROVE  After(r)'
  <1>1. /\ Handles(n) /\ Built(n, p, ActiveEnd(n, p))
        /\ StagesBut(n, p) /\ BrokenSame
        /\ Resolving(n, p) /\ ~Resolving(n, p)' /\ Resolved(n, p)'
        /\ Requested(n, p)' <=> Requested(n, p)
        /\ Accepted(n, p)' <=> Accepted(n, p)
        /\ AcceptedAt(n, p)' <=> AcceptedAt(n, p)
        /\ up' = up
    BY DEF Asks
  <1>2. /\ n = r /\ r \in Nodes /\ Own(r) /\ InTurn(r)
        /\ \A m \in Others(r) : m \in Nodes /\ m # r
    BY <1>1, AfterFacts DEF AInv, After, OnlyItsOwn, Ahead
  <1> DEFINE a == ActiveEnd(r, p)
  <1>3. /\ peerEnd' = [peerEnd EXCEPT ![r][p] = a]
        /\ recv' = [recv EXCEPT ![a] = "posted"] /\ a \in Ends /\ Here(a) = r
        /\ UNCHANGED <<ctor, tested, listener, incoming, degraded, recvCQ, sq, sendCQ>>
    BY <1>1, <1>2 DEF Built, ctorVars, degradeVars
  <1>4. ~Requested(r, p) /\ ~Accepted(r, p) /\ ~AcceptedAt(r, p)
    BY <1>1, <1>2 DEF InTurn
  <1>5. /\ recv'[a] = "posted" /\ \A d \in Ends : d # a => recv'[d] = recv[d]
        /\ \A q \in Nodes : q # p => peerEnd'[r][q] = peerEnd[r][q]
    BY <1>2, <1>3 DEF AInv, QTypes, QueueTypes
  <1>6. \A q \in Nodes : (Ahead(r, q)' <=> Ahead(r, q)) /\ (AcceptedAt(r, q)' <=> AcceptedAt(r, q))
    BY <1>1, <1>2, <1>4 DEF StagesBut, Ahead
  <1>7. \A m \in Nodes : Uncollected(m)' = Uncollected(m) /\ Uncollected(m) \in Nat
    BY <1>3, UncollectedSame, UncollectedType DEF AInv, QTypes
  <1>8. Own(r)'
    <2>1. OpenEnds(r)' = OpenEnds(r)
      BY <1>2, <1>6, OpenSame
    <2>2. Unreceived(r)' = Unreceived(r)
      <3>1. \A q \in Nodes : q # p => recv'[ActiveEnd(r, q)] = recv[ActiveEnd(r, q)]
        BY <1>2, <1>5, AfterFacts, OneEnd
      <3>2. \A q \in Nodes : q # p => (Resolving(r, q)' <=> Resolving(r, q))
        BY <1>1, <1>2 DEF StagesBut
      <3> QED
        BY <1>1, <1>2, <1>5, <3>1, <3>2 DEF Unreceived
    <2>3. ASSUME NEW q \in Nodes, Resolving(r, q)' PROVE recv'[ActiveEnd(r, q)] # "posted"
      <3>1. q # p /\ Resolving(r, q)
        BY <1>1, <1>2, <2>3 DEF StagesBut
      <3>2. recv'[ActiveEnd(r, q)] = recv[ActiveEnd(r, q)]
        BY <1>2, <1>5, <3>1, AfterFacts, OneEnd
      <3> QED
        BY <1>2, <3>1, <3>2 DEF Own
    <2>4. ASSUME NEW e \in Ends, Here(e) = r, ~e.active, recv'[e] = "posted" PROVE e = Passive(r, r)
      <3>1. e # a
        BY <1>2, <2>4, PassiveIs
      <3> QED
        BY <1>2, <1>5, <2>4, <3>1 DEF Own
    <2>5. Accepted(r, r)' \/ AcceptedAt(r, r)' => peerEnd'[r][r] # ActiveEnd(r, r)
      <3>1. CASE p = r
        BY <1>1, <1>2, <1>4, <3>1
      <3>2. CASE p # r
        <4>1. /\ Accepted(r, r)' <=> Accepted(r, r)
              /\ AcceptedAt(r, r)' <=> AcceptedAt(r, r)
          BY <1>1, <1>2, <3>2 DEF StagesBut
        <4> QED
          BY <1>2, <1>5, <3>2, <4>1 DEF Own
      <3> QED
        BY <3>1, <3>2
    <2>6. Uncollected(r)' = Uncollected(r)
      BY <1>2, <1>7
    <2> QED
      BY <1>2, <1>3, <2>1, <2>2, <2>3, <2>4, <2>5, <2>6 DEF Own, HasPosted
  <1>9. ASSUME NEW m \in Others(r) PROVE OtherRight(r, m)'
    <2>1. \A d \in Ends : Here(d) = m => recv'[d] = recv[d]
      BY <1>2, <1>3, <1>5
    <2>2. /\ Setting(r, m)' => Setting(r, m)
          /\ Unaccepted(r, m)' => Unaccepted(r, m)
      <3>1. CASE m = p
        BY <1>1, <1>2, <3>1 DEF Setting, Unaccepted, Ahead
      <3>2. CASE m # p
        BY <1>1, <1>2, <3>2 DEF StagesBut, Setting, Unaccepted, Ahead
      <3> QED
        BY <3>1, <3>2
    <2>3. OtherDegraded(r, m)'
      BY <1>1, <1>3, DegradedStays DEF BrokenSame
    <2> QED
      BY <1>2, <1>3, <1>7, <2>1, <2>2, <2>3, OtherKept
  <1> QED
    BY <1>1, <1>2, <1>3, <1>4, <1>8, <1>9, StageAfter

LEMMA RequestsAfter ==
  ASSUME NEW r, AInv(r), IInv', QTypes', NEW n \in Nodes, NEW p \in Nodes, Requests(n, p)
  PROVE  After(r)'
  <1>1. /\ Handles(n)
        /\ StagesBut(n, p) /\ BrokenSame
        /\ Resolved(n, p) /\ ~Resolved(n, p)'
        /\ Resolving(n, p)' <=> Resolving(n, p)
        /\ Requested(n, p)' <=> Requested(n, p) \/ Running(p)
        /\ Accepted(n, p)' <=> Accepted(n, p)
        /\ AcceptedAt(n, p)' <=> AcceptedAt(n, p)
        /\ UNCHANGED <<ctor, tested, listener, up, peerEnd, incoming, degraded, recv, recvCQ, sq, sendCQ>>
    BY DEF Requests, ctorVars, peerVars, degradeVars, nicVars
  <1>2. /\ n = r /\ r \in Nodes /\ Own(r) /\ InTurn(r)
        /\ \A m \in Others(r) : m \in Nodes /\ m # r
    BY <1>1, AfterFacts DEF AInv, After, OnlyItsOwn, Ahead
  <1>3. ~Resolving(r, p) /\ ~Requested(r, p) /\ ~Accepted(r, p) /\ ~AcceptedAt(r, p)
    BY <1>1, <1>2 DEF InTurn
  <1>4. Running(p)
    <2>1. CASE p = r
      BY <1>1, <1>2, <2>1 DEF Handles, Running
    <2>2. CASE p # r
      BY <1>2, <2>2, AfterFacts DEF Running
    <2> QED
      BY <2>1, <2>2
  <1>5. \A q \in Nodes : (Ahead(r, q)' <=> Ahead(r, q)) /\ (AcceptedAt(r, q)' <=> AcceptedAt(r, q))
    BY <1>1, <1>2, <1>4 DEF StagesBut, Ahead
  <1>6. \A m \in Nodes : Uncollected(m)' = Uncollected(m) /\ Uncollected(m) \in Nat
    BY <1>1, UncollectedSame, UncollectedType DEF AInv, QTypes
  <1>7. \A q \in Nodes : Resolving(r, q)' <=> Resolving(r, q)
    BY <1>1, <1>2 DEF StagesBut
  <1>8. Own(r)'
    <2>1. OpenEnds(r)' = OpenEnds(r)
      BY <1>2, <1>5, OpenSame
    <2>2. Unreceived(r)' = Unreceived(r)
      BY <1>1, <1>7 DEF Unreceived
    <2>3. /\ Accepted(r, r)' <=> Accepted(r, r)
          /\ AcceptedAt(r, r)' <=> AcceptedAt(r, r)
      BY <1>1, <1>2 DEF StagesBut
    <2>4. Uncollected(r)' = Uncollected(r)
      BY <1>2, <1>6
    <2> QED
      BY <1>1, <1>2, <1>7, <2>1, <2>2, <2>3, <2>4 DEF Own, HasPosted
  <1>9. ASSUME NEW m \in Others(r) PROVE OtherRight(r, m)'
    <2>1. /\ Setting(r, m)' => Setting(r, m)
          /\ Unaccepted(r, m)' => Unaccepted(r, m)
      <3>1. CASE m = p
        BY <1>1, <1>2, <3>1 DEF Setting, Unaccepted, Ahead
      <3>2. CASE m # p
        BY <1>1, <1>2, <3>2 DEF StagesBut, Setting, Unaccepted, Ahead
      <3> QED
        BY <3>1, <3>2
    <2>2. OtherDegraded(r, m)'
      BY <1>1, DegradedStays DEF BrokenSame
    <2> QED
      BY <1>1, <1>2, <1>6, <2>1, <2>2, OtherKept
  <1> QED
    BY <1>1, <1>2, <1>3, <1>8, <1>9, StageAfter


LEMMA AcceptsAfter ==
  ASSUME NEW r, AInv(r), IInv', QTypes', NEW n \in Nodes, NEW p \in Nodes, Accepts(p, n)
  PROVE  After(r)'
  <1>1. /\ Handles(n) /\ Built(n, p, Passive(p, n))
        /\ StagesBut(p, n) /\ BrokenSame
        /\ Requested(p, n) /\ ~Requested(p, n)'
        /\ Resolving(p, n)' <=> Resolving(p, n)
        /\ Resolved(p, n)' <=> Resolved(p, n)
        /\ Accepted(p, n)' <=> Accepted(p, n) \/ Running(p)
        /\ AcceptedAt(p, n)' <=> AcceptedAt(p, n)
        /\ up' = up \cup (IF Running(p) THEN {ActiveEnd(p, n)} ELSE {})
    BY DEF Accepts
  <1>2. /\ p = r /\ r \in Nodes /\ Own(r) /\ InTurn(r)
        /\ \A m \in Others(r) : m \in Nodes /\ m # r
    BY <1>1, AfterFacts DEF AInv, After, OnlyItsOwn, Ahead
  <1> DEFINE a == Passive(r, n)
  <1>3. /\ peerEnd' = [peerEnd EXCEPT ![n][r] = a]
        /\ recv' = [recv EXCEPT ![a] = "posted"] /\ a \in Ends /\ Here(a) = n /\ ~a.active
        /\ UNCHANGED <<ctor, tested, listener, incoming, degraded, recvCQ, sq, sendCQ>>
    BY <1>1, <1>2, PassiveIs DEF Built, ctorVars, degradeVars
  <1>4. ~Resolving(r, n) /\ ~Resolved(r, n) /\ ~Accepted(r, n) /\ ~AcceptedAt(r, n)
    BY <1>1, <1>2 DEF InTurn
  <1>5. /\ recv'[a] = "posted" /\ \A d \in Ends : d # a => recv'[d] = recv[d]
        /\ \A m, q \in Nodes : ~(m = n /\ q = r) => peerEnd'[m][q] = peerEnd[m][q]
        /\ peerEnd'[n][r] = a
    BY <1>2, <1>3 DEF AInv, QTypes, QueueTypes
  <1>6. /\ \A q \in Nodes : (Ahead(r, q)' => Ahead(r, q)) /\ (AcceptedAt(r, q)' <=> AcceptedAt(r, q))
        /\ \A q \in Nodes : Resolving(r, q)' <=> Resolving(r, q)
    BY <1>1, <1>2, <1>4 DEF StagesBut, Ahead
  <1>7. \A m \in Nodes : Uncollected(m)' = Uncollected(m) /\ Uncollected(m) \in Nat
    BY <1>3, UncollectedSame, UncollectedType DEF AInv, QTypes
  <1>8. Own(r)'
    <2>1. /\ Cardinality(OpenEnds(r)') <= Cardinality(OpenEnds(r))
          /\ Cardinality(OpenEnds(r)') \in Nat /\ Cardinality(OpenEnds(r)) \in Nat
      <3>1. OpenEnds(r)' \subseteq OpenEnds(r)
        BY <1>2, <1>6, OpenEndsAre
      <3> QED
        BY <3>1, OpenEndsAre, SomeEnds
    <2>2. \A q \in Nodes : recv'[ActiveEnd(r, q)] = recv[ActiveEnd(r, q)]
      BY <1>2, <1>5, AfterFacts, OneEnd
    <2>3. Unreceived(r)' = Unreceived(r)
      BY <1>6, <2>2 DEF Unreceived
    <2>4. ASSUME NEW q \in Nodes, Resolving(r, q)' PROVE recv'[ActiveEnd(r, q)] # "posted"
      BY <1>2, <1>6, <2>2, <2>4 DEF Own
    <2>5. ASSUME NEW e \in Ends, Here(e) = r, ~e.active, recv'[e] = "posted" PROVE e = Passive(r, r)
      <3>1. CASE e = a
        BY <1>3, <2>5, <3>1
      <3>2. CASE e # a
        BY <1>2, <1>5, <2>5, <3>2 DEF Own
      <3> QED
        BY <3>1, <3>2
    <2>6. Accepted(r, r)' \/ AcceptedAt(r, r)' => peerEnd'[r][r] # ActiveEnd(r, r)
      <3>1. CASE n = r
        BY <1>2, <1>5, <3>1, OneEnd
      <3>2. CASE n # r
        <4>1. /\ Accepted(r, r)' <=> Accepted(r, r)
              /\ AcceptedAt(r, r)' <=> AcceptedAt(r, r)
          BY <1>1, <1>2, <3>2 DEF StagesBut
        <4> QED
          BY <1>2, <1>5, <3>2, <4>1 DEF Own
      <3> QED
        BY <3>1, <3>2
    <2>7. Uncollected(r)' = Uncollected(r) /\ Uncollected(r) \in Nat
      BY <1>2, <1>7
    <2>8. incoming'[r] + Cardinality(OpenEnds(r)') + (IF listener'[r].at = "poll" THEN 1 ELSE 0) <= ClusterSize + 1
      <3>1. PollingOne(r) \in Nat /\ incoming[r] \in Nat
        BY <1>2 DEF PollingOne, AInv, IInv, Types
      <3>2. incoming[r] + Cardinality(OpenEnds(r)) + PollingOne(r) <= ClusterSize + 1
        BY <1>2 DEF Own, PollingOne
      <3>3. incoming[r] + Cardinality(OpenEnds(r)') + PollingOne(r) <= ClusterSize + 1
        BY <2>1, <3>1, <3>2, SizeAssumption
      <3> QED
        BY <1>3, <3>3 DEF PollingOne
    <2>9. IF ctor'[r] = "aborted" THEN Uncollected(r)' <= 2 * ClusterSize
          ELSE Uncollected(r)' + Cardinality(tested'[r]) + Cardinality(OpenEnds(r)')
                <= ClusterSize + 1 + IF HasPosted(r)' THEN ClusterSize - 1 ELSE 0
      <3>1. CASE ctor[r] = "aborted"
        BY <1>2, <1>3, <2>7, <3>1 DEF Own
      <3>2. CASE ctor[r] # "aborted"
        <4>1. Uncollected(r) + Cardinality(tested[r]) + Cardinality(OpenEnds(r)) <= ClusterSize + 1 + HasTested(r)
          BY <1>2, <3>2 DEF Own, HasTested
        <4>2. HasTested(r) \in Nat /\ HasTested(r)' = HasTested(r)
          BY <1>3, SizeAssumption DEF HasTested, HasPosted
        <4>3. Cardinality(tested[r]) \in Nat
          <5>1. tested[r] \subseteq Nodes
            BY <1>2 DEF AInv, QTypes, QueueTypes
          <5> QED
            BY <5>1, SomeNodes
        <4>4. Uncollected(r) + Cardinality(tested[r]) + Cardinality(OpenEnds(r)') <= ClusterSize + 1 + HasTested(r)
          BY <2>1, <2>7, <4>1, <4>2, <4>3, SizeAssumption
        <4> QED
          BY <1>3, <2>7, <3>2, <4>2, <4>4 DEF HasTested
      <3> QED
        BY <3>1, <3>2
    <2>10. recvCQ'[r] + Cardinality(Unreceived(r)') <= ClusterSize
      BY <1>2, <1>3, <2>3 DEF Own
    <2> QED
      BY <1>2, <1>3, <2>4, <2>5, <2>6, <2>8, <2>9, <2>10 DEF Own
  <1>9. ASSUME NEW m \in Others(r) PROVE OtherRight(r, m)'
    <2>1. m \in Nodes /\ OtherRight(r, m)
      BY <1>2 DEF AInv, After
    <2>2. OtherDegraded(r, m)'
      BY <1>1, <1>3, DegradedStays DEF BrokenSame
    <2>3. CASE m = n
      <3>1. OtherSends(r, m)'
        <4>1. Uncollected(m)' = Uncollected(m) /\ Uncollected(m) \in Nat
          BY <1>7, <2>1
        <4> QED
          BY <1>1, <1>2, <1>3, <2>1, <2>3, <4>1, SizeAssumption DEF OtherRight, OtherSends, Ahead
      <3>2. OtherReceives(r, m)'
        <4>1. recvCQ'[m] <= 0
          BY <1>1, <1>2, <1>3, <2>1, <2>3 DEF OtherRight, OtherReceives
        <4>2. ~Resolving(r, m)' /\ ~Resolved(r, m)' /\ ~Requested(r, m)'
          BY <1>1, <1>2, <1>4, <2>3
        <4>3. \A d \in Ends : Here(d) = m /\ recv'[d] = "posted" => d = Passive(r, m)
          BY <1>5, <2>1, <2>3 DEF OtherRight, OtherReceives
        <4> QED
          BY <1>5, <2>3, <4>1, <4>2, <4>3 DEF OtherReceives
      <3> QED
        BY <1>3, <2>1, <2>2, <3>1, <3>2 DEF OtherRight
    <2>4. CASE m # n
      <3>1. \A d \in Ends : Here(d) = m => recv'[d] = recv[d]
        BY <1>3, <1>5, <2>4
      <3>2. /\ Setting(r, m)' => Setting(r, m)
            /\ Unaccepted(r, m)' => Unaccepted(r, m)
        BY <1>1, <1>2, <2>1, <2>4 DEF StagesBut, Setting, Unaccepted, Ahead
      <3> QED
        BY <1>3, <1>7, <2>1, <2>2, <3>1, <3>2, OtherKept
    <2> QED
      BY <2>3, <2>4
  <1>10. \A e \in up' : e \in up \/ Here(e) = r \/ ~e.active
    BY <1>1, <1>2, PassiveIs
  <1> QED
    BY <1>1, <1>2, <1>3, <1>4, <1>8, <1>9, <1>10, StageAfter

\* Of the new process: an end that is not open any more is being polled, and
\* has been sent this node's MR.
LEMMA OwnGreets ==
  ASSUME NEW r, AInv(r), IInv', QTypes', NEW p \in Nodes, NEW e \in Ends, Greets(r, p, e),
         NEW x \in OpenEnds(r), OpenEnds(r)' \subseteq OpenEnds(r) \ {x},
         \A q \in Nodes : Resolving(r, q)' <=> Resolving(r, q),
         Accepted(r, r)' \/ AcceptedAt(r, r)' => Accepted(r, r) \/ AcceptedAt(r, r),
         peerEnd[r][p] # ActiveEnd(r, r)
  PROVE  Own(r)'
  <1>1. /\ ctor[r] # "aborted" /\ listener[r] = Idle /\ r \in Nodes /\ Own(r)
        /\ sq' = [sq EXCEPT ![peerEnd[r][p]] = Append(@, "mr")]
        /\ UNCHANGED <<ctor, tested, peerEnd, incoming, degraded, recv, recvCQ, sendCQ>>
    BY AfterFacts DEF Greets, Handles, AInv, After, ctorVars, peerVars, degradeVars
  <1>2. /\ Cardinality(OpenEnds(r)') <= Cardinality(OpenEnds(r)) - 1
        /\ Cardinality(OpenEnds(r)') \in Nat /\ Cardinality(OpenEnds(r)) \in Nat
    BY OpenEndsAre, SomeEnds
  <1>3. Uncollected(r)' <= Uncollected(r) + 1 /\ Uncollected(r) \in Nat /\ Uncollected(r)' \in Nat
    <2>1. Uncollected(r) \in Nat /\ Uncollected(r)' \in Nat
      BY <1>1, UncollectedType, UncollectedTypeNext DEF AInv, QTypes
    <2>2. Uncollected(r)' = Uncollected(r) + IF r = r /\ peerEnd[r][p] # NoEnd THEN 1 ELSE 0
      BY <1>1, GreetsSends DEF AInv
    <2> QED
      BY <2>1, <2>2
  <1>4. sq'[ActiveEnd(r, r)] = <<>>
    BY <1>1, OwnQueueEmpty DEF AInv, QTypes, QueueTypes
  <1>5. incoming'[r] + Cardinality(OpenEnds(r)') + (IF listener'[r].at = "poll" THEN 1 ELSE 0) <= ClusterSize + 1
    <2>1. incoming[r] \in Nat
      BY <1>1 DEF AInv, IInv, Types
    <2>2. incoming[r] + Cardinality(OpenEnds(r)) + 0 <= ClusterSize + 1
      BY <1>1 DEF Own, Idle
    <2>3. incoming[r] + Cardinality(OpenEnds(r)') + 1 <= ClusterSize + 1
      BY <1>2, <2>1, <2>2, SizeAssumption
    <2> QED
      BY <1>1, <1>2, <2>1, <2>3, SizeAssumption
  <1>6. Uncollected(r)' + Cardinality(tested'[r]) + Cardinality(OpenEnds(r)')
          <= ClusterSize + 1 + IF HasPosted(r)' THEN ClusterSize - 1 ELSE 0
    <2>1. Uncollected(r) + Cardinality(tested[r]) + Cardinality(OpenEnds(r)) <= ClusterSize + 1 + HasTested(r)
      BY <1>1 DEF Own, HasTested
    <2>2. HasTested(r) \in Nat /\ HasTested(r)' = HasTested(r)
      BY <1>1, SizeAssumption DEF HasTested, HasPosted
    <2>3. Cardinality(tested[r]) \in Nat
      <3>1. tested[r] \subseteq Nodes
        BY <1>1 DEF AInv, QTypes, QueueTypes
      <3> QED
        BY <3>1, SomeNodes
    <2>4. Uncollected(r)' + Cardinality(tested[r]) + Cardinality(OpenEnds(r)') <= ClusterSize + 1 + HasTested(r)
      BY <1>2, <1>3, <2>1, <2>2, <2>3, SizeAssumption
    <2> QED
      BY <1>1, <2>2, <2>4 DEF HasTested
  <1>7. Unreceived(r)' = Unreceived(r)
    BY <1>1 DEF Unreceived
  <1> QED
    BY <1>1, <1>4, <1>5, <1>6, <1>7 DEF Own

LEMMA GreetsFirstAfter ==
  ASSUME NEW r, AInv(r), IInv', QTypes', NEW n \in Nodes, NEW p \in Nodes,
         ActiveEnd(n, p) \in Ends, GreetsFirst(n, p)
  PROVE  After(r)'
  <1>1. /\ Greets(n, p, ActiveEnd(n, p))
        /\ StagesBut(n, p) /\ BrokenSame
        /\ Accepted(n, p) /\ ~Accepted(n, p)'
        /\ Resolving(n, p)' <=> Resolving(n, p)
        /\ Resolved(n, p)' <=> Resolved(n, p)
        /\ Requested(n, p)' <=> Requested(n, p)
        /\ AcceptedAt(n, p)' <=> AcceptedAt(n, p) \/ Running(p)
        /\ up' = up \cup (IF Running(p) THEN {Passive(n, p)} ELSE {})
    BY DEF GreetsFirst
  <1>2. /\ n = r /\ r \in Nodes /\ Own(r) /\ InTurn(r)
        /\ \A m \in Others(r) : m \in Nodes /\ m # r
    BY <1>1, AfterFacts DEF AInv, After, OnlyItsOwn, Ahead
  <1>3. /\ sq' = [sq EXCEPT ![peerEnd[r][p]] = Append(@, "mr")]
        /\ UNCHANGED <<ctor, tested, peerEnd, incoming, degraded, recv, recvCQ, sendCQ>>
    BY <1>1, <1>2 DEF Greets, ctorVars, peerVars, degradeVars
  <1>4. ~Resolving(r, p) /\ ~Resolved(r, p) /\ ~Requested(r, p) /\ ~AcceptedAt(r, p)
    BY <1>1, <1>2 DEF InTurn
  <1>5. /\ ~Ahead(r, p)' /\ \A q \in Nodes : q # p => (Ahead(r, q)' <=> Ahead(r, q))
        /\ \A q \in Nodes : q # p => (AcceptedAt(r, q)' <=> AcceptedAt(r, q))
        /\ \A q \in Nodes : Resolving(r, q)' <=> Resolving(r, q)
    BY <1>1, <1>2, <1>4 DEF StagesBut, Ahead
  <1>6. peerEnd[r][p] # ActiveEnd(r, r)
    <2>1. CASE p = r
      BY <1>1, <1>2, <2>1 DEF Own
    <2>2. CASE p # r
      <3>1. peerEnd[r][p] # NoEnd => Peer(peerEnd[r][p]) = p
        BY <1>2 DEF AInv, QTypes, EndsAtHome
      <3>2. ActiveEnd(r, r) # NoEnd /\ Peer(ActiveEnd(r, r)) = r
        BY <1>2, OwnQueueEmpty, NoEndIsNone, PassiveIs
      <3> QED
        BY <2>2, <3>1, <3>2
    <2> QED
      BY <2>1, <2>2
  <1>7. Own(r)'
    <2>1. ActiveEnd(r, p) \in OpenEnds(r)
      BY <1>1, <1>2, OpenEndsAre DEF Ahead
    <2>2. OpenEnds(r)' \subseteq OpenEnds(r) \ {ActiveEnd(r, p)}
      <3> SUFFICES ASSUME NEW x \in OpenEnds(r)' PROVE x \in OpenEnds(r) /\ x # ActiveEnd(r, p)
        OBVIOUS
      <3>1. CASE \E q \in Nodes : x = ActiveEnd(r, q) /\ Ahead(r, q)'
        <4>1. PICK q \in Nodes : x = ActiveEnd(r, q) /\ Ahead(r, q)'
          BY <3>1
        <4>2. q # p /\ Ahead(r, q)
          BY <1>5, <4>1
        <4> QED
          BY <1>2, <4>1, <4>2, OpenEndsAre, OneEnd
      <3>2. CASE x = Passive(r, r) /\ (Ahead(r, r)' \/ AcceptedAt(r, r)')
        <4>1. Ahead(r, r) \/ AcceptedAt(r, r)
          BY <1>1, <1>2, <1>5, <3>2 DEF Ahead
        <4> QED
          BY <1>2, <3>2, <4>1, OpenEndsAre, OneEnd
      <3> QED
        BY <3>1, <3>2, OpenEndsAre
    <2>3. Accepted(r, r)' \/ AcceptedAt(r, r)' => Accepted(r, r) \/ AcceptedAt(r, r)
      BY <1>1, <1>2 DEF StagesBut
    <2> QED
      BY <1>1, <1>2, <1>5, <1>6, <2>1, <2>2, <2>3, OwnGreets
  <1>8. ASSUME NEW m \in Others(r) PROVE OtherRight(r, m)'
    <2>1. Uncollected(m)' = Uncollected(m)
      <3>1. Uncollected(m)' = Uncollected(m) + (IF m = r /\ peerEnd[r][p] # NoEnd THEN 1 ELSE 0)
        BY <1>1, <1>2, GreetsSends DEF AInv
      <3>2. Uncollected(m) \in Nat
        BY <1>2, UncollectedType DEF AInv, QTypes
      <3> QED
        BY <1>2, <3>1, <3>2
    <2>2. OtherDegraded(r, m)'
      BY <1>1, <1>3, DegradedStays DEF BrokenSame
    <2>3. /\ Setting(r, m)' => Setting(r, m)
          /\ Unaccepted(r, m)' => Unaccepted(r, m)
      <3>1. CASE m = p
        BY <1>1, <1>2, <3>1 DEF Setting, Unaccepted, Ahead
      <3>2. CASE m # p
        BY <1>1, <1>2, <3>2 DEF StagesBut, Setting, Unaccepted, Ahead
      <3> QED
        BY <3>1, <3>2
    <2> QED
      BY <1>2, <1>3, <2>1, <2>2, <2>3, OtherKept
  <1>9. \A e \in up' : e \in up \/ Here(e) = r \/ ~e.active
    BY <1>1, <1>2, PassiveIs
  <1> QED
    BY <1>1, <1>2, <1>3, <1>4, <1>7, <1>8, <1>9, StageAfter

LEMMA GreetsBackAfter ==
  ASSUME NEW r, AInv(r), IInv', QTypes', NEW n \in Nodes, NEW p \in Nodes,
         ActiveEnd(p, n) \in Ends, GreetsBack(p, n)
  PROVE  After(r)'
  <1>1. /\ Greets(n, p, Passive(p, n))
        /\ StagesBut(p, n) /\ BrokenSame
        /\ AcceptedAt(p, n) /\ ~AcceptedAt(p, n)'
        /\ Resolving(p, n)' <=> Resolving(p, n)
        /\ Resolved(p, n)' <=> Resolved(p, n)
        /\ Requested(p, n)' <=> Requested(p, n)
        /\ Accepted(p, n)' <=> Accepted(p, n)
        /\ up' = up
    BY DEF GreetsBack
  <1>2. /\ p = r /\ r \in Nodes /\ Own(r) /\ InTurn(r)
        /\ \A m \in Others(r) : m \in Nodes /\ m # r
    BY <1>1, AfterFacts DEF AInv, After, OnlyItsOwn
  <1>3. /\ sq' = [sq EXCEPT ![peerEnd[n][r]] = Append(@, "mr")]
        /\ UNCHANGED <<ctor, tested, peerEnd, incoming, degraded, recv, recvCQ, sendCQ>>
        /\ listener' = IF ctor[n] = "done" THEN listener
                       ELSE [listener EXCEPT ![n] = [at |-> "poll", end |-> Passive(r, n)]]
    BY <1>1, <1>2 DEF Greets, ctorVars, peerVars, degradeVars
  <1>4. ~Resolving(r, n) /\ ~Resolved(r, n) /\ ~Requested(r, n) /\ ~Accepted(r, n)
    BY <1>1, <1>2 DEF InTurn
  <1>5. /\ \A q \in Nodes : Ahead(r, q)' <=> Ahead(r, q)
        /\ ~Ahead(r, n)
        /\ \A q \in Nodes : q # n => (AcceptedAt(r, q)' <=> AcceptedAt(r, q))
        /\ \A q \in Nodes : Resolving(r, q)' <=> Resolving(r, q)
    BY <1>1, <1>2, <1>4 DEF StagesBut, Ahead
  <1>6. \A m \in Nodes : /\ Uncollected(m)' = Uncollected(m) + (IF m = n /\ peerEnd[n][r] # NoEnd THEN 1 ELSE 0)
                         /\ Uncollected(m) \in Nat
    <2>1. Passive(r, n) \in Ends
      BY <1>2, AfterFacts
    <2> QED
      BY <1>1, <1>2, <2>1, GreetsSends, UncollectedType DEF AInv, QTypes
  <1>7. Own(r)'
    <2>1. CASE n = r
      <3>1. Passive(r, r) \in OpenEnds(r)
        BY <1>1, <1>2, <2>1, OpenEndsAre
      <3>2. OpenEnds(r)' \subseteq OpenEnds(r) \ {Passive(r, r)}
        <4> SUFFICES ASSUME NEW x \in OpenEnds(r)' PROVE x \in OpenEnds(r) /\ x # Passive(r, r)
          OBVIOUS
        <4>1. PICK q \in Nodes : x = ActiveEnd(r, q) /\ Ahead(r, q)'
          BY <1>1, <1>2, <1>5, <2>1, OpenEndsAre
        <4> QED
          BY <1>2, <1>5, <4>1, OpenEndsAre, OneEnd
      <3>3. Accepted(r, r)' \/ AcceptedAt(r, r)' => Accepted(r, r) \/ AcceptedAt(r, r)
        BY <1>1, <1>2, <2>1
      <3>4. peerEnd[r][r] # ActiveEnd(r, r)
        BY <1>1, <1>2, <2>1 DEF Own
      <3>5. Passive(r, r) \in Ends
        BY <1>2, AfterFacts
      <3> QED
        BY <1>1, <1>2, <1>5, <2>1, <3>1, <3>2, <3>3, <3>4, <3>5, OwnGreets
    <2>2. CASE n # r
      <3>1. AcceptedAt(r, r)' <=> AcceptedAt(r, r)
        BY <1>2, <1>5, <2>2
      <3>2. Accepted(r, r)' <=> Accepted(r, r)
        BY <1>1, <1>2, <2>2 DEF StagesBut
      <3>3. OpenEnds(r)' = OpenEnds(r)
        BY <1>2, <1>5, <3>1, OpenSame
      <3>4. Unreceived(r)' = Unreceived(r)
        BY <1>3, <1>5 DEF Unreceived
      <3>5. listener'[r] = listener[r]
        BY <1>2, <1>3, <2>2 DEF AInv, IInv, Types
      <3>6. sq'[ActiveEnd(r, r)] = <<>>
        <4>1. peerEnd[n][r] # ActiveEnd(r, r)
          <5>1. peerEnd[n][r] # NoEnd => Here(peerEnd[n][r]) = n
            BY <1>2 DEF AInv, QTypes, EndsAtHome
          <5> QED
            BY <2>2, <5>1, OwnQueueEmpty, NoEndIsNone
        <4> QED
          BY <1>3, <4>1, OwnQueueEmpty DEF AInv, QTypes, QueueTypes
      <3>7. Uncollected(r)' = Uncollected(r)
        BY <1>2, <1>6, <2>2
      <3> QED
        BY <1>2, <1>3, <1>5, <3>1, <3>2, <3>3, <3>4, <3>5, <3>6, <3>7 DEF Own, HasPosted
    <2> QED
      BY <2>1, <2>2
  <1>8. ASSUME NEW m \in Others(r) PROVE OtherRight(r, m)'
    <2>1. m \in Nodes /\ OtherRight(r, m)
      BY <1>2 DEF AInv, After
    <2>2. OtherDegraded(r, m)'
      BY <1>1, <1>3, DegradedStays DEF BrokenSame
    <2>3. /\ Setting(r, m)' => Setting(r, m)
          /\ Unaccepted(r, m)' <=> Unaccepted(r, m)
      <3>1. CASE m = n
        BY <1>1, <1>2, <3>1 DEF Setting, Unaccepted, Ahead
      <3>2. CASE m # n
        BY <1>1, <1>2, <2>1, <3>2 DEF StagesBut, Setting, Unaccepted, Ahead
      <3> QED
        BY <3>1, <3>2
    <2>4. CASE m = n
      <3>1. OtherSends(r, m)'
        <4>1. /\ Uncollected(m)' <= Uncollected(m) + 1 /\ Uncollected(m) <= Uncollected(m)'
              /\ Uncollected(m) \in Nat /\ Uncollected(m)' \in Nat
          BY <1>6, <2>1
        <4>2. Uncollected(m) <= ClusterSize - 1
          BY <1>1, <1>2, <2>1, <2>4 DEF OtherRight, OtherSends
        <4>3. ~(Ahead(r, m)' \/ AcceptedAt(r, m)')
          BY <1>1, <1>2, <1>5, <2>4
        <4>4. Uncollected(m)' <= ClusterSize
          BY <4>1, <4>2, SizeAssumption
        <4>5. ctor[r] # "aborted" => ClusterSize - 1 <= Uncollected(m)'
          BY <2>1, <4>1, SizeAssumption DEF OtherRight, OtherSends
        <4> QED
          BY <1>3, <4>3, <4>4, <4>5, SizeAssumption DEF OtherSends
      <3>2. OtherReceives(r, m)'
        <4>1. ~Resolving(r, m)' /\ ~Resolved(r, m)' /\ ~Requested(r, m)'
          BY <1>1, <1>2, <1>4, <2>4
        <4> QED
          BY <1>2, <1>3, <1>4, <2>1, <2>4, <4>1 DEF OtherRight, OtherReceives
      <3> QED
        BY <1>3, <2>1, <2>2, <3>1, <3>2 DEF OtherRight
    <2>5. CASE m # n
      <3>1. Uncollected(m)' = Uncollected(m)
        BY <1>6, <2>1, <2>5
      <3> QED
        BY <1>3, <2>1, <2>2, <2>3, <2>5, <3>1, OtherKept
    <2> QED
      BY <2>4, <2>5
  <1> QED
    BY <1>1, <1>2, <1>3, <1>4, <1>7, <1>8, StageAfter

-----------------------------------------------------------------------------
(* Every step.                                                             *)

LEMMA KeepsRecovering ==
  ASSUME [Next]_vars, \A n \in Nodes : ~Recover(n)
  PROVE  recovering' = recovering
  <1>1. CASE UNCHANGED vars
    BY <1>1 DEF vars, runVars
  <1>2. ASSUME NEW n \in Nodes, Start(n) \/ Crash(n) PROVE recovering' = recovering
    BY <1>2 DEF Start, Crash, runVars
  <1>3. ASSUME NEW n \in Nodes, Ctor(n) PROVE recovering' = recovering
    BY <1>3 DEF Ctor, CtorCheck, CtorSleep, CtorPost, CtorPoll, runVars
  <1>4. ASSUME NEW n \in Nodes, SpuriousWake(n) \/ Notify(n) PROVE recovering' = recovering
    BY <1>4 DEF SpuriousWake, Notify, runVars
  <1>5. ASSUME NEW n \in Nodes, Listener(n) PROVE recovering' = recovering
    BY <1>5 DEF Listener, OnAddrResolved, OnRouteResolved, OnConnectionRequest,
                OnConnectionEstablished, PollRecv, OnDisconnected, runVars
  <1>6. ASSUME NEW e \in Ends, Adapter(e) PROVE recovering' = recovering
    BY <1>6 DEF Adapter, DeliverMR, DeliverWrite, FailRequest, runVars
  <1> QED
    BY <1>1, <1>2, <1>3, <1>4, <1>5, <1>6 DEF Next

LEMMA RecoveringStays ==
  ASSUME NEW r, AInv(r), [Next]_vars
  PROVE  /\ \A n \in Nodes : ~Start(n) /\ ~Crash(n) /\ ~Recover(n)
         /\ recovering' = recovering
  <1>1. recovering = {r} /\ \A n \in Nodes : ctor[n] # "off"
    BY AfterFacts
  <1>2. \A n \in Nodes : ~Start(n) /\ ~Crash(n) /\ ~Recover(n)
    BY <1>1 DEF Start, Crash, Recover
  <1> QED
    BY <1>2, KeepsRecovering

LEMMA StaysAfter ==
  ASSUME NEW r, AInv(r), IInv', QTypes', [Next]_vars
  PROVE  After(r)'
  <1>a. IInv /\ QTypes
    BY DEF AInv
  <1>b. \A n \in Nodes : ~Start(n) /\ ~Crash(n) /\ ~Recover(n)
    BY RecoveringStays
  <1>1. CASE UNCHANGED vars
    BY <1>1, StutterAfter
  <1>2. ASSUME NEW n \in Nodes, Ctor(n) PROVE After(r)'
    <2>1. CASE CtorCheck(n) \/ CtorSleep(n)
      BY <2>1, MovesIs, MovesAfter
    <2>2. CASE CtorPost(n)
      BY <2>2, <1>a, PostIs, TestsAfter, EndsAfter
    <2>3. CASE CtorPoll(n)
      BY <2>3, TestedIs, TestedAfter
    <2> QED
      BY <1>2, <2>1, <2>2, <2>3 DEF Ctor
  <1>3. ASSUME NEW n \in Nodes, SpuriousWake(n) PROVE After(r)'
    BY <1>3, MovesIs, MovesAfter
  <1>4. ASSUME NEW n \in Nodes, Listener(n) PROVE After(r)'
    <2>1. CASE OnAddrResolved(n)
      BY <2>1, <1>a, AddrIs, AsksAfter
    <2>2. CASE OnRouteResolved(n)
      BY <2>2, <1>a, RouteIs, RequestsAfter
    <2>3. CASE OnConnectionRequest(n)
      BY <2>3, <1>a, RequestIs, AcceptsAfter
    <2>4. CASE OnConnectionEstablished(n)
      BY <2>4, <1>a, EstablishedIs, GreetsFirstAfter, GreetsBackAfter
    <2>5. CASE PollRecv(n)
      BY <2>5, <1>a, PollIs, ConnectsAfter, EndsAfter DEF Exits
    <2>6. CASE OnDisconnected(n)
      BY <2>6, <1>a, DisconnectedIs, DropsAfter
    <2> QED
      BY <1>4, <2>1, <2>2, <2>3, <2>4, <2>5, <2>6 DEF Listener
  <1>5. ASSUME NEW n \in Nodes, Notify(n) PROVE After(r)'
    BY <1>5, NotifyAfter
  <1>6. ASSUME NEW e \in Ends, Adapter(e) PROVE After(r)'
    BY <1>6, AdapterIs, FillsAfter, CompletesAfter
  <1> QED
    BY <1>b, <1>1, <1>2, <1>3, <1>4, <1>5, <1>6 DEF Next

LEMMA TypesStep ==
  ASSUME IInv, QTypes, [Next]_vars
  PROVE  QTypes'
  <1>1. CASE UNCHANGED vars
    BY <1>1, StutterTypes
  <1>2. ASSUME NEW n \in Nodes, Start(n) PROVE QTypes'
    BY <1>2, StartTypes
  <1>3. ASSUME NEW n \in Nodes, Ctor(n) PROVE QTypes'
    <2>1. CASE CtorCheck(n) \/ CtorSleep(n)
      BY <2>1, MovesIs, MovesTypes
    <2>2. CASE CtorPost(n)
      BY <2>2, PostIs, TestsTypes, Ends1Types
    <2>3. CASE CtorPoll(n)
      BY <2>3, TestedIs, TestedTypes
    <2> QED
      BY <1>3, <2>1, <2>2, <2>3 DEF Ctor
  <1>4. ASSUME NEW n \in Nodes, SpuriousWake(n) PROVE QTypes'
    BY <1>4, MovesIs, MovesTypes
  <1>5. ASSUME NEW n \in Nodes, Listener(n) PROVE QTypes'
    <2>1. CASE OnAddrResolved(n)
      <3>1. PICK p \in Nodes : Asks(n, p)
        BY <2>1, AddrIs
      <3> QED
        BY <3>1, BuiltTypes DEF Asks
    <2>2. CASE OnRouteResolved(n)
      BY <2>2, RouteIs, RequestsTypes
    <2>3. CASE OnConnectionRequest(n)
      <3>1. PICK p \in Nodes : Accepts(p, n)
        BY <2>3, RequestIs
      <3> QED
        BY <3>1, BuiltTypes DEF Accepts
    <2>4. CASE OnConnectionEstablished(n)
      <3>1. PICK p \in Nodes : \/ ActiveEnd(n, p) \in Ends /\ GreetsFirst(n, p)
                               \/ ActiveEnd(p, n) \in Ends /\ GreetsBack(p, n)
        BY <2>4, EstablishedIs
      <3>2. ActiveEnd(p, n) \in Ends => Passive(p, n) \in Ends
        BY PassiveIs
      <3> QED
        BY <3>1, <3>2, GreetsTypes DEF GreetsFirst, GreetsBack
    <2>5. CASE PollRecv(n)
      BY <2>5, PollIs, ConnectsTypes, Ends1Types DEF Exits
    <2>6. CASE OnDisconnected(n)
      BY <2>6, DisconnectedIs, DropsTypes
    <2> QED
      BY <1>5, <2>1, <2>2, <2>3, <2>4, <2>5, <2>6 DEF Listener
  <1>6. ASSUME NEW n \in Nodes, Notify(n) PROVE QTypes'
    BY <1>6, NotifyTypes
  <1>7. ASSUME NEW n \in Nodes, Crash(n) PROVE QTypes'
    BY <1>7, CrashIs, Ends1Types
  <1>8. ASSUME NEW n \in Nodes, Recover(n) PROVE QTypes'
    BY <1>8, RecoverTypes
  <1>9. ASSUME NEW e \in Ends, Adapter(e) PROVE QTypes'
    BY <1>9, AdapterIs, FillsTypes, CompletesTypes
  <1> QED
    BY <1>1, <1>2, <1>3, <1>4, <1>5, <1>6, <1>7, <1>8, <1>9 DEF Next

LEMMA QStep == IInv /\ QInv /\ [Next]_vars => IInv' /\ QInv'
  <1> SUFFICES ASSUME IInv, QInv, [Next]_vars PROVE IInv' /\ QInv'
    OBVIOUS
  <1>1. QTypes /\ ProcessRight
    BY DEF QInv, QTypes
  <1>2. IInv' /\ QTypes' /\ ProcessRight'
    BY <1>1, StepKeeps, TypesStep, ProcessStep
  <1>3. CASE recovering # {}
    <2>1. PICK r \in recovering : recovering = {r}
      BY <1>3 DEF IInv, Types
    <2>2. AInv(r)
      BY <1>1, <2>1 DEF AInv, QInv
    <2>3. recovering' = {r} /\ After(r)'
      BY <1>2, <2>1, <2>2, RecoveringStays, StaysAfter
    <2> QED
      BY <1>2, <2>3 DEF QInv, QTypes
  <1>4. CASE recovering = {}
    <2>1. BInv
      BY <1>1, <1>4 DEF BInv, QInv
    <2>2. CASE \E n \in Nodes : Recover(n)
      <3>1. PICK n \in Nodes : Recover(n)
        BY <2>2
      <3>2. recovering' = {n} /\ After(n)'
        BY <1>1, <1>2, <2>1, <3>1, RecoverAfter DEF Recover
      <3> QED
        BY <1>2, <3>2 DEF QInv, QTypes
    <2>3. CASE \A n \in Nodes : ~Recover(n)
      <3>1. Before'
        BY <1>2, <2>1, <2>3, StaysBefore
      <3>2. recovering' = recovering
        BY <2>3, KeepsRecovering
      <3> QED
        BY <1>2, <1>4, <3>1, <3>2 DEF QInv, QTypes
    <2> QED
      BY <2>2, <2>3
  <1> QED
    BY <1>3, <1>4

-----------------------------------------------------------------------------
(* The beginning.                                                          *)

LEMMA InitQ == Init => QInv
  <1> SUFFICES ASSUME Init PROVE QInv
    OBVIOUS
  <1>a. /\ recovering = {} /\ spurious = {} /\ up = {}
        /\ \A n \in Nodes : /\ ctor[n] = "off" /\ tested[n] = {} /\ listener[n] = Idle
                            /\ events[n] = {} /\ incoming[n] = 0 /\ degraded[n] = 0
                            /\ recvCQ[n] = 0 /\ sendCQ[n] = 0
                            /\ \A p \in Nodes : peerEnd[n][p] = NoEnd /\ peerMR[n][p] = "unset"
        /\ \A e \in Ends : recv[e] = "none" /\ sq[e] = <<>>
    BY DEF Init
  <1>1. QTypes
    <2>1. QueueTypes
      <3>1. <<>> \in Seq({"mr", "test"})
        OBVIOUS
      <3> QED
        BY <3>1 DEF Init, QueueTypes
    <2> QED
      BY <1>a, <2>1 DEF QTypes, EndsAtHome, TestedRight
  <1>2. ProcessRight
    BY <1>a DEF ProcessRight
  <1>3. \A n, p \in Nodes : /\ ~Resolving(n, p) /\ ~Resolved(n, p) /\ ~Requested(n, p)
                            /\ ~Accepted(n, p) /\ ~AcceptedAt(n, p) /\ ~Counted(n, p)
                            /\ ~Polls(n, p)
    BY <1>a DEF Resolving, Resolved, Requested, Accepted, AcceptedAt, Counted, Polls, Idle
  <1>4. \A n \in Nodes, e \in Ends : ~Broken(n, e)
    BY <1>a DEF Broken
  <1>5. \A n \in Nodes : \A p \in Others(n) : Unbuilt(n, p)
    BY <1>a DEF Unbuilt, Coming, ComingAt, Others
  <1>6. \A n \in Nodes : Sent(n) = {} /\ Filled(n) = {} /\ Reached(n) = {} /\ Lost(n) = {}
    <2>1. \A n \in Nodes : Sent(n) = {}
      BY <1>3 DEF Sent, Others
    <2>2. \A n \in Nodes : Filled(n) = {}
      BY <1>a, EndAtIs DEF Filled, Others
    <2>3. \A n \in Nodes : Reached(n) = {}
      BY <1>5 DEF Reached
    <2>4. \A n \in Nodes : Lost(n) = {}
      BY <1>a DEF Lost, Others
    <2> QED
      BY <2>1, <2>2, <2>3, <2>4
  <1>b. \A n \in Nodes : /\ Cardinality(Sent(n)) = 0 /\ Cardinality(Filled(n)) = 0
                          /\ Cardinality(Reached(n)) = 0 /\ Cardinality(Lost(n)) = 0
    <2>1. Cardinality({}) = 0
      BY FS_EmptySet
    <2> QED
      BY <1>6, <2>1
  <1>7. \A n \in Nodes : Uncollected(n) = 0 /\ Cardinality(tested[n]) = 0 /\ Owed(n) = 0
    <2> TAKE n \in Nodes
    <2>1. Cardinality({}) = 0
      BY FS_EmptySet
    <2>2. PostedIn(sq, n) = {}
      BY <1>a DEF PostedIn
    <2>3. Uncollected(n) = sendCQ[n] + Cardinality(PostedIn(sq, n))
      BY <1>1, UncollectedType DEF QTypes
    <2>4. Uncollected(n) = 0
      BY <1>a, <2>1, <2>2, <2>3
    <2>5. ~HasPosted(n)
      BY <1>a DEF HasPosted
    <2>6. Cardinality(tested[n]) = 0
      BY <1>a, <2>1
    <2>7. Cardinality(Sent(n)) = 0
      BY <1>b
    <2>8. Owed(n) = 0
      BY <2>5, <2>7 DEF Owed
    <2> QED
      BY <2>4, <2>6, <2>8
  <1>8. Downwards /\ UnbuiltBare /\ DisconnectedUp
    <2>1. Downwards
      BY <1>a DEF Downwards
    <2>2. UnbuiltBare
      BY <1>a, EndAtIs DEF UnbuiltBare, Others
    <2> QED
      BY <1>4, <2>1, <2>2 DEF DisconnectedUp
  <1>9. ReceivesBound /\ SendsBound /\ DegradedBound
    <2>1. ReceivesBound
      BY <1>a, <1>b DEF ReceivesBound
    <2>2. DegradedBound
      BY <1>a, <1>b DEF DegradedBound
    <2>3. SendsBound
      BY <1>a, <1>7 DEF SendsBound, SendsAt
    <2> QED
      BY <2>1, <2>2, <2>3
  <1>10. NobodyDied
    BY <1>a DEF NobodyDied
  <1>11. Undisturbed
    <2>1. ReceivedExactly
      BY <1>a, <1>b DEF ReceivedExactly
    <2>2. FilledWasSent
      BY <1>6 DEF FilledWasSent
    <2>3. PostedWasSent
      BY <1>a DEF PostedWasSent
    <2>4. SentExactly
      BY <1>7 DEF SentExactly
    <2>5. InUse
      BY <1>3, <1>6 DEF InUse
    <2> QED
      BY <2>1, <2>2, <2>3, <2>4, <2>5 DEF Undisturbed
  <1>12. Before
    BY <1>8, <1>9, <1>10, <1>11 DEF Before
  <1> QED
    BY <1>1, <1>2, <1>12, <1>a DEF QInv, QTypes

LEMMA QInductive == Spec => [](IInv /\ QInv)
  <1>1. Init => IInv /\ QInv
    BY InitInv, InitQ
  <1>2. (IInv /\ QInv) /\ [Next]_vars => (IInv /\ QInv)'
    BY QStep
  <1> QED
    BY <1>1, <1>2, PTL DEF Spec

-----------------------------------------------------------------------------
(* What the bounds give.                                                   *)

Limits(n, extra) ==
    /\ incoming[n] <= ClusterSize - 1 + extra
    /\ degraded[n] <= ClusterSize /\ recvCQ[n] <= ClusterSize
    /\ sendCQ[n] <= 2 * (ClusterSize - 1) + extra

LEMMA LimitsBefore ==
  ASSUME BInv, NEW n \in Nodes
  PROVE  Limits(n, 0)
  <1>a. /\ IInv /\ QTypes /\ Before /\ recovering = {}
        /\ incoming[n] \in Nat /\ degraded[n] \in Nat /\ recvCQ[n] \in Nat /\ sendCQ[n] \in Nat
    BY DEF BInv, IInv, Types, QTypes, QueueTypes
  <1>b. ClusterSize \in Nat /\ ClusterSize >= 2
    BY SizeAssumption
  <1>c. ASSUME NEW S, S \subseteq Others(n) PROVE Cardinality(S) \in Nat /\ Cardinality(S) <= ClusterSize - 1
    BY <1>c, NodesFinite, SomeNodes DEF Others
  <1>1. incoming[n] <= ClusterSize - 1
    <2>1. CountedPeers(n) \subseteq Others(n) /\ incoming[n] = Cardinality(CountedPeers(n))
      BY <1>a DEF IInv, CountRight, CountedPeers, Others
    <2> QED
      BY <1>c, <2>1
  <1>2. degraded[n] <= ClusterSize
    <2>1. Lost(n) \subseteq Others(n) /\ degraded[n] <= Cardinality(Lost(n))
      BY <1>a DEF Before, DegradedBound, Lost
    <2>2. Cardinality(Lost(n)) \in Nat /\ Cardinality(Lost(n)) <= ClusterSize - 1
      BY <1>c, <2>1
    <2> QED
      BY <1>a, <1>b, <2>1, <2>2
  <1>3. recvCQ[n] <= ClusterSize
    <2>1. Reached(n) \subseteq Others(n) /\ recvCQ[n] + incoming[n] <= Cardinality(Reached(n))
      BY <1>a DEF Before, ReceivesBound, Reached
    <2>2. Cardinality(Reached(n)) \in Nat /\ Cardinality(Reached(n)) <= ClusterSize - 1
      BY <1>c, <2>1
    <2> QED
      BY <1>a, <1>b, <2>1, <2>2
  <1>4. sendCQ[n] <= 2 * (ClusterSize - 1)
    <2>1. Uncollected(n) \in Nat /\ sendCQ[n] <= Uncollected(n)
      BY <1>a, UncollectedType DEF QTypes
    <2>2. SendsAt(n)
      BY <1>a DEF Before, SendsBound
    <2>3. CASE ctor[n] = "aborted"
      BY <1>a, <1>b, <2>1, <2>2, <2>3 DEF SendsAt
    <2>4. CASE ctor[n] # "aborted"
      <3>1. Uncollected(n) + Cardinality(tested[n]) <= Owed(n)
        BY <2>2, <2>4 DEF SendsAt
      <3>2. Cardinality(Sent(n)) \in Nat /\ Cardinality(Sent(n)) <= ClusterSize - 1
        <4>1. Sent(n) \subseteq Others(n)
          BY DEF Sent
        <4> QED
          BY <1>c, <4>1
      <3>3. Owed(n) \in Nat /\ Owed(n) <= 2 * (ClusterSize - 1)
        BY <1>b, <3>2 DEF Owed
      <3>4. Cardinality(tested[n]) \in Nat
        BY <1>a, SomeNodes DEF QTypes, QueueTypes
      <3> QED
        BY <1>a, <1>b, <2>1, <3>1, <3>3, <3>4
    <2> QED
      BY <2>3, <2>4
  <1>5. \A x \in Int : x + 0 = x
    OBVIOUS
  <1>6. ClusterSize - 1 + 0 = ClusterSize - 1 /\ 2 * (ClusterSize - 1) + 0 = 2 * (ClusterSize - 1)
    BY <1>b
  <1> QED
    BY <1>1, <1>2, <1>3, <1>4, <1>6 DEF Limits

LEMMA LimitsAfter ==
  ASSUME NEW r, AInv(r), NEW n \in Nodes
  PROVE  Limits(n, IF n = r THEN 2 ELSE 0)
  <1>a. /\ IInv /\ QTypes /\ After(r) /\ r \in Nodes
        /\ incoming[n] \in Nat /\ degraded[n] \in Nat /\ recvCQ[n] \in Nat /\ sendCQ[n] \in Nat
    BY AfterFacts DEF AInv, IInv, Types, QTypes, QueueTypes
  <1>b. ClusterSize \in Nat /\ ClusterSize >= 2
    BY SizeAssumption
  <1>c. Uncollected(n) \in Nat /\ sendCQ[n] <= Uncollected(n)
    BY <1>a, UncollectedType DEF QTypes
  <1>1. CASE n = r
    <2>1. Cardinality(OpenEnds(r)) \in Nat
      BY OpenEndsAre, SomeEnds
    <2>2. Cardinality(Unreceived(r)) \in Nat
      BY SomeNodes DEF Unreceived
    <2>3. Cardinality(tested[r]) \in Nat
      BY <1>a, SomeNodes DEF QTypes, QueueTypes
    <2>4. Own(r)
      BY <1>a DEF After
    <2>5. incoming[r] <= ClusterSize + 1
      BY <1>1, <1>a, <1>b, <2>1, <2>4 DEF Own
    <2>6. recvCQ[r] <= ClusterSize /\ degraded[r] <= ClusterSize
      BY <1>1, <1>a, <1>b, <2>2, <2>4 DEF Own
    <2>7. Uncollected(r) <= 2 * ClusterSize
      BY <1>1, <1>b, <1>c, <2>1, <2>3, <2>4 DEF Own
    <2> QED
      BY <1>1, <1>a, <1>b, <1>c, <2>5, <2>6, <2>7 DEF Limits
  <1>2. CASE n # r
    <2>1. OtherRight(r, n)
      BY <1>2, <1>a DEF After, Others
    <2>2. recvCQ[n] <= 1 /\ degraded[n] <= 2 /\ incoming[n] <= ClusterSize - 1
      BY <1>a, <2>1 DEF OtherRight, OtherReceives, OtherDegraded
    <2>3. Uncollected(n) <= ClusterSize
      BY <1>b, <1>c, <2>1 DEF OtherRight, OtherSends
    <2> QED
      BY <1>2, <1>a, <1>b, <1>c, <2>2, <2>3 DEF Limits
  <1> QED
    BY <1>1, <1>2

LEMMA TypeOKHolds == IInv /\ QInv => TypeOK
  <1> SUFFICES ASSUME IInv, QInv PROVE TypeOK
    OBVIOUS
  <1>1. QTypes /\ ProcessRight /\ Types /\ AtHome /\ QueueTypes
    BY DEF IInv, QInv, QTypes
  <1>2. ASSUME NEW n \in Nodes PROVE Limits(n, IF n \in recovering THEN 2 ELSE 0)
    <2>1. CASE recovering = {}
      BY <1>1, <2>1, LimitsBefore DEF BInv, QInv
    <2>2. CASE recovering # {}
      <3>1. PICK r \in recovering : recovering = {r}
        BY <1>1, <2>2 DEF Types
      <3>2. AInv(r)
        BY <1>1, <3>1 DEF AInv, QInv
      <3> QED
        BY <3>1, <3>2, LimitsAfter
    <2> QED
      BY <2>1, <2>2
  <1>3. \A n \in Nodes : /\ incoming[n] <= ClusterSize - 1 + IF n \in recovering THEN 2 ELSE 0
                         /\ sendCQ[n] <= 2 * (ClusterSize - 1) + IF n \in recovering THEN 2 ELSE 0
                         /\ degraded[n] <= ClusterSize /\ recvCQ[n] <= ClusterSize
    BY <1>2 DEF Limits
  <1>4. degraded \in [Nodes -> 0 .. ClusterSize] /\ recvCQ \in [Nodes -> 0 .. ClusterSize]
    <2>1. \A n \in Nodes : degraded[n] \in 0 .. ClusterSize /\ recvCQ[n] \in 0 .. ClusterSize
      <3> TAKE n \in Nodes
      <3>1. degraded[n] \in Nat /\ recvCQ[n] \in Nat
        BY <1>1 DEF QueueTypes
      <3> QED
        BY <1>3, <3>1, SizeAssumption
    <2> QED
      BY <1>1, <2>1 DEF QueueTypes
  <1>5. \A n \in Nodes : events[n] \subseteq [kind: EventKinds, end: {e \in Ends : Here(e) = n}]
    BY <1>1 DEF Types, AtHome
  <1>6. recovering \in {{}} \cup {{n} : n \in Restartable}
    BY <1>1 DEF Types, QueueTypes
  <1> QED
    BY <1>1, <1>3, <1>4, <1>5, <1>6 DEF TypeOK, Types, QueueTypes

LEMMA LagHolds == IInv /\ QInv => SendCQLag
  <1> SUFFICES ASSUME IInv, QInv, NobodyDied, NEW n \in Nodes \ recovering, ctor[n] = "done"
               PROVE  Uncollected(n) - (ClusterSize - 1) \in 0 .. Cardinality(recovering)
    BY DEF SendCQLag
  <1>a. ClusterSize \in Nat /\ ClusterSize >= 2
    BY SizeAssumption
  <1>b. QTypes /\ ProcessRight /\ Types
    BY DEF IInv, QInv, QTypes
  <1>c. Uncollected(n) \in Nat
    BY <1>b, UncollectedType DEF QTypes
  <1>1. CASE recovering = {}
    <2>1. Before /\ n \in Nodes
      BY <1>1 DEF QInv
    <2>2. Sent(n) = Others(n)
      BY <2>1 DEF IInv, ReadyMeansCounted, Sent
    <2>3. tested[n] = Others(n)
      BY <1>b, <2>1 DEF QTypes, TestedRight
    <2>4. Cardinality(Others(n)) = ClusterSize - 1
      BY <2>1, NodesFinite
    <2>5. Owed(n) = 2 * (ClusterSize - 1)
      BY <1>a, <2>2, <2>4 DEF Owed, HasPosted
    <2>6. Uncollected(n) + (ClusterSize - 1) <= 2 * (ClusterSize - 1)
      BY <2>1, <2>3, <2>4, <2>5 DEF Before, SendsBound, SendsAt
    <2>7. 2 * (ClusterSize - 1) <= Uncollected(n) + (ClusterSize - 1)
      BY <2>1, <2>3, <2>4, <2>5 DEF Before, Undisturbed, SentExactly
    <2>8. Cardinality(recovering) = 0
      BY <1>1, FS_EmptySet
    <2> QED
      BY <1>a, <1>c, <2>6, <2>7, <2>8
  <1>2. CASE recovering # {}
    <2>1. PICK r \in recovering : recovering = {r}
      BY <1>b, <1>2 DEF Types
    <2>2. Cardinality(recovering) = 1
      BY <2>1, FS_Singleton
    <2>3. OtherSends(r, n) /\ ctor[r] # "aborted"
      <3>1. r \in Nodes /\ n \in Others(r) /\ After(r)
        <4>1. r \in Nodes
          <5>1. recovering \in {{}} \cup {{m} : m \in Nodes}
            BY <1>b DEF Types
          <5>2. recovering \subseteq Nodes
            BY <5>1
          <5> QED
            BY <2>1, <5>2
        <4>2. After(r)
          BY DEF QInv
        <4>3. n \in Others(r)
          BY <2>1 DEF Others
        <4> QED
          BY <4>1, <4>2, <4>3
      <3> QED
        BY <3>1 DEF After, OtherRight, NobodyDied
    <2>4. Uncollected(n) <= ClusterSize /\ ClusterSize - 1 <= Uncollected(n)
      BY <1>a, <1>c, <2>3 DEF OtherSends
    <2> QED
      BY <1>a, <1>c, <2>2, <2>4
  <1> QED
    BY <1>1, <1>2

\* As many receives have completed as peers have been counted, which are all.
LEMMA BeforeAllIn ==
  ASSUME IInv, QInv, NobodyDied, recovering = {}, NEW n \in Nodes,
         ctor[n] \in {"post", "poll", "done"}
  PROVE  /\ recvCQ[n] = 0
         /\ \A p \in Others(n) : peerEnd[n][p] # NoEnd /\ recv[peerEnd[n][p]] = "filled"
  <1>1. Undisturbed /\ Downwards
    BY DEF QInv, Before
  <1>2. \A p \in Others(n) : Counted(n, p)
    BY DEF IInv, ReadyMeansCounted
  <1>3. incoming[n] = ClusterSize - 1
    <2>1. n \notin CountedPeers(n) /\ incoming[n] = Cardinality(CountedPeers(n))
      BY DEF IInv, CountRight
    <2>2. CountedPeers(n) = Others(n)
      BY <1>2, <2>1 DEF CountedPeers, Others
    <2> QED
      BY <2>1, <2>2, NodesFinite
  <1>4. /\ IsFiniteSet(Others(n)) /\ Cardinality(Others(n)) = ClusterSize - 1
        /\ ClusterSize \in Nat
    BY NodesFinite, SizeAssumption
  <1>5. /\ Filled(n) \in SUBSET Others(n) /\ Cardinality(Filled(n)) <= ClusterSize - 1
        /\ Cardinality(Filled(n)) = ClusterSize - 1 => Filled(n) = Others(n)
    <2>1. Filled(n) \in SUBSET Others(n)
      BY DEF Filled
    <2> QED
      BY <1>4, <2>1, FS_Subset
  <1>6. recvCQ[n] = 0 /\ Cardinality(Filled(n)) = ClusterSize - 1
    <2>1. recvCQ[n] + incoming[n] = Cardinality(Filled(n))
      BY <1>1 DEF Undisturbed, ReceivedExactly
    <2>2. recvCQ[n] \in Nat
      BY DEF QInv, QueueTypes
    <2> QED
      BY <1>3, <1>4, <1>5, <2>1, <2>2
  <1>7. ASSUME NEW p \in Others(n)
        PROVE  peerEnd[n][p] # NoEnd /\ recv[peerEnd[n][p]] = "filled"
    <2>1. p \in Nodes /\ p # n /\ p \in Sent(n)
      BY <1>2 DEF Others, Sent
    <2>2. p < n \/ n < p
      BY <2>1 DEF Nodes
    <2>3. peerEnd[n][p] # NoEnd
      BY <1>1, <2>1, <2>2 DEF Undisturbed, InUse
    <2>4. peerEnd[n][p] = EndAt(n, p)
      BY <1>1, <2>1, <2>3 DEF Downwards
    <2>5. recv[EndAt(n, p)] = "filled"
      BY <1>5, <1>6 DEF Filled
    <2> QED
      BY <2>3, <2>4, <2>5
  <1> QED
    BY <1>6, <1>7

LEMMA AllInHolds == IInv /\ QInv => ReceivesAllIn
  <1> SUFFICES ASSUME IInv, QInv, NobodyDied, NEW n \in Nodes \ recovering,
                      ctor[n] \in {"post", "poll", "done"}
               PROVE  /\ recvCQ[n] <= Cardinality(recovering)
                      /\ recovering = {} => \A p \in Others(n) :
                           peerEnd[n][p] # NoEnd /\ recv[peerEnd[n][p]] = "filled"
    BY DEF ReceivesAllIn
  <1>1. CASE recovering = {}
    <2>1. Cardinality(recovering) = 0
      BY <1>1, FS_EmptySet
    <2> QED
      BY <1>1, <2>1, BeforeAllIn
  <1>2. CASE recovering # {}
    <2>1. recovering \in {{}} \cup {{m} : m \in Nodes}
      BY DEF IInv, Types
    <2>2. PICK r \in Nodes : recovering = {r}
      BY <1>2, <2>1
    <2>3. Cardinality(recovering) = 1
      BY <2>2, FS_Singleton
    <2>4. OtherReceives(r, n)
      <3>1. After(r) /\ n \in Others(r)
        BY <2>2 DEF QInv, Others
      <3> QED
        BY <3>1 DEF After, OtherRight
    <2>5. recvCQ[n] <= 1
      <3>1. recvCQ[n] \in Nat
        BY DEF QInv, QueueTypes
      <3> QED
        BY <2>4, <3>1 DEF OtherReceives
    <2> QED
      BY <1>2, <2>3, <2>5
  <1> QED
    BY <1>1, <1>2

-----------------------------------------------------------------------------
(* The theorems.                                                           *)

\* For any number of nodes, started in any order, any of which may end and one
\* come back: the constructor goes on only with all peers connected, except for
\* those that have ended since, although it only counts (rdma.cpp:77-84,
\* 264-272).
THEOREM ConstructorWaitsForAll == Spec => []ReadyMeansConnected
  <1>1. IInv => ReadyMeansConnected
    BY DEF IInv, ReadyMeansCounted, CountedMeansConnected, ReadyMeansConnected, Gone, Others
  <1> QED
    BY <1>1, Inductive, PTL

\* For the same: nodes that were up never take a restarted node back
\* (rdma.cpp:240-245).
THEOREM NeverTakenBack == Spec => []RestartedStaysDead
  <1>1. IInv => RestartedStaysDead
    BY DEF IInv
  <1> QED
    BY <1>1, Inductive, PTL

\* Types and bounds of the connection state for any number of nodes: a node
\* counts each peer once, loses each once, and has no more completions to poll
\* for than the MRs and test writes it has posted, two more when it comes back
\* and connects to itself (rdma.cpp:61-73, 99-106, 238, 247-272, 322-331).
THEOREM TypesOfAll == Spec => []TypeOK
  <1>1. IInv /\ QInv => TypeOK
    BY TypeOKHolds
  <1> QED
    BY <1>1, QInductive, PTL

\* When RDMASocket is ready on a node, exactly one completion for each peer is
\* left over in its send CQ or on the way there, and one more if a node has
\* come back and been sent its MR again: nobody polls for the completions of the
\* MR messages, so the data path finds them (rdma.cpp:99-106, 238, 325).
THEOREM LagRight == Spec => []SendCQLag
  <1>1. IInv /\ QInv => SendCQLag
    BY LagHolds
  <1> QED
    BY <1>1, QInductive, PTL

\* For the same: although a poll takes whichever receive completes first, a
\* constructor that goes on finds the MR of every peer arrived and none of its
\* receive completions left over (rdma.cpp:79-84, 247-272).
THEOREM AllMessagesIn == Spec => []ReceivesAllIn
  <1>1. IInv /\ QInv => ReceivesAllIn
    BY AllInHolds
  <1> QED
    BY <1>1, QInductive, PTL

=============================================================================
