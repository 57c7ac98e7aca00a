-------------------------------- MODULE ECAL --------------------------------
(***************************************************************************)
(* The erasure coding layer (ecal.cpp, include/ecal.hpp).  A page is cut   *)
(* into K data shards, P parity shards are computed from them, and shard j *)
(* of a page lives in the memory of node j.  A client writes the shards    *)
(* one after the other, skipping peers that are not alive, and reads the   *)
(* first K shards whose peers are.                                         *)
(*                                                                         *)
(* The bytes are abstract.  Half s of a page a client writes is <<v, s>>,  *)
(* v telling the write; a parity shard is the page it encodes; Junk is     *)
(* bytes no client wrote, whichever they are.  Decoding K shards of one    *)
(* page gives that page, and a shard recovered from shards of different    *)
(* pages is Junk.                                                          *)
(*                                                                         *)
(* A remote access (getRegion, post, poll) is one step here, as it would   *)
(* be if a poll returned the completion of its own request; after start-up *)
(* it does not, which is what module RDMATransfer is about.  A fetched     *)
(* shard stays in its region until the end of the read and is lost with    *)
(* it.  The memory is persistent (a mapped device, config.cpp), so it      *)
(* survives a crash of its node.                                           *)
(***************************************************************************)
EXTENDS Integers, FiniteSets, FiniteSetsExt

CONSTANTS K, P,             \* data and parity shards of a page
          ClusterSize,      \* getClusterSize()
          Clients,          \* nodes that call readBlock and writeBlock
          Rows,             \* shards in a node's memory: allocTable
          Pages,            \* page numbers the clients use
          Values,           \* what tells one write from another
          Junk,             \* bytes no client wrote
          None,             \* no result yet
          MaxCrashes,       \* bound on the crashes of a run
          Restarts          \* nodes that start again, with RECOVER, after a crash

N      == K + P
Nodes  == 0 .. (ClusterSize - 1)
Slots  == 0 .. (K - 1)
Shards == 0 .. (N - 1)

ASSUME CodeAssumption   == K \in Nat \ {0} /\ P \in Nat /\ Rows \in Nat \ {0}
ASSUME SizeAssumption   == ClusterSize \in Nat \ {0} /\ ClusterSize % N = 0
ASSUME NodeAssumption   == Clients \subseteq Nodes /\ Restarts \subseteq Nodes
ASSUME BoundAssumption  == MaxCrashes \in Nat

Page(v)  == [s \in Slots |-> <<v, s>>]
JunkPage == [s \in Slots |-> Junk]
PageData == [Slots -> Values \X Slots \cup {Junk}]

\* getClusterCapacity() and getDataPos().row; startNodeId is always 0.
Capacity == (ClusterSize \div N) * Rows
Indices  == 0 .. (Capacity - 1)
Row(i)   == i \div (ClusterSize \div N)

ASSUME PageAssumption == Pages \subseteq Indices

\* ec_encode_data: a parity shard is a function of the whole page.
Shard(d, j) == IF j \in Slots THEN d[j] ELSE d

\* The page that the shards val of the K peers S decode to: the parity
\* shards recover the missing halves if they all encode one page, whose
\* halves the data shards are.
Decode(S, val) ==
    LET consistent == \E d \in {val[q] : q \in S \ Slots} \ {Junk} :
                          \A j \in S : val[j] = Shard(d, j)
        parity == CHOOSE d \in {val[q] : q \in S \ Slots} : TRUE
    IN [s \in Slots |-> IF s \in S THEN val[s] ELSE IF consistent THEN parity[s] ELSE Junk]

VARIABLES mem,        \* memory of each shard node: row -> shard
          up,         \* nodes whose process runs
          linked,     \* pairs <<c, p>>: client c's queue pair to p works
          connected,  \* pairs <<c, p>>: client c's peers[p].connected
          pending,    \* pairs <<n, p>>: n's test write to p is in flight
          crashes,    \* crashes so far
          pc,         \* what each client does: idle, scan, fetch, write, post
          index,      \* the page it works on
          cur,        \* the loop variable over peers
          chosen,     \* decodeIndex: peers whose shards a read will use
          got,        \* recoverSrc: the shards fetched
          page,       \* the page a write stores
          before,     \* (history) what the page held before the write
          blind,      \* (history) a read used a peer that was gone
          result      \* what the last readBlock returned

nodeVars == <<up, linked, connected, pending, crashes>>
readVars == <<chosen, got, blind, result>>
vars == <<mem, nodeVars, pc, index, cur, readVars, page, before>>

\* isPeerAlive
PeerAlive(c, j) == c = j \/ <<c, j>> \in connected

\* The shard nodes a client can really reach, and the page they hold.
Reach(c) == {j \in Shards : c = j \/ <<c, j>> \in linked \cap connected}
Column(i) == [j \in Shards |-> mem[j][Row(i)]]
Contents(c, i) ==
    IF Cardinality(Reach(c)) < K THEN JunkPage
    ELSE Decode(CHOOSE S \in kSubset(K, Reach(c)) :
                    \A j \in S, i2 \in Reach(c) \ S : j < i2, Column(i))

\* Rows of the 4096 bytes at offset 0: RDMASocket's test write covers them.
TestRows == {r \in 0 .. (Rows - 1) : r < K}
PairsOf(M) == {pair \in M \X Nodes : pair[1] # pair[2]}

Init ==
    /\ \E v \in Values : mem = [j \in Shards |-> [r \in 0 .. (Rows - 1) |->
          IF r \in TestRows THEN Junk ELSE Shard(Page(v), j)]]
    /\ up = Nodes
    /\ linked = PairsOf(Clients)
    /\ connected = PairsOf(Clients)
    /\ pending = {}
    /\ crashes = 0
    /\ pc     = [c \in Clients |-> "idle"]
    /\ index  = [c \in Clients |-> 0]
    /\ cur    = [c \in Clients |-> 0]
    /\ chosen = [c \in Clients |-> {}]
    /\ got    = [c \in Clients |-> [j \in {} |-> Junk]]
    /\ page   = [c \in Clients |-> JunkPage]
    /\ before = [c \in Clients |-> JunkPage]
    /\ blind  = [c \in Clients |-> FALSE]
    /\ result = [c \in Clients |-> None]

-----------------------------------------------------------------------------
(* Failures.                                                               *)

\* The process of n is gone.  Its peers' queue pairs to it break at once;
\* onDisconnected runs some time later, if ever.
Down(n) ==
    /\ up' = up \ {n}
    /\ linked' = linked \ (Nodes \X {n})
    /\ pending' = {pair \in pending : n \notin {pair[1], pair[2]}}
    /\ UNCHANGED connected

Crash(n) ==
    /\ n \in up /\ crashes < MaxCrashes
    /\ Down(n)
    /\ crashes' = crashes + 1
    /\ UNCHANGED <<mem, pc, index, cur, readVars, page, before>>

\* onDisconnected.  The connection's regions are freed, whatever lies in them.
Detect(c, p) ==
    /\ c \in up
    /\ <<c, p>> \in connected \ linked
    /\ connected' = connected \ {<<c, p>>}
    /\ UNCHANGED <<mem, up, linked, pending, crashes, pc, index, cur, readVars, page, before>>

\* A crashed node starts again with RECOVER while all others run: it connects
\* to them and sends each its test write.  Their peers[n].connected stays
\* false (RDMAConnect shows it) and no data is recovered.
Restart(n) ==
    /\ n \in Restarts \ up
    /\ Nodes \ {n} \subseteq up
    /\ Nodes \X {n} \cap connected = {}
    /\ up' = Nodes
    /\ linked' = linked \cup PairsOf({n} \cap Clients)
    /\ connected' = connected \cup PairsOf({n} \cap Clients)
    /\ pending' = pending \cup {pair \in PairsOf({n}) : pair[2] \in Shards}
    /\ pc' = [c \in Clients |-> IF c = n THEN "idle" ELSE pc[c]]
    /\ UNCHANGED <<mem, crashes, index, cur, readVars, page, before>>

\* 4096 bytes of 'A' arrive at the beginning of p's memory.
TestWrite(n, p) ==
    /\ <<n, p>> \in pending
    /\ pending' = pending \ {<<n, p>>}
    /\ mem' = [mem EXCEPT ![p] = [r \in DOMAIN @ |-> IF r \in TestRows THEN Junk ELSE @[r]]]
    /\ UNCHANGED <<up, linked, connected, crashes, pc, index, cur, readVars, page, before>>

\* The client uses a connection that onDisconnected has torn down: its cmId
\* is null, its regions are gone.
Die(c) ==
    /\ Down(c)
    /\ UNCHANGED <<mem, crashes, pc, index, cur, readVars, page, before>>

-----------------------------------------------------------------------------
(* readBlock.                                                              *)

BeginRead(c, i) ==
    /\ c \in up /\ pc[c] = "idle"
    /\ pc'     = [pc EXCEPT ![c] = "scan"]
    /\ index'  = [index EXCEPT ![c] = i]
    /\ cur'    = [cur EXCEPT ![c] = 0]
    /\ chosen' = [chosen EXCEPT ![c] = {}]
    /\ got'    = [got EXCEPT ![c] = [j \in {} |-> Junk]]
    /\ blind'  = [blind EXCEPT ![c] = FALSE]
    /\ UNCHANGED <<mem, nodeVars, page, before, result>>

\* One turn of the loop that chooses K peers that are alive.
ScanUpTo(c, last) ==
    /\ c \in up /\ pc[c] = "scan"
    /\ Cardinality(chosen[c]) < K /\ cur[c] <= last
    /\ LET now == chosen[c] \cup ({cur[c]} \cap {j \in Nat : PeerAlive(c, j)}) IN
         /\ chosen' = [chosen EXCEPT ![c] = now]
         /\ pc' = [pc EXCEPT ![c] = IF Cardinality(now) = K THEN "fetch" ELSE "scan"]
    /\ cur' = [cur EXCEPT ![c] = @ + 1]
    /\ UNCHANGED <<mem, nodeVars, index, got, blind, page, before, result>>

Scan(c) == ScanUpTo(c, N - 1)

Return(c, d, sound) ==
    /\ result' = [result EXCEPT ![c] = [index |-> index[c], page |-> d, sound |-> sound]]
    /\ pc' = [pc EXCEPT ![c] = "idle"]
    /\ got' = [got EXCEPT ![c] = [j \in {} |-> Junk]]
    /\ chosen' = [chosen EXCEPT ![c] = {}]
    /\ UNCHANGED <<mem, nodeVars, index, cur, blind, page, before>>

\* Fewer than K peers are alive: the rest of decodeIndex was never assigned.
ScanShort(c) ==
    /\ c \in up /\ pc[c] = "scan"
    /\ Cardinality(chosen[c]) < K /\ cur[c] = N
    /\ Die(c) \/ Return(c, JunkPage, FALSE)

\* The next peer to read from.
NextPeer(c) == Min(chosen[c] \ DOMAIN got[c])

\* Read one shard: a remote region is filled if the queue pair works; if it
\* does not, the failed completion is taken for a good one.  The client's own
\* shard is not copied, a pointer to it is kept.
Fetch(c) ==
    /\ c \in up /\ pc[c] = "fetch" /\ chosen[c] # DOMAIN got[c]
    /\ LET j == NextPeer(c)
           gone == c # j /\ <<c, j>> \notin linked
           v == IF gone THEN Junk ELSE mem[j][Row(index[c])]
       IN /\ PeerAlive(c, j)
          /\ <<c, j>> \notin pending
          /\ got' = [got EXCEPT ![c] = [k \in DOMAIN @ \cup {j} |-> IF k = j THEN v ELSE @[k]]]
          /\ blind' = [blind EXCEPT ![c] = @ \/ gone]
    /\ UNCHANGED <<mem, nodeVars, pc, index, cur, chosen, page, before, result>>

\* The peer was alive when it was chosen and is not any more.
FetchDead(c) ==
    /\ c \in up /\ pc[c] = "fetch" /\ chosen[c] # DOMAIN got[c]
    /\ ~PeerAlive(c, NextPeer(c))
    /\ Die(c)

\* The page that the shards a read has fetched make up.
Assembled(c) ==
    Decode(chosen[c], [j \in chosen[c] |-> IF j = c THEN mem[j][Row(index[c])] ELSE got[c][j]])

\* recoverSrc points into the read regions of the connections; these are the
\* peers whose regions onDisconnected has freed since the shard was fetched.
Freed(c) == {j \in DOMAIN got[c] : ~PeerAlive(c, j)}

\* Copy the intact halves, decode the missing ones, return.
EndRead(c) ==
    /\ c \in up /\ pc[c] = "fetch" /\ chosen[c] = DOMAIN got[c]
    /\ Freed(c) = {}
    /\ Return(c, Assembled(c), ~blind[c])

\* The same with a freed region among the sources, at the latest when it is
\* copied or decoded: the client dies of the access (128 KB, which delete[] may
\* give back to the system), or finds there what it will.  The copy of a freed
\* half may differ, and so may each half recovered with a freed shard.
EndReadFreed(c) ==
    /\ c \in up /\ pc[c] = "fetch" /\ chosen[c] = DOMAIN got[c]
    /\ Freed(c) # {}
    /\ \/ Die(c)
       \/ \E bad \in SUBSET ((Slots \ chosen[c]) \cup (Slots \cap Freed(c))) :
             Return(c, [s \in Slots |-> IF s \in bad THEN Junk ELSE Assembled(c)[s]], FALSE)

-----------------------------------------------------------------------------
(* writeBlock.                                                             *)

BeginWrite(c, i, v) ==
    /\ c \in up /\ pc[c] = "idle"
    /\ pc'     = [pc EXCEPT ![c] = "write"]
    /\ index'  = [index EXCEPT ![c] = i]
    /\ cur'    = [cur EXCEPT ![c] = 0]
    /\ page'   = [page EXCEPT ![c] = Page(v)]
    /\ before' = [before EXCEPT ![c] = Contents(c, i)]
    /\ UNCHANGED <<mem, nodeVars, readVars>>

\* The loop goes on with the next shard, or the call returns.
NextShard(c, last) ==
    /\ cur' = [cur EXCEPT ![c] = @ + 1]
    /\ pc'  = [pc EXCEPT ![c] = IF cur[c] = last THEN "idle" ELSE "write"]

Store(c) == mem' = [mem EXCEPT ![cur[c]][Row(index[c])] = Shard(page[c], cur[c])]

\* The client's own shard is copied in place.
WriteOwnUpTo(c, last) ==
    /\ c \in up /\ pc[c] = "write" /\ cur[c] = c
    /\ Store(c) /\ NextShard(c, last)
    /\ UNCHANGED <<nodeVars, index, readVars, page, before>>

WriteOwnTooFar(c) == WriteOwnUpTo(c, N)   \* a slip: i <= N
WriteOwn(c) == WriteOwnUpTo(c, N - 1)

\* A slip: a dead peer ends the loop.
WriteSkipAll(c) ==
    /\ c \in up /\ pc[c] = "write" /\ ~PeerAlive(c, cur[c])
    /\ NextShard(c, cur[c])
    /\ UNCHANGED <<mem, nodeVars, index, readVars, page, before>>

\* A peer that is not alive is left out.
WriteSkip(c) ==
    /\ c \in up /\ pc[c] = "write" /\ ~PeerAlive(c, cur[c])
    /\ NextShard(c, N - 1)
    /\ UNCHANGED <<mem, nodeVars, index, readVars, page, before>>

\* isPeerAlive said yes; the write is still to be posted.
WriteAlive(c) ==
    /\ c \in up /\ pc[c] = "write" /\ cur[c] # c /\ PeerAlive(c, cur[c])
    /\ pc' = [pc EXCEPT ![c] = "post"]
    /\ UNCHANGED <<mem, nodeVars, index, cur, readVars, page, before>>

\* The shard is stored if the queue pair works.  If not, it is lost: the
\* status of the completion is not looked at.
WritePostUpTo(c, last) ==
    /\ c \in up /\ pc[c] = "post" /\ PeerAlive(c, cur[c])
    /\ <<c, cur[c]>> \notin pending
    /\ IF <<c, cur[c]>> \in linked THEN Store(c) ELSE UNCHANGED mem
    /\ NextShard(c, last)
    /\ UNCHANGED <<nodeVars, index, readVars, page, before>>

WritePostDataOnly(c) == WritePostUpTo(c, K - 1)   \* a slip: i < K
WritePost(c) == WritePostUpTo(c, N - 1)

\* The peer disconnected between isPeerAlive and the post.
WriteDead(c) ==
    /\ c \in up /\ pc[c] = "post" /\ ~PeerAlive(c, cur[c])
    /\ Die(c)

ReadStep(c) == \/ \E i \in Pages : BeginRead(c, i)
               \/ Scan(c) \/ ScanShort(c) \/ Fetch(c) \/ FetchDead(c)
               \/ EndRead(c) \/ EndReadFreed(c)
WriteStep(c) == \/ \E i \in Pages, v \in Values : BeginWrite(c, i, v)
                \/ WriteOwn(c) \/ WriteSkip(c) \/ WriteAlive(c) \/ WritePost(c) \/ WriteDead(c)

Next == \/ \E c \in Clients : ReadStep(c) \/ WriteStep(c) \/ \E p \in Nodes : Detect(c, p)
        \/ \E n \in Nodes : Crash(n) \/ Restart(n)
        \/ \E n, p \in Nodes : TestWrite(n, p)

Spec == Init /\ [][Next]_vars

-----------------------------------------------------------------------------
(* Correctness.                                                            *)

Writing(c) == pc[c] \in {"write", "post"}

\* Shards, decodeIndex and loop variables stay in range: in particular a read
\* goes on only with K peers of the stripe.
TypeOK ==
    /\ mem \in [Shards -> [0 .. (Rows - 1) -> Values \X Slots \cup PageData \cup {Junk}]]
    /\ up \subseteq Nodes
    /\ linked \cup connected \subseteq PairsOf(Clients) /\ pending \subseteq PairsOf(Nodes)
    /\ crashes \in 0 .. MaxCrashes
    /\ \A c \in Clients :
        /\ pc[c] \in {"idle", "scan", "fetch", "write", "post"}
        /\ index[c] \in Indices
        /\ cur[c] \in 0 .. N
        /\ chosen[c] \subseteq Shards
        /\ pc[c] = "fetch" => Cardinality(chosen[c]) = K
        /\ Writing(c) => cur[c] \in Shards
        /\ DOMAIN got[c] \subseteq chosen[c]

\* The redundancy is intact whenever a client is between calls: any K of the
\* shards it can reach decode to the same page, so that the next crash loses
\* nothing (writeBlock updates every shard that can be reached, also when a
\* peer died half way, and one that missed an update is not used again).
StripesAgree ==
    \A c \in Clients \cap up, i \in Pages :
        pc[c] \notin {"write", "post"} =>
            \A S \in kSubset(K, Reach(c)) : Decode(S, Column(i)) = Contents(c, i)

\* With one client, ECAL implements PageStore: each page is a register, every
\* readBlock returns what the last writeBlock stored, whole, unless it used a
\* peer that was gone or lost one whose shard it had fetched and not yet copied
\* or decoded, and the crash of P nodes at any moment changes no page.  (Each
\* poll is taken to return the completion of its own request.)
TheClient == CHOOSE c \in Clients : TRUE
FailedBar == Cardinality(Shards \ Reach(TheClient))
PagesBar == [i \in Pages |->
    IF FailedBar <= P /\ Writing(TheClient) /\ index[TheClient] = i
    THEN before[TheClient] ELSE Contents(TheClient, i)]
RequestBar ==
    IF Writing(TheClient) THEN [index |-> index[TheClient], page |-> page[TheClient]] ELSE None

Store1 == INSTANCE PageStore WITH Indices <- Pages, Lost <- JunkPage, pages <- PagesBar,
              failed <- FailedBar, request <- RequestBar, result <- result[TheClient]
StoreSpec == Store1!Spec
=============================================================================
