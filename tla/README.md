# A TLA+ development of Galois

Galois is a distributed file system on persistent memory: LocoFS's split of
metadata into a directory server and a file server, on top of an erasure coded
page store whose shards are moved by one-sided RDMA. This directory holds TLA+
modules translated from its source, the TLC runs that check them on small
instances, and TLAPS proofs of what matters most for every size.

Paths below are relative to the repository.

## 1. Inventory

| part | source | state | operations | interacts with |
|---|---|---|---|---|
| region allocator | `include/bitmap.hpp`, `include/network/rdma.hpp:92-119` | one atomic word per peer and direction | `allocBit`, `freeBit`, `get{Read,Write}Region`, `free{Read,Write}Region` | called by every thread that moves a shard |
| RDMASocket, set-up | `src/network/rdma.cpp` | peers' connections, counters, write log, shared CQs | constructor, listener thread and its event handlers | its counterparts on the other nodes, through the connection manager; constructor and listener through a mutex and a condition variable |
| RDMASocket, data path | `src/network/rdma.cpp:481-593` | posted requests, send CQ | `postWrite`, `postRead`, `pollSendCompletion` | ECAL above, the adapter below |
| ECAL | `src/ecal.cpp`, `include/ecal.hpp` | shards in each node's persistent memory | `readBlock`, `writeBlock` | RDMASocket (`isPeerAlive`, regions, posts, polls) |
| directory metadata server | `src/fs/DMStore.cpp`, `DMServer.cpp`, `EntryList.cpp` | (parent uuid, name) -> uuid, uuid -> inode and list of names | mkdir, rmdir, stat, access, readdir | RPCs from clients, one at a time |
| file metadata server | `src/fs/FMStore.cpp`, `FMServer.cpp` | (directory uuid, name) -> file inode | create, remove, csize, stat, access, open, readdir | RPCs from clients, one at a time |
| client | `src/fs/LocofsClient.cpp` | cache of directory uuids | open, create, read, write, mkdir, rmdir, stat, ... | both servers by RPC, ECAL for data |
| client cache | `include/fs/lru_cache.h` | map and list under a lock, expiry thread | get, set, remove, expire | client threads |
| RPC layer | `src/network/netif.cpp`, `include/network/netif.hpp`, below them `third_party/eRPC` | a session per server, buffers and a completion flag per slot; in eRPC request numbers and the last response of each session | constructors, `startServer`, `stopServer`, `rpcCall`, handlers; in eRPC connecting, retransmission, dropping of what came before | the main programs of the servers, the client library, the network |
| not part of a build target | `src/network/rpc.cpp`, `src/fs/DataServer.cpp`, `src/test/*.cpp`, `include/ec/*.hpp` | | | |

What makes the system hard to test:

* threads that race on the allocator's word, where an exchange may fail
  spuriously;
* connection events of several peers in any order, against a constructor that
  sleeps on a condition variable, with one receive CQ and one send CQ shared by
  all connections;
* completions that do not say whose they are;
* crashes between the shard writes of one page, disconnections handled late,
  peers that die between the test that they are alive and the use of that
  answer, nodes that come back;
* several clients over the metadata servers and one page store, without locks,
  each with a cache of uuids that nobody invalidates, and each writing whole
  pages and a size computed from what it read earlier;
* remote calls over datagrams that are lost, repeated and reordered, to handlers
  that are not idempotent, with one completion flag for one call after another;
* servers that are not ready yet when a client connects, or gone when it calls;
* directories removed although they are not empty, and made again.

The hazards, each at its line with the properties that cover it, are listed in
`PROJECT.json`.

## 2. Modules

| module | models | refines |
|---|---|---|
| `RegionPool` | what an allocator of regions promises: each region has at most one owner | |
| `Bitmap` | `allocBit`/`freeBit` and the retry loop of `getRegion` | `RegionPool` |
| `RDMAConnect` | start-up of RDMASocket on every node of a cluster; the end of a node and its start with RECOVER | |
| `RDMATransfer` | the threads of one node that move shards, and the send CQ they share | |
| `PageStore` | what ECAL promises one client: pages that are registers and survive P failures | |
| `ECAL` | `readBlock`, `writeBlock`, crashes, late detection, restarts | `PageStore` |
| `EntryList` | the lists of names both metadata servers keep, as operators | |
| `DMStore` | the directory metadata server: keys, inodes, lists | |
| `FMStore` | the file metadata server: inodes and lists | |
| `FileTree` | what the two promise together: a tree addressed by paths | |
| `Locofs` | several clients of both servers, remote call by remote call, with their caches | `FileTree` |
| `FileData`, `MCFileData` | the bytes of files: ranges cut into blocks, blocks placed on pages; several clients that may end at any point | |
| `RemoteCall` | what `rpcCall` promises: one run of the handler between call and return | |
| `NetIf` | start and stop of the servers, sessions, `rpcCall`, and eRPC's retransmission over a bad network | `RemoteCall` |
| `BitmapProofs`, `RDMAConnectProofs`, `RDMATransferProofs`, `ECALProofs`, `EntryListProofs`, `LocofsProofs`, `FileDataProofs`, `NetIfProofs` | theorems and proofs | |

The modules are layers. `RDMATransfer` takes a region in one step because
`Bitmap` implements `RegionPool`. `ECAL` makes a remote access one step, which
assumes that each poll returns the completion of its own request: `RDMATransfer`
says how far that is from the truth, `RDMAConnect` how many completions are stale
when start-up is over. There always are some with a peer, so what is checked and
proved of `ECAL` is what the protocol would do if start-up polled for its own
completions.
`RestartedStaysDead` of `RDMAConnect` is what `ECAL`'s `Restart` builds in: the
survivors never use a node that came back. `FileData` takes pages as the
registers of `PageStore` while accesses to one do not overlap, and as anything
while they do; `Locofs` leaves the pages out. `DMStore` and `FMStore` hold the
handlers, and `Locofs` and `FileData` say who calls them. Both make a remote call
one step, which is what `RemoteCall` says and `NetIf` implements.

### Bitmap
The word is the set of its 1 bits. Each load and each compare-exchange is a
step; `origin` is the local copy; `AllocRetry` and `FreeRetry` are exchanges
that fail, also spuriously (`compare_exchange_weak`). `AllocFull` is the -1
that makes `getRegion` yield. Lowest bit first, as `origin & -origin` and the
project's own zero-based `ffs` have it.

### RDMAConnect
One constructor and one listener per node. The constructor's `check`, `sleep`
and `wait` are the loop over `ssmCondVar.wait`; from `post` on it holds the
mutex until it returns. The listener handles one event at a time; the blocking
`pollRecvCompletion` inside `onConnectionEstablished` is a location of its own
(`poll`), and so is the wait for the mutex before `notify_one` (`notify`).
External are the connection manager (events of different connections in any
order), the receive and send CQs, which are counters because neither caller
looks at whose completion it gets, and the adapter. A region no message has
reached holds what `new` left there: the handler exits, or takes it for an MR.
A node in `Restartable` may end once it is up (`Crash`) and start again with
RECOVER (`Recover`). It then connects to every id, its own included, although
the comment says "all nodes" and means its peers: its listener takes the passive
end of that connection for the active one it has just made, and may then poll
for an MR that never comes (`WaitsForItself`). A constructor may wake up
unnotified once, in the starts that `Spurious` names.
Not modelled: the destructor, `stopListenerAndJoin`, logging, address parsing.
`writeLog` keeps only whether there is room in it; nothing posts a write with
immediate data, so nothing ever appends to it.

### RDMATransfer
A call visits the peers in increasing order; a write frees each region at once,
a read keeps its regions until all shards are there. `wire` is what has been
posted and not executed: in order for one connection, in any order across
connections. `cq` counts completions. `StaleCQEs` is what start-up left over.

### ECAL
A write is a value `v`; half `s` of its page is `<<v, s>>`, so that a page with
its halves swapped or mixed is a different page. A parity shard is the page it
encodes: decoding K shards of one page gives it back, decoding shards of
different pages gives `Junk` in the recovered halves. `Junk` stands for any
bytes no client wrote, so two reads of a page never written may differ in the
code where the model does not tell them apart. `chosen` is `decodeIndex`, `got`
is `recoverSrc`; a client's own shard is not copied before it is decoded.
`isPeerAlive` and the post that follows are two steps; a peer in between may
crash (`Crash`), its disconnection be handled (`Detect`, after which using it
kills the client: `cmId` is null), or not be handled yet (the access fails, the
completion's status is not looked at, and a read goes on with an unfilled
region). A fetched shard is not copied either until the end of the read: until
then `recoverSrc` points into the connection's read region, which
`destroyConnection` frees when the listener handles a disconnection. `Freed` are
the fetched peers this has happened to. With one of them, `EndReadFreed` takes
the place of `EndRead`: the client dies of the access, or the halves copied or
recovered from freed memory are what was read or `Junk`, each on its own, since
the region may go before the copy, between copy and decode, or in the middle of
either. No flag is needed for it, since a connection once lost is not made again.
`before` and `blind` are history. A result is marked `sound` unless one of the two
happened, which the caller cannot see. Memory survives a crash (a mapped
device). `Restart` adds the restarted node's test writes, 4096 bytes at offset
0 of every shard node. The recovery in `ecal.cpp:54-172` is under `#if 0`.

### EntryList, DMStore, FMStore
Each handler is one operator: the servers run one at a time from eRPC's event
loop, so their mutexes decide nothing. A key "uuid:name" is a pair. Of an inode
only what other steps look at is kept: nothing for a directory, `suuid` and
`size` for a file; a file's access and content inode are stored and removed
together and are one record. `remove_entry` keeps what `std::remove` and `erase` with
a single iterator leave behind: the other names in front, in their order
(`OtherPlaces`, `Nth`), then copies of the name and moved-from strings less one
element, so that of a name that is listed twice one copy goes.
The constructor's `mkdir("/")` uses up uuid 1, while lookups of "/" answer 0,
which has no inode: no file can be made in "/", and its stat fails.
`chown`, `chmod`, `rename`, `opendir`, `utimens` have no RPC.

### FileTree and Locofs
A call of a client is a sequence of remote calls; what happens at the server
and what the client does with the answer is one step, because the request and
the answer are the client's alone. `Begin` is `_get_file_key`, with the cache;
`Access` and `Create` are the two halves of `open`; `Stat` and `Csize` those of
a `write`. `Kept` is the choice `lru_remove` makes, left open because it
depends on seconds. `dirs` of `FileTree` are the paths whose key can be
followed, `files` the files in them; what a removed directory leaves behind has
no path and so is not in the tree, even while a stale uuid still reaches it.
Directories and files may have the same names: their keys are at different
servers, so the files below a removed directory go and one that only has its path
stays.

### FileData
`offset`, `block_num`, `block_off`, `block_len` and `blkno` are the variables of
the loops in `write` and `read`. `hashObj` is a parameter; `NoCollision` assumes
that it keeps the blocks in use apart, which the code does not ensure. `index`
is `page.index`, which only `readBlock` sets: for a part of a block (`FillPart`)
it is `blkno`, but for a whole block (`FillFull`) it is what it was, and that is
where `writeBlock` goes.

Each client has one thread, and its steps are those at which another client, or
its own end, makes a difference: `BeginWrite` and `BeginRead` ask for suuid and
size, each block of a write is a fill and a store, `EndWrite` sends the new size,
computed from the size it was told at the beginning. The store has a beginning
and an end (`BeginStore`, `EndStore`) because the shards of a page are written
one by one: in between the page is `Junk`, and it stays `Junk` when two store it
at once ("spoilt") or when the client ends there (`Crash`). `EndWrite` may find
another file under the name, or none.

History says what the code does not lose. `expected` holds, for a byte of a
file, what a read of it may find: the last complete write's byte, together with
those of writes not complete; empty is anything. `contested` are the blocks of a
call that another call has used at the same time with one of them writing,
`blurred` the files whose size two writes, or a write to a file before it, have
computed, `misplaced` that a whole block has been written.

### RemoteCall and NetIf
`RemoteCall` has three steps: `Ask`, `Run` of the handler, `Return`. The answer
is the place of the run among all runs at that server, so that no two answers
are alike.

`NetIf` has a server's main program as a sequence of stages (`Launch`: the Nexus
with its thread, the Rpc, the end of the constructor; `startServer`; the loop),
which Ctrl-C may meet at any of them: before the assignment of `netif` it does
nothing, before `startServer` it is undone, and in the loop it ends it. A client
connects to the servers one after the other (`Connect`, repeated after a
timeout); a Nexus without an Rpc refuses, on which eRPC buries the session and
`is_connected` follows a null pointer. `rpcCall` clears the flag and sends;
`Retransmit`, `Serve`, `Repeat` and `Complete` are eRPC's: a request number per
session, a request of the present number answered again from the stored
response, older ones dropped, and a response taken only if it is that of the
request in progress. `net` is the set of packets sent and not lost; since it
never shrinks, a packet may come at any time, in any order and again.

`Nobody` is the absence of a call. `ServersFirst` is an assumption the code
needs: a session is made only with servers of lower ids, and `rpcCall` to any
other would use an uninitialized number. Left out: the first constructor (a test
of the connection, with no caller in a program), the handlers for memory reads
and writes (no code sends such a message), slots other than 0 (a client has one
thread, so the first is always free), credits and messages of several packets.

## 3. Runs

| run | instance | shows |
|---|---|---|
| `bitmap` | 3 threads, 2 regions | exclusion, conservation, refinement of `RegionPool`, progress |
| `connect_three` | 3 nodes, started in order; node 2 may end and start with RECOVER, waking up unnotified once | types, ready means connected, send CQ lag, all MRs in and no receive left over, survivors never take node 2 back, everybody comes up unless somebody died or waits for itself |
| `connect_race` | 3 nodes, violation | a poll takes another connection's receive and the process exits |
| `transfer` | 2 threads, 2 peers, 1 region each, lag 2 | balance of the CQ, no waiting for ever |
| `transfer_lag` | 1 thread, lag 2, violation | a read goes on before its own completion |
| `ecal` | 3 nodes, K = 2, P = 1, 2 pages, 2 crashes, server 0 may restart | if each poll returns its own completion: `PageStore` is implemented, stripes agree after every call |
| `ecal_recover` | server restarts, page 0, violation | recovery overwrites data instead of restoring it |
| `ecal_six` | 6 nodes, violation | two pages in one place |
| `locofs` | 2 clients, the name a for directories and files, depth 2, 5 uuids, 2 files, caches of 1 | the servers implement `FileTree`; keys, uuids and lists match; a stale uuid is never that of another path |
| `locofs_open` | 1 client, cache of 2, violation | `open` succeeds in a directory that is gone |
| `file_data` | 2 clients, 2 names, 2 files, blocks of 2 bytes, ranges up to 3, 2 writes | reads return what was written and sizes are right outside exactly the overlaps, ends and whole blocks the code loses; lists, no shared blocks |
| `rpc` | 1 client, 2 servers, 3 calls to each | `RemoteCall` is implemented; a client comes up and its calls return unless a server has ended or refused it |

Why the bounds are enough. Three threads and two regions give every way two
threads can meet at one bit while a third holds or waits. Three nodes are what
`cluster.conf` has, and the smallest cluster in which two connections of one
node can race; K = 2 and P = 1 are the code's constants. Two crashes are one
more than the code tolerates, so that reads with fewer than K peers happen too.
Two values tell old from new. Rows 0 and 1 are the test rows, pages 2 and 3 lie
beyond them. One directory name at depth 2 gives a parent and a child of the same
name under different uuids; four directories besides "/" (uuids 2 to 5) let /a
be made, /a/a in it, /a removed over it, and both made again. No list of
directories then holds two names; that removing one leaves the others is what
`OthersStay` and `ListsRight` prove. A cache of one entry is always full. Blocks of two bytes and ranges up to three give parts at
the beginning and at the end of a block, whole blocks, and calls over two
blocks; two writes of two clients overlap in one block, in none, or follow each
other, and each history variable is needed at this size: without `contested`,
without `blurred`, or with a crash that leaves a stored block alone, TLC finds a
violation. One file, ranges up to two and three writes (82,762 states) hold as
well, but are no run of their own. One client is enough for `rpc` because
clients share nothing but the server's order of runs, which its proof covers for
any number; two servers give the flag and buffer that go from one session to
the other, and three calls give a response two calls late. `MaxCrashes`,
`MaxUuid`, `MaxSuuid`, `MaxFiles`, `MaxWrites` and `MaxCalls` are the bounds put
on counters. `locofs` uses symmetry of the clients and `file_data` that of the
clients and of the names, which appear nowhere but as themselves; neither checks
liveness.

Deadlock is checked for `bitmap` and `transfer`, whose threads run for ever, and
for `locofs` and `file_data`, whose clients can always make another call. It is
not for `RDMAConnect`, where start-up ends, nor for `ECAL`, where the client
may crash, nor for `NetIf`, where a client dies or waits for ever for a server
that has ended.

Fairness. `Bitmap`: a thread inside a call keeps running, a thread that has a
region frees it, and *some* thread wins an exchange (the code is lock-free, not
wait-free); an idle thread need not start. `RDMAConnect`: only that something
happens while something can; with spurious wake-ups bounded every behaviour is
finite, so this is the fairness of the scheduler and nothing more. `NetIf`: the
main programs and the loops go on, timers run out again and again, a packet that
is sent again and again is not lost every time, and what is not lost arrives;
nothing is fair about Ctrl-C, ends, crashes and refusals.
`RDMATransfer`: threads inside a call run, the adapter executes requests; no
region and no completion is handed out fairly.

## 4. Disagreements between the code and what it says

* `connect_race`: "Immediately (and blockingly) poll this RDMA recv."
  (`rdma.cpp:248`): the poll returns whichever receive of any connection.
* `transfer_lag`: `block_rw.cpp` expects to read what it wrote, but the MR
  messages of start-up leave one unread completion per peer, so every later
  poll returns early. For writes the same lag frees a region that is still to
  be sent; `InFlightIntact` fails in the same instance.
* `ecal_recover`: `doc/EnvVar.md:11` promises recovery; it is compiled out, and
  test writes of the restarted node destroy rows 0 and 1 of the others.
* `ecal_six`: `getClusterCapacity` counts `clusterSize / N` pages per row,
  `getDataPos` puts them all on nodes 0 to N-1.

* `locofs_open`: "return false, if dir not exists" (`LocofsClient.cpp:237`) and
  "remove dir only when it is empty" (`:262`): the server does not look
  (`DMStore.cpp:158`, a to-do), the client forgets only the path it removed, and
  a file is then created under the uuid of a directory nobody can reach.

Seen while modelling and not given a run:

* Disconnections. A read whose peer is disconnected after its shard was fetched
  and before it is copied or decoded (`ecal.cpp:271`, `:280`, `:308`) uses memory
  that the listener has freed (`rdma.cpp:381`), and returns as if nothing had
  happened; so does one whose access failed (`ecal.cpp:270`).
* Data. `write` of a whole block stores it under the index `page` happens to
  have (`LocofsClient.cpp:101-104`), which is why `ReadsBack` is conditional.
  Writes to different bytes of one block lose one another's (`:97`), and the
  size one of two concurrent writes computed is the one that stays (`:133`); a
  write that ends after its file was made anew gives the new file the old size.
  Two clients that open a new file both create it, and the second wipes out the
  first's (`:253-257`). Readers beside a writer mix versions of a page, since
  nothing tells them apart (`ecal.cpp:262`).
* Metadata. A file created over itself stays listed after it is unlinked
  (`EntryList.cpp:45`); `dmHandleReaddir` never sets `len`
  (`DMServer.cpp:89-99`); the expiry thread's interval is an unsigned quotient
  of a negative sum (`lru_cache.h:164`).
* Start-up. A recovering node connects to itself too (`rdma.cpp:61`); "tested
  remote write" (`rdma.cpp:106`) is printed for the completion of an MR message;
  nodes started out of order wait for ever, because a rejected connection
  request is never repeated (`rdma.cpp:193`).
* Remote calls. A client that reaches a server between its Nexus and its Rpc
  dies (`netif.hpp:98-102`), which only a sleep of 100 ms makes unlikely; a
  call to a server that has ended never returns, eRPC's test being under
  `if (false)`; a Ctrl-C before `startServer` is lost; a session number is
  uninitialized for servers with higher ids than the client's.

## 5. Proofs

`BitmapProofs` (any set of threads, any number of bits). The inductive
invariant is the type invariant with `Conservation` and `Exclusive`: a
successful exchange compared the whole word, so the local copy is the word and
its lowest bit is nobody's. The refinement maps `free` to the word and `owner`
to `idx`; a successful exchange of `allocBit` is `Acquire`, one of `freeBit` is
`Release`, everything else a stutter.

`RDMAConnectProofs` (any number of nodes, started in any order, of which any may
end, and one come back). `ReadyMeansConnected` and `RestartedStaysDead` rest on one
fact, `EachOnce`: a connection goes through the events and listener locations of
its set-up once, so that at each end it is at one of them at most. Hence the
counter is the number of peers looked at (`CountRight`), a full count means all of
them (`ReadyMeansCounted`), none of whose connections is set up or polled for again
(`NothingLeft`); peers are disconnected only after they have ended
(`OnlyGoneDisconnect`), and after a node has come back no other polls for a
receive (`OthersAreUp`). TLC has checked this invariant with three nodes in any
order of start, each of which may end, and unnotified wake-ups (7,183,131 states).

`SendCQLag` and the bounds in `TypeOK` are about how much waits in shared queues, so
they need a count (`QInv`). A request leaves its queue for the send CQ and that for a
poll, which moves it from one term of `Uncollected(n) + Cardinality(tested[n])` to
the next; only sending an MR or the test writes adds to the sum. Until a node comes
back (`Before`) every connection goes downwards and has one end at each side, so
that the sum is bounded by the peers the node has sent to (`Owed`), and what it has
received and not yet counted by the peers that can have sent (`Reached`). While
nobody has died both are exact (`Undisturbed`), and then so is `ReceivesAllIn`:
although a poll may take another connection's receive, as many receives have
completed as peers are counted, so that a constructor that counts all of them finds
every MR arrived and none left to poll (`BeforeAllIn`). The hard part is what a death leaves
behind, as a node comes back only if all others have completed their start-up: either
the dead one had completed its own, with all queues empty (`Clean`), or it leaves
another short of a receive, whose count then never completes (`Dirty`), so that
`Recover` is never enabled again. So a node that comes back meets others with
`ClusterSize - 1` completions each and nothing else (`OthersSettled`), and `After`
counts what its new connections add: one MR at each other node, and its own, to
itself at both ends. TLC has checked this invariant with three nodes, each of which may
end and come back (899,267 states).

`RDMATransferProofs` (any finite set of threads, any peers, regions, lag). The
invariant is types and `CQBalance`: `cq + Len(wire) = StaleCQEs +
Cardinality(Pollers)`; each action moves one unit between its terms. Hence the
queues hold one entry for each thread and each completion of the lag at most
(`QueuesBounded`): with 31 peers, some two thousand threads would fit into
`MAX_QP_DEPTH`. And it says what the lag means for the one thread a client has (`SerialLag`): when it
goes on after a poll, as many of its requests are not executed as the CQ is short
of `StaleCQEs`. With the two of a cluster of three, that may be every shard a read
has asked for, as in `transfer_lag`; only with `StaleCQEs = 0` would it be none.

`ECALProofs` (any K, P, cluster, rows, pages, crashes). `TypeOK` holds for any
clients. `StripesAgree` and the refinement of `PageStore` are proved in `Setting`:
one client, which does not come back after a crash and whose polls, as always in
`ECAL`, return their own completions; no two of its pages in one
row, which is what `ecal_six` violates; none of them in the rows of the test
writes, which is what `ecal_recover` violates. A client that misses an update of a
shard (`WriteSkip`, or `WritePost` without a working queue pair) does not reach
that shard any more, so that all it reaches of a page belong to one page, up to
the loop variable to the new one while it is being written (`StripeInv`), and what
a read has fetched belongs to it as well unless a peer was gone (`ReadInv`); a
read with a freed region returns some page, of which nothing is promised. K
shards of one page, whichever they are, decode to it (`DecodeWhole`). The
refinement counts as failed the shard nodes out of reach and shows the old page
until the last turn of the loop: that turn is `Write`, the return of a read is
`Read`, the loss of a peer is `Fail`, everything else a stutter. The code may go on
with P failures exactly because that leaves K shards (`FailedCount`). TLC has
checked the invariant in the instance of the run `ecal` (1,110,926 states).

`EntryListProofs` (any lists and names). `remove_entry` is given by where the
other names are and which comes k-th; `Nth` and its inverse, the rank of a place
(`Ranks`), make that a bijection (`RemovedIs`). Hence removing a name never takes
another away (`OthersStay`), and of a name that was there once nothing is left, nor
a moved-from string of a list that had none (`OnceRemoved`).

`LocofsProofs` (any clients, names, depths, cache sizes). `UuidsNameOne` is
inductive once uuids in use are known to lie in 2 .. `uuid_counter` (`Fresh`):
a new uuid is none of those, and removing a key removes the one inode it leads
to. No action but `Mkdir` and `Rmdir` touches the directory server. The rest needs
`IInv`: keys, lists, files, calls and caches hold uuids that have been handed out
(`DMKnown`, `FilesKnown`, `CallsKnown`), a name is once in the list of a uuid if
the key is there and otherwise not (`ListInv`), and a cached uuid is found at no
path but its own (`CachesKnown`).

What makes these inductive is what a handler does to *every* path, since following
a path is a walk through the keys. The walk is unique step by step, argued by
the least number of steps at which it would not be (`LeastNumber` stands for
induction). Keys have uuids of their own, so a uuid below "/" is found along one
path (`OnePath`). `mkdir` therefore adds one path and leaves all others as they
were, there being no key under a uuid not handed out (`UuidGrown`); `rmdir` takes
away exactly the paths at and below its own (`UuidShrunk`), although it leaves the
keys below in the store. So no step can make a cached uuid that of another path.
For the refinement of `FileTree`: a handler of the file server changes one key, and
thereby one file of the tree if a path leads to the directory (`FilesAt`), and
none if only a stale uuid does (`FilesElsewhere`), which is a stutter.

`FileDataProofs` (any clients, names, block size, hash, bounds). `NoSharedBlocks`
needs only that numbers are natural, and `FilesListed` only that a removal takes away
no other name (`OthersStay`). `SizeIsExtent` needs more (`SizeInv`): a write
is about a number given out and, unless its file is blurred, was told a size that
still is the file's extent (`SizeKnown`); two writes on one file blur it
(`RivalsBlur`); numbers not given out have no extent, and no two files share a
number (`Extents`), so that the end of a write changes one extent and the size it
belongs to. `TypeCorrect` adds that `start` stays in the range and a part of it
in its block, for which division and remainder by `BlockSize` have to be taken
apart (`PartFits`).

`ReadsBack` rests on `ReadInv`. A page holds what is expected of its block, unless
someone is storing it or the bytes are those of a write not complete (`PagesHold`,
`SpoiltLost`). Two calls that are in a block at a time, one of them writing, both have it in
`contested` (`Noticed`), and nothing is expected of a block that two write. So a
write that met no other filled its page with what was expected (`Filled`), stored
its own bytes over it (`OwnStored`), and leaves as expected what the page holds
when it is complete; a read has returned from the page what was expected
(`Returned`). That a byte of the range is in the block and at the place the loop
computes is `Where`. `NoCollision` keeps the pages of different blocks apart. TLC
has checked this invariant in the instance of the run `file_data` (4,670,140
states).

`NetIfProofs` (any clients, servers, bound on calls). The invariant is `TypeOK`,
whose last conjunct says that a server has seen the last request of a session or,
during a call, the one before it, with what the set of packets may contain:
requests the client has made (`RequestsAsked`), responses to the present request
that carry the stored reply (`ResponsesGiven`); a completed call has been handled
and holds that reply (`CompletedAnswered`), and replies are places in the order
of runs (`AnswersCount`). Then the first `Serve` of a request is `Run`, `Repeat` and
`Complete` are stutters, `Return` is `Return`: `CallsAreAtomic`.

Assumptions on constants are named in the modules and evaluated by TLC in every
run: types and bounds of parameters, and `NoCollision`, without which two blocks of
files would be one page. Only model-checked: liveness (`SomeoneServed`,
`EveryoneComesUp`, `CallsFinish`, `EveryCallReturns`).

## 6. Not modelled, and what is left

* `open` against `open` (`LocofsClient.cpp:253`). Each of its remote calls is a step
  of `Locofs`, but no property says what a file made by one client keeps when
  another makes it again: creating over a file is an operation of the tree.
* `hashObj` and collisions of it: a parameter with the assumption `NoCollision`.
* The expiry thread of `lru_cache`: no code sets an expiry time, so it removes
  nothing, and a client has one other thread.
* Memory handlers and the testing constructor of `NetworkInterface`: no caller.
* `chown`, `chmod`, `rename`, `utimens`: no remote call reaches them.
* The destructor of `RDMASocket` and the content of the write log: the process
  ends with the one, nothing appends to the other.
* `rpc.cpp`, `DataServer.cpp`, `test/`, `include/ec`: no target builds them.
* Configuration parsing, the key-value wrapper, message types, vendored code but
  for what `NetIf` needs of eRPC: no behaviour of their own that steps of two
  actors could disturb.
