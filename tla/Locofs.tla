------------------------------- MODULE Locofs -------------------------------
(***************************************************************************)
(* Clients of the metadata servers (fs/LocofsClient.cpp).  A call of a     *)
(* client is a sequence of remote calls; each of them is a step, the       *)
(* handler of the server and what the client does with the answer.         *)
(* Between two steps other clients do theirs.  Every client has a cache of *)
(* the uuids of directories (fs/lru_cache.h).                              *)
(*                                                                         *)
(* Reading and writing the blocks of a file is left to ECAL.  statdir is   *)
(* one remote call that changes nothing.                                   *)
(***************************************************************************)
EXTENDS DMStore, FMStore, FiniteSets, TLC

CONSTANTS Clients,
          CacheSize,   \* directories a cache has room for
          MaxSize,     \* largest size of a file a write makes
          MaxUuid,     \* bound on uuid_counter
          MaxSuuid     \* bound on suuid_counter

ASSUME CacheAssumption == CacheSize \in Nat \ {0}
ASSUME SizeAssumption == MaxSize \in Nat

VARIABLES pc,     \* what each client does next
          call,   \* the call it is in: [op, path]
          key,    \* Key_File, as the call has it
          size,   \* st_size, as the write has it
          cache   \* UCache: paths of directories -> uuids

clvars == <<pc, call, key, size, cache>>
vars == <<dmvars, fmvars, clvars>>

\* Where a file may be asked for; none can be made in "/".
FilePaths == {Append(d, f) : d \in DirPaths \cup {Root}, f \in FileNames}

\* Clients differ in nothing but their names.
ClientSymmetry == Permutations(Clients)

FileOps == {"open", "create", "unlink", "write"}
Calls == [op : FileOps, path : FilePaths]
NoCall == [op |-> "none", path |-> Root]
NoKey == <<RootUuid, "">>

Init == /\ DMInit
        /\ FMInit
        /\ pc = [c \in Clients |-> "idle"]
        /\ call = [c \in Clients |-> NoCall]
        /\ key = [c \in Clients |-> NoKey]
        /\ size = [c \in Clients |-> 0]
        /\ cache = [c \in Clients |-> <<>>]

-----------------------------------------------------------------------------
\* The client's cache.

Cached(c) == DOMAIN cache[c]

\* A slip: nothing makes room.
KeptAll(c) == {Cached(c)}

\* What lru_remove leaves when the cache is full: which entry goes depends on
\* times and counts.  The expire thread finds no entry that expires.
Kept(c) == IF Cardinality(Cached(c)) < CacheSize THEN {Cached(c)}
           ELSE {Cached(c) \ {d} : d \in Cached(c)}

CacheSet(c, dir, uuid) ==
    \E kept \in Kept(c) :
        cache' = [cache EXCEPT ![c] = [d \in kept \cup {dir} |->
                                          IF d = dir THEN uuid ELSE cache[c][d]]]

CacheRemove(c, dir) ==
    cache' = [cache EXCEPT ![c] = [d \in Cached(c) \ {dir} |-> cache[c][d]]]

-----------------------------------------------------------------------------
\* _get_uuid: from the cache or from the directory server.
HasUuid(c, dir) == dir \in Cached(c) \/ HasAttr(dir)
GetUuid(c, dir) == IF dir \in Cached(c) THEN cache[c][dir] ELSE Uuid(dir)
Remember(c, dir) == IF dir \in Cached(c) THEN UNCHANGED cache
                    ELSE CacheSet(c, dir, Uuid(dir))

\* _get_file_key
FileKey(c, path) == <<GetUuid(c, Front(path)), Last(path)>>

Goto(c, l) == pc' = [pc EXCEPT ![c] = l]
Return(c) == /\ Goto(c, "idle")
             /\ call' = [call EXCEPT ![c] = NoCall]
             /\ key' = [key EXCEPT ![c] = NoKey]
             /\ size' = [size EXCEPT ![c] = 0]

-----------------------------------------------------------------------------
\* One remote call, or one that matters.

Mkdir(c) ==
    /\ pc[c] = "idle"
    /\ uuid_counter < MaxUuid
    /\ \E d \in DirPaths \cup {Root} : mkdir(d)
    /\ UNCHANGED <<fmvars, clvars>>

\* Only the directory's own path leaves the cache, and only this client's.
Rmdir(c) ==
    /\ pc[c] = "idle"
    /\ \E d \in DirPaths : rmdir(d) /\ CacheRemove(c, d)
    /\ UNCHANGED <<fmvars, pc, call, key, size>>

\* readdir, stat and read look a directory up; their other remote calls change
\* nothing.
Look(c) ==
    /\ pc[c] = "idle"
    /\ \E d \in DirPaths : HasUuid(c, d) /\ Remember(c, d)
    /\ UNCHANGED <<dmvars, fmvars, pc, call, key, size>>

-----------------------------------------------------------------------------
\* Files.

\* What follows the first _get_file_key.
Then(op) == CASE op = "open"    -> "access"
              [] op = "create"  -> "create"
              [] op = "unlink"  -> "remove"
              [] op = "write"   -> "stat"

\* suuid_counter has room for the files the calls in progress may create.
InBounds(op) ==
    op \in {"open", "create"} =>
        suuid_counter + Cardinality({c \in Clients : call[c].op \in {"open", "create"}})
            < MaxSuuid

\* A call on a file begins with _get_file_key, ...
Begin(c) ==
    /\ pc[c] = "idle"
    /\ \E k \in Calls :
         /\ InBounds(k.op)
         /\ HasUuid(c, Front(k.path))
         /\ Remember(c, Front(k.path))
         /\ call' = [call EXCEPT ![c] = k]
         /\ key' = [key EXCEPT ![c] = FileKey(c, k.path)]
         /\ Goto(c, Then(k.op))
    /\ UNCHANGED <<dmvars, fmvars, size>>

\* ... and returns false without it.
BeginFails(c) ==
    /\ pc[c] = "idle"
    /\ {f \in FilePaths : ~HasUuid(c, Front(f))} # {}
    /\ UNCHANGED vars

\* open: a file that is not there is created by another remote call.
Access(c) ==
    /\ pc[c] = "access"
    /\ IF Exists(key[c]) THEN Return(c)
       ELSE Goto(c, "create") /\ UNCHANGED <<call, key, size>>
    /\ UNCHANGED <<dmvars, fmvars, cache>>

Create(c) ==
    /\ pc[c] = "create"
    /\ create(key[c])
    /\ Return(c)
    /\ UNCHANGED <<dmvars, cache>>

Unlink(c) ==
    /\ pc[c] = "remove"
    /\ IF Exists(key[c]) THEN remove(key[c]) ELSE UNCHANGED fmvars
    /\ Return(c)
    /\ UNCHANGED <<dmvars, cache>>

\* _get_file_stat of a write, which then goes on to the blocks.
Stat(c) ==
    /\ pc[c] = "stat"
    /\ IF Exists(key[c])
       THEN /\ size' = [size EXCEPT ![c] = file_store[key[c]].size]
            /\ Goto(c, "csize")
            /\ UNCHANGED <<call, key>>
       ELSE Return(c)
    /\ UNCHANGED <<dmvars, fmvars, cache>>

\* The end of a write, to the larger of the size it read and where it ended.
\* It looks its key up again, in the cache, where its uuid has been since Begin.
Csize(c) ==
    /\ pc[c] = "csize"
    /\ IF Exists(key[c])
       THEN \E end \in 1 .. MaxSize :
                csize(key[c], IF size[c] > end THEN size[c] ELSE end)
       ELSE UNCHANGED fmvars
    /\ Return(c)
    /\ UNCHANGED <<dmvars, cache>>

-----------------------------------------------------------------------------
Client(c) == \/ Mkdir(c) \/ Rmdir(c) \/ Look(c)
             \/ Begin(c) \/ BeginFails(c)
             \/ Access(c) \/ Create(c) \/ Unlink(c) \/ Stat(c)
             \/ Csize(c)

Next == \E c \in Clients : Client(c)

Spec == Init /\ [][Next]_vars

-----------------------------------------------------------------------------
Locations == {"idle", "access", "create", "remove", "stat", "csize"}

\* Types of servers and clients; no cache is fuller than it may be.
TypeOK ==
    /\ DMTypeOK
    /\ FMTypeOK
    /\ pc \in [Clients -> Locations]
    /\ call \in [Clients -> Calls \cup {NoCall}]
    /\ key \in [Clients -> Nat \X (FileNames \cup {""})]
    /\ size \in [Clients -> Nat]
    /\ \A c \in Clients : /\ Cached(c) \subseteq DirPaths
                          /\ Cardinality(Cached(c)) <= CacheSize
                          /\ \A d \in Cached(c) : cache[c][d] \in Nat

\* The two stores, seen through paths: a tree.  Files left in directories
\* that were removed have no path, and directories below them neither.
ShownDirs == {d \in DirPaths : Uuid(d) # NotFound}
FilesOf(uuid) == {k \in DOMAIN file_store : k[1] = uuid}
ShownFiles == UNION {{<<Append(d, k[2]), file_store[k].size>> : k \in FilesOf(Uuid(d))} :
                        d \in ShownDirs}

Tree == INSTANCE FileTree WITH Dirs <- DirPaths, Files <- FilePaths, Sizes <- 0 .. MaxSize,
                               dirs <- ShownDirs, files <- ShownFiles

\* Whatever clients do between each other's remote calls, and whatever stale
\* uuids their caches hold, the servers keep a tree in which every handler is
\* one operation or none (DMStore.cpp:33-193, FMStore.cpp:88-197).
TreeSpec == Tree!Spec

\* A cached uuid may be that of a directory which is gone, but never that of a
\* directory at another path (lru_cache.h:65-114, LocofsClient.cpp:264-282,
\* 444-465).
CacheNeverElsewhere ==
    \A c \in Clients : \A d \in Cached(c) :
        \A e \in DirPaths : Uuid(e) = cache[c][d] => e = d

\* open: "return false, if dir not exists" (LocofsClient.cpp:234-243).  Stated
\* for a single client, whose directories do not change while it opens a file.
OpenNeedsDirectory ==
    [][\A c \in Clients :
          (call[c].op = "open" /\ pc[c] \in {"access", "create"} /\ pc'[c] = "idle")
              => HasAttr(Front(call[c].path))]_vars
=============================================================================
