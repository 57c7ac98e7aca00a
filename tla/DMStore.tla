------------------------------ MODULE DMStore ------------------------------
(***************************************************************************)
(* The directory metadata server: a flat store of uuids under keys         *)
(* "uuid of the parent:name", one of inodes under uuids, and the lists of  *)
(* names (fs/DMStore.cpp, fs/DMServer.cpp).  A path is the sequence of its *)
(* names, "/" the empty one.  The event loop runs one handler at a time.   *)
(*                                                                         *)
(* The constructor makes "/" with uuid 1, but every lookup starts at uuid  *)
(* 0, which has no inode.  Of an inode only its presence matters here.     *)
(* chown, chmod, rename and opendir have no RPC and are left out.          *)
(***************************************************************************)
EXTENDS Integers, FiniteSets, Sequences, SequencesExt, EntryList

CONSTANTS DirNames,   \* names of directories
          MaxDepth    \* longest path of a directory

ASSUME DepthAssumption == MaxDepth \in Nat

VARIABLES uuid_counter,   \* last uuid handed out
          uuid_store,     \* <<uuid of the parent, name>> -> uuid
          dm_store,       \* uuids that have an inode
          dir_entry       \* names of the directories in each directory

dmvars == <<uuid_counter, uuid_store, dm_store, dir_entry>>

Root == <<>>
DirPaths == UNION {[1 .. n -> DirNames] : n \in 1 .. MaxDepth}

RootUuid == 0
NotFound == -1

DMInit == /\ uuid_counter = 1
          /\ uuid_store = <<>>
          /\ dm_store = {1}
          /\ dir_entry = <<>>

\* get_uuid: follow the names from the root.
Child(uuid, name) == IF <<uuid, name>> \in DOMAIN uuid_store THEN uuid_store[<<uuid, name>>]
                     ELSE NotFound

Uuid(path) ==
    LET walk[i \in 0 .. Len(path)] == IF i = 0 THEN RootUuid ELSE Child(walk[i - 1], path[i])
    IN  walk[Len(path)]

\* getAttr succeeds; that it writes the inode back changes only its ctime.
HasAttr(path) == Uuid(path) \in dm_store

Key(path) == <<Uuid(Front(path)), Last(path)>>

\* The key of "/" has been there since the constructor.
CanMkdir(path) == /\ path # Root
                  /\ Uuid(Front(path)) # NotFound
                  /\ Key(path) \notin DOMAIN uuid_store

\* What mkdir stores once it has its uuid.
Store(path, uuid) ==
    /\ uuid_store' = [k \in DOMAIN uuid_store \cup {Key(path)} |->
                         IF k = Key(path) THEN uuid ELSE uuid_store[k]]
    /\ dm_store' = dm_store \cup {uuid}
    /\ dir_entry' = insert_entry(dir_entry, Key(path)[1], Last(path))

\* A slip: the new uuid is counted off the inodes.
MkdirCounts(path) ==
    /\ uuid_counter' = uuid_counter + 1
    /\ IF CanMkdir(path) THEN Store(path, Cardinality(dm_store) + 1)
       ELSE UNCHANGED <<uuid_store, dm_store, dir_entry>>

\* A uuid is used up even if the directory cannot be made.
mkdir(path) ==
    /\ uuid_counter' = uuid_counter + 1
    /\ IF CanMkdir(path) THEN Store(path, uuid_counter')
       ELSE UNCHANGED <<uuid_store, dm_store, dir_entry>>

\* get_2_uuid: the last step of the way to path is taken from its parent.
Target(path) == Child(Uuid(Front(path)), Last(path))
CanRmdir(path) == path # Root /\ Target(path) # NotFound /\ Target(path) \in dm_store

\* A slip: the key stays behind.
RmdirKeepsKey(path) ==
    /\ CanRmdir(path)
    /\ dm_store' = dm_store \ {Target(path)}
    /\ dir_entry' = remove_entry(dir_entry, Key(path)[1], Last(path))
    /\ UNCHANGED <<uuid_counter, uuid_store>>

\* Whether the directory is empty is not looked at.
rmdir(path) ==
    /\ CanRmdir(path)
    /\ dm_store' = dm_store \ {Target(path)}
    /\ uuid_store' = [k \in DOMAIN uuid_store \ {Key(path)} |-> uuid_store[k]]
    /\ dir_entry' = remove_entry(dir_entry, Key(path)[1], Last(path))
    /\ UNCHANGED uuid_counter

-----------------------------------------------------------------------------
DMTypeOK ==
    /\ uuid_counter \in Nat
    /\ DOMAIN uuid_store \subseteq Nat \X DirNames
    /\ \A k \in DOMAIN uuid_store : uuid_store[k] \in Nat
    /\ dm_store \subseteq Nat

\* No two keys lead to one uuid, a key never leads to a directory without an
\* inode, and no inode is out of reach of every key except that of "/"
\* (DMStore.cpp:33-106, 145-193).
UuidsNameOne ==
    /\ \A k, l \in DOMAIN uuid_store : uuid_store[k] = uuid_store[l] => k = l
    /\ dm_store = {1} \cup {uuid_store[k] : k \in DOMAIN uuid_store}

\* A directory's name is in the list of its parent exactly once as long as its
\* key is there, and not afterwards: removing one name leaves the others
\* (DMStore.cpp:98-104, 186-191, EntryList.cpp:32-47).
ListsMatchKeys ==
    \A k \in DOMAIN uuid_store \cup ((DOMAIN dir_entry) \X DirNames) :
        Cardinality({i \in DOMAIN readdir(dir_entry, k[1]) :
                        readdir(dir_entry, k[1])[i] = k[2]})
            = IF k \in DOMAIN uuid_store THEN 1 ELSE 0
=============================================================================
