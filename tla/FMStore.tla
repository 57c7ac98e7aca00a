------------------------------ MODULE FMStore ------------------------------
(***************************************************************************)
(* The file metadata server: inodes under keys "uuid of the directory:     *)
(* name" and the lists of names (fs/FMStore.cpp, fs/FMServer.cpp).  It     *)
(* knows nothing of the directory server.  The access and the content      *)
(* inode of a file are always stored and removed together and are one      *)
(* record here.  The event loop runs one handler at a time.                *)
(***************************************************************************)
EXTENDS Integers, Sequences, EntryList

CONSTANTS FileNames   \* names of files

VARIABLES suuid_counter,   \* next number of a file's blocks
          file_store,      \* <<uuid of the directory, name>> -> content inode
          file_entry       \* names of the files in each directory

fmvars == <<suuid_counter, file_store, file_entry>>

FMInit == /\ suuid_counter = 0
          /\ file_store = <<>>
          /\ file_entry = <<>>

\* access, and the getValue of the other handlers.
Exists(key) == key \in DOMAIN file_store

\* A slip: a file made over another keeps the counter where it is.
CreateUncounted(key) ==
    /\ suuid_counter' = IF Exists(key) THEN suuid_counter ELSE suuid_counter + 1
    /\ file_store' = [k \in DOMAIN file_store \cup {key} |->
                         IF k = key THEN [suuid |-> suuid_counter, size |-> 0]
                         ELSE file_store[k]]
    /\ file_entry' = insert_entry(file_entry, key[1], key[2])

\* Whether the file exists is not looked at: it becomes a new one.
create(key) ==
    /\ suuid_counter' = suuid_counter + 1
    /\ file_store' = [k \in DOMAIN file_store \cup {key} |->
                         IF k = key THEN [suuid |-> suuid_counter, size |-> 0]
                         ELSE file_store[k]]
    /\ file_entry' = insert_entry(file_entry, key[1], key[2])

\* A slip: the first name of the list is erased, whatever it is.
RemoveOldest(key) ==
    /\ Exists(key)
    /\ file_store' = [k \in DOMAIN file_store \ {key} |-> file_store[k]]
    /\ file_entry' = [file_entry EXCEPT ![key[1]] = Tail(@)]
    /\ UNCHANGED suuid_counter

remove(key) ==
    /\ Exists(key)
    /\ file_store' = [k \in DOMAIN file_store \ {key} |-> file_store[k]]
    /\ file_entry' = remove_entry(file_entry, key[1], key[2])
    /\ UNCHANGED suuid_counter

csize(key, size) ==
    /\ Exists(key)
    /\ file_store' = [file_store EXCEPT ![key] = [suuid |-> file_store[key].suuid,
                                                 size |-> size]]
    /\ UNCHANGED <<suuid_counter, file_entry>>

-----------------------------------------------------------------------------
FMTypeOK ==
    /\ suuid_counter \in Nat
    /\ DOMAIN file_store \subseteq Nat \X FileNames
    /\ \A k \in DOMAIN file_store : file_store[k] \in [suuid : Nat, size : Nat]

\* Two files never have the same suuid, also after files were made over others:
\* the number goes into where their blocks are (FMStore.cpp:88-98,
\* LocofsClient.cpp:28-38).
NoSharedBlocks ==
    /\ \A k, l \in DOMAIN file_store : file_store[k].suuid = file_store[l].suuid => k = l
    /\ \A k \in DOMAIN file_store : file_store[k].suuid < suuid_counter

\* A file that exists is in the list of its directory, however often files
\* were created over each other and removed: so remove_entry always finds the
\* name and never erases end() (FMStore.cpp:113-119, 178-184,
\* EntryList.cpp:46).  A file that does not exist may be listed.
FilesListed ==
    \A k \in DOMAIN file_store :
        \E i \in DOMAIN readdir(file_entry, k[1]) : readdir(file_entry, k[1])[i] = k[2]
=============================================================================
