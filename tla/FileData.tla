------------------------------ MODULE FileData ------------------------------
(***************************************************************************)
(* The bytes of files: write and read of clients (fs/LocofsClient.cpp),    *)
(* which cut a range of bytes into blocks, find the page of a block by a   *)
(* hash and read and write whole pages, with the file server beside them.  *)
(*                                                                         *)
(* A client has one thread; it may end in the middle of a call and start   *)
(* again.  ECAL is a register for each page, as PageStore says it, as long *)
(* as accesses to a page do not overlap: a page's shards are written one   *)
(* by one (ecal.cpp:328-351), so that while it is written, and for good    *)
(* when two write it at once or one ends before it is done, anything may   *)
(* be read.  The files are in one directory, whose uuid is cached.         *)
(*                                                                         *)
(* Byte i of the buffer of the w-th write is <<w, i>>; Junk is what a page *)
(* holds that nobody wrote, or that may be anything.                       *)
(***************************************************************************)
EXTENDS FMStore, SequencesExt

CONSTANTS Clients,
          DirUuid,         \* uuid of the directory
          BlockSize,       \* block_size, which is also Block4K::size
          MaxLength,       \* bound on where a range of bytes ends
          Capacity,        \* getClusterCapacity()
          hashObj(_, _),   \* hash of a file's suuid and the number of a block
          MaxFiles,        \* bound on suuid_counter
          MaxWrites,       \* bound on the calls of write
          Junk

Suuids   == 0 .. (MaxFiles - 1)
Offsets  == 0 .. (MaxLength - 1)
InPage   == 0 .. (BlockSize - 1)
Indices  == 0 .. (Capacity - 1)
Ranges   == {r \in [off : Offsets, len : 1 .. MaxLength] : r.off + r.len <= MaxLength}
Bytes    == (1 .. MaxWrites) \X Offsets \cup {Junk}

PageOf(suuid, block) == hashObj(suuid, block) % Capacity

ASSUME BlockAssumption == {BlockSize, MaxLength, Capacity} \subseteq Nat \ {0}
ASSUME DirAssumption == DirUuid \in Nat
ASSUME HashAssumption ==
    \A s \in Suuids, o \in Offsets : hashObj(s, o \div BlockSize) \in Nat
ASSUME BoundAssumption == {MaxFiles, MaxWrites} \subseteq Nat

\* The code does nothing about two blocks with the same page.
ASSUME NoCollision ==
    \A s, t \in Suuids : \A o, p \in Offsets :
        PageOf(s, o \div BlockSize) = PageOf(t, p \div BlockSize)
            => s = t /\ o \div BlockSize = p \div BlockSize

VARIABLES pages,      \* what ECAL stores: index -> bytes
          call,       \* the call of read or write a client is in
          start,      \* bytes of it that are done
          at,         \* where in its loop a write is
          page,       \* bytes of its ECAL::Page
          index,      \* index of it
          buf,        \* what a read has read
          writes,     \* number of writes so far
          expected,   \* history: what a byte of a file may be; {} is anything
          contested,  \* history: blocks of a call that others have used beside it
          extent,     \* history: end of what complete writes wrote in a file
          blurred,    \* history: files that were written by two at a time, or
                      \* by a write to the file before it
          misplaced   \* history: a page has been written in another's place

callvars == <<call, start, at, page, index, buf>>
history == <<writes, expected, contested, extent, blurred, misplaced>>
vars == <<fmvars, pages, callvars, history>>

NoCall == [op |-> "none"]
Idle(c) == call[c] = NoCall

JunkPage == [b \in InPage |-> Junk]

Init == /\ FMInit
        /\ pages = [i \in Indices |-> JunkPage]
        /\ call = [c \in Clients |-> NoCall]
        /\ start = [c \in Clients |-> 0]
        /\ at = [c \in Clients |-> "loop"]
        /\ page = [c \in Clients |-> JunkPage]
        /\ index = [c \in Clients |-> 0]
        /\ buf = [c \in Clients |-> <<>>]
        /\ writes = 0
        /\ expected = [s \in Suuids |-> [o \in Offsets |-> {}]]
        /\ contested = [c \in Clients |-> {}]
        /\ extent = [s \in Suuids |-> 0]
        /\ blurred = {}
        /\ misplaced = FALSE

Key(name) == <<DirUuid, name>>

-----------------------------------------------------------------------------
\* create, unlink, and calls on a file that does not exist.

Create == /\ \E c \in Clients : Idle(c)
          /\ suuid_counter < MaxFiles
          /\ \E f \in FileNames : create(Key(f))
          /\ UNCHANGED <<pages, callvars, history>>

Unlink == /\ \E c \in Clients : Idle(c)
          /\ \E f \in FileNames : remove(Key(f))
          /\ UNCHANGED <<pages, callvars, history>>

Missing == /\ \E c \in Clients : Idle(c)
           /\ \E f \in FileNames : ~Exists(Key(f))
           /\ UNCHANGED vars

-----------------------------------------------------------------------------
\* Cutting a range into blocks: the part of the range of the call, of which
\* start bytes are done, that lies in one block.

offset(c) == call[c].off + start[c]
block_num(c) == offset(c) \div BlockSize
block_off(c) == offset(c) % BlockSize

Smaller(m, n) == IF m < n THEN m ELSE n

\* A slip: the block is taken to begin at offset.
BlockLenFromOffset(c) == Smaller(call[c].len - start[c], BlockSize)

block_len(c) == Smaller(call[c].len - start[c], BlockSize - block_off(c))

blkno(c) == PageOf(call[c].suuid, block_num(c))

\* The offsets in its file that a call covers, and the blocks they are in.
Covered(k) == k.off .. (k.off + k.len - 1)
Blocks(k) == {o \div BlockSize : o \in Covered(k)}
Shared(k, l) == IF k # NoCall /\ l # NoCall /\ k.suuid = l.suuid
                THEN Blocks(k) \cap Blocks(l) ELSE {}

Others(c, op) == {d \in Clients \ {c} : call[d].op = op}

\* The call of op on a file, with what _get_file_stat returns.
Begin(c, op, f, off, len) ==
    /\ call' = [call EXCEPT ![c] =
                  [op |-> op, key |-> Key(f), off |-> off, len |-> len,
                   suuid |-> file_store[Key(f)].suuid, size |-> file_store[Key(f)].size,
                   number |-> IF op = "write" THEN writes' ELSE 0]]
    /\ UNCHANGED <<start, at, page, index, buf>>

\* The variables of a call are gone, and so is what its page was.
Return(c) ==
    /\ call' = [call EXCEPT ![c] = NoCall]
    /\ start' = [start EXCEPT ![c] = 0]
    /\ at' = [at EXCEPT ![c] = "loop"]
    /\ page' = [page EXCEPT ![c] = JunkPage]
    /\ index' = [index EXCEPT ![c] = 0]
    /\ buf' = [buf EXCEPT ![c] = <<>>]
    /\ contested' = [contested EXCEPT ![c] = {}]

-----------------------------------------------------------------------------
\* write

\* From now on until the end both the old and the new bytes may be found, and
\* anything in a block that another client is writing to.
BeginWrite(c) ==
    /\ Idle(c) /\ writes < MaxWrites
    /\ writes' = writes + 1
    /\ \E f \in FileNames, r \in Ranges :
         Exists(Key(f)) /\ Begin(c, "write", f, r.off, r.len)
    /\ LET k == call'[c]
           with(d) == Shared(k, call[d])
           lost == UNION {with(d) : d \in Others(c, "write")}
       IN /\ expected' = [expected EXCEPT ![k.suuid] =
                [o \in Offsets |->
                   IF o \div BlockSize \in lost \/ @[o] = {} THEN {}
                   ELSE @[o] \cup {<<writes', o - k.off>> : x \in {o} \cap Covered(k)}]]
          /\ contested' = [d \in Clients |->
                IF d = c THEN UNION {with(e) : e \in Clients \ {c}}
                ELSE contested[d] \cup with(d)]
          /\ blurred' = blurred \cup {s \in {k.suuid} : \E d \in Others(c, "write") : call[d].suuid = s}
    /\ UNCHANGED <<fmvars, pages, extent, misplaced>>

InLoop(c) == call[c].op = "write" /\ at[c] = "loop" /\ start[c] < call[c].len
FullPage(c) == block_off(c) = 0 /\ block_off(c) + block_len(c) = BlockSize

\* A slip: every block gets the first bytes of the buffer.
SplicedFromFirst(c, bytes) ==
    [b \in InPage |-> IF b \in block_off(c) .. (block_off(c) + block_len(c) - 1)
                      THEN <<call[c].number, b - block_off(c)>> ELSE bytes[b]]

\* What memcpy(page.page.data + block_off, buf + start, block_len) makes of it.
Spliced(c, bytes) ==
    [b \in InPage |-> IF b \in block_off(c) .. (block_off(c) + block_len(c) - 1)
                      THEN <<call[c].number, start[c] + b - block_off(c)>> ELSE bytes[b]]

\* Part of a block: readBlock, which sets the index of page.
FillPart(c) ==
    /\ InLoop(c) /\ ~FullPage(c)
    /\ page' = [page EXCEPT ![c] = Spliced(c, pages[blkno(c)])]
    /\ index' = [index EXCEPT ![c] = blkno(c)]
    /\ at' = [at EXCEPT ![c] = "filled"]
    /\ UNCHANGED <<fmvars, pages, call, start, buf, history>>

\* A whole block is not read, and page keeps the index that it has.
FillFull(c) ==
    /\ InLoop(c) /\ FullPage(c)
    /\ page' = [page EXCEPT ![c] = Spliced(c, page[c])]
    /\ misplaced' = (misplaced \/ index[c] # blkno(c))
    /\ at' = [at EXCEPT ![c] = "filled"]
    /\ UNCHANGED <<fmvars, pages, call, start, index, buf,
                   writes, expected, contested, extent, blurred>>

Storing(c) == at[c] \in {"storing", "spoilt"}

\* writeBlock, from its first shard ...
BeginStore(c) ==
    /\ at[c] = "filled"
    /\ LET beside == {d \in Clients \ {c} : Storing(d) /\ index[d] = index[c]}
       IN at' = [d \in Clients |->
                   IF d = c THEN IF beside = {} THEN "storing" ELSE "spoilt"
                   ELSE IF d \in beside THEN "spoilt" ELSE at[d]]
    /\ pages' = [pages EXCEPT ![index[c]] = JunkPage]
    /\ UNCHANGED <<fmvars, call, start, page, index, buf, history>>

\* ... to its last.
EndStore(c) ==
    /\ Storing(c)
    /\ pages' = IF at[c] = "storing" THEN [pages EXCEPT ![index[c]] = page[c]] ELSE pages
    /\ start' = [start EXCEPT ![c] = @ + block_len(c)]
    /\ at' = [at EXCEPT ![c] = "loop"]
    /\ UNCHANGED <<fmvars, call, page, index, buf, history>>

\* A slip: the size becomes the end of the write.
SizeEnd(old, end) == end

NewSize(old, end) == IF old > end THEN old ELSE end

\* The size of the file is updated at the end, to the larger of the size that
\* write has read at its beginning and the end of its range.  It may be another
\* file by then, or none.
EndWrite(c) ==
    /\ call[c].op = "write" /\ at[c] = "loop" /\ start[c] = call[c].len
    /\ LET k == call[c]
           end == k.off + k.len
           same == Exists(k.key) /\ file_store[k.key].suuid = k.suuid
       IN /\ IF Exists(k.key) THEN csize(k.key, NewSize(k.size, end)) ELSE UNCHANGED fmvars
          /\ extent' = IF same THEN [extent EXCEPT ![k.suuid] = IF end > @ THEN end ELSE @]
                       ELSE extent
          /\ blurred' = IF Exists(k.key) /\ ~same
                        THEN blurred \cup {file_store[k.key].suuid} ELSE blurred
          /\ expected' = [expected EXCEPT ![k.suuid] =
                [o \in Offsets |-> IF o \in Covered(k) /\ o \div BlockSize \notin contested[c]
                                   THEN {<<k.number, o - k.off>>} ELSE @[o]]]
    /\ Return(c)
    /\ UNCHANGED <<pages, writes, misplaced>>

-----------------------------------------------------------------------------
\* read

\* len is cut to the size of the file, and then a range that does not end in
\* the file is refused.
BeginRead(c) ==
    /\ Idle(c)
    /\ UNCHANGED writes
    /\ \E f \in FileNames, r \in Ranges :
         /\ Exists(Key(f))
         /\ LET n == Smaller(file_store[Key(f)].size, r.len)
            IN  IF r.off + n > file_store[Key(f)].size
                THEN Begin(c, "refused", f, r.off, r.len)
                ELSE Begin(c, "read", f, r.off, n)
    /\ contested' = [contested EXCEPT ![c] =
                        UNION {Shared(call'[c], call[d]) : d \in Others(c, "write")}]
    /\ UNCHANGED <<fmvars, pages, expected, extent, blurred, misplaced>>

ReadPart(c) ==
    /\ call[c].op = "read" /\ start[c] < call[c].len
    /\ buf' = [buf EXCEPT ![c] =
                 @ \o [i \in 1 .. block_len(c) |-> pages[blkno(c)][block_off(c) + i - 1]]]
    /\ index' = [index EXCEPT ![c] = blkno(c)]
    /\ start' = [start EXCEPT ![c] = @ + block_len(c)]
    /\ UNCHANGED <<fmvars, pages, call, at, page, history>>

EndRead(c) ==
    /\ \/ call[c].op = "read" /\ start[c] = call[c].len
       \/ call[c].op = "refused"
    /\ Return(c)
    /\ UNCHANGED <<fmvars, pages, writes, expected, extent, blurred, misplaced>>

-----------------------------------------------------------------------------
\* The client ends in the middle of a call, and another is started.  A block
\* it was storing, all of it, may be anything.
Crash(c) ==
    /\ ~Idle(c)
    /\ expected' = IF Storing(c)
                   THEN [expected EXCEPT ![call[c].suuid] =
                           [o \in Offsets |-> IF o \div BlockSize = block_num(c)
                                              THEN {} ELSE @[o]]]
                   ELSE expected
    /\ Return(c)
    /\ UNCHANGED <<fmvars, pages, writes, extent, blurred, misplaced>>

Next == \/ Create \/ Unlink \/ Missing
        \/ \E c \in Clients :
             \/ BeginWrite(c) \/ FillPart(c) \/ FillFull(c)
             \/ BeginStore(c) \/ EndStore(c) \/ EndWrite(c)
             \/ BeginRead(c) \/ ReadPart(c) \/ EndRead(c)
             \/ Crash(c)

Spec == Init /\ [][Next]_vars

-----------------------------------------------------------------------------
\* Types; a part of a range never leaves its block nor the range.
TypeOK ==
    /\ FMTypeOK
    /\ pages \in [Indices -> [InPage -> Bytes]]
    /\ \A c \in Clients :
         /\ call[c] # NoCall => /\ start[c] <= call[c].len
                                /\ block_off(c) + block_len(c) <= BlockSize
         /\ at[c] \in {"loop", "filled", "storing", "spoilt"}
         /\ page[c] \in [InPage -> Bytes]
         /\ index[c] \in Indices
         /\ Range(buf[c]) \subseteq Bytes

\* A read returns, byte for byte, what the last write to that byte of that
\* file stored, across blocks, files made over others, writes that were not
\* finished, whose bytes may be there or not, and clients that use other blocks
\* of the file, or other bytes of the block one after the other.  Nothing is
\* said of a block that is written while another call is about it, nor of one
\* whose writer ended while storing it, nor of anything once a whole block has
\* been written, which goes to the page of the block written before it or to
\* page 0 (LocofsClient.cpp:86-110, 185-200).
ReadsBack ==
    \A c \in Clients : call[c].op = "read" /\ ~misplaced =>
        \A i \in DOMAIN buf[c] :
            LET o == call[c].off + i - 1
                may == expected[call[c].suuid][o]
            IN  may = {} \/ o \div BlockSize \in contested[c] \/ buf[c][i] \in may

\* The size of a file is where the furthest complete write to it ended, unless
\* two clients wrote to it at a time or a write began on the file that had its
\* name before; and a read of bytes in the file is not refused
\* (LocofsClient.cpp:131-149, 175-183).
SizeIsExtent ==
    /\ \A k \in DOMAIN file_store :
         \/ file_store[k].suuid \in blurred
         \/ file_store[k].size = extent[file_store[k].suuid]
    /\ \A c \in Clients :
         call[c].op = "refused" => call[c].off + call[c].len > call[c].size
=============================================================================
