--------------------------- MODULE FileDataProofs ---------------------------
(***************************************************************************)
(* For any names, block sizes, hash and bounds: no two files of the file   *)
(* server share the number their blocks are placed by, and the size of a   *)
(* file is where the furthest complete write to it ended, unless two wrote *)
(* to it at a time; a file that exists is listed; and a read returns what  *)
(* was last written to each of its bytes.                                  *)
(*                                                                         *)
(* For the reads: a page holds what is expected of its block unless it is  *)
(* being stored; two calls that meet in a block, one of them writing, both *)
(* know it; and nothing is expected of a block that two write.  Hence a    *)
(* write that met no other has stored what it leaves behind as expected.   *)
(***************************************************************************)
EXTENDS FileData, EntryListProofs, TLAPS

\* Numbers are natural, so that a number below the counter is not the next.
Numbered == /\ suuid_counter \in Nat
            /\ \A k \in DOMAIN file_store : file_store[k].suuid \in Nat

FMInv == Numbered /\ NoSharedBlocks

\* The call of a client is about one of the files there have been.
Calls == [op : {"write", "read", "refused"}, key : {DirUuid} \X FileNames, off : Nat, len : Nat,
          suuid : Suuids, size : Nat, number : Nat]

CallsTyped ==
    /\ writes \in Nat
    /\ call \in [Clients -> Calls \cup {NoCall}]
    /\ \A c \in Clients : call[c].op = "refused" => call[c].off + call[c].len > call[c].size

\* A write knows the size of its file as long as it is the only one.
SizeKnown ==
    \A c \in Clients : call[c].op = "write" =>
        /\ call[c].suuid < suuid_counter
        /\ call[c].suuid \in blurred \/ call[c].size = extent[call[c].suuid]

RivalsBlur ==
    \A c, d \in Clients :
        c # d /\ call[c].op = "write" /\ call[d].op = "write" /\ call[c].suuid = call[d].suuid
            => call[c].suuid \in blurred

\* No file yet to come has an extent.
Extents ==
    /\ extent \in [Suuids -> Nat]
    /\ suuid_counter <= MaxFiles
    /\ \A s \in Suuids : s >= suuid_counter => extent[s] = 0
    /\ \A k \in DOMAIN file_store :
         /\ file_store[k].size \in Nat
         /\ \/ file_store[k].suuid \in blurred
            \/ file_store[k].size = extent[file_store[k].suuid]

SizeInv == FMInv /\ CallsTyped /\ SizeKnown /\ RivalsBlur /\ Extents

LEMMA CreateKeeps ==
  ASSUME FMInv, NEW k, create(k)
  PROVE  FMInv'
  <1> DEFINE made == [suuid |-> suuid_counter, size |-> 0]
  <1>1. /\ DOMAIN file_store' = DOMAIN file_store \cup {k}
        /\ file_store'[k] = made
        /\ \A l \in DOMAIN file_store : l # k => file_store'[l] = file_store[l]
    BY Zenon DEF create
  <1>2. suuid_counter' = suuid_counter + 1 /\ suuid_counter \in Nat
    BY DEF create, FMInv, Numbered
  <1>3. made.suuid = suuid_counter
    OBVIOUS
  <1>4. \A l \in DOMAIN file_store : /\ file_store[l].suuid # suuid_counter
                                     /\ file_store[l].suuid \in Nat
                                     /\ file_store[l].suuid < suuid_counter + 1
    BY <1>2 DEF FMInv, Numbered, NoSharedBlocks
  <1>5. Numbered'
    BY <1>1, <1>2, <1>3, <1>4 DEF Numbered
  <1>6. NoSharedBlocks'
    <2>1. \A l, m \in DOMAIN file_store' :
              file_store'[l].suuid = file_store'[m].suuid => l = m
      BY <1>1, <1>3, <1>4 DEF FMInv, NoSharedBlocks
    <2>2. \A l \in DOMAIN file_store' : file_store'[l].suuid < suuid_counter'
      BY <1>1, <1>2, <1>3, <1>4
    <2>3. QED
      BY <2>1, <2>2 DEF NoSharedBlocks
  <1>7. QED
    BY <1>5, <1>6 DEF FMInv

LEMMA RemoveKeeps ==
  ASSUME FMInv, NEW k, remove(k)
  PROVE  FMInv'
  <1>1. /\ DOMAIN file_store' \subseteq DOMAIN file_store
        /\ \A l \in DOMAIN file_store' : file_store'[l] = file_store[l]
        /\ suuid_counter' = suuid_counter
    BY Zenon DEF remove
  <1>2. QED
    BY <1>1 DEF FMInv, Numbered, NoSharedBlocks

\* A new size leaves every number as it was.
LEMMA CsizeKeeps ==
  ASSUME FMInv, NEW k, NEW n, csize(k, n)
  PROVE  FMInv'
  <1>1. /\ DOMAIN file_store' = DOMAIN file_store
        /\ \A l \in DOMAIN file_store : l # k => file_store'[l] = file_store[l]
        /\ file_store'[k] = [suuid |-> file_store[k].suuid, size |-> n]
        /\ suuid_counter' = suuid_counter
    BY DEF csize, Exists
  <1>2. \A l \in DOMAIN file_store : file_store'[l].suuid = file_store[l].suuid
    BY <1>1
  <1>3. QED
    BY <1>1, <1>2 DEF FMInv, Numbered, NoSharedBlocks

LEMMA FMStep == FMInv /\ [Next]_vars => FMInv'
  <1> SUFFICES ASSUME FMInv, [Next]_vars PROVE FMInv'
    OBVIOUS
  <1>1. CASE Create
    BY <1>1, CreateKeeps DEF Create
  <1>2. CASE Unlink
    BY <1>2, RemoveKeeps DEF Unlink
  <1>3. ASSUME NEW c \in Clients, EndWrite(c) PROVE FMInv'
    <2>1. CASE Exists(call[c].key)
      <3>1. \E n : csize(call[c].key, n)
        BY <1>3, <2>1 DEF EndWrite
      <3>2. QED
        BY <3>1, CsizeKeeps
    <2>2. CASE ~Exists(call[c].key)
      <3>1. UNCHANGED fmvars
        BY <1>3, <2>2 DEF EndWrite
      <3>2. QED
        BY <3>1 DEF fmvars, FMInv, Numbered, NoSharedBlocks
    <2>3. QED
      BY <2>1, <2>2
  <1>4. CASE \/ Missing \/ UNCHANGED vars
             \/ \E c \in Clients :
                  \/ BeginWrite(c) \/ FillPart(c) \/ FillFull(c) \/ BeginStore(c) \/ EndStore(c)
                  \/ BeginRead(c) \/ ReadPart(c) \/ EndRead(c) \/ Crash(c)
    <2>1. UNCHANGED fmvars
      BY <1>4 DEF Missing, BeginWrite, FillPart, FillFull, BeginStore, EndStore,
                  BeginRead, ReadPart, EndRead, Crash, vars
    <2>2. QED
      BY <2>1 DEF fmvars, FMInv, Numbered, NoSharedBlocks
  <1>5. QED
    BY <1>1, <1>2, <1>3, <1>4 DEF Next

\* Files never share blocks by sharing a number, however often they are made
\* over each other, resized and removed (FMStore.cpp:88-197).
THEOREM BlocksUnshared == Spec => []NoSharedBlocks
  <1>1. Init => FMInv
    BY DEF Init, FMInit, FMInv, Numbered, NoSharedBlocks
  <1>2. FMInv => NoSharedBlocks
    BY DEF FMInv
  <1>3. QED
    BY <1>1, <1>2, FMStep, PTL DEF Spec

-----------------------------------------------------------------------------
\* Nothing that the size of a file depends on has changed.
Same == UNCHANGED <<fmvars, extent, blurred>>

LEMMA SuuidTyped ==
  ASSUME SizeInv, NEW k \in DOMAIN file_store
  PROVE  /\ file_store[k].suuid \in Suuids
         /\ file_store[k].size \in Nat
  <1>1. file_store[k].suuid \in Nat /\ file_store[k].suuid < MaxFiles
    BY BoundAssumption DEF SizeInv, FMInv, Numbered, NoSharedBlocks, Extents
  <1>2. file_store[k].suuid \in Suuids
    BY <1>1, BoundAssumption DEF Suuids
  <1>3. QED
    BY <1>2 DEF SizeInv, Extents

LEMMA SameExtents == Extents /\ Same => Extents'
  BY DEF Extents, Same, fmvars

LEMMA SameFM == FMInv /\ Same => FMInv'
  BY DEF FMInv, Numbered, NoSharedBlocks, Same, fmvars

\* A call that begins: its file is there.
LEMMA BeginTyped ==
  ASSUME SizeInv, NEW c \in Clients,
         NEW op \in {"write", "read", "refused"}, NEW f \in FileNames,
         NEW off \in Nat, NEW len \in Nat, writes' \in Nat,
         Exists(Key(f)), Begin(c, op, f, off, len),
         op = "refused" => off + len > file_store[Key(f)].size
  PROVE  /\ CallsTyped'
         /\ \A d \in Clients : d # c => call'[d] = call[d]
         /\ call'[c].op = op
         /\ call'[c].suuid = file_store[Key(f)].suuid
         /\ call'[c].size = file_store[Key(f)].size
  <1> DEFINE file == file_store[Key(f)]
             k == [op |-> op, key |-> Key(f), off |-> off, len |-> len,
                   suuid |-> file.suuid, size |-> file.size,
                   number |-> IF op = "write" THEN writes' ELSE 0]
  <1>1. Key(f) \in DOMAIN file_store
    BY DEF Exists
  <1>2. file.suuid \in Suuids /\ file.size \in Nat
    BY <1>1, SuuidTyped
  <1>3. Key(f) \in {DirUuid} \X FileNames
    BY DEF Key
  <1>4. call' = [call EXCEPT ![c] = k]
    BY DEF Begin
  <1>5. k \in Calls
    BY <1>2, <1>3 DEF Calls
  <1>6. /\ call' \in [Clients -> Calls \cup {NoCall}]
        /\ call'[c] = k
        /\ \A d \in Clients : d # c => call'[d] = call[d]
    BY <1>4, <1>5 DEF SizeInv, CallsTyped
  <1>7. CallsTyped'
    BY <1>6 DEF SizeInv, CallsTyped
  <1>8. QED
    BY <1>6, <1>7

LEMMA ReturnTyped ==
  ASSUME SizeInv, NEW c \in Clients, Return(c), UNCHANGED writes
  PROVE  /\ CallsTyped'
         /\ call'[c].op # "write"
         /\ \A d \in Clients : d # c => call'[d] = call[d]
  <1>1. /\ call' \in [Clients -> Calls \cup {NoCall}]
        /\ call'[c] = [op |-> "none"]
        /\ \A d \in Clients : d # c => call'[d] = call[d]
    BY DEF Return, SizeInv, CallsTyped, NoCall
  <1>2. QED
    BY <1>1 DEF SizeInv, CallsTyped

\* A call ends and no size or extent changes.
LEMMA ReturnKeeps ==
  ASSUME SizeInv, Same, NEW c \in Clients, Return(c), UNCHANGED writes
  PROVE  SizeInv'
  <1>1. /\ CallsTyped'
        /\ call'[c].op # "write"
        /\ \A d \in Clients : d # c => call'[d] = call[d]
    BY ReturnTyped
  <1>2. SizeKnown' /\ RivalsBlur'
    BY <1>1 DEF SizeInv, SizeKnown, RivalsBlur, Same, fmvars
  <1>3. QED
    BY <1>1, <1>2, SameExtents, SameFM DEF SizeInv

LEMMA LoopKeeps ==
  ASSUME SizeInv, Same, UNCHANGED <<call, writes>>
  PROVE  SizeInv'
  <1>1. CallsTyped' /\ SizeKnown' /\ RivalsBlur'
    BY DEF SizeInv, CallsTyped, SizeKnown, RivalsBlur, Same, fmvars
  <1>2. QED
    BY <1>1, SameExtents, SameFM DEF SizeInv

-----------------------------------------------------------------------------
LEMMA SizeCreate ==
  ASSUME SizeInv, Create
  PROVE  SizeInv'
  <1>1. PICK f \in FileNames : create(Key(f))
    BY DEF Create
  <1> DEFINE new == Key(f)
  <1>2. /\ suuid_counter' = suuid_counter + 1
        /\ suuid_counter \in Nat
        /\ suuid_counter < MaxFiles
        /\ UNCHANGED <<call, writes, extent, blurred>>
    BY <1>1 DEF Create, create, SizeInv, FMInv, Numbered, callvars, history
  <1>3. /\ DOMAIN file_store' = DOMAIN file_store \cup {new}
        /\ file_store'[new] = [suuid |-> suuid_counter, size |-> 0]
        /\ \A l \in DOMAIN file_store : l # new => file_store'[l] = file_store[l]
    BY <1>1, Zenon DEF create
  <1>4. suuid_counter \in Suuids /\ suuid_counter + 1 <= MaxFiles
    BY <1>2, BoundAssumption DEF Suuids
  <1>5. extent[suuid_counter] = 0
    BY <1>2, <1>4 DEF SizeInv, Extents
  <1>6. \A k \in DOMAIN file_store' :
          /\ file_store'[k].size \in Nat
          /\ \/ file_store'[k].suuid \in blurred
             \/ file_store'[k].size = extent[file_store'[k].suuid]
    BY <1>3, <1>5 DEF SizeInv, Extents
  <1>7. \A s \in Suuids : s >= suuid_counter + 1 => extent[s] = 0
    BY <1>2, BoundAssumption DEF SizeInv, Extents, Suuids
  <1>8. Extents'
    BY <1>2, <1>4, <1>6, <1>7 DEF SizeInv, Extents
  <1>9. ASSUME NEW c \in Clients, call[c].op = "write"
        PROVE  call[c].suuid < suuid_counter + 1
    <2>1. call[c].suuid \in Suuids
      BY <1>9 DEF SizeInv, CallsTyped, Calls, NoCall
    <2>2. QED
      BY <1>2, <1>9, <2>1, BoundAssumption DEF SizeInv, SizeKnown, Suuids
  <1>10. CallsTyped' /\ SizeKnown' /\ RivalsBlur'
    BY <1>2, <1>9 DEF SizeInv, CallsTyped, SizeKnown, RivalsBlur
  <1>11. QED
    BY <1>1, <1>8, <1>10, CreateKeeps DEF SizeInv

LEMMA SizeUnlink ==
  ASSUME SizeInv, Unlink
  PROVE  SizeInv'
  <1>1. PICK f \in FileNames : remove(Key(f))
    BY DEF Unlink
  <1>2. /\ DOMAIN file_store' \subseteq DOMAIN file_store
        /\ \A l \in DOMAIN file_store' : file_store'[l] = file_store[l]
        /\ suuid_counter' = suuid_counter
    BY <1>1, Zenon DEF remove
  <1>3. UNCHANGED <<call, writes, extent, blurred>>
    BY DEF Unlink, callvars, history
  <1>4. Extents'
    BY <1>2, <1>3 DEF SizeInv, Extents
  <1>5. CallsTyped' /\ SizeKnown' /\ RivalsBlur'
    BY <1>2, <1>3 DEF SizeInv, CallsTyped, SizeKnown, RivalsBlur
  <1>6. QED
    BY <1>1, <1>4, <1>5, RemoveKeeps DEF SizeInv

\* If the write was alone, the size it knows is still that of its file, so the
\* larger of it and of the end of the range is the new extent.
LEMMA SizeEndWrite ==
  ASSUME SizeInv, NEW c \in Clients, EndWrite(c)
  PROVE  SizeInv'
  <1> DEFINE k == call[c]
             end == k.off + k.len
             file == file_store[k.key]
             same == Exists(k.key) /\ file.suuid = k.suuid
  <1>1. k \in Calls /\ k.op = "write"
    BY DEF EndWrite, SizeInv, CallsTyped, NoCall
  <1>2. end \in Nat /\ k.suuid \in Suuids /\ k.size \in Nat /\ NewSize(k.size, end) \in Nat
    BY <1>1 DEF Calls, NewSize
  <1>3. /\ IF Exists(k.key) THEN csize(k.key, NewSize(k.size, end)) ELSE UNCHANGED fmvars
        /\ extent' = IF same THEN [extent EXCEPT ![k.suuid] = IF end > @ THEN end ELSE @]
                     ELSE extent
        /\ blurred' = IF Exists(k.key) /\ ~same THEN blurred \cup {file.suuid} ELSE blurred
        /\ UNCHANGED writes
    BY DEF EndWrite
  <1>4. /\ CallsTyped'
        /\ call'[c].op # "write"
        /\ \A d \in Clients : d # c => call'[d] = call[d]
    BY <1>3, ReturnTyped DEF EndWrite
  <1>5. /\ DOMAIN file_store' = DOMAIN file_store
        /\ \A l \in DOMAIN file_store : l # k.key => file_store'[l] = file_store[l]
        /\ Exists(k.key) => file_store'[k.key] = [suuid |-> file.suuid,
                                                  size |-> NewSize(k.size, end)]
        /\ suuid_counter' = suuid_counter
    BY <1>3, Zenon DEF csize, Exists, fmvars
  <1>6. /\ extent' \in [Suuids -> Nat]
        /\ \A s \in Suuids : s # k.suuid => extent'[s] = extent[s]
        /\ same => extent'[k.suuid] = IF end > extent[k.suuid] THEN end ELSE extent[k.suuid]
        /\ ~same => extent' = extent
    BY <1>2, <1>3 DEF SizeInv, Extents
  <1>7. k.suuid < suuid_counter /\ (k.suuid \in blurred \/ k.size = extent[k.suuid])
    BY <1>1 DEF SizeInv, SizeKnown
  <1>8. blurred \subseteq blurred'
    BY <1>3
  <1>9. FMInv'
    <2>1. CASE Exists(k.key)
      BY <1>3, <2>1, CsizeKeeps DEF SizeInv
    <2>2. CASE ~Exists(k.key)
      BY <1>3, <2>2 DEF fmvars, SizeInv, FMInv, Numbered, NoSharedBlocks
    <2>3. QED
      BY <2>1, <2>2
  <1>10. ASSUME NEW l \in DOMAIN file_store'
         PROVE  /\ file_store'[l].size \in Nat
                /\ \/ file_store'[l].suuid \in blurred'
                   \/ file_store'[l].size = extent'[file_store'[l].suuid]
    <2>1. CASE l = k.key /\ same
      <3>1. /\ file_store'[l].suuid = k.suuid
            /\ file_store'[l].size = NewSize(k.size, end)
        BY <1>5, <2>1
      <3>2. CASE k.suuid \in blurred
        BY <1>2, <1>8, <3>1, <3>2
      <3>3. CASE k.size = extent[k.suuid]
        BY <1>2, <1>6, <2>1, <3>1, <3>3 DEF NewSize
      <3>4. QED
        BY <1>7, <3>2, <3>3
    <2>2. CASE l = k.key /\ ~same
      <3>1. Exists(k.key)
        BY <1>5, <2>2 DEF Exists
      <3>2. file_store'[l].suuid \in blurred' /\ file_store'[l].size \in Nat
        BY <1>2, <1>3, <1>5, <2>2, <3>1
      <3>3. QED
        BY <3>2
    <2>3. CASE l # k.key
      <3>1. file_store'[l] = file_store[l] /\ l \in DOMAIN file_store
        BY <2>3, <1>5
      <3>2. file_store[l].suuid \in Suuids /\ file_store[l].size \in Nat
        BY <3>1, SuuidTyped
      <3>3. same => file_store[l].suuid # k.suuid
        BY <2>3, <3>1 DEF SizeInv, FMInv, NoSharedBlocks, Exists
      <3>4. extent'[file_store[l].suuid] = extent[file_store[l].suuid]
        BY <1>6, <3>2, <3>3
      <3>5. QED
        BY <1>8, <3>1, <3>2, <3>4 DEF SizeInv, Extents
    <2>4. QED
      BY <2>1, <2>2, <2>3
  <1>11. ASSUME NEW s \in Suuids, s >= suuid_counter PROVE extent'[s] = 0
    <2>1. s # k.suuid
      BY <1>2, <1>7, <1>11, BoundAssumption DEF Suuids, SizeInv, FMInv, Numbered
    <2>2. QED
      BY <2>1, <1>6, <1>11 DEF SizeInv, Extents
  <1>12. Extents'
    BY <1>5, <1>6, <1>10, <1>11 DEF SizeInv, Extents
  <1>13. SizeKnown'
    <2> SUFFICES ASSUME NEW d \in Clients, call'[d].op = "write"
                 PROVE  /\ call'[d].suuid < suuid_counter'
                        /\ \/ call'[d].suuid \in blurred'
                           \/ call'[d].size = extent'[call'[d].suuid]
      BY DEF SizeKnown
    <2>1. d # c /\ call'[d] = call[d] /\ call[d].op = "write"
      BY <1>4
    <2>2. call[d].suuid \in Suuids
      BY <2>1 DEF SizeInv, CallsTyped, Calls, NoCall
    <2>3. /\ call[d].suuid < suuid_counter
          /\ call[d].suuid \in blurred \/ call[d].size = extent[call[d].suuid]
      BY <2>1 DEF SizeInv, SizeKnown
    <2>4. CASE call[d].suuid = k.suuid
      <3>1. k.suuid \in blurred
        BY <1>1, <2>1, <2>4 DEF SizeInv, RivalsBlur
      <3>2. QED
        BY <1>5, <1>8, <2>1, <2>3, <2>4, <3>1
    <2>5. CASE call[d].suuid # k.suuid
      BY <1>5, <1>6, <1>8, <2>1, <2>2, <2>3, <2>5
    <2>6. QED
      BY <2>4, <2>5
  <1>14. RivalsBlur'
    BY <1>4, <1>8 DEF SizeInv, RivalsBlur
  <1>15. QED
    BY <1>4, <1>9, <1>12, <1>13, <1>14 DEF SizeInv

-----------------------------------------------------------------------------
LEMMA SizeBeginWrite ==
  ASSUME SizeInv, NEW c \in Clients, BeginWrite(c)
  PROVE  SizeInv'
  <1>1. PICK f \in FileNames, r \in Ranges :
          Exists(Key(f)) /\ Begin(c, "write", f, r.off, r.len)
    BY DEF BeginWrite
  <1> DEFINE file == file_store[Key(f)]
             s == file.suuid
  <1>2. r.off \in Nat /\ r.len \in Nat
    BY BlockAssumption DEF Ranges, Offsets
  <1>3. writes' \in Nat /\ UNCHANGED <<fmvars, extent>>
    BY DEF BeginWrite, SizeInv, CallsTyped
  <1>4. /\ CallsTyped'
        /\ \A d \in Clients : d # c => call'[d] = call[d]
        /\ call'[c].op = "write"
        /\ call'[c].suuid = s
        /\ call'[c].size = file.size
    BY <1>1, <1>2, <1>3, BeginTyped
  <1>5. /\ blurred \subseteq blurred'
        /\ \A d \in Clients \ {c} : call[d].op = "write" /\ call[d].suuid = s => s \in blurred'
    BY <1>4 DEF BeginWrite, Others
  <1>6. Key(f) \in DOMAIN file_store
    BY <1>1 DEF Exists
  <1>7. SizeKnown'
    <2>1. s < suuid_counter /\ (s \in blurred \/ file.size = extent[s])
      BY <1>6 DEF SizeInv, FMInv, NoSharedBlocks, Extents
    <2>2. QED
      BY <1>3, <1>4, <1>5, <2>1 DEF SizeInv, SizeKnown, fmvars
  <1>8. RivalsBlur'
    BY <1>4, <1>5 DEF SizeInv, RivalsBlur
  <1>9. Extents'
    BY <1>3, <1>5 DEF SizeInv, Extents, fmvars
  <1>10. FMInv'
    BY <1>3 DEF SizeInv, FMInv, Numbered, NoSharedBlocks, fmvars
  <1>11. QED
    BY <1>4, <1>7, <1>8, <1>9, <1>10 DEF SizeInv

\* A read or a refusal of it that begins.
LEMMA LookKeeps ==
  ASSUME SizeInv, Same, UNCHANGED writes, NEW c \in Clients,
         NEW op \in {"read", "refused"}, NEW f \in FileNames,
         NEW off \in Nat, NEW len \in Nat,
         Exists(Key(f)), Begin(c, op, f, off, len),
         op = "refused" => off + len > file_store[Key(f)].size
  PROVE  SizeInv'
  <1>1. op \in {"write", "read", "refused"} /\ op # "write"
    OBVIOUS
  <1>2. writes' \in Nat
    BY DEF SizeInv, CallsTyped
  <1>3. /\ CallsTyped'
        /\ \A d \in Clients : d # c => call'[d] = call[d]
        /\ call'[c].op = op
    BY <1>1, <1>2, BeginTyped
  <1>4. SizeKnown' /\ RivalsBlur'
    BY <1>1, <1>3 DEF SizeInv, SizeKnown, RivalsBlur, Same, fmvars
  <1>5. QED
    BY <1>3, <1>4, SameExtents, SameFM DEF SizeInv

LEMMA SizeBeginRead ==
  ASSUME SizeInv, NEW c \in Clients, BeginRead(c)
  PROVE  SizeInv'
  <1>1. PICK f \in FileNames, r \in Ranges :
          /\ Exists(Key(f))
          /\ LET n == Smaller(file_store[Key(f)].size, r.len)
             IN  IF r.off + n > file_store[Key(f)].size
                 THEN Begin(c, "refused", f, r.off, r.len)
                 ELSE Begin(c, "read", f, r.off, n)
    BY DEF BeginRead
  <1> DEFINE n == Smaller(file_store[Key(f)].size, r.len)
  <1>2. r.off \in Nat /\ r.len \in Nat
    BY BlockAssumption DEF Ranges, Offsets
  <1>3. file_store[Key(f)].size \in Nat
    BY <1>1, SuuidTyped DEF Exists
  <1>4. n \in Nat /\ n <= r.len
    BY <1>2, <1>3 DEF Smaller
  <1>5. Same /\ UNCHANGED writes
    BY DEF BeginRead, Same
  <1>6. CASE r.off + n > file_store[Key(f)].size
    <2>1. Begin(c, "refused", f, r.off, r.len)
      BY <1>1, <1>6
    <2>2. r.off + r.len > file_store[Key(f)].size
      BY <1>2, <1>3, <1>4, <1>6
    <2>3. QED
      BY <1>1, <1>2, <1>5, <2>1, <2>2, LookKeeps
  <1>7. CASE ~(r.off + n > file_store[Key(f)].size)
    <2>1. Begin(c, "read", f, r.off, n)
      BY <1>1, <1>7
    <2>2. QED
      BY <1>1, <1>2, <1>4, <1>5, <2>1, LookKeeps
  <1>8. QED
    BY <1>6, <1>7

LEMMA SizeInit == Init => SizeInv
  <1> SUFFICES ASSUME Init PROVE SizeInv
    OBVIOUS
  <1>1. FMInv
    BY DEF Init, FMInit, FMInv, Numbered, NoSharedBlocks
  <1>2. CallsTyped /\ SizeKnown /\ RivalsBlur
    BY DEF Init, CallsTyped, SizeKnown, RivalsBlur, NoCall
  <1>3. Extents
    BY BoundAssumption DEF Init, FMInit, Extents
  <1>4. QED
    BY <1>1, <1>2, <1>3 DEF SizeInv

LEMMA SizeStep == SizeInv /\ [Next]_vars => SizeInv'
  <1> SUFFICES ASSUME SizeInv, [Next]_vars PROVE SizeInv'
    OBVIOUS
  <1>1. CASE Create
    BY <1>1, SizeCreate
  <1>2. CASE Unlink
    BY <1>2, SizeUnlink
  <1>3. CASE Missing \/ UNCHANGED vars
    <2>1. Same /\ UNCHANGED <<call, writes>>
      BY <1>3 DEF Missing, vars, callvars, history, Same
    <2>2. QED
      BY <2>1, LoopKeeps
  <1>4. ASSUME NEW c \in Clients,
               \/ BeginWrite(c) \/ FillPart(c) \/ FillFull(c) \/ BeginStore(c) \/ EndStore(c)
               \/ EndWrite(c) \/ BeginRead(c) \/ ReadPart(c) \/ EndRead(c) \/ Crash(c)
        PROVE  SizeInv'
    <2>1. CASE FillPart(c) \/ FillFull(c) \/ BeginStore(c) \/ EndStore(c) \/ ReadPart(c)
      <3>1. Same /\ UNCHANGED <<call, writes>>
        BY <2>1 DEF FillPart, FillFull, BeginStore, EndStore, ReadPart, history, Same
      <3>2. QED
        BY <3>1, LoopKeeps
    <2>2. CASE EndRead(c) \/ Crash(c)
      <3>1. Same /\ Return(c) /\ UNCHANGED writes
        BY <2>2 DEF EndRead, Crash, Same
      <3>2. QED
        BY <3>1, ReturnKeeps
    <2>3. QED
      BY <1>4, <2>1, <2>2, SizeBeginWrite, SizeEndWrite, SizeBeginRead
  <1>5. QED
    BY <1>1, <1>2, <1>3, <1>4 DEF Next

\* The size of a file is always where the furthest complete write to it ended,
\* whatever was made over others or interrupted, unless two clients wrote to it
\* at a time or a write began on the file before it; a refused read asked for
\* bytes behind it (LocofsClient.cpp:131-149, 175-183, FMStore.cpp:88-197).
THEOREM SizesRight == Spec => []SizeIsExtent
  <1>1. SizeInv => SizeIsExtent
    BY DEF SizeInv, Extents, CallsTyped, SizeIsExtent
  <1>2. QED
    BY SizeInit, SizeStep, <1>1, PTL DEF Spec
-----------------------------------------------------------------------------
\* Where a write is in its range, and that what it holds are bytes of writes.
InRange ==
    \A c \in Clients :
        /\ start[c] \in Nat
        /\ call[c] # NoCall => /\ start[c] <= call[c].len
                               /\ call[c].off + call[c].len <= MaxLength
        /\ call[c].op = "write" => call[c].number \in 1 .. MaxWrites
        /\ Idle(c) => at[c] = "loop" /\ start[c] = 0

PagesTyped == pages \in [Indices -> [InPage -> Bytes]]

LoopTyped ==
    /\ start \in [Clients -> Nat]
    /\ at \in [Clients -> {"loop", "filled", "storing", "spoilt"}]
    /\ page \in [Clients -> [InPage -> Bytes]]
    /\ index \in [Clients -> Indices]
    /\ buf \in [Clients -> Seq(Bytes)]

KeysTyped ==
    /\ DOMAIN file_store \subseteq Nat \X FileNames
    /\ \A k \in DOMAIN file_store :
         file_store[k] = [suuid |-> file_store[k].suuid, size |-> file_store[k].size]

TypeInv == /\ SizeInv /\ KeysTyped
           /\ LoopTyped /\ PagesTyped /\ InRange

\* A part of a block, and the part of the range it is.
LEMMA PartFits ==
  ASSUME TypeInv, NEW c \in Clients, call[c] # NoCall
  PROVE  /\ call[c] \in Calls
         /\ start[c] \in Nat /\ block_off(c) \in Nat /\ block_len(c) \in Nat
         /\ start[c] + block_len(c) <= call[c].len
         /\ block_off(c) + block_len(c) <= BlockSize
         /\ call[c].len <= MaxLength
         /\ start[c] < call[c].len => blkno(c) \in Indices
  <1>1. call[c] \in Calls
    BY DEF TypeInv, SizeInv, CallsTyped
  <1>2. /\ start[c] \in Nat /\ start[c] <= call[c].len
        /\ call[c].off + call[c].len <= MaxLength
        /\ call[c].off \in Nat /\ call[c].len \in Nat /\ call[c].suuid \in Suuids
    BY <1>1 DEF TypeInv, InRange, Calls
  <1>3. offset(c) \in Nat
    BY <1>2 DEF offset
  <1>4. block_off(c) \in 0 .. BlockSize - 1
    BY <1>3, BlockAssumption DEF block_off
  <1>5. /\ block_len(c) \in Nat
        /\ block_len(c) <= BlockSize - block_off(c)
        /\ block_len(c) <= call[c].len - start[c]
    BY <1>2, <1>4, BlockAssumption DEF block_len, Smaller
  <1>6. ASSUME start[c] < call[c].len
        PROVE  blkno(c) \in Indices
    <2>1. offset(c) \in Offsets
      BY <1>2, <1>6, BlockAssumption DEF offset, Offsets
    <2>2. hashObj(call[c].suuid, offset(c) \div BlockSize) \in Nat
      BY <1>2, <2>1, HashAssumption
    <2>3. QED
      BY <2>2, BlockAssumption DEF blkno, block_num, PageOf, Indices
  <1>7. QED
    BY <1>1, <1>2, <1>4, <1>5, <1>6, BlockAssumption

\* What a write puts into a page are bytes.
LEMMA SplicedTyped ==
  ASSUME TypeInv, NEW c \in Clients, call[c].op = "write", NEW bytes \in [InPage -> Bytes]
  PROVE  Spliced(c, bytes) \in [InPage -> Bytes]
  <1> SUFFICES ASSUME NEW b \in InPage,
                      b \in block_off(c) .. (block_off(c) + block_len(c) - 1)
               PROVE  <<call[c].number, start[c] + b - block_off(c)>> \in Bytes
    BY DEF Spliced
  <1>1. call[c] # NoCall
    BY DEF NoCall
  <1>2. call[c].number \in 1 .. MaxWrites
    BY DEF TypeInv, InRange
  <1>3. start[c] + b - block_off(c) \in Offsets
    <2>1. /\ call[c] \in Calls
          /\ start[c] \in Nat /\ block_off(c) \in Nat /\ block_len(c) \in Nat
          /\ start[c] + block_len(c) <= call[c].len
          /\ call[c].len <= MaxLength
      BY <1>1, PartFits
    <2>2. call[c].len \in Nat
      BY <2>1 DEF Calls
    <2>3. b \in Nat /\ b >= block_off(c) /\ b < block_off(c) + block_len(c)
      BY <2>1 DEF InPage
    <2>4. QED
      BY <2>1, <2>2, <2>3, BlockAssumption DEF Offsets
  <1>4. QED
    BY <1>2, <1>3 DEF Bytes

LEMMA JunkTyped == JunkPage \in [InPage -> Bytes]
  BY DEF JunkPage, Bytes

\* The same in the next state, for one client that moves.
LEMMA OthersUnmoved ==
  ASSUME TypeInv, NEW c \in Clients,
         \A d \in Clients : d # c => /\ call'[d] = call[d] /\ start'[d] = start[d]
                                    /\ at'[d] = at[d],
         start'[c] \in Nat,
         call'[c] # NoCall => /\ start'[c] <= call'[c].len
                              /\ call'[c].off + call'[c].len <= MaxLength,
         call'[c].op = "write" => call'[c].number \in 1 .. MaxWrites,
         call'[c] = NoCall => at'[c] = "loop" /\ start'[c] = 0
  PROVE  InRange'
  BY DEF TypeInv, InRange, Idle

LEMMA ReturnLoop ==
  ASSUME TypeInv, NEW c \in Clients, Return(c), UNCHANGED <<pages, writes>>
  PROVE  LoopTyped' /\ PagesTyped' /\ InRange'
  <1>1. 0 \in Indices /\ <<>> \in Seq(Bytes)
    BY BlockAssumption DEF Indices
  <1>2. LoopTyped' /\ PagesTyped'
    BY <1>1, JunkTyped DEF TypeInv, LoopTyped, PagesTyped, Return
  <1>3. call' = [call EXCEPT ![c] = NoCall] /\ call \in [Clients -> Calls \cup {NoCall}]
    BY DEF Return, TypeInv, SizeInv, CallsTyped
  <1>4. /\ call'[c] = NoCall /\ start'[c] = 0 /\ at'[c] = "loop"
        /\ \A d \in Clients : d # c => /\ call'[d] = call[d] /\ start'[d] = start[d]
                                       /\ at'[d] = at[d]
    BY <1>3 DEF Return, TypeInv, LoopTyped
  <1>5. NoCall.op # "write"
    BY DEF NoCall
  <1>6. InRange'
    BY <1>4, <1>5, OthersUnmoved
  <1>7. QED
    BY <1>2, <1>6

LEMMA BeginLoop ==
  ASSUME TypeInv, NEW c \in Clients, Idle(c), UNCHANGED pages,
         NEW op, NEW f, NEW off \in Nat, NEW len \in Nat,
         Begin(c, op, f, off, len), off + len <= MaxLength,
         op = "write" => writes' \in 1 .. MaxWrites
  PROVE  LoopTyped' /\ PagesTyped' /\ InRange'
  <1>1. UNCHANGED <<start, at, page, index, buf>>
    BY DEF Begin
  <1>2. LoopTyped' /\ PagesTyped'
    BY <1>1 DEF TypeInv, LoopTyped, PagesTyped
  <1>3. /\ \A d \in Clients : d # c => call'[d] = call[d]
        /\ call'[c].op = op /\ call'[c].off = off /\ call'[c].len = len
        /\ call'[c].number = IF op = "write" THEN writes' ELSE 0
        /\ call'[c] = [op |-> op, key |-> Key(f), off |-> off, len |-> len,
                       suuid |-> file_store[Key(f)].suuid, size |-> file_store[Key(f)].size,
                       number |-> IF op = "write" THEN writes' ELSE 0]
    BY DEF Begin, TypeInv, SizeInv, CallsTyped
  <1>4. start[c] = 0 /\ at[c] = "loop"
    BY DEF TypeInv, InRange
  <1>5. InRange'
    BY <1>1, <1>3, <1>4, OthersUnmoved
  <1>6. QED
    BY <1>2, <1>5

\* A step in the loop of a write or a read: start goes on at most to the end.
LEMMA LoopMoves ==
  ASSUME TypeInv, NEW c \in Clients, call[c] # NoCall, UNCHANGED call,
         \A d \in Clients : d # c => start'[d] = start[d] /\ (at[d] = "loop" => at'[d] = "loop"),
         start'[c] = start[c] \/ start'[c] = start[c] + block_len(c)
  PROVE  InRange'
  <1>1. /\ start[c] \in Nat /\ block_len(c) \in Nat
        /\ start[c] + block_len(c) <= call[c].len
        /\ start[c] <= call[c].len
    BY PartFits DEF TypeInv, InRange
  <1>2. start'[c] \in Nat /\ start'[c] <= call[c].len
    BY <1>1
  <1>3. QED
    BY <1>2 DEF TypeInv, InRange, Idle

-----------------------------------------------------------------------------
LEMMA FillLoop ==
  ASSUME TypeInv, NEW c \in Clients, FillPart(c) \/ FillFull(c)
  PROVE  LoopTyped' /\ PagesTyped' /\ InRange'
  <1>1. /\ call[c].op = "write" /\ start[c] < call[c].len /\ call[c] # NoCall
        /\ UNCHANGED <<pages, call, start, buf>>
        /\ at' = [at EXCEPT ![c] = "filled"]
    BY DEF FillPart, FillFull, InLoop, NoCall
  <1>2. blkno(c) \in Indices
    BY <1>1, PartFits
  <1>3. pages[blkno(c)] \in [InPage -> Bytes] /\ page[c] \in [InPage -> Bytes]
    BY <1>2 DEF TypeInv, PagesTyped, LoopTyped
  <1>4. /\ Spliced(c, pages[blkno(c)]) \in [InPage -> Bytes]
        /\ Spliced(c, page[c]) \in [InPage -> Bytes]
    BY <1>1, <1>3, SplicedTyped
  <1>5. page' \in [Clients -> [InPage -> Bytes]] /\ index' \in [Clients -> Indices]
    <2>1. page \in [Clients -> [InPage -> Bytes]] /\ index \in [Clients -> Indices]
      BY DEF TypeInv, LoopTyped
    <2>2. CASE FillPart(c)
      BY <1>2, <1>4, <2>1, <2>2 DEF FillPart
    <2>3. CASE FillFull(c)
      BY <1>4, <2>1, <2>3 DEF FillFull
    <2>4. QED
      BY <2>2, <2>3
  <1>6. LoopTyped' /\ PagesTyped'
    BY <1>1, <1>5 DEF TypeInv, LoopTyped, PagesTyped
  <1>7. InRange'
    BY <1>1, LoopMoves DEF TypeInv, LoopTyped
  <1>8. QED
    BY <1>6, <1>7

LEMMA StoreLoop ==
  ASSUME TypeInv, NEW c \in Clients, BeginStore(c) \/ EndStore(c)
  PROVE  LoopTyped' /\ PagesTyped' /\ InRange'
  <1>1. /\ at[c] # "loop" /\ call[c] # NoCall
        /\ UNCHANGED <<call, page, index, buf>>
    BY DEF BeginStore, EndStore, Storing, TypeInv, InRange, Idle
  <1>2. index[c] \in Indices /\ page[c] \in [InPage -> Bytes]
    BY DEF TypeInv, LoopTyped
  <1>3. PagesTyped'
    BY <1>2, JunkTyped DEF BeginStore, EndStore, TypeInv, PagesTyped
  <1>4. start[c] + block_len(c) \in Nat
    BY <1>1, PartFits
  <1>5. /\ start' \in [Clients -> Nat]
        /\ \A d \in Clients : d # c => start'[d] = start[d]
        /\ start'[c] = start[c] \/ start'[c] = start[c] + block_len(c)
    BY <1>4 DEF BeginStore, EndStore, TypeInv, LoopTyped
  <1>6. /\ at' \in [Clients -> {"loop", "filled", "storing", "spoilt"}]
        /\ \A d \in Clients : d # c /\ at[d] = "loop" => at'[d] = "loop"
    <2>1. CASE BeginStore(c)
      BY <2>1 DEF BeginStore, Storing, TypeInv, LoopTyped
    <2>2. CASE EndStore(c)
      BY <2>2 DEF EndStore, TypeInv, LoopTyped
    <2>3. QED
      BY <2>1, <2>2
  <1>7. LoopTyped'
    BY <1>1, <1>5, <1>6 DEF TypeInv, LoopTyped
  <1>8. InRange'
    BY <1>1, <1>5, <1>6, LoopMoves
  <1>9. QED
    BY <1>3, <1>7, <1>8

LEMMA ReadLoop ==
  ASSUME TypeInv, NEW c \in Clients, ReadPart(c)
  PROVE  LoopTyped' /\ PagesTyped' /\ InRange'
  <1> DEFINE part == [i \in 1 .. block_len(c) |-> pages[blkno(c)][block_off(c) + i - 1]]
  <1>1. /\ call[c] # NoCall /\ start[c] < call[c].len
        /\ UNCHANGED <<pages, call, at, page>>
        /\ buf' = [buf EXCEPT ![c] = @ \o part]
        /\ index' = [index EXCEPT ![c] = blkno(c)]
        /\ start' = [start EXCEPT ![c] = @ + block_len(c)]
    BY DEF ReadPart, NoCall
  <1>2. /\ blkno(c) \in Indices /\ block_len(c) \in Nat /\ block_off(c) \in Nat
        /\ block_off(c) + block_len(c) <= BlockSize
        /\ start[c] \in Nat
    BY <1>1, PartFits
  <1>3. pages[blkno(c)] \in [InPage -> Bytes]
    BY <1>2 DEF TypeInv, PagesTyped
  <1>4. \A i \in 1 .. block_len(c) : block_off(c) + i - 1 \in InPage
    BY <1>2, BlockAssumption DEF InPage
  <1>5. part \in [1 .. block_len(c) -> Bytes]
    BY <1>3, <1>4
  <1>6. part \in Seq(Bytes)
    BY <1>2, <1>5
  <1>7. buf[c] \o part \in Seq(Bytes)
    BY <1>6 DEF TypeInv, LoopTyped
  <1>8. LoopTyped' /\ PagesTyped'
    <2>1. buf' \in [Clients -> Seq(Bytes)]
      BY <1>1, <1>7 DEF TypeInv, LoopTyped
    <2>2. index' \in [Clients -> Indices] /\ start' \in [Clients -> Nat]
      BY <1>1, <1>2 DEF TypeInv, LoopTyped
    <2>3. QED
      BY <1>1, <2>1, <2>2 DEF TypeInv, LoopTyped, PagesTyped
  <1>9. InRange'
    BY <1>1, LoopMoves DEF TypeInv, LoopTyped
  <1>10. QED
    BY <1>8, <1>9

LEMMA KeysStep == KeysTyped /\ [Next]_vars => KeysTyped'
  <1> SUFFICES ASSUME KeysTyped, [Next]_vars PROVE KeysTyped'
    OBVIOUS
  <1>1. CASE Create
    <2>1. PICK f \in FileNames : create(Key(f))
      BY <1>1 DEF Create
    <2>2. Key(f) \in Nat \X FileNames
      BY DirAssumption DEF Key
    <2>3. /\ DOMAIN file_store' = DOMAIN file_store \cup {Key(f)}
          /\ file_store'[Key(f)] = [suuid |-> suuid_counter, size |-> 0]
          /\ \A l \in DOMAIN file_store : l # Key(f) => file_store'[l] = file_store[l]
      BY <2>1, Zenon DEF create
    <2>4. QED
      BY <2>2, <2>3 DEF KeysTyped
  <1>2. CASE Unlink
    <2>1. /\ DOMAIN file_store' \subseteq DOMAIN file_store
          /\ \A l \in DOMAIN file_store' : file_store'[l] = file_store[l]
      BY <1>2, Zenon DEF Unlink, remove
    <2>2. QED
      BY <2>1 DEF KeysTyped
  <1>3. ASSUME NEW c \in Clients, EndWrite(c) PROVE KeysTyped'
    <2>1. CASE Exists(call[c].key)
      <3>1. PICK n : csize(call[c].key, n)
        BY <1>3, <2>1 DEF EndWrite
      <3>2. /\ DOMAIN file_store' = DOMAIN file_store
            /\ \A l \in DOMAIN file_store : \/ file_store'[l] = file_store[l]
                                           \/ file_store'[l] = [suuid |-> file_store[l].suuid,
                                                                size |-> n]
        BY <2>1, <3>1 DEF csize
      <3>3. QED
        BY <3>2 DEF KeysTyped
    <2>2. CASE ~Exists(call[c].key)
      BY <1>3, <2>2 DEF EndWrite, fmvars, KeysTyped
    <2>3. QED
      BY <2>1, <2>2
  <1>4. CASE \/ Missing \/ UNCHANGED vars
             \/ \E c \in Clients :
                  \/ BeginWrite(c) \/ FillPart(c) \/ FillFull(c) \/ BeginStore(c) \/ EndStore(c)
                  \/ BeginRead(c) \/ ReadPart(c) \/ EndRead(c) \/ Crash(c)
    <2>1. UNCHANGED fmvars
      BY <1>4 DEF Missing, BeginWrite, FillPart, FillFull, BeginStore, EndStore,
                  BeginRead, ReadPart, EndRead, Crash, vars
    <2>2. QED
      BY <2>1 DEF fmvars, KeysTyped
  <1>5. QED
    BY <1>1, <1>2, <1>3, <1>4 DEF Next

LEMMA BeginWriteLoop ==
  ASSUME TypeInv, NEW c \in Clients, BeginWrite(c)
  PROVE  LoopTyped' /\ PagesTyped' /\ InRange'
  <1>1. PICK f \in FileNames, r \in Ranges : Begin(c, "write", f, r.off, r.len)
    BY DEF BeginWrite
  <1>2. r.off \in Nat /\ r.len \in Nat /\ r.off + r.len <= MaxLength
    BY BlockAssumption DEF Ranges, Offsets
  <1>3. writes' \in 1 .. MaxWrites /\ Idle(c) /\ UNCHANGED pages
    BY BoundAssumption DEF BeginWrite, TypeInv, SizeInv, CallsTyped
  <1>4. QED
    BY <1>1, <1>2, <1>3, BeginLoop

LEMMA BeginReadLoop ==
  ASSUME TypeInv, NEW c \in Clients, BeginRead(c)
  PROVE  LoopTyped' /\ PagesTyped' /\ InRange'
  <1>1. PICK f \in FileNames, r \in Ranges :
          /\ Exists(Key(f))
          /\ LET n == Smaller(file_store[Key(f)].size, r.len)
             IN  Begin(c, "refused", f, r.off, r.len) \/ Begin(c, "read", f, r.off, n)
    BY DEF BeginRead
  <1> DEFINE n == Smaller(file_store[Key(f)].size, r.len)
  <1>2. r.off \in Nat /\ r.len \in Nat /\ r.off + r.len <= MaxLength
    BY BlockAssumption DEF Ranges, Offsets
  <1>3. file_store[Key(f)].size \in Nat
    BY <1>1, SuuidTyped DEF Exists, TypeInv
  <1>4. n \in Nat /\ r.off + n <= MaxLength
    BY <1>2, <1>3, BlockAssumption DEF Smaller
  <1>5. Idle(c) /\ UNCHANGED pages
    BY DEF BeginRead
  <1>6. CASE Begin(c, "refused", f, r.off, r.len)
    BY <1>2, <1>5, <1>6, BeginLoop
  <1>7. CASE Begin(c, "read", f, r.off, n)
    BY <1>2, <1>4, <1>5, <1>7, BeginLoop
  <1>8. QED
    BY <1>1, <1>6, <1>7

LEMMA TypeInit == Init => TypeInv
  <1> SUFFICES ASSUME Init PROVE TypeInv
    OBVIOUS
  <1>1. SizeInv
    BY SizeInit
  <1>2. KeysTyped
    BY DEF Init, FMInit, KeysTyped
  <1>3. 0 \in Indices /\ <<>> \in Seq(Bytes)
    BY BlockAssumption DEF Indices
  <1>4. LoopTyped /\ PagesTyped
    BY <1>3, JunkTyped DEF Init, LoopTyped, PagesTyped
  <1>5. InRange
    BY DEF Init, InRange, Idle, NoCall
  <1>6. QED
    BY <1>1, <1>2, <1>4, <1>5 DEF TypeInv

LEMMA TypeStep == TypeInv /\ [Next]_vars => TypeInv'
  <1> SUFFICES ASSUME TypeInv, [Next]_vars PROVE TypeInv'
    OBVIOUS
  <1>1. SizeInv' /\ KeysTyped'
    BY SizeStep, KeysStep DEF TypeInv
  <1>2. CASE Create \/ Unlink \/ Missing \/ UNCHANGED vars
    <2>1. UNCHANGED <<pages, callvars>>
      BY <1>2 DEF Create, Unlink, Missing, vars
    <2>2. QED
      BY <1>1, <2>1 DEF TypeInv, LoopTyped, PagesTyped, InRange, Idle, callvars
  <1>3. ASSUME NEW c \in Clients, EndWrite(c) \/ EndRead(c) \/ Crash(c)
        PROVE  TypeInv'
    <2>1. Return(c) /\ UNCHANGED <<pages, writes>>
      BY <1>3 DEF EndWrite, EndRead, Crash
    <2>2. QED
      BY <1>1, <2>1, ReturnLoop DEF TypeInv
  <1>4. ASSUME NEW c \in Clients,
               \/ BeginWrite(c) \/ BeginRead(c) \/ ReadPart(c)
               \/ FillPart(c) \/ FillFull(c) \/ BeginStore(c) \/ EndStore(c)
        PROVE  TypeInv'
    BY <1>1, <1>4, BeginWriteLoop, BeginReadLoop, FillLoop, StoreLoop, ReadLoop DEF TypeInv
  <1>5. QED
    BY <1>2, <1>3, <1>4 DEF Next

\* Types, and that a part of a range never leaves its block nor the range: the
\* loops stay in their buffers and pages (LocofsClient.cpp:86-110, 185-200).
THEOREM TypeCorrect == Spec => []TypeOK
  <1>1. TypeInv => TypeOK
    <2> SUFFICES ASSUME TypeInv PROVE TypeOK
      OBVIOUS
    <2>1. suuid_counter \in Nat
      BY DEF TypeInv, SizeInv, FMInv, Numbered
    <2>2. \A k \in DOMAIN file_store : file_store[k].suuid \in Nat /\ file_store[k].size \in Nat
      BY DEF TypeInv, SizeInv, FMInv, Numbered, Extents
    <2>3. FMTypeOK
      <3>1. \A k \in DOMAIN file_store : file_store[k] \in [suuid : Nat, size : Nat]
        BY <2>2 DEF TypeInv, KeysTyped
      <3>2. QED
        BY <2>1, <3>1 DEF TypeInv, KeysTyped, FMTypeOK
    <2>4. ASSUME NEW c \in Clients
          PROVE  /\ call[c] # NoCall => /\ start[c] <= call[c].len
                                        /\ block_off(c) + block_len(c) <= BlockSize
                 /\ at[c] \in {"loop", "filled", "storing", "spoilt"}
                 /\ page[c] \in [InPage -> Bytes]
                 /\ index[c] \in Indices
                 /\ Range(buf[c]) \subseteq Bytes
      <3>1. call[c] # NoCall => /\ start[c] <= call[c].len
                                /\ block_off(c) + block_len(c) <= BlockSize
        BY PartFits DEF TypeInv, InRange
      <3>2. Range(buf[c]) \subseteq Bytes
        <4>1. buf[c] \in Seq(Bytes)
          BY DEF TypeInv, LoopTyped
        <4>2. \A i \in DOMAIN buf[c] : buf[c][i] \in Bytes
          BY <4>1
        <4>3. QED
          BY <4>2 DEF Range
      <3>3. QED
        BY <3>1, <3>2 DEF TypeInv, LoopTyped
    <2>5. QED
      BY <2>3, <2>4 DEF TypeOK, TypeInv, PagesTyped
  <1>2. QED
    BY TypeInit, TypeStep, <1>1, PTL DEF Spec

-----------------------------------------------------------------------------
\* Removing a name may leave a husk in a list, never take another name from it.
Listed == FileNames \cup {MovedFrom}

ListedInv ==
    /\ KeysTyped
    /\ \A u \in Nat : readdir(file_entry, u) \in Seq(Listed)
    /\ FilesListed

LEMMA ListedOccurs ==
  FilesListed <=> \A k \in DOMAIN file_store : Occurs(readdir(file_entry, k[1]), k[2]) # {}
  BY DEF FilesListed, Occurs

LEMMA ListedCreate ==
  ASSUME ListedInv, NEW f \in FileNames, create(Key(f))
  PROVE  (\A u \in Nat : readdir(file_entry', u) \in Seq(Listed)) /\ FilesListed'
  <1> DEFINE list == readdir(file_entry, DirUuid)
  <1>1. Key(f)[1] = DirUuid /\ Key(f)[2] = f /\ DirUuid \in Nat
    BY DirAssumption DEF Key
  <1>2. DOMAIN file_store' = DOMAIN file_store \cup {Key(f)}
    BY Zenon DEF create
  <1>3. file_entry' = insert_entry(file_entry, DirUuid, f)
    BY <1>1 DEF create
  <1>4. \A u \in Nat : readdir(file_entry', u)
                          = IF u = DirUuid THEN Append(list, f) ELSE readdir(file_entry, u)
    BY <1>3, Inserted
  <1>5. list \in Seq(Listed) /\ f \in Listed
    BY <1>1 DEF ListedInv, Listed
  <1>6. ASSUME NEW u \in Nat PROVE readdir(file_entry', u) \in Seq(Listed)
    <2>1. Append(list, f) \in Seq(Listed)
      BY <1>5
    <2> HIDE DEF list
    <2>2. QED
      BY <2>1, <1>4 DEF ListedInv
  <1>7. Occurs(Append(list, f), f) # {}
        /\ \A g : g # f => Occurs(Append(list, f), g) = Occurs(list, g)
    BY <1>5, Appended
  <1>8. ASSUME NEW k \in DOMAIN file_store'
        PROVE  Occurs(readdir(file_entry', k[1]), k[2]) # {}
    <2>1. k[1] \in Nat
      BY <1>1, <1>2 DEF ListedInv, KeysTyped
    <2>2. CASE k[1] = DirUuid /\ k[2] = f
      BY <2>1, <2>2, <1>4, <1>7
    <2>3. CASE ~(k[1] = DirUuid /\ k[2] = f)
      <3>1. k \in DOMAIN file_store
        BY <2>3, <1>1, <1>2
      <3>2. Occurs(readdir(file_entry, k[1]), k[2]) # {}
        BY <3>1, ListedOccurs DEF ListedInv
      <3>3. QED
        BY <2>1, <2>3, <3>2, <1>4, <1>7
    <2>4. QED
      BY <2>2, <2>3
  <1>9. FilesListed'
    BY <1>8 DEF FilesListed, Occurs
  <1>10. QED
    BY <1>6, <1>9

LEMMA ListedRemove ==
  ASSUME ListedInv, NEW f \in FileNames, remove(Key(f))
  PROVE  (\A u \in Nat : readdir(file_entry', u) \in Seq(Listed)) /\ FilesListed'
  <1> DEFINE list == readdir(file_entry, DirUuid)
  <1>1. Key(f)[1] = DirUuid /\ Key(f)[2] = f /\ DirUuid \in Nat
    BY DirAssumption DEF Key
  <1>2. Key(f) \in DOMAIN file_store /\ DOMAIN file_store' = DOMAIN file_store \ {Key(f)}
    BY Zenon DEF remove, Exists
  <1>3. file_entry' = remove_entry(file_entry, DirUuid, f)
    BY <1>1 DEF remove
  <1>4. list \in Seq(Listed) /\ Occurs(list, f) # {}
    BY <1>1, <1>2, ListedOccurs DEF ListedInv
  <1>5. \A u \in Nat : readdir(file_entry', u)
                          = IF u = DirUuid THEN Removed(list, f) ELSE readdir(file_entry, u)
    BY <1>3, <1>4, RemovedEntry
  <1>6. Removed(list, f) \in Seq(Listed)
    <2>1. Removed(list, f) \in Seq(Listed \cup {MovedFrom})
      BY <1>4, RemovedIs
    <2>2. Listed \cup {MovedFrom} = Listed
      BY DEF Listed
    <2>3. QED
      BY <2>1, <2>2
  <1>7. ASSUME NEW u \in Nat PROVE readdir(file_entry', u) \in Seq(Listed)
    BY <1>5, <1>6 DEF ListedInv
  <1>8. ASSUME NEW k \in DOMAIN file_store'
        PROVE  Occurs(readdir(file_entry', k[1]), k[2]) # {}
    <2>1. /\ k \in DOMAIN file_store /\ k # Key(f)
          /\ k \in Nat \X FileNames
      BY <1>2 DEF ListedInv, KeysTyped
    <2>2. k[1] \in Nat /\ ~(k[1] = DirUuid /\ k[2] = f)
      BY <2>1 DEF Key
    <2>3. Occurs(readdir(file_entry, k[1]), k[2]) # {}
      BY <2>1, ListedOccurs DEF ListedInv
    <2>4. CASE k[1] = DirUuid
      <3>1. k[2] # f /\ Occurs(list, k[2]) # {}
        BY <2>2, <2>3, <2>4
      <3>2. Occurs(Removed(list, f), k[2]) # {}
        BY <3>1, <1>4, OthersStay
      <3>3. QED
        BY <3>2, <2>2, <2>4, <1>5
    <2>5. CASE k[1] # DirUuid
      BY <2>2, <2>3, <2>5, <1>5
    <2>6. QED
      BY <2>4, <2>5
  <1>9. FilesListed'
    BY <1>8 DEF FilesListed, Occurs
  <1>10. QED
    BY <1>7, <1>9

LEMMA ListedStep == ListedInv /\ [Next]_vars => ListedInv'
  <1> SUFFICES ASSUME ListedInv, [Next]_vars PROVE ListedInv'
    OBVIOUS
  <1>1. KeysTyped'
    BY KeysStep DEF ListedInv
  <1>2. CASE Create
    BY <1>1, <1>2, ListedCreate DEF Create, ListedInv
  <1>3. CASE Unlink
    BY <1>1, <1>3, ListedRemove DEF Unlink, ListedInv
  <1>4. ASSUME NEW c \in Clients, EndWrite(c) PROVE ListedInv'
    <2>1. DOMAIN file_store' = DOMAIN file_store /\ UNCHANGED file_entry
      BY <1>4 DEF EndWrite, csize, fmvars
    <2>2. QED
      BY <1>1, <2>1 DEF ListedInv, FilesListed, readdir
  <1>5. CASE \/ Missing \/ UNCHANGED vars
             \/ \E c \in Clients :
                  \/ BeginWrite(c) \/ FillPart(c) \/ FillFull(c) \/ BeginStore(c) \/ EndStore(c)
                  \/ BeginRead(c) \/ ReadPart(c) \/ EndRead(c) \/ Crash(c)
    <2>1. UNCHANGED fmvars
      BY <1>5 DEF Missing, BeginWrite, FillPart, FillFull, BeginStore, EndStore,
                  BeginRead, ReadPart, EndRead, Crash, vars
    <2>2. QED
      BY <1>1, <2>1 DEF fmvars, ListedInv, FilesListed, readdir
  <1>6. QED
    BY <1>2, <1>3, <1>4, <1>5 DEF Next

\* A file that exists is listed, however often files are made over each other
\* and removed: so removing one never erases the end of a list, which is
\* undefined (FMStore.cpp:113-119, 178-184, EntryList.cpp:46).
THEOREM ListedFiles == Spec => []FilesListed
  <1>1. Init => ListedInv
    <2>1. <<>> \in Seq(Listed)
      OBVIOUS
    <2>2. QED
      BY <2>1 DEF Init, FMInit, ListedInv, KeysTyped, FilesListed, readdir, NoEntries
  <1>2. ListedInv => FilesListed
    BY DEF ListedInv
  <1>3. QED
    BY <1>1, <1>2, ListedStep, PTL DEF Spec

-----------------------------------------------------------------------------
(* What a read returns.  First, where the bytes of a range are in blocks.  *)

LEMMA DivMod ==
  ASSUME NEW a \in Nat, NEW b \in Nat \ {0}
  PROVE  /\ a \div b \in Nat /\ (a % b) \in 0 .. (b - 1)
         /\ a = (b * (a \div b)) + (a % b)
         /\ b * (a \div b) \in Nat
  OBVIOUS

LEMMA SameBlock ==
  ASSUME NEW o \in Nat, NEW p \in Nat, NEW b \in Nat \ {0}, o \div b = p \div b
  PROVE  o % b = (p % b) + (o - p)
  <1> DEFINE q == b * (o \div b)
             r == o % b
             s == p % b
  <1>1. o = q + r /\ q \in Nat /\ r \in 0 .. (b - 1)
    BY DivMod, Zenon
  <1>2. p = q + s /\ s \in 0 .. (b - 1)
    BY DivMod, Zenon
  <1> HIDE DEF q, r, s
  <1>3. r = s + (o - p)
    BY <1>1, <1>2
  <1>4. QED
    BY <1>3 DEF r, s

\* k further on from p, before the end of its block or just at it.
LEMMA FurtherOn ==
  ASSUME NEW p \in Nat, NEW b \in Nat \ {0}, NEW k \in Nat
  PROVE  /\ (p % b) + k < b => (p + k) \div b = p \div b
         /\ (p % b) + k = b => (p + k) % b = 0
  <1> DEFINE o == p + k
             q == p \div b
             r == p % b
             s == o \div b
             t == o % b
  <1>1. o \in Nat
    OBVIOUS
  <1> HIDE DEF o
  <1>2. q \in Nat /\ r \in 0 .. (b - 1) /\ p = (b * q) + r
    BY DivMod, Zenon
  <1>3. s \in Nat /\ t \in 0 .. (b - 1) /\ o = (b * s) + t
    BY DivMod, <1>1, Zenon
  <1> HIDE DEF q, r, s, t
  <1>4. s > q => b * s >= b * (q + 1)
    BY <1>2, <1>3
  <1>5. s < q => b * q >= b * (s + 1)
    BY <1>2, <1>3
  <1>6. s > q + 1 => b * s >= b * (q + 2)
    BY <1>2, <1>3
  <1>7. q \in Nat /\ s \in Nat
    BY <1>2, <1>3
  <1>8. r + k < b => s = q
    <2>1. r + k < b => ~(s > q) /\ ~(s < q)
      BY <1>2, <1>3, <1>4, <1>5 DEF o
    <2>2. QED
      BY <1>7, <2>1
  <1>9. r + k = b => t = 0
    <2> SUFFICES ASSUME r + k = b PROVE t = 0
      OBVIOUS
    <2>1. o = (b * (q + 1))
      BY <1>2 DEF o
    <2>2. ~(s > q + 1)
      BY <1>2, <1>3, <1>6, <2>1
    <2>3. s = q + 1 => t = 0
      BY <1>2, <1>3, <2>1
    <2>4. s <= q => b * q >= b * s
      BY <1>2, <1>3
    <2>5. ~(s <= q)
      BY <1>2, <1>3, <2>1, <2>4
    <2>6. QED
      BY <1>7, <2>2, <2>3, <2>5
  <1>10. QED
    BY <1>8, <1>9 DEF q, r, s, t, o

Block(o) == o \div BlockSize
OwnByte(c, o) == <<call[c].number, o - call[c].off>>
Part(c) == block_off(c) .. (block_off(c) + block_len(c) - 1)

\* The parts before this one are in other blocks.
Aligned(c) == start[c] = 0 \/ start[c] = call[c].len \/ block_off(c) = 0

\* The bytes of the page of a block: those in Part(c) are those of the range.
LEMMA Where ==
  ASSUME TypeInv, NEW c \in Clients, call[c] # NoCall, start[c] < call[c].len, Aligned(c)
  PROVE  /\ offset(c) \in Covered(call[c]) /\ block_num(c) = Block(offset(c))
         /\ offset(c) = call[c].off + start[c]
         /\ \A o \in Covered(call[c]) :
              /\ o \in Offsets
              /\ o < offset(c) => Block(o) # block_num(c)
              /\ Block(o) = block_num(c) => (o % BlockSize) \in Part(c)
              /\ o < offset(c) + block_len(c) => o < offset(c) \/ Block(o) = block_num(c)
         /\ \A o \in Offsets :
              Block(o) = block_num(c) /\ (o % BlockSize) \in Part(c)
                 => /\ o \in Covered(call[c])
                    /\ start[c] + (o % BlockSize) - block_off(c) = o - call[c].off
         /\ \A i \in 1 .. block_len(c) :
              /\ offset(c) + i - 1 \in Covered(call[c])
              /\ Block(offset(c) + i - 1) = block_num(c)
              /\ (offset(c) + i - 1) % BlockSize = block_off(c) + i - 1
         /\ start[c] + block_len(c) = call[c].len
              \/ (offset(c) + block_len(c)) % BlockSize = 0
  <1>1. /\ call[c] \in Calls
        /\ start[c] \in Nat /\ block_off(c) \in Nat /\ block_len(c) \in Nat
        /\ start[c] + block_len(c) <= call[c].len
        /\ block_off(c) + block_len(c) <= BlockSize
    BY PartFits
  <1>2. call[c].off \in Nat /\ call[c].len \in Nat /\ call[c].off + call[c].len <= MaxLength
    BY <1>1 DEF TypeInv, InRange, Calls
  <1>3. BlockSize \in Nat \ {0} /\ MaxLength \in Nat
    BY BlockAssumption
  <1> DEFINE p == offset(c)
             off == call[c].off
             len == call[c].len
             first == block_off(c)
             n == block_len(c)
  <1>4. p \in Nat /\ p = off + start[c] /\ block_num(c) = Block(p) /\ first = p % BlockSize
    BY <1>1, <1>2 DEF offset, block_num, block_off, Block
  <1>5. n = len - start[c] \/ n = BlockSize - first
    BY DEF block_len, Smaller
  <1>6. Covered(call[c]) = off .. (off + len - 1)
    BY DEF Covered
  <1>7. \A o \in Nat : Block(o) = Block(p) => o % BlockSize = first + (o - p)
    <2>1. p \in Nat /\ BlockSize \in Nat \ {0} /\ first = p % BlockSize
      BY <1>3, <1>4
    <2> HIDE DEF p, off, len, first, n
    <2>2. SUFFICES ASSUME NEW o \in Nat, o \div BlockSize = p \div BlockSize
                   PROVE  o % BlockSize = first + (o - p)
      BY DEF Block
    <2>3. o % BlockSize = (p % BlockSize) + (o - p)
      BY <2>1, <2>2, SameBlock, Zenon
    <2>4. QED
      BY <2>1, <2>3
  <1>8. \A o \in Nat : (o % BlockSize) \in 0 .. (BlockSize - 1)
    BY <1>3, DivMod, Zenon
  <1>9. \A k \in Nat : /\ first + k < BlockSize => Block(p + k) = Block(p)
                       /\ first + k = BlockSize => (p + k) % BlockSize = 0
    BY <1>3, <1>4, FurtherOn, Zenon DEF Block
  <1>10. Offsets = 0 .. (MaxLength - 1)
    BY DEF Offsets
  <1>11. start[c] # 0 => first = 0
    BY <1>1, <1>2 DEF Aligned
  <1>12. Part(c) = first .. (first + n - 1)
    BY DEF Part
  <1>14. /\ start[c] \in Nat /\ n \in Nat /\ first \in Nat /\ off \in Nat /\ len \in Nat
         /\ start[c] + n <= len /\ first + n <= BlockSize /\ start[c] < len
         /\ off + len <= MaxLength
    BY <1>1, <1>2
  <1> HIDE DEF p, off, len, first, n
  <1>13. p \in Covered(call[c])
    BY <1>4, <1>6, <1>14
  <1>15. ASSUME NEW o \in Covered(call[c])
         PROVE  /\ o \in Offsets
                /\ o < p => Block(o) # Block(p)
                /\ Block(o) = Block(p) => (o % BlockSize) \in Part(c)
                /\ o < p + n => o < p \/ Block(o) = Block(p)
    <2>1. o \in Nat /\ o >= off /\ o < off + len
      BY <1>6, <1>14
    <2>2. o \in Offsets
      BY <1>3, <1>10, <1>14, <2>1
    <2> DEFINE r == o % BlockSize
    <2>3. Block(o) = Block(p) => r = first + (o - p)
      BY <1>7, <2>1
    <2>4. r \in 0 .. (BlockSize - 1)
      BY <1>8, <2>1
    <2> HIDE DEF r
    <2>5. ASSUME o < p PROVE Block(o) # Block(p)
      <3>1. first = 0
        BY <1>4, <1>11, <1>14, <2>1, <2>5
      <3>2. QED
        BY <3>1, <1>4, <2>1, <2>3, <2>4, <2>5
    <2>6. ASSUME Block(o) = Block(p) PROVE r \in Part(c)
      <3>1. o >= p
        BY <1>4, <2>1, <2>5, <2>6
      <3>2. r = first + (o - p) /\ r < BlockSize
        BY <1>3, <2>3, <2>4, <2>6
      <3>3. r \in first .. (first + n - 1)
        <4>1. r \in Int /\ first \in Int /\ n \in Int /\ r >= first
          BY <1>4, <1>14, <2>1, <2>4, <3>1, <3>2
        <4>2. r <= first + n - 1
          <5>1. CASE n = len - start[c]
            BY <1>4, <1>14, <2>1, <3>2, <5>1
          <5>2. CASE n = BlockSize - first
            <6>1. r < first + n
              BY <1>3, <1>14, <3>2, <5>2
            <6>2. QED
              BY <4>1, <6>1
          <5>3. QED
            BY <1>5, <5>1, <5>2
        <4>3. QED
          BY <4>1, <4>2
      <3>4. QED
        BY <1>12, <3>3
    <2>7. ASSUME o < p + n, ~(o < p) PROVE Block(o) = Block(p)
      <3>1. o - p \in Nat /\ first + (o - p) < BlockSize /\ p + (o - p) = o
        BY <1>3, <1>4, <1>14, <2>1, <2>7
      <3>2. Block(p + (o - p)) = Block(p)
        BY <1>9, <3>1
      <3>3. QED
        BY <3>1, <3>2
    <2>8. QED
      BY <2>2, <2>5, <2>6, <2>7 DEF r
  <1>16. ASSUME NEW o \in Offsets, Block(o) = Block(p), (o % BlockSize) \in Part(c)
         PROVE  /\ o \in Covered(call[c])
                /\ start[c] + (o % BlockSize) - first = o - off
    <2>1. o \in Nat
      BY <1>10
    <2> DEFINE r == o % BlockSize
    <2>2. r = first + (o - p) /\ r \in first .. (first + n - 1)
      BY <1>7, <1>12, <1>16, <2>1
    <2> HIDE DEF r
    <2>3. start[c] + r - first = o - off
      BY <1>4, <1>14, <2>1, <2>2
    <2>4. o \in off .. (off + len - 1)
      BY <1>4, <1>14, <2>1, <2>2
    <2>5. QED
      BY <1>6, <2>3, <2>4 DEF r
  <1>17. ASSUME NEW i \in 1 .. n
         PROVE  /\ p + i - 1 \in Covered(call[c])
                /\ Block(p + i - 1) = Block(p)
                /\ (p + i - 1) % BlockSize = first + i - 1
    <2>1. i - 1 \in Nat /\ p + (i - 1) = p + i - 1 /\ first + (i - 1) < BlockSize
          /\ p + i - 1 \in Nat
      BY <1>3, <1>4, <1>14
    <2>2. Block(p + (i - 1)) = Block(p)
      BY <1>9, <2>1
    <2>3. p + i - 1 \in Covered(call[c])
      <3>1. off <= p + i - 1 /\ p + i - 1 <= off + len - 1
        BY <1>4, <1>14
      <3>2. QED
        BY <1>6, <1>14, <2>1, <3>1
    <2>4. (p + i - 1) % BlockSize = first + ((p + i - 1) - p)
      BY <1>7, <2>1, <2>2
    <2>5. first + ((p + i - 1) - p) = first + i - 1
      BY <1>4, <1>14
    <2>6. QED
      BY <2>1, <2>2, <2>3, <2>4, <2>5
  <1>18. start[c] + n = len \/ (p + n) % BlockSize = 0
    <2>1. CASE n = len - start[c]
      BY <1>14, <2>1
    <2>2. CASE n = BlockSize - first
      BY <1>3, <1>9, <1>14, <2>2
    <2>3. QED
      BY <1>5, <2>1, <2>2 DEF n, first, len
  <1>19. QED
    BY <1>4, <1>13, <1>15, <1>16, <1>17, <1>18 DEF p, off, len, first, n

-----------------------------------------------------------------------------
(* The invariant.                                                          *)

Writing(c) == call[c].op = "write"
Expects(s, o, byte) == expected[s][o] = {} \/ byte \in expected[s][o]
Held(s, o) == pages[PageOf(s, Block(o))][o % BlockSize]

HistoryTyped ==
    /\ expected \in [Suuids -> [Offsets -> SUBSET ((1 .. MaxWrites) \X Nat)]]
    /\ contested \in [Clients -> SUBSET Nat]
    /\ misplaced \in BOOLEAN

\* Only a write leaves its loop's head, and a read has read what it has done.
Looping(c) ==
    /\ at[c] # "loop" => Writing(c) /\ start[c] < call[c].len
    /\ Aligned(c)
    /\ ~Writing(c) => Len(buf[c]) = start[c]

\* From the beginning of a write on its bytes may be found.
OwnExpected(c) ==
    Writing(c) => \A o \in Covered(call[c]) : Expects(call[c].suuid, o, OwnByte(c, o))

\* A call knows the blocks that are written beside it, and of blocks that two
\* write nothing is expected.
Knows(c, d) ==
    call[c].op \in {"read", "write"} /\ Writing(d) => Shared(call[c], call[d]) \subseteq contested[c]
Lost(c, d) ==
    Writing(c) /\ Writing(d) =>
        \A o \in Offsets : Block(o) \in Shared(call[c], call[d])
            => expected[call[c].suuid][o] = {}
Noticed == \A c, d \in Clients : c # d => Knows(c, d) /\ Lost(c, d)

Indexed(c) == at[c] # "loop" => index[c] = blkno(c)

SpoiltLost(c) ==
    at[c] = "spoilt" =>
        /\ block_num(c) \in contested[c]
        /\ \A o \in Offsets : Block(o) = block_num(c) => expected[call[c].suuid][o] = {}

\* What a write has stored is there, unless others use the block.
OwnStored(c) ==
    Writing(c) => \A o \in Covered(call[c]) :
        o < offset(c) /\ Block(o) \notin contested[c]
            => Held(call[c].suuid, o) = OwnByte(c, o)

\* The page that it is about to store has its bytes, and others as expected.
Filled(c) ==
    at[c] # "loop" => \A o \in Offsets : Block(o) = block_num(c) =>
        /\ Expects(call[c].suuid, o, page[c][o % BlockSize])
        /\ o \in Covered(call[c]) => page[c][o % BlockSize] = OwnByte(c, o)

Returned(c) ==
    call[c].op = "read" => \A i \in DOMAIN buf[c] :
        \/ Block(call[c].off + i - 1) \in contested[c]
        \/ Expects(call[c].suuid, call[c].off + i - 1, buf[c][i])

DataOf(c) == Indexed(c) /\ SpoiltLost(c) /\ OwnStored(c) /\ Filled(c) /\ Returned(c)

\* A page holds what is expected of it, unless it is being stored.
BeingStored(s, o) ==
    \E c \in Clients : Storing(c) /\ call[c].suuid = s /\ block_num(c) = Block(o)
PagesHold == \A s \in Suuids, o \in Offsets : Expects(s, o, Held(s, o)) \/ BeingStored(s, o)

ReadInv ==
    /\ TypeInv /\ HistoryTyped
    /\ \A c \in Clients : Looping(c) /\ OwnExpected(c)
    /\ Noticed
    /\ ~misplaced => PagesHold /\ \A c \in Clients : DataOf(c)

-----------------------------------------------------------------------------
(* Facts about calls.                                                      *)

LEMMA CallFacts ==
  ASSUME TypeInv, NEW c \in Clients, call[c] # NoCall
  PROVE  /\ call[c] \in Calls /\ call[c].suuid \in Suuids
         /\ call[c].off \in Nat /\ call[c].len \in Nat
         /\ start[c] \in Nat /\ start[c] <= call[c].len
         /\ Covered(call[c]) \subseteq Offsets
         /\ call[c].op = "write" => call[c].number \in 1 .. MaxWrites
  <1>1. call[c] \in Calls /\ start[c] \in Nat /\ start[c] <= call[c].len
    BY PartFits DEF TypeInv, InRange
  <1>2. call[c].off \in Nat /\ call[c].len \in Nat /\ call[c].suuid \in Suuids
        /\ call[c].off + call[c].len <= MaxLength
    BY <1>1 DEF TypeInv, InRange, Calls
  <1>3. Covered(call[c]) \subseteq Offsets
    BY <1>2, BlockAssumption DEF Covered, Offsets
  <1>4. QED
    BY <1>1, <1>2, <1>3 DEF TypeInv, InRange

LEMMA BlocksOf ==
  ASSUME NEW k
  PROVE  /\ \A o \in Covered(k) : Block(o) \in Blocks(k)
         /\ \A x \in Blocks(k) : \E o \in Covered(k) : x = Block(o)
  BY DEF Blocks, Block

LEMMA SharedSame ==
  ASSUME NEW k, NEW l
  PROVE  /\ Shared(k, l) = Shared(l, k)
         /\ Shared(k, l) \subseteq Blocks(k) /\ Shared(k, l) \subseteq Blocks(l)
         /\ k # NoCall /\ l # NoCall /\ k.suuid = l.suuid
              => Blocks(k) \cap Blocks(l) \subseteq Shared(k, l)
         /\ \A x \in Shared(k, l) : k # NoCall /\ l # NoCall /\ k.suuid = l.suuid
  BY DEF Shared

LEMMA OnePage ==
  ASSUME NEW s \in Suuids, NEW t \in Suuids, NEW o \in Offsets, NEW p \in Offsets,
         PageOf(s, Block(o)) = PageOf(t, Block(p))
  PROVE  s = t /\ Block(o) = Block(p)
  BY NoCollision DEF Block

LEMMA InPages ==
  ASSUME NEW s \in Suuids, NEW o \in Offsets
  PROVE  PageOf(s, Block(o)) \in Indices /\ (o % BlockSize) \in InPage /\ Block(o) \in Nat
  <1>1. o \in Nat /\ BlockSize \in Nat \ {0} /\ Capacity \in Nat \ {0}
    BY BlockAssumption DEF Offsets
  <1>2. (o % BlockSize) \in 0 .. (BlockSize - 1) /\ (o \div BlockSize) \in Nat
    BY <1>1, DivMod, Zenon
  <1>3. hashObj(s, o \div BlockSize) \in Nat
    BY HashAssumption
  <1>4. PageOf(s, Block(o)) \in 0 .. (Capacity - 1)
    BY <1>1, <1>3 DEF PageOf, Block
  <1>5. QED
    BY <1>2, <1>4 DEF InPage, Indices, Block

\* The block that a write is at, between the head of its loop and the end.
LEMMA WriteAt ==
  ASSUME TypeInv, NEW c \in Clients, Looping(c), at[c] # "loop" \/ InLoop(c)
  PROVE  /\ call[c] # NoCall /\ Writing(c) /\ start[c] < call[c].len /\ Aligned(c)
         /\ block_num(c) \in Blocks(call[c])
         /\ offset(c) \in Offsets /\ block_num(c) = Block(offset(c))
         /\ blkno(c) = PageOf(call[c].suuid, Block(offset(c)))
         /\ \A s \in Suuids, o \in Offsets :
              PageOf(s, Block(o)) = blkno(c) => s = call[c].suuid /\ Block(o) = block_num(c)
         /\ \A o \in Offsets : Block(o) = block_num(c) => PageOf(call[c].suuid, Block(o)) = blkno(c)
  <1>1. Writing(c) /\ start[c] < call[c].len /\ Aligned(c)
    BY DEF Looping, InLoop, Writing
  <1>2. call[c] # NoCall
    BY <1>1 DEF Writing, NoCall
  <1>3. /\ offset(c) \in Covered(call[c]) /\ block_num(c) = Block(offset(c))
        /\ offset(c) \in Offsets
    BY <1>1, <1>2, Where
  <1>4. block_num(c) \in Blocks(call[c])
    BY <1>3, BlocksOf
  <1>5. blkno(c) = PageOf(call[c].suuid, Block(offset(c)))
    BY <1>3 DEF blkno
  <1>6. call[c].suuid \in Suuids
    BY <1>2, CallFacts
  <1>7. ASSUME NEW s \in Suuids, NEW o \in Offsets, PageOf(s, Block(o)) = blkno(c)
        PROVE  s = call[c].suuid /\ Block(o) = block_num(c)
    <2>1. s = call[c].suuid /\ Block(o) = Block(offset(c))
      BY <1>3, <1>5, <1>6, <1>7, OnePage
    <2>2. QED
      BY <2>1, <1>3
  <1>8. ASSUME NEW o \in Offsets, Block(o) = block_num(c)
        PROVE  PageOf(call[c].suuid, Block(o)) = blkno(c)
    BY <1>8 DEF blkno
  <1>9. QED
    BY <1>1, <1>2, <1>3, <1>4, <1>5, <1>7, <1>8

\* Two calls in one block of a file, one of them storing it.
LEMMA Rivals ==
  ASSUME ReadInv, NEW c \in Clients, NEW d \in Clients, c # d, at[c] # "loop",
         call[d].op \in {"read", "write"}, call[c].suuid = call[d].suuid,
         block_num(c) \in Blocks(call[d])
  PROVE  /\ block_num(c) \in contested[d]
         /\ Writing(d) => /\ block_num(c) \in contested[c]
                          /\ \A o \in Offsets : Block(o) = block_num(c)
                               => expected[call[c].suuid][o] = {}
  <1>1. call[c] # NoCall /\ Writing(c) /\ block_num(c) \in Blocks(call[c])
    BY WriteAt DEF ReadInv
  <1>2. call[d] # NoCall
    BY DEF NoCall
  <1>3. block_num(c) \in Shared(call[c], call[d]) /\ block_num(c) \in Shared(call[d], call[c])
    BY <1>1, <1>2, SharedSame
  <1>4. block_num(c) \in contested[d]
    BY <1>1, <1>3 DEF ReadInv, Noticed, Knows
  <1>5. ASSUME Writing(d)
        PROVE  /\ block_num(c) \in contested[c]
               /\ \A o \in Offsets : Block(o) = block_num(c) => expected[call[c].suuid][o] = {}
    BY <1>1, <1>3, <1>5 DEF ReadInv, Noticed, Knows, Lost, Writing
  <1>6. QED
    BY <1>4, <1>5

-----------------------------------------------------------------------------
(* What a step leaves to a call that it does not move.                     *)

\* What was expected of a byte still is, or nothing is.
Keeps(s, o) == \/ expected'[s][o] = {}
               \/ expected[s][o] # {} /\ expected[s][o] \subseteq expected'[s][o]

Unmoved(d) ==
    /\ call'[d] = call[d] /\ start'[d] = start[d]
    /\ page'[d] = page[d] /\ index'[d] = index[d] /\ buf'[d] = buf[d]

\* A write may get or have got a rival.
AtStays(d) ==
    \/ at'[d] = at[d]
    \/ /\ at[d] # "loop" /\ at'[d] # "loop"
       /\ at'[d] = "spoilt" =>
            \/ at[d] = "spoilt"
            \/ /\ block_num(d) \in contested[d]
               /\ \A o \in Offsets : Block(o) = block_num(d) => expected[call[d].suuid][o] = {}

ExpectedStays(d) ==
    /\ contested[d] \subseteq contested'[d]
    /\ call[d].op \in {"read", "write"} =>
         \A o \in Offsets : Block(o) \in Blocks(call[d]) =>
            \/ Keeps(call[d].suuid, o)
            \/ ~Writing(d) /\ Block(o) \in contested'[d]

PagesStay(d) ==
    Writing(d) => \A o \in Covered(call[d]) :
        o < offset(d) /\ Block(o) \notin contested[d]
            => pages'[PageOf(call[d].suuid, Block(o))][o % BlockSize] = Held(call[d].suuid, o)

LEMMA KeepsExpects ==
  ASSUME NEW s, NEW o, Keeps(s, o)
  PROVE  /\ \A byte : Expects(s, o, byte)
                         => expected'[s][o] = {} \/ byte \in expected'[s][o]
         /\ expected[s][o] = {} => expected'[s][o] = {}
  BY DEF Keeps, Expects

LEMMA PlaceStays ==
  ASSUME NEW d \in Clients, Unmoved(d)
  PROVE  /\ offset(d)' = offset(d) /\ block_num(d)' = block_num(d)
         /\ block_off(d)' = block_off(d) /\ blkno(d)' = blkno(d)
         /\ Writing(d)' = Writing(d) /\ Covered(call'[d]) = Covered(call[d])
  BY DEF Unmoved, offset, block_num, block_off, blkno, Writing

LEMMA LoopingStays ==
  ASSUME ReadInv, NEW d \in Clients, Unmoved(d), AtStays(d)
  PROVE  Looping(d)'
  <1>1. Looping(d)
    BY DEF ReadInv
  <1>2. block_off(d)' = block_off(d)
    BY PlaceStays
  <1>3. QED
    BY <1>1, <1>2 DEF Looping, Aligned, Unmoved, AtStays, Writing

LEMMA OwnStays ==
  ASSUME ReadInv, NEW d \in Clients, Unmoved(d), ExpectedStays(d)
  PROVE  OwnExpected(d)'
  <1> SUFFICES ASSUME Writing(d), NEW o \in Covered(call[d])
               PROVE  \/ expected'[call[d].suuid][o] = {}
                      \/ OwnByte(d, o) \in expected'[call[d].suuid][o]
    BY DEF OwnExpected, Expects, OwnByte, Writing, Covered, Unmoved
  <1>1. call[d] # NoCall
    BY DEF Writing, NoCall
  <1>2. o \in Offsets /\ Block(o) \in Blocks(call[d])
    BY <1>1, CallFacts, BlocksOf DEF ReadInv
  <1>3. Keeps(call[d].suuid, o)
    BY <1>2 DEF ExpectedStays, Writing
  <1>4. Expects(call[d].suuid, o, OwnByte(d, o))
    BY DEF ReadInv, OwnExpected
  <1>5. QED
    BY <1>3, <1>4, KeepsExpects

LEMMA DataStays ==
  ASSUME ReadInv, ~misplaced, NEW d \in Clients,
         Unmoved(d), AtStays(d), ExpectedStays(d), PagesStay(d)
  PROVE  DataOf(d)'
  <1> DEFINE s == call[d].suuid
  <1>1. DataOf(d) /\ TypeInv /\ Looping(d)
    BY DEF ReadInv
  <1>2. /\ offset(d)' = offset(d) /\ block_num(d)' = block_num(d) /\ blkno(d)' = blkno(d)
        /\ call'[d] = call[d] /\ index'[d] = index[d] /\ page'[d] = page[d] /\ buf'[d] = buf[d]
        /\ contested[d] \subseteq contested'[d]
    BY PlaceStays DEF Unmoved, ExpectedStays
  <1>3. at'[d] # "loop" <=> at[d] # "loop"
    BY DEF AtStays
  <1>4. at[d] # "loop" => /\ Writing(d) /\ block_num(d) \in Blocks(call[d])
                          /\ call[d].op \in {"read", "write"}
    BY <1>1, WriteAt DEF Writing
  <1>5. Indexed(d)'
    BY <1>1, <1>2, <1>3 DEF DataOf, Indexed
  <1>6. ASSUME at[d] # "loop", NEW o \in Offsets, Block(o) = block_num(d)
        PROVE  Keeps(s, o)
    BY <1>4, <1>6 DEF ExpectedStays
  <1>7. SpoiltLost(d)'
    <2> SUFFICES ASSUME at'[d] = "spoilt"
                 PROVE  /\ block_num(d) \in contested[d]
                        /\ \A o \in Offsets : Block(o) = block_num(d) => expected'[s][o] = {}
      BY <1>2 DEF SpoiltLost
    <2>1. /\ at[d] # "loop" /\ block_num(d) \in contested[d]
          /\ \A o \in Offsets : Block(o) = block_num(d) => expected[s][o] = {}
      BY <1>1 DEF AtStays, DataOf, SpoiltLost
    <2>2. QED
      BY <2>1, <1>6, KeepsExpects
  <1>8. OwnStored(d)'
    <2> SUFFICES ASSUME Writing(d), NEW o \in Covered(call[d]), o < offset(d),
                        Block(o) \notin contested'[d]
                 PROVE  pages'[PageOf(s, Block(o))][o % BlockSize] = OwnByte(d, o)
      BY <1>2 DEF OwnStored, Writing, Held, OwnByte, Covered
    <2>1. Block(o) \notin contested[d]
      BY <1>2
    <2>2. Held(s, o) = OwnByte(d, o)
      BY <1>1, <2>1 DEF DataOf, OwnStored
    <2>3. QED
      BY <2>1, <2>2 DEF PagesStay
  <1>9. Filled(d)'
    <2> SUFFICES ASSUME at[d] # "loop", NEW o \in Offsets, Block(o) = block_num(d)
                 PROVE  /\ \/ expected'[s][o] = {}
                           \/ page[d][o % BlockSize] \in expected'[s][o]
                        /\ o \in Covered(call[d]) => page[d][o % BlockSize] = OwnByte(d, o)
      BY <1>2, <1>3 DEF Filled, Expects, OwnByte, Covered
    <2>1. /\ Expects(s, o, page[d][o % BlockSize])
          /\ o \in Covered(call[d]) => page[d][o % BlockSize] = OwnByte(d, o)
      BY <1>1 DEF DataOf, Filled
    <2>2. QED
      BY <2>1, <1>6, KeepsExpects
  <1>10. Returned(d)'
    <2> SUFFICES ASSUME call[d].op = "read", NEW i \in DOMAIN buf[d]
                 PROVE  LET o == call[d].off + i - 1
                        IN  \/ Block(o) \in contested'[d]
                            \/ expected'[s][o] = {}
                            \/ buf[d][i] \in expected'[s][o]
      BY <1>2 DEF Returned, Expects
    <2> DEFINE o == call[d].off + i - 1
    <2>1. call[d] # NoCall /\ ~Writing(d)
      BY DEF NoCall, Writing
    <2>2. Len(buf[d]) = start[d] /\ buf[d] \in Seq(Bytes)
      BY <1>1, <2>1 DEF Looping, TypeInv, LoopTyped
    <2>3. i \in 1 .. start[d]
      BY <2>2
    <2>4. /\ call[d].off \in Nat /\ call[d].len \in Nat /\ start[d] \in Nat
          /\ start[d] <= call[d].len /\ Covered(call[d]) \subseteq Offsets
      BY <1>1, <2>1, CallFacts
    <2>5. o \in Covered(call[d])
      BY <2>3, <2>4 DEF Covered
    <2>6. o \in Offsets /\ Block(o) \in Blocks(call[d])
      BY <2>4, <2>5, BlocksOf
    <2>7. Block(o) \in contested[d] \/ Expects(s, o, buf[d][i])
      BY <1>1 DEF DataOf, Returned
    <2>8. Keeps(s, o) \/ Block(o) \in contested'[d]
      BY <2>6 DEF ExpectedStays
    <2> HIDE DEF o
    <2>9. QED
      BY <2>7, <2>8, <1>2, KeepsExpects DEF o
  <1>11. QED
    BY <1>5, <1>7, <1>8, <1>9, <1>10 DEF DataOf

\* Two writes that stay know of each other, and nothing is expected of what they share.
LEMMA PairsStay ==
  ASSUME ReadInv, NEW c \in Clients, NEW d \in Clients, c # d,
         Unmoved(c), Unmoved(d), ExpectedStays(c)
  PROVE  Knows(c, d)' /\ Lost(c, d)'
  <1>1. /\ call'[c] = call[c] /\ call'[d] = call[d] /\ contested[c] \subseteq contested'[c]
        /\ Writing(c)' = Writing(c) /\ Writing(d)' = Writing(d)
    BY PlaceStays DEF Unmoved, ExpectedStays
  <1>2. ASSUME call[c].op \in {"read", "write"}, Writing(d)
        PROVE  Shared(call[c], call[d]) \subseteq contested'[c]
    BY <1>1, <1>2 DEF ReadInv, Noticed, Knows
  <1>3. ASSUME Writing(c), Writing(d), NEW o \in Offsets, Block(o) \in Shared(call[c], call[d])
        PROVE  expected'[call[c].suuid][o] = {}
    <2>1. Block(o) \in Blocks(call[c])
      BY <1>3, SharedSame
    <2>2. Keeps(call[c].suuid, o)
      BY <1>3, <2>1 DEF ExpectedStays, Writing
    <2>3. expected[call[c].suuid][o] = {}
      BY <1>3 DEF ReadInv, Noticed, Lost
    <2>4. QED
      BY <2>2, <2>3, KeepsExpects
  <1>4. Knows(c, d)'
    BY <1>1, <1>2, Zenon DEF Knows
  <1>5. Lost(c, d)'
    BY <1>1, <1>3, Zenon DEF Lost
  <1>6. QED
    BY <1>4, <1>5

\* Where pages and expectations stay, so does that pages hold what is expected.
LEMMA HoldStays ==
  ASSUME NEW s, NEW o, Expects(s, o, Held(s, o)), Keeps(s, o),
         pages'[PageOf(s, Block(o))] = pages[PageOf(s, Block(o))]
  PROVE  Expects(s, o, Held(s, o))'
  <1>1. expected'[s][o] = {} \/ Held(s, o) \in expected'[s][o]
    BY KeepsExpects
  <1>2. QED
    BY <1>1 DEF Expects, Held

LEMMA SameKeeps == UNCHANGED expected => \A s, o : Keeps(s, o)
  BY DEF Keeps

Rest(c) == \A d \in Clients : d # c => Unmoved(d) /\ AtStays(d) /\ ExpectedStays(d) /\ PagesStay(d)

Pairs(c) == \A d \in Clients : d # c => Knows(c, d) /\ Knows(d, c) /\ Lost(c, d) /\ Lost(d, c)

\* It is enough to look at the client that moves.
LEMMA Moved ==
  ASSUME ReadInv, TypeInv', HistoryTyped', NEW c \in Clients, Rest(c),
         misplaced => misplaced',
         Looping(c)', OwnExpected(c)', Pairs(c)',
         ~misplaced' => DataOf(c)' /\ PagesHold'
  PROVE  ReadInv'
  <1>1. ASSUME NEW d \in Clients PROVE Looping(d)' /\ OwnExpected(d)'
    BY LoopingStays, OwnStays DEF Rest
  <1>2. Noticed'
    <2> SUFFICES ASSUME NEW a \in Clients, NEW b \in Clients, a # b
                 PROVE  Knows(a, b)' /\ Lost(a, b)'
      BY DEF Noticed
    <2>1. CASE a # c /\ b # c
      BY <2>1, PairsStay DEF Rest
    <2>2. CASE a = c \/ b = c
      BY <2>2 DEF Pairs
    <2>3. QED
      BY <2>1, <2>2
  <1>3. ASSUME ~misplaced', NEW d \in Clients PROVE DataOf(d)'
    BY <1>3, DataStays DEF Rest
  <1>4. QED
    BY <1>1, <1>2, <1>3 DEF ReadInv

\* In the loop of a call neither the calls nor what is expected changes.
LEMMA InLoopKeeps ==
  ASSUME ReadInv, NEW c \in Clients, UNCHANGED <<call, expected, contested>>
  PROVE  Pairs(c)' /\ OwnExpected(c)'
  <1>1. ASSUME NEW a \in Clients, NEW b \in Clients, a # b
        PROVE  Knows(a, b)' /\ Lost(a, b)'
    <2>1. Knows(a, b) /\ Lost(a, b)
      BY <1>1 DEF ReadInv, Noticed
    <2>2. QED
      BY <2>1 DEF Knows, Lost, Writing
  <1>2. OwnExpected(c)
    BY DEF ReadInv
  <1>3. QED
    BY <1>1, <1>2 DEF Pairs, OwnExpected, Writing, Expects, OwnByte, Covered

LEMMA ExpectedUnmoved ==
  ASSUME UNCHANGED <<call, expected, contested>>, NEW d \in Clients
  PROVE  ExpectedStays(d)
  BY SameKeeps DEF ExpectedStays

LEMMA PagesUnmoved ==
  ASSUME UNCHANGED pages, NEW d \in Clients
  PROVE  PagesStay(d)
  BY DEF PagesStay, Held

\* What a page that nobody stores holds is expected, also while another writes.
LEMMA PageRead ==
  ASSUME ReadInv, ~misplaced, NEW c \in Clients, at[c] = "loop",
         call[c].op \in {"read", "write"},
         NEW o \in Offsets, Block(o) \in Blocks(call[c])
  PROVE  /\ Block(o) \in contested[c] \/ Expects(call[c].suuid, o, Held(call[c].suuid, o))
         /\ Writing(c) => Expects(call[c].suuid, o, Held(call[c].suuid, o))
  <1>1. call[c] # NoCall
    BY DEF NoCall
  <1>2. call[c].suuid \in Suuids
    BY <1>1, CallFacts DEF ReadInv
  <1>3. CASE Expects(call[c].suuid, o, Held(call[c].suuid, o))
    BY <1>3
  <1>4. CASE BeingStored(call[c].suuid, o)
    <2>1. PICK d \in Clients : Storing(d) /\ call[d].suuid = call[c].suuid /\ block_num(d) = Block(o)
      BY <1>4 DEF BeingStored
    <2>2. d # c /\ at[d] # "loop"
      BY <2>1 DEF Storing
    <2>3. /\ block_num(d) \in contested[c]
          /\ Writing(c) => expected[call[d].suuid][o] = {}
      BY <2>1, <2>2, Rivals
    <2>4. QED
      BY <2>1, <2>3 DEF Expects
  <1>5. QED
    BY <1>2, <1>3, <1>4 DEF ReadInv, PagesHold

-----------------------------------------------------------------------------
(* The steps of a write: a page is filled ...                              *)

LEMMA FillData ==
  ASSUME ReadInv, TypeInv', NEW c \in Clients, FillPart(c) \/ FillFull(c)
  PROVE  ReadInv'
  <1>1. /\ InLoop(c) /\ at[c] = "loop" /\ call[c].op = "write"
        /\ UNCHANGED <<pages, call, start, buf, expected, contested>>
        /\ at' = [at EXCEPT ![c] = "filled"]
    BY DEF FillPart, FillFull, history, InLoop
  <1>12. misplaced => misplaced'
    <2>1. misplaced \in BOOLEAN
      BY DEF ReadInv, HistoryTyped
    <2>2. misplaced' = misplaced \/ misplaced' = (misplaced \/ index[c] # blkno(c))
      BY DEF FillPart, FillFull, history
    <2>3. QED
      BY <2>1, <2>2
  <1>11. \A d \in Clients : d # c => page'[d] = page[d] /\ index'[d] = index[d]
    BY DEF FillPart, FillFull, ReadInv, TypeInv, LoopTyped
  <1>2. /\ call[c] # NoCall /\ Writing(c) /\ start[c] < call[c].len /\ Aligned(c)
        /\ \A o \in Offsets : Block(o) = block_num(c) => PageOf(call[c].suuid, Block(o)) = blkno(c)
        /\ block_num(c) \in Blocks(call[c])
    BY <1>1, WriteAt DEF ReadInv
  <1>3. at'[c] = "filled" /\ \A d \in Clients : d # c => at'[d] = at[d]
    BY <1>1 DEF ReadInv, TypeInv, LoopTyped
  <1>4. Rest(c)
    BY <1>1, <1>3, <1>11, ExpectedUnmoved, PagesUnmoved DEF Rest, Unmoved, AtStays
  <1>5. HistoryTyped'
    BY <1>1 DEF FillPart, FillFull, history, ReadInv, HistoryTyped
  <1>6. Looping(c)'
    BY <1>1, <1>2 DEF Looping, Aligned, Writing, block_off, offset
  <1>7. /\ block_num(c)' = block_num(c) /\ offset(c)' = offset(c) /\ blkno(c)' = blkno(c)
        /\ Writing(c)'
    BY <1>1 DEF block_num, offset, blkno, Writing
  <1>8. ASSUME ~misplaced' PROVE DataOf(c)'
    <2> DEFINE s == call[c].suuid
    <2>1. ~misplaced
      BY <1>12, <1>8
    <2>2. index'[c] = blkno(c)
      BY <1>8 DEF FillPart, FillFull, ReadInv, TypeInv, LoopTyped
    <2>3. Indexed(c)'
      BY <2>2, <1>7 DEF Indexed
    <2>4. SpoiltLost(c)'
      BY <1>3 DEF SpoiltLost
    <2>5. OwnStored(c)'
      <3>1. OwnStored(c)
        BY <2>1 DEF ReadInv, DataOf
      <3>2. QED
        BY <3>1, <1>1, <1>7 DEF OwnStored, Writing, Covered, Held, OwnByte
    <2>6. PICK bytes : /\ page'[c] = Spliced(c, bytes)
                       /\ bytes = pages[blkno(c)] \/ FullPage(c)
      BY DEF FillPart, FillFull, ReadInv, TypeInv, LoopTyped
    <2>7. ASSUME NEW o \in Offsets, Block(o) = block_num(c)
          PROVE  /\ Expects(s, o, page'[c][o % BlockSize])
                 /\ o \in Covered(call[c]) => page'[c][o % BlockSize] = OwnByte(c, o)
      <3>1. (o % BlockSize) \in InPage /\ s \in Suuids
        BY <1>2, InPages, CallFacts DEF ReadInv
      <3>2. page'[c][o % BlockSize]
              = IF (o % BlockSize) \in Part(c)
                THEN <<call[c].number, start[c] + (o % BlockSize) - block_off(c)>>
                ELSE bytes[o % BlockSize]
        BY <2>6, <3>1 DEF Spliced, Part
      <3>3. o \in Covered(call[c]) => (o % BlockSize) \in Part(c)
        BY <1>2, <2>7, Where DEF ReadInv
      <3>4. CASE (o % BlockSize) \in Part(c)
        <4>1. /\ o \in Covered(call[c])
              /\ start[c] + (o % BlockSize) - block_off(c) = o - call[c].off
          BY <1>2, <2>7, <3>4, Where DEF ReadInv
        <4>2. page'[c][o % BlockSize] = OwnByte(c, o)
          BY <3>2, <3>4, <4>1 DEF OwnByte
        <4>3. Expects(s, o, OwnByte(c, o))
          BY <1>2, <4>1 DEF ReadInv, OwnExpected
        <4>4. QED
          BY <4>2, <4>3
      <3>5. CASE (o % BlockSize) \notin Part(c)
        <4>1. ~FullPage(c)
          <5>1. CASE FullPage(c)
            <6>1. block_off(c) = 0 /\ block_off(c) + block_len(c) = BlockSize
                  /\ block_len(c) \in Nat
              BY <5>1, <1>2, PartFits DEF FullPage, ReadInv
            <6>2. Part(c) = InPage
              BY <6>1, BlockAssumption DEF Part, InPage
            <6>3. QED
              BY <3>1, <3>5, <6>2
          <5>2. QED
            BY <5>1
        <4>2. page'[c][o % BlockSize] = pages[blkno(c)][o % BlockSize]
          BY <2>6, <3>2, <3>5, <4>1
        <4>3. page'[c][o % BlockSize] = Held(s, o)
          BY <1>2, <2>7, <4>2 DEF Held
        <4>4. Expects(s, o, Held(s, o))
          BY <1>1, <1>2, <2>1, <2>7, PageRead
        <4>5. QED
          BY <3>3, <3>5, <4>3, <4>4
      <3>6. QED
        BY <3>4, <3>5
    <2>8. Filled(c)'
      BY <2>7, <1>1, <1>7 DEF Filled, Expects, OwnByte, Covered
    <2>9. Returned(c)'
      BY <1>1 DEF Returned
    <2>10. QED
      BY <2>3, <2>4, <2>5, <2>8, <2>9 DEF DataOf
  <1>9. ASSUME ~misplaced' PROVE PagesHold'
    <2> SUFFICES ASSUME NEW s \in Suuids, NEW o \in Offsets
                 PROVE  Expects(s, o, Held(s, o))' \/ BeingStored(s, o)'
      BY DEF PagesHold
    <2>1. Expects(s, o, Held(s, o)) \/ BeingStored(s, o)
      BY <1>12, <1>9 DEF ReadInv, PagesHold
    <2>2. CASE Expects(s, o, Held(s, o))
      BY <2>2, <1>1 DEF Expects, Held
    <2>3. CASE BeingStored(s, o)
      <3>1. PICK d \in Clients : Storing(d) /\ call[d].suuid = s /\ block_num(d) = Block(o)
        BY <2>3 DEF BeingStored
      <3>2. d # c
        BY <1>1, <3>1 DEF Storing
      <3>3. Storing(d)' /\ call'[d].suuid = s /\ block_num(d)' = Block(o)
        BY <1>1, <1>3, <3>1, <3>2 DEF Storing, block_num, offset
      <3>4. QED
        BY <3>3 DEF BeingStored
    <2>4. QED
      BY <2>1, <2>2, <2>3
  <1>10. QED
    BY <1>1, <1>4, <1>5, <1>6, <1>8, <1>9, <1>12, InLoopKeeps, Moved

-----------------------------------------------------------------------------
(* ... and stored.                                                         *)

\* A page written for one block leaves the pages of the others.
LEMMA OtherPages ==
  ASSUME ReadInv, ~misplaced, NEW c \in Clients, at[c] # "loop",
         \A i \in Indices : i # index[c] => pages'[i] = pages[i]
  PROVE  /\ index[c] = blkno(c)
         /\ \A s \in Suuids, o \in Offsets :
              \/ pages'[PageOf(s, Block(o))] = pages[PageOf(s, Block(o))]
              \/ s = call[c].suuid /\ Block(o) = block_num(c)
         /\ \A d \in Clients : d # c => PagesStay(d)
  <1>1. index[c] = blkno(c)
    BY DEF ReadInv, DataOf, Indexed
  <1>2. ASSUME NEW s \in Suuids, NEW o \in Offsets,
               ~(s = call[c].suuid /\ Block(o) = block_num(c))
        PROVE  pages'[PageOf(s, Block(o))] = pages[PageOf(s, Block(o))]
    <2>1. PageOf(s, Block(o)) # blkno(c)
      BY <1>2, WriteAt DEF ReadInv
    <2>2. QED
      BY <1>1, <2>1, InPages
  <1>3. ASSUME NEW d \in Clients, d # c PROVE PagesStay(d)
    <2> SUFFICES ASSUME Writing(d), NEW o \in Covered(call[d]), Block(o) \notin contested[d]
                 PROVE  pages'[PageOf(call[d].suuid, Block(o))][o % BlockSize]
                          = Held(call[d].suuid, o)
      BY DEF PagesStay
    <2>1. call[d] # NoCall /\ call[d].op \in {"read", "write"}
      BY DEF Writing, NoCall
    <2>2. call[d].suuid \in Suuids /\ o \in Offsets /\ Block(o) \in Blocks(call[d])
      BY <2>1, CallFacts, BlocksOf DEF ReadInv
    <2>3. ~(call[d].suuid = call[c].suuid /\ Block(o) = block_num(c))
      BY <1>3, <2>1, <2>2, Rivals
    <2>4. QED
      BY <1>2, <2>2, <2>3 DEF Held
  <1>4. QED
    BY <1>1, <1>2, <1>3

LEMMA BeginStoreData ==
  ASSUME ReadInv, TypeInv', NEW c \in Clients, BeginStore(c)
  PROVE  ReadInv'
  <1> DEFINE beside == {d \in Clients \ {c} : Storing(d) /\ index[d] = index[c]}
  <1>1. /\ at[c] = "filled"
        /\ UNCHANGED <<call, start, page, index, buf, expected, contested, misplaced>>
        /\ pages' = [pages EXCEPT ![index[c]] = JunkPage]
        /\ at' = [d \in Clients |->
                   IF d = c THEN IF beside = {} THEN "storing" ELSE "spoilt"
                   ELSE IF d \in beside THEN "spoilt" ELSE at[d]]
    BY DEF BeginStore, history
  <1> HIDE DEF beside
  <1>2. \A d \in Clients : /\ Storing(d) => at'[d] \in {"storing", "spoilt"}
                           /\ at'[d] # "loop" <=> at[d] # "loop"
    BY <1>1 DEF Storing, beside
  <1>3. HistoryTyped'
    BY <1>1 DEF ReadInv, HistoryTyped
  <1>4. \A d \in Clients : Looping(d)'
    <2>1. \A d \in Clients : Looping(d)
      BY DEF ReadInv
    <2>2. QED
      BY <1>1, <1>2, <2>1 DEF Looping, Aligned, Writing, block_off, offset
  <1>5. \A d \in Clients : Pairs(d)' /\ OwnExpected(d)'
    BY <1>1, InLoopKeeps
  <1>6. Noticed'
    BY <1>5 DEF Noticed, Pairs
  <1>7. ASSUME ~misplaced PROVE \A d \in Clients : DataOf(d)'
    <2>1. \A i \in Indices : i # index[c] => pages'[i] = pages[i]
      BY <1>1 DEF ReadInv, TypeInv, PagesTyped
    <2>2. /\ index[c] = blkno(c)
          /\ \A s \in Suuids, o \in Offsets :
              \/ pages'[PageOf(s, Block(o))] = pages[PageOf(s, Block(o))]
              \/ s = call[c].suuid /\ Block(o) = block_num(c)
          /\ \A d \in Clients : d # c => PagesStay(d)
      BY <1>1, <1>7, <2>1, OtherPages
    <2>3. PagesStay(c)
      <3> SUFFICES ASSUME Writing(c), NEW o \in Covered(call[c]), o < offset(c)
                   PROVE  pages'[PageOf(call[c].suuid, Block(o))] = pages[PageOf(call[c].suuid, Block(o))]
        BY DEF PagesStay, Held
      <3>1. /\ call[c] # NoCall /\ start[c] < call[c].len /\ Aligned(c) /\ call[c].suuid \in Suuids
            /\ TypeInv
        BY <1>1, WriteAt, CallFacts DEF ReadInv
      <3>2. o \in Offsets /\ Block(o) # block_num(c)
        BY <3>1, Where
      <3>3. QED
        BY <2>2, <3>1, <3>2
    <2>4. \* Two that store one page are rivals.
          ASSUME NEW d \in Clients, NEW e \in Clients, d # e, at[d] # "loop", at[e] # "loop",
                 index[d] = index[e]
          PROVE  /\ block_num(d) \in contested[d]
                 /\ \A o \in Offsets : Block(o) = block_num(d) => expected[call[d].suuid][o] = {}
      <3>1. index[d] = blkno(d) /\ index[e] = blkno(e)
        BY <1>7, <2>4 DEF ReadInv, DataOf, Indexed
      <3>2. /\ Writing(e) /\ block_num(e) \in Blocks(call[e]) /\ call[e] # NoCall
            /\ offset(e) \in Offsets /\ block_num(e) = Block(offset(e))
            /\ blkno(e) = PageOf(call[e].suuid, Block(offset(e)))
        BY <2>4, WriteAt DEF ReadInv
      <3>3. call[e].suuid \in Suuids
        BY <3>2, CallFacts DEF ReadInv
      <3>4. call[e].suuid = call[d].suuid /\ block_num(e) = block_num(d)
        <4>1. \A s \in Suuids, o \in Offsets :
                PageOf(s, Block(o)) = blkno(d) => s = call[d].suuid /\ Block(o) = block_num(d)
          BY <2>4, WriteAt DEF ReadInv
        <4>2. PageOf(call[e].suuid, Block(offset(e))) = blkno(d)
          BY <2>4, <3>1, <3>2
        <4>3. QED
          BY <3>2, <3>3, <4>1, <4>2
      <3>5. QED
        BY <2>4, <3>2, <3>4, Rivals DEF Writing
    <2>5. ASSUME NEW d \in Clients PROVE AtStays(d)
      <3>1. CASE at'[d] = "spoilt" /\ at[d] # "spoilt"
        <4>1. \E e \in Clients : d # e /\ at[e] # "loop" /\ at[d] # "loop" /\ index[d] = index[e]
          BY <1>1, <3>1 DEF beside, Storing
        <4>2. QED
          BY <1>2, <2>4, <4>1 DEF AtStays
      <3>2. CASE ~(at'[d] = "spoilt" /\ at[d] # "spoilt")
        BY <1>2, <3>2 DEF AtStays
      <3>3. QED
        BY <3>1, <3>2
    <2>6. \A d \in Clients : Unmoved(d) /\ ExpectedStays(d)
      BY <1>1, ExpectedUnmoved DEF Unmoved
    <2>7. QED
      BY <1>7, <2>2, <2>3, <2>5, <2>6, DataStays
  <1>8. ASSUME ~misplaced PROVE PagesHold'
    <2> SUFFICES ASSUME NEW s \in Suuids, NEW o \in Offsets
                 PROVE  Expects(s, o, Held(s, o))' \/ BeingStored(s, o)'
      BY DEF PagesHold
    <2>1. \A d \in Clients : Storing(d) => Storing(d)'
      BY <1>2 DEF Storing
    <2>2. Storing(c)'
      BY <1>1 DEF Storing
    <2>3. \A d \in Clients : call'[d].suuid = call[d].suuid /\ block_num(d)' = block_num(d)
      BY <1>1 DEF block_num, offset
    <2>4. BeingStored(s, o) => BeingStored(s, o)'
      BY <2>1, <2>3 DEF BeingStored
    <2>5. CASE s = call[c].suuid /\ Block(o) = block_num(c)
      BY <2>2, <2>3, <2>5 DEF BeingStored
    <2>6. CASE ~(s = call[c].suuid /\ Block(o) = block_num(c))
      <3>1. \A i \in Indices : i # index[c] => pages'[i] = pages[i]
        BY <1>1 DEF ReadInv, TypeInv, PagesTyped
      <3>2. pages'[PageOf(s, Block(o))] = pages[PageOf(s, Block(o))]
        BY <1>1, <1>8, <2>6, <3>1, OtherPages
      <3>3. Expects(s, o, Held(s, o)) => Expects(s, o, Held(s, o))'
        BY <1>1, <3>2, HoldStays, SameKeeps
      <3>4. QED
        BY <1>8, <2>4, <3>3 DEF ReadInv, PagesHold
    <2>7. QED
      BY <2>5, <2>6
  <1>9. QED
    BY <1>1, <1>3, <1>4, <1>5, <1>6, <1>7, <1>8 DEF ReadInv

LEMMA EndStoreData ==
  ASSUME ReadInv, TypeInv', NEW c \in Clients, EndStore(c)
  PROVE  ReadInv'
  <1> DEFINE s == call[c].suuid
  <1>1. /\ at[c] \in {"storing", "spoilt"}
        /\ UNCHANGED <<call, page, index, buf, expected, contested, misplaced>>
        /\ pages' = IF at[c] = "storing" THEN [pages EXCEPT ![index[c]] = page[c]] ELSE pages
        /\ start' = [start EXCEPT ![c] = @ + block_len(c)]
        /\ at' = [at EXCEPT ![c] = "loop"]
    BY DEF EndStore, history, Storing
  <1>2. /\ call[c] # NoCall /\ Writing(c) /\ start[c] < call[c].len /\ Aligned(c) /\ TypeInv
        /\ s \in Suuids
        /\ \A o \in Offsets : Block(o) = block_num(c) => PageOf(s, Block(o)) = blkno(c)
    BY <1>1, WriteAt, CallFacts DEF ReadInv
  <1>3. /\ at'[c] = "loop" /\ start'[c] = start[c] + block_len(c)
        /\ \A d \in Clients : d # c => at'[d] = at[d] /\ start'[d] = start[d]
    BY <1>1 DEF ReadInv, TypeInv, LoopTyped
  <1>4. HistoryTyped'
    BY <1>1 DEF ReadInv, HistoryTyped
  <1>5. /\ start[c] + block_len(c) = call[c].len \/ (offset(c) + block_len(c)) % BlockSize = 0
        /\ offset(c)' = offset(c) + block_len(c)
    <2>1. start[c] \in Nat /\ block_len(c) \in Nat /\ call[c].off \in Nat
      BY <1>2, PartFits, CallFacts
    <2>2. offset(c)' = call[c].off + (start[c] + block_len(c))
      BY <1>1, <1>3 DEF offset
    <2>3. call[c].off + (start[c] + block_len(c)) = offset(c) + block_len(c)
      BY <2>1 DEF offset
    <2>4. QED
      BY <1>2, <2>2, <2>3, Where
  <1>6. Looping(c)'
    BY <1>1, <1>2, <1>3, <1>5 DEF Looping, Aligned, Writing, block_off
  <1>7. \A i \in Indices : i # index[c] => pages'[i] = pages[i]
    BY <1>1 DEF ReadInv, TypeInv, PagesTyped
  <1>8. \A d \in Clients : d # c => Unmoved(d) /\ AtStays(d) /\ ExpectedStays(d)
    BY <1>1, <1>3, ExpectedUnmoved DEF Unmoved, AtStays
  <1>9. ASSUME NEW d \in Clients, d # c PROVE Looping(d)'
    BY <1>8, <1>9, LoopingStays
  <1>10. \A d \in Clients : Pairs(d)' /\ OwnExpected(d)'
    BY <1>1, InLoopKeeps
  <1>11. ASSUME ~misplaced
         PROVE  /\ index[c] = blkno(c)
                /\ \A t \in Suuids, o \in Offsets :
                     \/ pages'[PageOf(t, Block(o))] = pages[PageOf(t, Block(o))]
                     \/ t = s /\ Block(o) = block_num(c)
                /\ \A d \in Clients : d # c => PagesStay(d)
    BY <1>1, <1>7, <1>11, OtherPages
  <1>12. \* What has been stored, or is lost.
         ASSUME ~misplaced, NEW o \in Offsets, Block(o) = block_num(c)
         PROVE  /\ expected[s][o] = {} \/ pages'[PageOf(s, Block(o))][o % BlockSize] \in expected[s][o]
                /\ o \in Covered(call[c]) /\ Block(o) \notin contested[c]
                     => pages'[PageOf(s, Block(o))][o % BlockSize] = OwnByte(c, o)
    <2>1. CASE at[c] = "spoilt"
      BY <1>12, <2>1 DEF ReadInv, DataOf, SpoiltLost
    <2>2. CASE at[c] = "storing"
      <3>1. index[c] \in Indices
        BY DEF ReadInv, TypeInv, LoopTyped
      <3>2. pages'[PageOf(s, Block(o))] = page[c]
        BY <1>1, <1>2, <1>11, <1>12, <2>2, <3>1 DEF ReadInv, TypeInv, PagesTyped
      <3>3. /\ Expects(s, o, page[c][o % BlockSize])
            /\ o \in Covered(call[c]) => page[c][o % BlockSize] = OwnByte(c, o)
        BY <1>12, <2>2 DEF ReadInv, DataOf, Filled
      <3>4. QED
        BY <3>2, <3>3 DEF Expects
    <2>3. QED
      BY <1>1, <2>1, <2>2
  <1>13. ASSUME ~misplaced PROVE DataOf(c)'
    <2>1. OwnStored(c)'
      <3> SUFFICES ASSUME NEW o \in Covered(call[c]), o < offset(c) + block_len(c),
                          Block(o) \notin contested[c]
                   PROVE  pages'[PageOf(s, Block(o))][o % BlockSize] = OwnByte(c, o)
        BY <1>1, <1>5 DEF OwnStored, Held, OwnByte, Covered
      <3>1. /\ o \in Offsets /\ o < offset(c) => Block(o) # block_num(c)
            /\ o < offset(c) \/ Block(o) = block_num(c)
        BY <1>2, Where
      <3>2. o \in Offsets
        BY <1>2, CallFacts
      <3>3. CASE Block(o) = block_num(c)
        BY <1>12, <1>13, <3>2, <3>3
      <3>4. CASE Block(o) # block_num(c)
        <4>1. Held(s, o) = OwnByte(c, o)
          BY <1>2, <1>13, <3>1, <3>4 DEF ReadInv, DataOf, OwnStored
        <4>2. QED
          BY <1>2, <1>11, <1>13, <3>2, <3>4, <4>1 DEF Held
      <3>5. QED
        BY <3>3, <3>4
    <2>2. Indexed(c)' /\ SpoiltLost(c)' /\ Filled(c)'
      BY <1>3 DEF Indexed, SpoiltLost, Filled
    <2>3. Returned(c)'
      BY <1>1, <1>2 DEF Returned, Writing
    <2>4. QED
      BY <2>1, <2>2, <2>3 DEF DataOf
  <1>14. ASSUME ~misplaced PROVE PagesHold'
    <2> SUFFICES ASSUME NEW t \in Suuids, NEW o \in Offsets
                 PROVE  Expects(t, o, Held(t, o))' \/ BeingStored(t, o)'
      BY DEF PagesHold
    <2>1. CASE t = s /\ Block(o) = block_num(c)
      BY <1>1, <1>12, <1>14, <2>1 DEF Expects, Held
    <2>2. CASE ~(t = s /\ Block(o) = block_num(c))
      <3>1. Expects(t, o, Held(t, o)) => Expects(t, o, Held(t, o))'
        BY <1>1, <1>11, <1>14, <2>2, HoldStays, SameKeeps
      <3>2. ASSUME BeingStored(t, o) PROVE BeingStored(t, o)'
        <4>1. PICK d \in Clients : Storing(d) /\ call[d].suuid = t /\ block_num(d) = Block(o)
          BY <3>2 DEF BeingStored
        <4>2. d # c
          BY <2>2, <4>1
        <4>3. Storing(d)' /\ call'[d].suuid = t /\ block_num(d)' = Block(o)
          BY <1>1, <1>3, <4>1, <4>2 DEF Storing, block_num, offset
        <4>4. QED
          BY <4>3 DEF BeingStored
      <3>3. QED
        BY <1>14, <3>1, <3>2 DEF ReadInv, PagesHold
    <2>3. QED
      BY <2>1, <2>2
  <1>15. CASE ~misplaced
    <2>1. Rest(c)
      BY <1>8, <1>11, <1>15 DEF Rest
    <2>2. QED
      BY <1>1, <1>4, <1>6, <1>10, <1>13, <1>14, <1>15, <2>1, Moved
  <1>16. CASE misplaced
    BY <1>1, <1>4, <1>6, <1>9, <1>10, <1>16 DEF ReadInv, Noticed, Pairs
  <1>17. QED
    BY <1>15, <1>16

-----------------------------------------------------------------------------
(* A read goes on.                                                         *)

LEMMA ReadPartData ==
  ASSUME ReadInv, TypeInv', NEW c \in Clients, ReadPart(c)
  PROVE  ReadInv'
  <1> DEFINE s == call[c].suuid
             n == block_len(c)
             part == [i \in 1 .. n |-> pages[blkno(c)][block_off(c) + i - 1]]
  <1>1. /\ call[c].op = "read" /\ start[c] < call[c].len /\ call[c] # NoCall /\ ~Writing(c)
        /\ UNCHANGED <<pages, call, at, page, expected, contested, misplaced>>
    BY DEF ReadPart, history, NoCall, Writing
  <1>2. /\ buf'[c] = buf[c] \o part /\ start'[c] = start[c] + n
        /\ \A d \in Clients : d # c => /\ buf'[d] = buf[d] /\ index'[d] = index[d]
                                       /\ start'[d] = start[d]
    BY DEF ReadPart, ReadInv, TypeInv, LoopTyped
  <1>3. /\ at[c] = "loop" /\ Aligned(c) /\ Len(buf[c]) = start[c] /\ TypeInv
    BY <1>1 DEF ReadInv, Looping
  <1>4. /\ s \in Suuids /\ call[c].off \in Nat /\ start[c] \in Nat /\ n \in Nat
        /\ buf[c] \in Seq(Bytes) /\ Covered(call[c]) \subseteq Offsets
    BY <1>1, <1>3, CallFacts, PartFits DEF TypeInv, LoopTyped
  <1>5. /\ start[c] + n = call[c].len \/ (offset(c) + n) % BlockSize = 0
        /\ offset(c) = call[c].off + start[c]
        /\ block_num(c) = Block(offset(c)) /\ offset(c) \in Offsets
    BY <1>1, <1>3, Where
  <1>6. HistoryTyped'
    BY <1>1 DEF ReadInv, HistoryTyped
  <1>7. Rest(c)
    BY <1>1, <1>2, ExpectedUnmoved, PagesUnmoved DEF Rest, Unmoved, AtStays
  <1>8. part \in Seq(Bytes) /\ Len(part) = n /\ \A i \in 1 .. n : part[i] = Held(s, offset(c) + i - 1)
    <2>1. ASSUME NEW i \in 1 .. n
          PROVE  /\ pages[blkno(c)][block_off(c) + i - 1] \in Bytes
                 /\ pages[blkno(c)][block_off(c) + i - 1] = Held(s, offset(c) + i - 1)
      <3>1. /\ offset(c) + i - 1 \in Covered(call[c])
            /\ Block(offset(c) + i - 1) = block_num(c)
            /\ (offset(c) + i - 1) % BlockSize = block_off(c) + i - 1
        BY <1>1, <1>3, Where
      <3>2. offset(c) + i - 1 \in Offsets
        BY <1>4, <3>1
      <3>3. PageOf(s, Block(offset(c) + i - 1)) = blkno(c)
        BY <3>1 DEF blkno
      <3>4. blkno(c) \in Indices /\ (block_off(c) + i - 1) \in InPage
        BY <1>4, <3>1, <3>2, <3>3, InPages
      <3>5. pages[blkno(c)] \in [InPage -> Bytes]
        BY <1>3, <3>4 DEF TypeInv, PagesTyped
      <3>6. QED
        BY <3>1, <3>3, <3>4, <3>5 DEF Held
    <2>2. part \in [1 .. n -> Bytes]
      BY <2>1
    <2>3. part \in Seq(Bytes) /\ Len(part) = n
      BY <1>4, <2>2
    <2>4. QED
      BY <2>1, <2>3
  <1> HIDE DEF part, n
  <1>9. /\ Len(buf[c] \o part) = start[c] + n
        /\ DOMAIN (buf[c] \o part) = 1 .. (start[c] + n)
        /\ \A i \in 1 .. (start[c] + n) :
             (buf[c] \o part)[i] = IF i <= start[c] THEN buf[c][i] ELSE part[i - start[c]]
    <2>1. /\ Len(buf[c]) = start[c] /\ Len(part) = n
          /\ buf[c] \in Seq(Bytes) /\ part \in Seq(Bytes)
      BY <1>3, <1>4, <1>8
    <2> DEFINE whole == buf[c] \o part
    <2>2. /\ whole \in Seq(Bytes)
          /\ Len(whole) = Len(buf[c]) + Len(part)
          /\ \A i \in 1 .. (Len(buf[c]) + Len(part)) :
               whole[i] = IF i <= Len(buf[c]) THEN buf[c][i] ELSE part[i - Len(buf[c])]
      BY <2>1, ConcatProperties
    <2> HIDE DEF whole
    <2>3. DOMAIN whole = 1 .. Len(whole)
      BY <2>2
    <2>4. QED
      BY <2>1, <2>2, <2>3 DEF whole
  <1>10. Looping(c)'
    <2>1. Aligned(c)'
      <3>1. offset(c)' = offset(c) + n
        BY <1>1, <1>2, <1>4 DEF offset
      <3>2. QED
        BY <1>1, <1>2, <1>5, <3>1 DEF Aligned, block_off
    <2>2. Len(buf'[c]) = start'[c]
      BY <1>2, <1>9
    <2>3. QED
      BY <1>1, <1>3, <2>1, <2>2 DEF Looping
  <1>11. ASSUME ~misplaced PROVE DataOf(c)'
    <2>1. Returned(c)'
      <3> SUFFICES ASSUME NEW i \in 1 .. (start[c] + n)
                   PROVE  LET o == call[c].off + i - 1
                          IN  \/ Block(o) \in contested[c]
                              \/ Expects(s, o, (buf[c] \o part)[i])
        BY <1>1, <1>2, <1>9 DEF Returned, Expects
      <3> DEFINE o == call[c].off + i - 1
      <3>1. CASE i <= start[c]
        <4>1. i \in DOMAIN buf[c] /\ (buf[c] \o part)[i] = buf[c][i]
          BY <1>3, <1>4, <1>9, <3>1
        <4>2. QED
          BY <1>1, <1>11, <4>1 DEF ReadInv, DataOf, Returned
      <3>2. CASE ~(i <= start[c])
        <4>1. /\ i - start[c] \in 1 .. n /\ offset(c) + (i - start[c]) - 1 = o
              /\ (buf[c] \o part)[i] = part[i - start[c]]
          <5>1. i \in Int /\ start[c] \in Int /\ n \in Int /\ call[c].off \in Int
                /\ start[c] < i /\ i <= start[c] + n
            BY <1>4, <3>2
          <5>2. i - start[c] \in 1 .. n
            BY <5>1
          <5>3. offset(c) + (i - start[c]) - 1 = o
            <6>1. offset(c) = call[c].off + start[c]
              BY <1>5
            <6>2. QED
              BY <5>1, <6>1
          <5>4. (buf[c] \o part)[i] = part[i - start[c]]
            BY <1>9, <3>2
          <5>5. QED
            BY <5>2, <5>3, <5>4
        <4>2. part[i - start[c]] = Held(s, o)
          BY <1>8, <4>1
        <4>3. o \in Covered(call[c])
          BY <1>1, <1>3, <4>1, Where DEF n
        <4>4. o \in Offsets /\ Block(o) \in Blocks(call[c])
          BY <1>4, <4>3, BlocksOf
        <4> HIDE DEF o
        <4>5. Block(o) \in contested[c] \/ Expects(s, o, Held(s, o))
          BY <1>1, <1>3, <1>11, <4>4, PageRead
        <4>6. QED
          BY <4>1, <4>2, <4>5 DEF o
      <3>3. QED
        BY <3>1, <3>2
    <2>2. QED
      BY <1>1, <1>3, <2>1 DEF DataOf, Indexed, SpoiltLost, OwnStored, Filled, Writing
  <1>12. ASSUME ~misplaced PROVE PagesHold'
    <2>1. PagesHold
      BY <1>12 DEF ReadInv
    <2>2. \A d \in Clients : Storing(d) =>
             Storing(d)' /\ call'[d].suuid = call[d].suuid /\ block_num(d)' = block_num(d)
      BY <1>1, <1>2, <1>3 DEF Storing, block_num, offset
    <2>3. \A t \in Suuids, o \in Offsets : BeingStored(t, o) => BeingStored(t, o)'
      BY <2>2 DEF BeingStored
    <2>4. \A t \in Suuids, o \in Offsets : Expects(t, o, Held(t, o)) => Expects(t, o, Held(t, o))'
      BY <1>1 DEF Expects, Held
    <2>5. QED
      BY <2>1, <2>3, <2>4 DEF PagesHold
  <1>13. QED
    BY <1>1, <1>6, <1>7, <1>10, <1>11, <1>12, InLoopKeeps, Moved

-----------------------------------------------------------------------------
(* Calls begin and end.                                                    *)

LEMMA NoCallRight ==
  ASSUME TypeInv, NEW c \in Clients, Return(c)
  PROVE  /\ call'[c] = NoCall /\ start'[c] = 0 /\ at'[c] = "loop" /\ buf'[c] = <<>>
         /\ \A d \in Clients : d # c => Unmoved(d) /\ at'[d] = at[d]
         /\ Looping(c)' /\ OwnExpected(c)' /\ DataOf(c)' /\ Pairs(c)'
  <1>1. /\ call'[c] = NoCall /\ start'[c] = 0 /\ at'[c] = "loop" /\ buf'[c] = <<>>
        /\ \A d \in Clients : d # c => Unmoved(d) /\ at'[d] = at[d]
    BY DEF Return, TypeInv, SizeInv, CallsTyped, LoopTyped, Unmoved
  <1>2. ~Writing(c)' /\ call'[c].op \notin {"read", "write"}
    BY <1>1 DEF Writing, NoCall
  <1>3. Pairs(c)'
    BY <1>2 DEF Pairs, Knows, Lost, Writing
  <1>4. Len(buf'[c]) = 0
    BY <1>1
  <1>5. Looping(c)' /\ OwnExpected(c)'
    BY <1>1, <1>2, <1>4 DEF Looping, Aligned, OwnExpected
  <1>6. DataOf(c)'
    BY <1>1, <1>2 DEF DataOf, Indexed, SpoiltLost, OwnStored, Filled, Returned
  <1>7. QED
    BY <1>1, <1>3, <1>5, <1>6

LEMMA OthersContested ==
  ASSUME ReadInv, NEW c \in Clients, contested' = [contested EXCEPT ![c] = {}]
  PROVE  /\ \A d \in Clients : d # c => contested'[d] = contested[d]
         /\ contested' \in [Clients -> SUBSET Nat]
  BY DEF ReadInv, HistoryTyped

\* A call ends that has not written, or crashes: what it was storing is lost.
LEMMA EndData ==
  ASSUME ReadInv, TypeInv', NEW c \in Clients, EndRead(c) \/ Crash(c)
  PROVE  ReadInv'
  <1>1. Return(c) /\ UNCHANGED <<pages, misplaced>> /\ TypeInv
    BY DEF EndRead, Crash, ReadInv
  <1>2. contested' = [contested EXCEPT ![c] = {}]
    BY <1>1 DEF Return
  <1>3. ASSUME NEW t \in Suuids, NEW o \in Offsets
        PROVE  expected'[t][o] = IF Storing(c) /\ t = call[c].suuid /\ Block(o) = block_num(c)
                                 THEN {} ELSE expected[t][o]
    <2>1. expected \in [Suuids -> [Offsets -> SUBSET ((1 .. MaxWrites) \X Nat)]]
      BY DEF ReadInv, HistoryTyped
    <2>2. CASE Storing(c) /\ Crash(c)
      <3>1. expected' = [expected EXCEPT ![call[c].suuid] =
                           [p \in Offsets |-> IF p \div BlockSize = block_num(c)
                                              THEN {} ELSE @[p]]]
        BY <2>2 DEF Crash
      <3>2. QED
        BY <2>1, <2>2, <3>1 DEF Block
    <2>3. CASE ~Storing(c) /\ Crash(c)
      BY <2>3 DEF Crash
    <2>4. CASE EndRead(c)
      <3>1. UNCHANGED expected
        BY <2>4 DEF EndRead
      <3>2. ~Storing(c)
        BY <2>4 DEF EndRead, Storing, ReadInv, Looping, Writing
      <3>3. QED
        BY <3>1, <3>2
    <2>5. QED
      BY <2>2, <2>3, <2>4
  <1>4. HistoryTyped'
    <2>1. expected' \in [Suuids -> [Offsets -> SUBSET ((1 .. MaxWrites) \X Nat)]]
      BY DEF EndRead, Crash, ReadInv, HistoryTyped
    <2>2. QED
      BY <1>1, <1>2, <2>1, OthersContested DEF HistoryTyped, ReadInv
  <1>5. \A t \in Suuids, o \in Offsets : Keeps(t, o)
    BY <1>3 DEF Keeps
  <1>6. Rest(c)
    <2> SUFFICES ASSUME NEW d \in Clients, d # c
                 PROVE  Unmoved(d) /\ AtStays(d) /\ ExpectedStays(d) /\ PagesStay(d)
      BY DEF Rest
    <2>1. Unmoved(d) /\ AtStays(d)
      BY <1>1, NoCallRight DEF AtStays
    <2>2. contested'[d] = contested[d]
      BY <1>2, OthersContested
    <2>3. call[d].op \in {"read", "write"} => call[d].suuid \in Suuids
      BY <1>1, CallFacts DEF NoCall
    <2>4. ExpectedStays(d)
      BY <1>5, <2>2, <2>3 DEF ExpectedStays
    <2>5. QED
      BY <1>1, <2>1, <2>4, PagesUnmoved
  <1>7. ASSUME ~misplaced PROVE PagesHold'
    <2> SUFFICES ASSUME NEW t \in Suuids, NEW o \in Offsets
                 PROVE  Expects(t, o, Held(t, o))' \/ BeingStored(t, o)'
      BY DEF PagesHold
    <2>1. CASE Expects(t, o, Held(t, o))
      BY <1>1, <1>5, <2>1, HoldStays
    <2>2. CASE BeingStored(t, o)
      <3>1. PICK d \in Clients : Storing(d) /\ call[d].suuid = t /\ block_num(d) = Block(o)
        BY <2>2 DEF BeingStored
      <3>2. CASE d = c
        <4>1. expected'[t][o] = {}
          BY <1>3, <3>1, <3>2
        <4>2. QED
          BY <4>1 DEF Expects
      <3>3. CASE d # c
        <4>1. Unmoved(d) /\ at'[d] = at[d]
          BY <1>1, <3>3, NoCallRight
        <4>2. Storing(d)' /\ call'[d].suuid = t /\ block_num(d)' = Block(o)
          BY <3>1, <4>1, PlaceStays DEF Storing, Unmoved
        <4>3. QED
          BY <4>2 DEF BeingStored
      <3>4. QED
        BY <3>2, <3>3
    <2>3. QED
      BY <1>7, <2>1, <2>2 DEF ReadInv, PagesHold
  <1>8. QED
    BY <1>1, <1>4, <1>6, <1>7, NoCallRight, Moved

LEMMA BlocksNatural ==
  ASSUME NEW k, Covered(k) \subseteq Offsets
  PROVE  Blocks(k) \subseteq Nat
  <1>1. \A o \in Offsets : Block(o) \in Nat
    <2> SUFFICES ASSUME NEW o \in Offsets PROVE Block(o) \in Nat
      OBVIOUS
    <2>1. o \in Nat /\ BlockSize \in Nat \ {0}
      BY BlockAssumption DEF Offsets
    <2>2. QED
      BY <2>1, DivMod, Zenon DEF Block
  <1>2. QED
    BY <1>1, BlocksOf

LEMMA SharedNatural ==
  ASSUME TypeInv, NEW d \in Clients, NEW k
  PROVE  Shared(k, call[d]) \subseteq Nat
  <1>1. CASE call[d] = NoCall
    BY <1>1 DEF Shared
  <1>2. CASE call[d] # NoCall
    BY <1>2, CallFacts, BlocksNatural, SharedSame
  <1>3. QED
    BY <1>1, <1>2

\* What Begin makes of the call.
LEMMA Begun ==
  ASSUME ReadInv, NEW c \in Clients, Idle(c), NEW op, NEW f \in FileNames,
         NEW off \in Nat, NEW len \in Nat, off + len <= MaxLength,
         Exists(Key(f)), Begin(c, op, f, off, len)
  PROVE  /\ \A d \in Clients : d # c => Unmoved(d) /\ at'[d] = at[d]
         /\ at'[c] = "loop" /\ start'[c] = 0 /\ buf'[c] = <<>> /\ Len(buf'[c]) = 0
         /\ call'[c].op = op /\ call'[c] # NoCall /\ call'[c].off = off
         /\ call'[c].suuid \in Suuids
         /\ call'[c].number = IF op = "write" THEN writes' ELSE 0
         /\ Covered(call'[c]) = off .. (off + len - 1) /\ Covered(call'[c]) \subseteq Offsets
         /\ offset(c)' = off /\ Looping(c)'
  <1>1. UNCHANGED <<start, at, page, index, buf>>
    BY DEF Begin
  <1>2. /\ \A d \in Clients : d # c => call'[d] = call[d]
        /\ call'[c] = [op |-> op, key |-> Key(f), off |-> off, len |-> len,
                       suuid |-> file_store[Key(f)].suuid, size |-> file_store[Key(f)].size,
                       number |-> IF op = "write" THEN writes' ELSE 0]
    BY DEF Begin, ReadInv, TypeInv, SizeInv, CallsTyped
  <1>3. file_store[Key(f)].suuid \in Suuids
    BY SuuidTyped DEF Exists, ReadInv, TypeInv
  <1>4. at[c] = "loop" /\ start[c] = 0 /\ Looping(c) /\ ~Writing(c)
    BY DEF ReadInv, TypeInv, InRange, Idle, Writing, NoCall
  <1>5. buf[c] = <<>> /\ Len(buf[c]) = 0
    <2>1. buf[c] \in Seq(Bytes) /\ Len(buf[c]) = 0
      BY <1>4 DEF Looping, ReadInv, TypeInv, LoopTyped
    <2>2. QED
      BY <2>1
  <1>6. call'[c].op = op /\ call'[c].off = off /\ call'[c].len = len
        /\ call'[c].suuid = file_store[Key(f)].suuid
        /\ call'[c].number = IF op = "write" THEN writes' ELSE 0
    BY <1>2
  <1>7. call'[c] # NoCall
    <2>1. NoCall = [op |-> "none"]
      BY DEF NoCall
    <2>2. DOMAIN call'[c] = {"op", "key", "off", "len", "suuid", "size", "number"}
          /\ DOMAIN [op |-> "none"] = {"op"}
      BY <1>2
    <2>3. "off" \in DOMAIN call'[c] /\ "off" \notin DOMAIN [op |-> "none"]
      BY <2>2
    <2>4. QED
      BY <2>1, <2>3
  <1>8. Covered(call'[c]) = off .. (off + len - 1)
    BY <1>6 DEF Covered
  <1>9. Covered(call'[c]) \subseteq Offsets
    BY <1>8, BlockAssumption DEF Offsets
  <1>10. offset(c)' = off
    BY <1>1, <1>4, <1>6 DEF offset
  <1>11. Looping(c)'
    BY <1>1, <1>4, <1>5 DEF Looping, Aligned
  <1>12. QED
    BY <1>1, <1>2, <1>3, <1>4, <1>5, <1>6, <1>7, <1>8, <1>9, <1>10, <1>11 DEF Unmoved

\* A call at its beginning has neither stored nor read anything.
LEMMA BegunData ==
  ASSUME NEW c \in Clients, at'[c] = "loop", buf'[c] = <<>>, NEW off \in Nat, NEW len \in Nat,
         offset(c)' = off, Covered(call'[c]) = off .. (off + len - 1)
  PROVE  DataOf(c)'
  <1>1. \A o \in Covered(call'[c]) : ~(o < offset(c)')
    OBVIOUS
  <1>2. OwnStored(c)'
    BY <1>1 DEF OwnStored, Covered
  <1>3. QED
    BY <1>2 DEF DataOf, Indexed, SpoiltLost, Filled, Returned

LEMMA StoringStays ==
  ASSUME NEW c \in Clients, at[c] = "loop",
         \A d \in Clients : d # c => Unmoved(d) /\ at'[d] = at[d]
  PROVE  \A s, o : BeingStored(s, o) => BeingStored(s, o)'
  <1> SUFFICES ASSUME NEW s, NEW o, BeingStored(s, o) PROVE BeingStored(s, o)'
    OBVIOUS
  <1>1. PICK d \in Clients : Storing(d) /\ call[d].suuid = s /\ block_num(d) = Block(o)
    BY DEF BeingStored
  <1>2. d # c
    BY <1>1 DEF Storing
  <1>3. Storing(d)' /\ call'[d].suuid = s /\ block_num(d)' = Block(o)
    BY <1>1, <1>2, PlaceStays DEF Storing, Unmoved
  <1>4. QED
    BY <1>3 DEF BeingStored

LEMMA BeginReadData ==
  ASSUME ReadInv, TypeInv', NEW c \in Clients, BeginRead(c)
  PROVE  ReadInv'
  <1>1. /\ Idle(c) /\ UNCHANGED <<pages, expected, misplaced>> /\ TypeInv
        /\ contested' = [contested EXCEPT ![c] =
                           UNION {Shared(call'[c], call[d]) : d \in Others(c, "write")}]
    BY DEF BeginRead, ReadInv
  <1>2. PICK f \in FileNames, r \in Ranges :
          /\ Exists(Key(f))
          /\ LET n == Smaller(file_store[Key(f)].size, r.len)
             IN  Begin(c, "refused", f, r.off, r.len) \/ Begin(c, "read", f, r.off, n)
    BY DEF BeginRead
  <1>3. PICK op \in {"refused", "read"}, len \in Nat :
          Begin(c, op, f, r.off, len) /\ r.off \in Nat /\ r.off + len <= MaxLength
    <2> DEFINE n == Smaller(file_store[Key(f)].size, r.len)
    <2>1. r.off \in Nat /\ r.len \in Nat /\ r.off + r.len <= MaxLength
      BY BlockAssumption DEF Ranges, Offsets
    <2>2. file_store[Key(f)].size \in Nat
      BY <1>2, SuuidTyped DEF Exists, ReadInv, TypeInv
    <2>3. n \in Nat /\ r.off + n <= MaxLength
      BY <2>1, <2>2, BlockAssumption DEF Smaller
    <2>4. Begin(c, "refused", f, r.off, r.len) \/ Begin(c, "read", f, r.off, n)
      BY <1>2
    <2> HIDE DEF n
    <2>5. QED
      BY <2>1, <2>3, <2>4
  <1>4. /\ \A d \in Clients : d # c => Unmoved(d) /\ at'[d] = at[d]
        /\ at'[c] = "loop" /\ buf'[c] = <<>> /\ call'[c].op \in {"read", "refused"}
        /\ Covered(call'[c]) = r.off .. (r.off + len - 1)
        /\ offset(c)' = r.off /\ Looping(c)' /\ call'[c] # NoCall
    <2>1. ReadInv /\ Idle(c) /\ Exists(Key(f))
      BY <1>1, <1>2
    <2>2. /\ \A d \in Clients : d # c => Unmoved(d) /\ at'[d] = at[d]
          /\ at'[c] = "loop" /\ start'[c] = 0 /\ buf'[c] = <<>> /\ Len(buf'[c]) = 0
          /\ call'[c].op = op /\ call'[c] # NoCall /\ call'[c].off = r.off
          /\ call'[c].suuid \in Suuids
          /\ call'[c].number = IF op = "write" THEN writes' ELSE 0
          /\ Covered(call'[c]) = r.off .. (r.off + len - 1) /\ Covered(call'[c]) \subseteq Offsets
          /\ offset(c)' = r.off /\ Looping(c)'
      BY <1>3, <2>1, Begun, Zenon
    <2>3. QED
      BY <1>3, <2>2
  <1>5. /\ contested'[c] = UNION {Shared(call'[c], call[d]) : d \in Others(c, "write")}
        /\ \A d \in Clients : d # c => contested'[d] = contested[d]
        /\ contested' \in [Clients -> SUBSET Nat]
    <2>1. \A d \in Clients : Shared(call'[c], call[d]) \subseteq Nat
      BY <1>1, SharedNatural
    <2>2. UNION {Shared(call'[c], call[d]) : d \in Others(c, "write")} \subseteq Nat
      BY <2>1 DEF Others
    <2>3. QED
      BY <1>1, <2>2 DEF ReadInv, HistoryTyped
  <1>6. HistoryTyped'
    BY <1>1, <1>5 DEF ReadInv, HistoryTyped
  <1>7. Rest(c)
    BY <1>1, <1>4, <1>5, SameKeeps, PagesUnmoved DEF Rest, AtStays, ExpectedStays
  <1>8. ~Writing(c)' /\ OwnExpected(c)'
    BY <1>4 DEF Writing, OwnExpected
  <1>9. Pairs(c)'
    <2>1. ASSUME NEW d \in Clients, d # c, Writing(d)'
          PROVE  Shared(call'[c], call'[d]) \subseteq contested'[c]
      <3>1. call'[d] = call[d] /\ d \in Others(c, "write")
        BY <1>4, <2>1 DEF Unmoved, Others, Writing
      <3>2. QED
        BY <1>5, <3>1
    <2>2. QED
      BY <1>8, <2>1 DEF Pairs, Knows, Lost
  <1>10. DataOf(c)'
    BY <1>3, <1>4, BegunData
  <1>11. ASSUME ~misplaced PROVE PagesHold'
    <2>1. at[c] = "loop"
      BY <1>1 DEF TypeInv, InRange
    <2>2. \A s \in Suuids, o \in Offsets : Expects(s, o, Held(s, o)) => Expects(s, o, Held(s, o))'
      BY <1>1 DEF Expects, Held
    <2>3. QED
      BY <1>4, <1>11, <2>1, <2>2, StoringStays DEF ReadInv, PagesHold
  <1>12. QED
    BY <1>1, <1>4, <1>6, <1>7, <1>8, <1>9, <1>10, <1>11, Moved

LEMMA BeginWriteData ==
  ASSUME ReadInv, TypeInv', NEW c \in Clients, BeginWrite(c)
  PROVE  ReadInv'
  <1> DEFINE k == call'[c]
             lost == UNION {Shared(k, call[d]) : d \in Others(c, "write")}
  <1>1. /\ Idle(c) /\ UNCHANGED <<pages, misplaced>> /\ TypeInv
        /\ expected' = [expected EXCEPT ![k.suuid] =
              [o \in Offsets |->
                 IF o \div BlockSize \in lost \/ @[o] = {} THEN {}
                 ELSE @[o] \cup {<<writes', o - k.off>> : x \in {o} \cap Covered(k)}]]
        /\ contested' = [d \in Clients |->
              IF d = c THEN UNION {Shared(k, call[e]) : e \in Clients \ {c}}
              ELSE contested[d] \cup Shared(k, call[d])]
    BY DEF BeginWrite, ReadInv
  <1>2. PICK f \in FileNames, r \in Ranges : Exists(Key(f)) /\ Begin(c, "write", f, r.off, r.len)
    BY DEF BeginWrite
  <1>3. r.off \in Nat /\ r.len \in Nat /\ r.off + r.len <= MaxLength
    BY BlockAssumption DEF Ranges, Offsets
  <1>4. /\ \A d \in Clients : d # c => Unmoved(d) /\ at'[d] = at[d]
        /\ at'[c] = "loop" /\ buf'[c] = <<>> /\ k.op = "write" /\ k # NoCall
        /\ k.off = r.off /\ k.number = writes' /\ k.suuid \in Suuids
        /\ Covered(k) = r.off .. (r.off + r.len - 1) /\ Covered(k) \subseteq Offsets
        /\ offset(c)' = r.off /\ Looping(c)'
    <2>1. Begin(c, "write", f, r.off, r.len) /\ Exists(Key(f))
      BY <1>2
    <2>2. /\ \A d \in Clients : d # c => Unmoved(d) /\ at'[d] = at[d]
          /\ at'[c] = "loop" /\ start'[c] = 0 /\ buf'[c] = <<>> /\ Len(buf'[c]) = 0
          /\ call'[c].op = "write" /\ call'[c] # NoCall /\ call'[c].off = r.off
          /\ call'[c].suuid \in Suuids
          /\ call'[c].number = IF "write" = "write" THEN writes' ELSE 0
          /\ Covered(call'[c]) = r.off .. (r.off + r.len - 1) /\ Covered(call'[c]) \subseteq Offsets
          /\ offset(c)' = r.off /\ Looping(c)'
      BY <1>1, <1>3, <2>1, Begun, Zenon
    <2>3. QED
      BY <2>2
  <1>5. writes' \in 1 .. MaxWrites
    BY BoundAssumption DEF BeginWrite, ReadInv, TypeInv, SizeInv, CallsTyped
  <1>6. ASSUME NEW s \in Suuids, NEW o \in Offsets
        PROVE  expected'[s][o] = IF s = k.suuid
                                 THEN IF Block(o) \in lost \/ expected[s][o] = {} THEN {}
                                      ELSE IF o \in Covered(k)
                                           THEN expected[s][o] \cup {<<writes', o - k.off>>}
                                           ELSE expected[s][o]
                                 ELSE expected[s][o]
    <2> HIDE DEF k, lost
    <2>1. expected \in [Suuids -> [Offsets -> SUBSET ((1 .. MaxWrites) \X Nat)]]
      BY DEF ReadInv, HistoryTyped
    <2>2. CASE s # k.suuid
      BY <1>1, <2>1, <2>2
    <2>3. CASE s = k.suuid
      <3>1. expected'[s] = [p \in Offsets |->
                 IF p \div BlockSize \in lost \/ expected[s][p] = {} THEN {}
                 ELSE expected[s][p] \cup {<<writes', p - k.off>> : x \in {p} \cap Covered(k)}]
        BY <1>1, <2>1, <2>3
      <3>2. expected'[s][o] = IF Block(o) \in lost \/ expected[s][o] = {} THEN {}
                 ELSE expected[s][o] \cup {<<writes', o - k.off>> : x \in {o} \cap Covered(k)}
        BY <3>1 DEF Block
      <3>3. {<<writes', o - k.off>> : x \in {o} \cap Covered(k)}
              = IF o \in Covered(k) THEN {<<writes', o - k.off>>} ELSE {}
        OBVIOUS
      <3>4. QED
        BY <2>3, <3>2, <3>3
    <2>4. QED
      BY <2>2, <2>3
  <1>7. \A s \in Suuids, o \in Offsets : Keeps(s, o)
    <2> SUFFICES ASSUME NEW s \in Suuids, NEW o \in Offsets PROVE Keeps(s, o)
      OBVIOUS
    <2> HIDE DEF k, lost
    <2>1. \/ expected'[s][o] = {}
          \/ expected[s][o] # {} /\ expected'[s][o] = expected[s][o] \cup {<<writes', o - k.off>>}
          \/ expected'[s][o] = expected[s][o]
      BY <1>6
    <2>2. QED
      BY <2>1 DEF Keeps
  <1>8. /\ contested'[c] = UNION {Shared(k, call[e]) : e \in Clients \ {c}}
        /\ \A d \in Clients : d # c => contested'[d] = contested[d] \cup Shared(k, call[d])
    BY <1>1
  <1>9. HistoryTyped'
    <2> HIDE DEF k, lost
    <2>1. \A d \in Clients : Shared(k, call[d]) \subseteq Nat
      BY <1>1, SharedNatural
    <2>2. contested' \in [Clients -> SUBSET Nat]
      BY <1>1, <2>1 DEF ReadInv, HistoryTyped
    <2>3. \A o \in Covered(k) : <<writes', o - k.off>> \in (1 .. MaxWrites) \X Nat
      BY <1>3, <1>4, <1>5
    <2>4. \A s \in Suuids, o \in Offsets : expected'[s][o] \in SUBSET ((1 .. MaxWrites) \X Nat)
      <3> SUFFICES ASSUME NEW s \in Suuids, NEW o \in Offsets
                   PROVE  expected'[s][o] \in SUBSET ((1 .. MaxWrites) \X Nat)
        OBVIOUS
      <3> DEFINE P == (1 .. MaxWrites) \X Nat
      <3>1. expected[s][o] \in SUBSET P
        BY DEF ReadInv, HistoryTyped
      <3>2. o \in Covered(k) => <<writes', o - k.off>> \in P
        BY <2>3
      <3> HIDE DEF P
      <3>3. \/ expected'[s][o] = {}
            \/ o \in Covered(k) /\ expected'[s][o] = expected[s][o] \cup {<<writes', o - k.off>>}
            \/ expected'[s][o] = expected[s][o]
        BY <1>6
      <3>4. expected'[s][o] \in SUBSET P
        BY <3>1, <3>2, <3>3
      <3>5. QED
        BY <3>4 DEF P
    <2>5. expected' \in [Suuids -> [Offsets -> SUBSET ((1 .. MaxWrites) \X Nat)]]
      <3> DEFINE T == SUBSET ((1 .. MaxWrites) \X Nat)
      <3>1. expected \in [Suuids -> [Offsets -> T]]
        BY DEF ReadInv, HistoryTyped
      <3>2. /\ DOMAIN expected' = Suuids
            /\ expected' = [s \in Suuids |-> expected'[s]]
        BY <1>1, <3>1
      <3>3. \A s \in Suuids : expected'[s] = [o \in Offsets |-> expected'[s][o]]
        <4> SUFFICES ASSUME NEW s \in Suuids PROVE expected'[s] = [o \in Offsets |-> expected'[s][o]]
          OBVIOUS
        <4>1. CASE s # k.suuid
          BY <1>1, <3>1, <4>1
        <4>2. CASE s = k.suuid
          BY <1>1, <3>1, <4>2
        <4>3. QED
          BY <4>1, <4>2
      <3>4. \A s \in Suuids, o \in Offsets : expected'[s][o] \in T
        BY <2>4
      <3> HIDE DEF T
      <3>5. \A s \in Suuids : expected'[s] \in [Offsets -> T]
        BY <3>3, <3>4
      <3>6. QED
        BY <3>2, <3>5 DEF T
    <2>6. QED
      BY <1>1, <2>2, <2>5 DEF HistoryTyped, ReadInv
  <1>10. Rest(c)
    <2> SUFFICES ASSUME NEW d \in Clients, d # c
                 PROVE  Unmoved(d) /\ AtStays(d) /\ ExpectedStays(d) /\ PagesStay(d)
      BY DEF Rest
    <2>1. Unmoved(d) /\ AtStays(d) /\ contested[d] \subseteq contested'[d]
      BY <1>4, <1>8 DEF AtStays
    <2>2. call[d].op \in {"read", "write"} => call[d].suuid \in Suuids
      BY <1>1, CallFacts DEF NoCall
    <2>3. ExpectedStays(d)
      BY <1>7, <2>1, <2>2 DEF ExpectedStays
    <2>4. QED
      BY <1>1, <2>1, <2>3, PagesUnmoved
  <1>11. OwnExpected(c)'
    <2> SUFFICES ASSUME NEW o \in Covered(k)
                 PROVE  expected'[k.suuid][o] = {} \/ <<k.number, o - k.off>> \in expected'[k.suuid][o]
      BY DEF OwnExpected, Expects, OwnByte, Covered
    <2> HIDE DEF k, lost
    <2>1. QED
      BY <1>4, <1>6
  <1>12. Pairs(c)'
    <2> SUFFICES ASSUME NEW d \in Clients, d # c
                 PROVE  Knows(c, d)' /\ Knows(d, c)' /\ Lost(c, d)' /\ Lost(d, c)'
      BY DEF Pairs
    <2>1. call'[d] = call[d] /\ Shared(call[d], k) = Shared(k, call[d])
      BY <1>4, SharedSame DEF Unmoved
    <2>2. Shared(k, call[d]) \subseteq contested'[c] /\ Shared(k, call[d]) \subseteq contested'[d]
      BY <1>8
    <2>3. ASSUME Writing(d)', NEW o \in Offsets, Block(o) \in Shared(k, call[d])
          PROVE  expected'[k.suuid][o] = {} /\ call[d].suuid = k.suuid
      <3>1. d \in Others(c, "write")
        BY <2>1, <2>3 DEF Others, Writing
      <3>2. Block(o) \in lost
        BY <2>3, <3>1
      <3>3. expected'[k.suuid][o] = {}
        BY <1>4, <1>6, <3>2
      <3>4. call[d].suuid = k.suuid
        BY <2>3, SharedSame
      <3>5. QED
        BY <3>3, <3>4
    <2> HIDE DEF k, lost
    <2>4. Knows(c, d)' /\ Knows(d, c)'
      BY <2>1, <2>2 DEF Knows, k
    <2>5. Lost(c, d)' /\ Lost(d, c)'
      BY <2>1, <2>3 DEF Lost, k
    <2>6. QED
      BY <2>4, <2>5
  <1>13. DataOf(c)'
    BY <1>3, <1>4, BegunData
  <1>14. ASSUME ~misplaced PROVE PagesHold'
    <2>1. at[c] = "loop"
      BY <1>1 DEF TypeInv, InRange
    <2>2. \A s \in Suuids, o \in Offsets : Expects(s, o, Held(s, o)) => Expects(s, o, Held(s, o))'
      BY <1>1, <1>7, HoldStays
    <2>3. QED
      BY <1>4, <1>14, <2>1, <2>2, StoringStays DEF ReadInv, PagesHold
  <1>15. QED
    BY <1>1, <1>4, <1>9, <1>10, <1>11, <1>12, <1>13, <1>14, Moved

\* A write ends: where no other used the block, its bytes are expected, and stored.
LEMMA EndWriteData ==
  ASSUME ReadInv, TypeInv', NEW c \in Clients, EndWrite(c)
  PROVE  ReadInv'
  <1> DEFINE k == call[c]
             sure(s, o) == s = k.suuid /\ o \in Covered(k) /\ Block(o) \notin contested[c]
  <1>1. /\ Return(c) /\ UNCHANGED <<pages, misplaced>> /\ TypeInv
        /\ k.op = "write" /\ at[c] = "loop" /\ start[c] = k.len
        /\ expected' = [expected EXCEPT ![k.suuid] =
              [o \in Offsets |-> IF o \in Covered(k) /\ o \div BlockSize \notin contested[c]
                                 THEN {<<k.number, o - k.off>>} ELSE @[o]]]
        /\ contested' = [contested EXCEPT ![c] = {}]
    BY DEF EndWrite, ReadInv, Return
  <1>2. k # NoCall /\ Writing(c)
    BY <1>1 DEF NoCall, Writing
  <1>3. /\ k.suuid \in Suuids /\ k.off \in Nat /\ k.len \in Nat
        /\ k.number \in 1 .. MaxWrites /\ Covered(k) \subseteq Offsets
    BY <1>1, <1>2, CallFacts
  <1>4. ASSUME NEW s \in Suuids, NEW o \in Offsets
        PROVE  expected'[s][o] = IF sure(s, o) THEN {<<k.number, o - k.off>>} ELSE expected[s][o]
    <2>1. expected \in [Suuids -> [Offsets -> SUBSET ((1 .. MaxWrites) \X Nat)]]
      BY DEF ReadInv, HistoryTyped
    <2> HIDE DEF k
    <2>2. QED
      BY <1>1, <2>1 DEF Block
  <1>5. HistoryTyped'
    <2>1. \A o \in Covered(k) : {<<k.number, o - k.off>>} \in SUBSET ((1 .. MaxWrites) \X Nat)
      <3> SUFFICES ASSUME NEW o \in Covered(k) PROVE <<k.number, o - k.off>> \in (1 .. MaxWrites) \X Nat
        OBVIOUS
      <3>1. o - k.off \in Nat
        BY <1>3 DEF Covered
      <3>2. QED
        BY <1>3, <3>1
    <2> DEFINE T == SUBSET ((1 .. MaxWrites) \X Nat)
    <2>2. expected \in [Suuids -> [Offsets -> T]]
      BY DEF ReadInv, HistoryTyped
    <2>3. \A o \in Covered(k) : {<<k.number, o - k.off>>} \in T
      BY <2>1
    <2> HIDE DEF T, k
    <2>4. expected' \in [Suuids -> [Offsets -> T]]
      BY <1>1, <1>3, <2>2, <2>3
    <2>5. QED
      BY <1>1, <2>4, OthersContested DEF HistoryTyped, ReadInv, T
  <1>6. ASSUME NEW d \in Clients, d # c
        PROVE  Unmoved(d) /\ AtStays(d) /\ ExpectedStays(d) /\ PagesStay(d)
    <2>1. Unmoved(d) /\ AtStays(d)
      BY <1>1, <1>6, NoCallRight DEF AtStays
    <2>2. contested'[d] = contested[d]
      BY <1>1, <1>6, OthersContested
    <2>3. ASSUME call[d].op \in {"read", "write"}, NEW o \in Offsets, Block(o) \in Blocks(call[d])
          PROVE  Keeps(call[d].suuid, o) \/ (~Writing(d) /\ Block(o) \in contested[d])
      <3>1. call[d] # NoCall
        BY <2>3 DEF NoCall
      <3>2. call[d].suuid \in Suuids
        BY <1>1, <3>1, CallFacts
      <3>3. CASE ~sure(call[d].suuid, o)
        <4>1. expected'[call[d].suuid][o] = expected[call[d].suuid][o]
          BY <1>4, <3>2, <3>3
        <4>2. QED
          BY <4>1 DEF Keeps
      <3>4. CASE sure(call[d].suuid, o)
        <4>1. Block(o) \in Blocks(k) /\ call[d].suuid = k.suuid /\ Block(o) \notin contested[c]
          BY <3>4, BlocksOf
        <4>2. Block(o) \in Shared(k, call[d]) /\ Block(o) \in Shared(call[d], k)
          BY <1>2, <2>3, <3>1, <4>1, SharedSame
        <4>3. Block(o) \in contested[d]
          BY <1>2, <1>6, <2>3, <4>2 DEF ReadInv, Noticed, Knows
        <4>4. ~Writing(d)
          BY <1>1, <1>6, <4>1, <4>2 DEF ReadInv, Noticed, Knows
        <4>5. QED
          BY <4>3, <4>4
      <3>5. QED
        BY <3>3, <3>4
    <2>4. ExpectedStays(d)
      BY <2>2, <2>3 DEF ExpectedStays
    <2>5. QED
      BY <1>1, <2>1, <2>4, PagesUnmoved
  <1>7. Rest(c)
    BY <1>6 DEF Rest
  <1>8. ASSUME ~misplaced PROVE PagesHold'
    <2> SUFFICES ASSUME NEW s \in Suuids, NEW o \in Offsets
                 PROVE  Expects(s, o, Held(s, o))' \/ BeingStored(s, o)'
      BY DEF PagesHold
    <2>1. CASE sure(s, o)
      <3>1. o < offset(c)
        BY <1>1, <1>3, <2>1 DEF Covered, offset
      <3>2. Held(s, o) = OwnByte(c, o)
        BY <1>2, <1>8, <2>1, <3>1 DEF ReadInv, DataOf, OwnStored
      <3>3. expected'[s][o] = {OwnByte(c, o)}
        BY <1>4, <2>1 DEF OwnByte
      <3>4. Held(s, o)' = Held(s, o)
        BY <1>1 DEF Held
      <3>5. QED
        BY <3>2, <3>3, <3>4 DEF Expects
    <2>2. CASE ~sure(s, o)
      <3>1. expected'[s][o] = expected[s][o]
        BY <1>4, <2>2
      <3>2. Expects(s, o, Held(s, o)) => Expects(s, o, Held(s, o))'
        BY <1>1, <3>1 DEF Expects, Held
      <3>3. BeingStored(s, o) => BeingStored(s, o)'
        BY <1>1, NoCallRight, StoringStays
      <3>4. QED
        BY <1>8, <3>2, <3>3 DEF ReadInv, PagesHold
    <2>3. QED
      BY <2>1, <2>2
  <1>9. QED
    BY <1>1, <1>5, <1>7, <1>8, NoCallRight, Moved

-----------------------------------------------------------------------------
LEMMA ReadInit == Init => ReadInv
  <1> SUFFICES ASSUME Init PROVE ReadInv
    OBVIOUS
  <1>1. TypeInv
    BY TypeInit
  <1>2. HistoryTyped
    BY DEF Init, HistoryTyped
  <1>3. \A c \in Clients : /\ ~Writing(c) /\ call[c].op = "none" /\ at[c] = "loop"
                           /\ start[c] = 0 /\ buf[c] = <<>> /\ Len(buf[c]) = 0
    BY DEF Init, Writing, NoCall
  <1>4. \A c \in Clients : Looping(c) /\ OwnExpected(c) /\ DataOf(c)
    BY <1>3 DEF Looping, Aligned, OwnExpected, DataOf, Indexed, SpoiltLost, OwnStored, Filled, Returned
  <1>5. Noticed
    BY <1>3 DEF Noticed, Knows, Lost
  <1>6. PagesHold
    BY DEF PagesHold, Expects, Init
  <1>7. QED
    BY <1>1, <1>2, <1>4, <1>5, <1>6 DEF ReadInv

\* The steps of the file server leave calls and pages as they are.
LEMMA ServerData ==
  ASSUME ReadInv, TypeInv', UNCHANGED <<pages, callvars, history>>
  PROVE  ReadInv'
  <1>1. UNCHANGED <<pages, call, start, at, page, index, buf, expected, contested, misplaced>>
    BY DEF callvars, history
  <1>2. HistoryTyped'
    BY <1>1 DEF ReadInv, HistoryTyped
  <1>3. ASSUME NEW d \in Clients
        PROVE  /\ Unmoved(d) /\ AtStays(d) /\ ExpectedStays(d) /\ PagesStay(d)
               /\ Looping(d)' /\ Pairs(d)' /\ OwnExpected(d)'
               /\ misplaced \/ DataOf(d)'
    <2>1. Unmoved(d) /\ AtStays(d) /\ ExpectedStays(d) /\ PagesStay(d)
      BY <1>1, ExpectedUnmoved, PagesUnmoved DEF Unmoved, AtStays
    <2>2. QED
      BY <1>1, <2>1, LoopingStays, InLoopKeeps, DataStays
  <1>4. Noticed'
    BY <1>3 DEF Noticed, Pairs
  <1>5. PagesHold => PagesHold'
    BY <1>1 DEF PagesHold, Expects, Held, BeingStored, Storing, block_num, offset
  <1>6. QED
    BY <1>1, <1>2, <1>3, <1>4, <1>5 DEF ReadInv

LEMMA ReadStep == ReadInv /\ [Next]_vars => ReadInv'
  <1> SUFFICES ASSUME ReadInv, [Next]_vars PROVE ReadInv'
    OBVIOUS
  <1>1. TypeInv'
    BY TypeStep DEF ReadInv
  <1>2. CASE Create \/ Unlink \/ Missing \/ UNCHANGED vars
    <2>1. UNCHANGED <<pages, callvars, history>>
      BY <1>2 DEF Create, Unlink, Missing, vars
    <2>2. QED
      BY <1>1, <2>1, ServerData
  <1>3. ASSUME NEW c \in Clients, FillPart(c) \/ FillFull(c) PROVE ReadInv'
    BY <1>1, <1>3, FillData
  <1>4. ASSUME NEW c \in Clients, BeginStore(c) PROVE ReadInv'
    BY <1>1, <1>4, BeginStoreData
  <1>5. ASSUME NEW c \in Clients, EndStore(c) PROVE ReadInv'
    BY <1>1, <1>5, EndStoreData
  <1>6. ASSUME NEW c \in Clients, BeginWrite(c) PROVE ReadInv'
    BY <1>1, <1>6, BeginWriteData
  <1>7. ASSUME NEW c \in Clients, EndWrite(c) PROVE ReadInv'
    BY <1>1, <1>7, EndWriteData
  <1>8. ASSUME NEW c \in Clients, BeginRead(c) PROVE ReadInv'
    BY <1>1, <1>8, BeginReadData
  <1>9. ASSUME NEW c \in Clients, ReadPart(c) PROVE ReadInv'
    BY <1>1, <1>9, ReadPartData
  <1>10. ASSUME NEW c \in Clients, EndRead(c) \/ Crash(c) PROVE ReadInv'
    BY <1>1, <1>10, EndData
  <1>11. QED
    BY <1>2, <1>3, <1>4, <1>5, <1>6, <1>7, <1>8, <1>9, <1>10 DEF Next

\* A read returns what was last written to each of its bytes, for any block
\* size, and any number of clients, files and writes (LocofsClient.cpp:86-110,
\* 185-200).
THEOREM ReadsRight == Spec => []ReadsBack
  <1>1. ReadInv => ReadsBack
    BY DEF ReadInv, DataOf, Returned, Expects, ReadsBack, Block
  <1>2. QED
    BY <1>1, ReadInit, ReadStep, PTL DEF Spec
=============================================================================
