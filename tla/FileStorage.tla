---------------------------- MODULE FileStorage ----------------------------
(***************************************************************************)
(* FileStorage/FileStorage.hpp: blocks allocated in a file.                *)
(*                                                                         *)
(* The file is a head (a magic text and the end of the used part) and then *)
(* blocks without gaps, each a header of HeadLen units and its data.  The  *)
(* object keeps three maps of the blocks, filled from the file whenever    *)
(* the file is opened.  One process uses the file; it may be killed        *)
(* between two writes, and any write, seek or read may fail, upon which    *)
(* the object closes the file and the next call opens and loads it anew.   *)
(*                                                                         *)
(* Positions are in units that divide both header sizes (8 bytes: HeadLen  *)
(* = 2, First = 3).  A header's first cell holds the whole header.         *)
(***************************************************************************)
EXTENDS Integers, FiniteSets, Functions

CONSTANTS HeadLen,   \* sizeof(StorageBlock_t)
          First,     \* sizeof(VerifyInfo_t) + sizeof(FixedHead_t)
          MaxFile,   \* bound: the file does not grow beyond this
          Sizes,     \* the sizes the client asks for
          Data,      \* what the client writes into a unit
          Junk,      \* what a unit holds that nobody wrote as a header or as data
          Word       \* the values of an unsigned integer

ASSUME SizesAssumption ==
    /\ HeadLen \in Nat \ {0}
    /\ First \in Nat \ {0}
    /\ MaxFile \in Nat /\ MaxFile > First
    /\ Sizes \subseteq Nat
    /\ Junk \notin Data
    /\ Word \in Nat /\ Word > MaxFile

VARIABLES disk,    \* the file: verify, fileEndIndex and the cells behind the head
          cache,   \* the object: m_FixedHead and the three maps
          open,    \* m_Storage->IsOpen()
          pc,      \* where the call in progress stands between two writes
          block,   \* its storageBlock
          index,   \* the position of LoadStorageFile
          ret,     \* what the last call answered, if it was an allocate
          kept,    \* history: handles the client has, and what it wrote there
          torn     \* history: the file was left between two writes that belong together;
                   \* nothing is claimed of it until the client clears it

vars == <<disk, cache, open, pc, block, index, ret, kept, torn>>

Absent == -1        \* the file ends before the field
Hole == 0           \* the file has been extended beyond the field, which reads as 0
Positions == First .. MaxFile - 1
Block == [blockBeginIndex : Positions, lenOfData : 0 .. MaxFile,
          blockState : {"UsedBlock", "WaitMergerBlock"}]
NoBlock == [blockBeginIndex |-> First, lenOfData |-> 0, blockState |-> "UsedBlock"]

EndOf(b) == b.blockBeginIndex + HeadLen + b.lenOfData
DataOf(b) == b.blockBeginIndex + HeadLen .. EndOf(b) - 1

Unsigned(n) == n % Word

Erase(f, k) == Restrict(f, DOMAIN f \ {k})
Assign(f, k, v) == [x \in DOMAIN f \cup {k} |-> IF x = k THEN v ELSE f[x]]
NoMap == [k \in {} |-> NoBlock]

EmptyFile == [verify |-> FALSE, fileEndIndex |-> Absent, cell |-> [p \in Positions |-> Junk]]

\* WriteToFile of a header, and of the fixed head.
PutBlock(d, b) ==
    LET tail == b.blockBeginIndex + 1 .. b.blockBeginIndex + HeadLen - 1
    IN  [d EXCEPT !.cell = [p \in Positions |-> CASE p = b.blockBeginIndex -> b
                                                  [] p \in tail -> Junk
                                                  [] OTHER -> @[p]]]
PutHead(d, end) == [d EXCEPT !.fileEndIndex = end]

\* Written to behind its head, a file that ended before it has a hole there.
Extended(d) == PutHead(d, IF d.fileEndIndex = Absent THEN Hole ELSE d.fileEndIndex)

\* Mutant: cuts one unit too much off.
Truncated_OneMore(d, end) ==
    [d EXCEPT !.cell = [p \in Positions |-> IF p < end - 1 THEN @[p] ELSE Junk]]

\* ftruncate: what lies behind the end reads as nothing from now on.
Truncated(d, end) == [d EXCEPT !.cell = [p \in Positions |-> IF p < end THEN @[p] ELSE Junk]]

Fresh(head) == [m_FixedHead |-> head, m_UsedBlock |-> NoMap,
                m_FreeBlockBeginIndex |-> NoMap, m_FreeBlockEndIndex |-> NoMap]

Init ==
    /\ disk = EmptyFile
    /\ cache = Fresh(Absent)
    /\ open = FALSE
    /\ pc = "idle"
    /\ block = NoBlock
    /\ index = First
    /\ ret = 0
    /\ kept = <<>>
    /\ torn = FALSE

Ready == open /\ pc = "idle"

\* close, at the end of a call or of the process.  The locals are gone; nobody
\* looks at the maps until IsInit has cleared them, so they go here.
Closed(head) ==
    /\ open' = FALSE
    /\ pc' = "idle"
    /\ cache' = Fresh(head)
    /\ block' = NoBlock
    /\ index' = First

-----------------------------------------------------------------------------
(***************************************************************************)
(* Free, as an operation on the maps.                                      *)
(***************************************************************************)

\* Mutant: only merges with the block behind.
MergeBefore_Never(r) == r

\* The block that ends where r begins, if it is free, becomes part of r.
MergeBefore(r) ==
    IF r.begin \notin DOMAIN r.cache.m_FreeBlockEndIndex
    THEN r
    ELSE LET before == r.cache.m_FreeBlockEndIndex[r.begin].blockBeginIndex
         IN  [r EXCEPT !.begin = before,
                       !.cache.m_FreeBlockEndIndex = Erase(@, r.begin),
                       !.cache.m_FreeBlockBeginIndex = Erase(@, before)]

\* The block that begins where r ends, if it is free, becomes part of r.
MergeAfter(r) ==
    IF r.end \notin DOMAIN r.cache.m_FreeBlockBeginIndex
    THEN r
    ELSE LET after == EndOf(r.cache.m_FreeBlockBeginIndex[r.end])
         IN  [r EXCEPT !.end = after,
                       !.cache.m_FreeBlockBeginIndex = Erase(@, r.end),
                       !.cache.m_FreeBlockEndIndex = Erase(@, after)]

Merged(c, h) ==
    MergeAfter(MergeBefore([begin |-> h, end |-> EndOf(c.m_UsedBlock[h]),
                            cache |-> [c EXCEPT !.m_UsedBlock = Erase(@, h)]]))

\* Gives the block h of the maps c back.  At the end of the file the file
\* becomes shorter; the answer of ftruncate is not looked at, and a process
\* killed before it leaves the same file as one that fails.
Release(c, h) ==
    LET r == Merged(c, h)
        b == [blockBeginIndex |-> r.begin, lenOfData |-> r.end - r.begin - HeadLen,
              blockState |-> "WaitMergerBlock"]
    IN  IF r.end = c.m_FixedHead
        THEN /\ cache' = [r.cache EXCEPT !.m_FixedHead = r.begin]
             /\ disk' \in {PutHead(disk, r.begin), Truncated(PutHead(disk, r.begin), r.begin)}
        ELSE /\ cache' = [r.cache EXCEPT !.m_FreeBlockBeginIndex = Assign(@, r.begin, b),
                                         !.m_FreeBlockEndIndex = Assign(@, r.end, b)]
             /\ disk' = PutBlock(disk, b)

-----------------------------------------------------------------------------
(***************************************************************************)
(* IsInit and LoadStorageFile: what every call does first on a closed file.*)
(***************************************************************************)

\* m_FixedHead when the head has been read.  A file too short for the head
\* leaves it as it was.
LoadedHead == CASE ~disk.verify -> First
                [] disk.verify /\ disk.fileEndIndex = Absent -> cache.m_FixedHead
                [] OTHER -> disk.fileEndIndex

\* Opens the file, forgets the maps and reads the head.
IsInit ==
    /\ ~open /\ pc = "idle" /\ ~torn
    /\ open' = TRUE
    /\ index' = First
    /\ pc' = IF disk.verify THEN "load" ELSE "rebuild"
    /\ cache' = Fresh(LoadedHead)
    /\ ret' = 0
    /\ UNCHANGED <<disk, block, kept, torn>>

\* One round of the loop: every block enters the used ones, and a free block
\* leaves them through Free.
LoadBlock ==
    /\ pc = "load" /\ index < cache.m_FixedHead
    /\ LET b == disk.cell[index]
           c == [cache EXCEPT !.m_UsedBlock = Assign(@, b.blockBeginIndex, b)]
       IN  /\ index' = EndOf(b)
           /\ \/ /\ b.blockState = "UsedBlock"
                 /\ cache' = c /\ UNCHANGED disk
              \/ /\ b.blockState = "WaitMergerBlock"
                 /\ Release(c, b.blockBeginIndex)
    /\ UNCHANGED <<open, pc, block, ret, kept, torn>>

LoadDone ==
    /\ pc = "load" /\ index >= cache.m_FixedHead
    /\ pc' = "idle"
    /\ index' = First
    /\ UNCHANGED <<disk, cache, open, block, ret, kept, torn>>

\* A file without the magic text is made anew: the text first, then the head.
Rebuild ==
    /\ pc = "rebuild"
    /\ disk' = [disk EXCEPT !.verify = TRUE]
    /\ pc' = "rebuild head"
    /\ UNCHANGED <<cache, open, block, index, ret, kept, torn>>

RebuildHead ==
    /\ pc = "rebuild head"
    /\ disk' = PutHead(disk, cache.m_FixedHead)
    /\ pc' = "idle"
    /\ UNCHANGED <<cache, open, block, index, ret, kept, torn>>

-----------------------------------------------------------------------------
(***************************************************************************)
(* allocate                                                                *)
(***************************************************************************)

\* Mutant: forgets that the new block needs a header.
Splits_NoHeader(b, size) == b.lenOfData > size

\* Large enough to be split, or exactly the size.
Splits(b, size) == b.lenOfData > size + HeadLen
Suits(b, size) == Splits(b, size) \/ b.lenOfData = size

\* h is the first of the free blocks, in the order of the map, that suits.
FirstFit(h, size) ==
    LET free == cache.m_FreeBlockBeginIndex
    IN  /\ h \in DOMAIN free
        /\ Suits(free[h], size)
        /\ \A g \in DOMAIN free : g < h => ~Suits(free[g], size)

\* The new block is cut from the end of a free block.  First write: the free
\* block's header with its new length.
AllocateSplit(h, size) ==
    LET f == cache.m_FreeBlockBeginIndex[h]
        rest == [f EXCEPT !.lenOfData = @ - (size + HeadLen)]
        new == [blockBeginIndex |-> EndOf(f) - (size + HeadLen), lenOfData |-> size,
                blockState |-> "UsedBlock"]
    IN  /\ Ready /\ FirstFit(h, size) /\ Splits(f, size)
        /\ disk' = PutBlock(disk, rest)
        /\ cache' = [cache EXCEPT
                       !.m_FreeBlockEndIndex = Assign(Erase(@, EndOf(f)), new.blockBeginIndex, rest),
                       !.m_FreeBlockBeginIndex[h] = rest]
        /\ block' = new
        /\ pc' = "split"
        /\ ret' = 0
        /\ UNCHANGED <<open, index, kept, torn>>

\* Second write: the new block's header.
AllocateSplitUsed ==
    /\ pc = "split"
    /\ disk' = PutBlock(disk, block)
    /\ cache' = [cache EXCEPT !.m_UsedBlock = Assign(@, block.blockBeginIndex, block)]
    /\ pc' = "return"
    /\ UNCHANGED <<open, block, index, ret, kept, torn>>

\* Mutant: the block stays in the map of ends.
AllocateExact_StaleEnd(h, size) ==
    LET new == [cache.m_FreeBlockBeginIndex[h] EXCEPT !.blockState = "UsedBlock"]
    IN  /\ Ready /\ FirstFit(h, size) /\ new.lenOfData = size
        /\ disk' = PutBlock(disk, new)
        /\ cache' = [cache EXCEPT !.m_UsedBlock = Assign(@, h, new),
                                  !.m_FreeBlockBeginIndex = Erase(@, h)]
        /\ block' = new
        /\ pc' = "return"
        /\ ret' = 0
        /\ UNCHANGED <<open, index, kept, torn>>

AllocateExact(h, size) ==
    LET new == [cache.m_FreeBlockBeginIndex[h] EXCEPT !.blockState = "UsedBlock"]
    IN  /\ Ready /\ FirstFit(h, size) /\ new.lenOfData = size
        /\ disk' = PutBlock(disk, new)
        /\ cache' = [cache EXCEPT !.m_UsedBlock = Assign(@, h, new),
                                  !.m_FreeBlockBeginIndex = Erase(@, h),
                                  !.m_FreeBlockEndIndex = Erase(@, EndOf(new))]
        /\ block' = new
        /\ pc' = "return"
        /\ ret' = 0
        /\ UNCHANGED <<open, index, kept, torn>>

\* Mutant: the head is written before the new block's header.
AllocateEnd_HeadFirst(size) ==
    LET new == [blockBeginIndex |-> cache.m_FixedHead, lenOfData |-> size,
                blockState |-> "UsedBlock"]
    IN  /\ Ready /\ \A h \in DOMAIN cache.m_FreeBlockBeginIndex : ~FirstFit(h, size)
        /\ EndOf(new) <= MaxFile
        /\ disk' = PutHead(disk, EndOf(new))
        /\ cache' = [cache EXCEPT !.m_UsedBlock = Assign(@, new.blockBeginIndex, new),
                                  !.m_FixedHead = EndOf(new)]
        /\ block' = new
        /\ pc' = "grow"
        /\ ret' = 0
        /\ UNCHANGED <<open, index, kept, torn>>

\* No free block suits: the file grows.  First write: the new block's header.
\* When the head's rebuild has failed, the head is a hole from now on.
AllocateEnd(size) ==
    LET new == [blockBeginIndex |-> cache.m_FixedHead, lenOfData |-> size,
                blockState |-> "UsedBlock"]
    IN  /\ Ready /\ \A h \in DOMAIN cache.m_FreeBlockBeginIndex : ~FirstFit(h, size)
        /\ EndOf(new) <= MaxFile
        /\ disk' = PutBlock(Extended(disk), new)
        /\ cache' = [cache EXCEPT !.m_UsedBlock = Assign(@, new.blockBeginIndex, new),
                                  !.m_FixedHead = EndOf(new)]
        /\ block' = new
        /\ pc' = "grow"
        /\ ret' = 0
        /\ UNCHANGED <<open, index, kept, torn>>

\* Second write: the head, with the new end.
AllocateEndHead ==
    /\ pc = "grow"
    /\ disk' = PutHead(disk, cache.m_FixedHead)
    /\ pc' = "return"
    /\ UNCHANGED <<cache, open, block, index, ret, kept, torn>>

\* allocate returns the handle.
AllocateReturn ==
    /\ pc = "return"
    /\ ret' = block.blockBeginIndex
    /\ kept' = Assign(kept, ret', [i \in 0 .. block.lenOfData - 1 |-> Junk])
    /\ pc' = "idle"
    /\ block' = NoBlock
    /\ UNCHANGED <<disk, cache, open, index, torn>>

-----------------------------------------------------------------------------
(***************************************************************************)
(* Free, write, fset, clearFile; read and size change nothing.             *)
(***************************************************************************)

\* The client gives a block up when it calls Free, whatever the answer.
Free(h) ==
    /\ Ready /\ h \in DOMAIN cache.m_UsedBlock
    /\ Release(cache, h)
    /\ kept' = Erase(kept, h)
    /\ ret' = 0
    /\ UNCHANGED <<open, pc, block, index, torn>>

\* n units of value v at position pos of the block h, on the disk and as the
\* client remembers them.
Stored(h, pos, n, v) ==
    LET from == h + HeadLen + pos
    IN  /\ disk' = [disk EXCEPT !.cell = [p \in Positions |-> IF p \in from .. from + n - 1
                                                              THEN v ELSE @[p]]]
        /\ kept' = [kept EXCEPT ![h] = [i \in DOMAIN @ |-> IF i \in pos .. pos + n - 1
                                                           THEN v ELSE @[i]]]

\* The code's test of the length, with its unsigned difference.
TooLong(h, pos, n) == n > Unsigned(cache.m_UsedBlock[h].lenOfData - pos)

write(h, pos, n, v) ==
    /\ Ready /\ h \in DOMAIN cache.m_UsedBlock
    /\ ~TooLong(h, pos, n)
    /\ Stored(h, pos, n, v)
    /\ ret' = 0
    /\ UNCHANGED <<cache, open, pc, block, index, torn>>

\* Unit by unit; units whose write fails are skipped without a word, so that
\* the first n of them are written.
fset(h, n, v) ==
    /\ Ready /\ h \in DOMAIN cache.m_UsedBlock
    /\ Stored(h, 0, n, v)
    /\ ret' = 0
    /\ UNCHANGED <<cache, open, pc, block, index, torn>>

clearFile ==
    /\ pc = "idle"
    /\ disk' = EmptyFile
    /\ Closed(cache.m_FixedHead)
    /\ kept' = <<>>
    /\ torn' = FALSE
    /\ ret' = 0

-----------------------------------------------------------------------------
(***************************************************************************)
(* Failing file operations, which close the file, and the process's end.   *)
(***************************************************************************)

\* A seek or write of allocate fails: it answers -2 as an unsigned number.  The
\* second write of a split leaves a gap behind the shortened block; the head's,
\* when the head is a hole, leaves a file whose next load takes it to end at 0,
\* so that the next block would be put over the magic text.
AllocateFails ==
    /\ open /\ pc \in {"idle", "split", "grow"}
    /\ Closed(IF pc = "grow" THEN block.blockBeginIndex ELSE cache.m_FixedHead)
    /\ ret' = Unsigned(-2)
    /\ torn' = (pc = "split" \/ disk.fileEndIndex = Hole)
    /\ UNCHANGED <<disk, kept>>

\* The one write of Free fails.  At the end of the file m_FixedHead is set from
\* a local variable nobody has assigned; the next load reads it from the file.
FreeFails(h) ==
    /\ Ready /\ h \in DOMAIN cache.m_UsedBlock
    /\ Closed(IF Merged(cache, h).end = cache.m_FixedHead THEN Absent ELSE cache.m_FixedHead)
    /\ kept' = Erase(kept, h)
    /\ ret' = 0
    /\ UNCHANGED <<disk, torn>>

\* A seek, read or write of read or write fails.
AccessFails ==
    /\ Ready
    /\ Closed(cache.m_FixedHead)
    /\ ret' = 0
    /\ UNCHANGED <<disk, kept, torn>>

\* A seek, read or write of LoadStorageFile fails; allocate then answers 0.
LoadFails ==
    /\ pc \in {"load", "rebuild", "rebuild head"}
    /\ Closed(cache.m_FixedHead)
    /\ UNCHANGED <<disk, ret, kept, torn>>

\* The process is killed, or ends, and the next one has a new object whose
\* m_FixedHead is uninitialised.  Two places leave a file that the next load
\* misreads: between the two writes of a split, and before the head is written
\* for the first time.
Crash ==
    /\ ~torn
    /\ torn' = (pc = "split" \/ (disk.verify /\ disk.fileEndIndex \in {Absent, Hole}))
    /\ Closed(Absent)
    /\ ret' = 0
    /\ UNCHANGED <<disk, kept>>

-----------------------------------------------------------------------------
Next ==
    \/ IsInit \/ LoadBlock \/ LoadDone \/ Rebuild \/ RebuildHead
    \/ \E size \in Sizes :
         \/ \E h \in DOMAIN cache.m_FreeBlockBeginIndex :
              AllocateSplit(h, size) \/ AllocateExact(h, size)
         \/ AllocateEnd(size)
    \/ AllocateSplitUsed \/ AllocateEndHead \/ AllocateReturn
    \/ \E h \in DOMAIN kept :
         \/ Free(h) \/ FreeFails(h)
         \/ \E v \in Data, pos \in DOMAIN kept[h], n \in 1 .. MaxFile : write(h, pos, n, v)
         \/ \E v \in Data, n \in 1 .. MaxFile : n - 1 \in DOMAIN kept[h] /\ fset(h, n, v)
    \/ clearFile
    \/ AllocateFails \/ AccessFails \/ LoadFails \/ Crash

Spec == Init /\ [][Next]_vars

-----------------------------------------------------------------------------
(***************************************************************************)
(* Properties                                                              *)
(***************************************************************************)

\* The maps' keys are positions, their values blocks.
IsMap(f) == /\ DOMAIN f \subseteq First .. MaxFile
            /\ \A k \in DOMAIN f : f[k] \in Block

\* The types of all the state.
TypeOK ==
    /\ disk.verify \in BOOLEAN
    /\ disk.fileEndIndex \in First .. MaxFile \cup {Absent, Hole}
    /\ DOMAIN disk.cell = Positions
    /\ \A p \in Positions : disk.cell[p] \in Block \cup Data \cup {Junk}
    /\ cache.m_FixedHead \in First .. MaxFile \cup {Absent}
    /\ IsMap(cache.m_UsedBlock)
    /\ IsMap(cache.m_FreeBlockBeginIndex)
    /\ IsMap(cache.m_FreeBlockEndIndex)
    /\ open \in BOOLEAN /\ torn \in BOOLEAN
    /\ pc \in {"idle", "load", "rebuild", "rebuild head", "split", "grow", "return"}
    /\ open \/ pc = "idle"
    /\ block \in Block
    /\ index \in First .. MaxFile
    /\ ret \in 0 .. Word - 1
    /\ DOMAIN kept \subseteq Positions

\* At p the walk is over: the file ends, or there is no block.
Ends(d, p) == \/ p >= d.fileEndIndex \/ p = MaxFile
              \/ d.cell[p] \notin Block \/ EndOf(d.cell[p]) > MaxFile

\* The positions LoadStorageFile would come by.
Walk(d) ==
    LET from[p \in First .. MaxFile] == IF Ends(d, p) THEN {p}
                                       ELSE {p} \cup from[EndOf(d.cell[p])]
    IN  from[First]

\* The file is one that a load understands, or would be if it were loaded now.
Whole == ~torn /\ pc # "split" /\ disk.fileEndIndex \notin {Absent, Hole}

Blocks == {disk.cell[p] : p \in Walk(disk) \ {disk.fileEndIndex}}

\* Whatever was allocated, freed, merged and cut off, and whatever failed or was
\* killed -- but for what leaves the file torn: the second write of a split, and
\* a head that has never been written -- the headers lead from the first block
\* to the end of the file, each naming its own position (LoadStorageFile's loop).
BlocksTile ==
    Whole => /\ disk.fileEndIndex \in Walk(disk)
             /\ \A p \in Walk(disk) \ {disk.fileEndIndex} :
                  disk.cell[p] \in Block /\ disk.cell[p].blockBeginIndex = p

\* The three maps and m_FixedHead of an object at rest say what the file says,
\* whether they were loaded from it or kept up to date by allocate and Free.
MapsMatchFile ==
    LET used == {b \in Blocks : b.blockState = "UsedBlock"}
        free == Blocks \ used
        By(f, S, key(_)) == /\ DOMAIN f = {key(b) : b \in S}
                            /\ \A b \in S : f[key(b)] = b
        Begin(b) == b.blockBeginIndex
    IN  Ready /\ Whole => /\ By(cache.m_UsedBlock, used, Begin)
                          /\ By(cache.m_FreeBlockBeginIndex, free, Begin)
                          /\ By(cache.m_FreeBlockEndIndex, free, EndOf)
                          /\ cache.m_FixedHead = disk.fileEndIndex

\* Free space is merged: no two free blocks are neighbours, and the last block
\* is a used one, so that a file whose blocks are all freed is empty again
\* (the two merges and the cut in Free).
FreeSpaceMerged ==
    Whole => \A b \in Blocks :
        b.blockState = "WaitMergerBlock" =>
            /\ EndOf(b) < disk.fileEndIndex
            /\ disk.cell[EndOf(b)].blockState = "UsedBlock"

\* A block the client was given stays its own until it frees it, with its
\* length and all that was written to it, across other allocations, failures
\* and restarts that do not leave the file torn: the file has it as a used
\* block, and so has the loaded object.
KeptSurvives ==
    /\ Whole => \A h \in DOMAIN kept :
         /\ \E b \in Blocks : /\ b.blockBeginIndex = h
                              /\ b.blockState = "UsedBlock"
                              /\ DOMAIN kept[h] = 0 .. b.lenOfData - 1
         /\ \A i \in DOMAIN kept[h] : kept[h][i] \in {Junk, disk.cell[h + HeadLen + i]}
    /\ Ready /\ ~torn => DOMAIN kept \subseteq DOMAIN cache.m_UsedBlock

\* What the comment at allocate says of its answer: above zero it is a handle
\* of a block that was allocated (lines 246-247).
AllocateAnswers == ret > 0 => ret \in DOMAIN kept
=============================================================================
