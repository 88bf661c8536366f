---------------------------- MODULE BTreeStorage ----------------------------
(***************************************************************************)
(* B_Tree/FileStorage.hpp: the second file allocator.  Blocks have no      *)
(* headers; which are free is known to two maps in memory only, by where   *)
(* a block begins and by where it ends.  The index file takes them over    *)
(* when the object is destroyed or on request, and gives them back to the  *)
(* next object, one FreeBlock per record.                                  *)
(*                                                                         *)
(* The client frees the blocks it got, with the handle it got, as test.cpp *)
(* does, also in a later process.  The two files can always be opened.     *)
(* BlockNum is left out: SyncToIndexFile sets it to the size of the map,   *)
(* whatever it was.  FileStorage(FileName), which leaves the handle of the *)
(* index file undefined, is not modelled.                                  *)
(***************************************************************************)
EXTENDS Integers, Sequences, FiniteSets, FiniteSetsExt, SequencesExt, Functions

CONSTANTS Sizes,      \* the sizes the client asks for
          MaxEnd      \* bound: the data file does not grow beyond this

VARIABLES space,      \* m_FixedHead.EndIndex, m_IndexMap_Begin and m_IndexMap_End, or Closed
          index,      \* the index file: nothing, or its head and its records
          data,       \* the data file: who wrote each unit
          held,       \* the client's handles, what each wrote and how much of it
          strayed,    \* history: a block was merged with one that does not touch it
          lost        \* history: the process was killed and the index file is old

vars == <<space, index, data, held, strayed, lost>>

Nobody == 0
Owners == 1 .. MaxEnd
Block(begin, size) == [beginIndex |-> begin, blockSize |-> size]
EndOf(b) == b.beginIndex + b.blockSize
UnitsOf(b) == b.beginIndex .. EndOf(b) - 1
Erase(f, k) == Restrict(f, DOMAIN f \ {k})
Entered(f, k, b) == [p \in DOMAIN f \cup {k} |-> IF p = k THEN b ELSE f[p]]
NoMap == [k \in {} |-> Block(0, 0)]

Closed == [open |-> FALSE]
Fresh(end) == [open |-> TRUE, EndIndex |-> end, Begin |-> NoMap, End |-> NoMap, stray |-> FALSE]
FreeBlocks == {space.Begin[p] : p \in DOMAIN space.Begin}

Init ==
    /\ space = Closed
    /\ index = <<>>
    /\ data = <<>>
    /\ held = {}
    /\ strayed = FALSE /\ lost = FALSE

-----------------------------------------------------------------------------
(***************************************************************************)
(* FreeBlock.                                                              *)
(***************************************************************************)

\* Where the block to merge with in front is taken to end: not where b begins
\* but as far before that as b is long.
FrontKey(b) == b.beginIndex - b.blockSize

\* Merged with the block in front: the sizes are added from its begin on.
MergedFront(s, b) ==
    LET key == FrontKey(b)
        front == s.End[key]
    IN  IF b.beginIndex # 0 /\ key \in DOMAIN s.End
        THEN [s |-> [s EXCEPT !.Begin = Erase(@, front.beginIndex), !.End = Erase(@, key), !.stray = key # b.beginIndex],
              b |-> Block(front.beginIndex, front.blockSize + b.blockSize)]
        ELSE [s |-> s, b |-> b]

\* Mutant: the block behind stays in the map as well.
MergedBack_Kept(s, b) ==
    IF EndOf(b) \in DOMAIN s.Begin
    THEN [s |-> s, b |-> Block(b.beginIndex, b.blockSize + s.Begin[EndOf(b)].blockSize)]
    ELSE [s |-> s, b |-> b]

\* Merged with the block behind.
MergedBack(s, b) ==
    LET back == s.Begin[EndOf(b)]
    IN  IF EndOf(b) \in DOMAIN s.Begin
        THEN [s |-> [s EXCEPT !.Begin = Erase(@, EndOf(b)), !.End = Erase(@, EndOf(back))],
              b |-> Block(b.beginIndex, b.blockSize + back.blockSize)]
        ELSE [s |-> s, b |-> b]

\* The last block gives its space back, another one is recorded.
Recorded(s, b) ==
    IF EndOf(b) >= s.EndIndex
    THEN [s EXCEPT !.EndIndex = b.beginIndex]
    ELSE [s EXCEPT !.Begin = Entered(@, b.beginIndex, b), !.End = Entered(@, EndOf(b), b)]

FreeBlock(s, b) ==
    LET front == MergedFront(s, b)
        back == MergedBack(front.s, front.b)
    IN  Recorded(back.s, back.b)

-----------------------------------------------------------------------------
(***************************************************************************)
(* The index file.                                                         *)
(***************************************************************************)

\* LoadIndexFile: a record that is not there makes everything free.
Loaded ==
    IF index = <<>> THEN Fresh(0)
    ELSE LET head == index[1]
             freed[n \in 0 .. head.BlockNum] ==
                 IF n = 0 THEN Fresh(head.EndIndex) ELSE FreeBlock(freed[n - 1], index[n + 1])
         IN  IF Len(index) - 1 < head.BlockNum THEN Fresh(0) ELSE freed[head.BlockNum]

\* What SyncToIndexFile writes, the records in the order of the hash map.
Image(s, records) ==
    <<[BlockNum |-> Cardinality(DOMAIN s.Begin), EndIndex |-> s.EndIndex]>> \o records
Orders(s) == SetToSeqs({s.Begin[p] : p \in DOMAIN s.Begin})

\* The file is not truncated: what it held beyond the new text stays.
Overwritten(new) == new \o SubSeq(index, Len(new) + 1, Len(index))

\* IsFileOpen, the first thing every call does.
Open ==
    /\ space = Closed
    /\ space' = [Loaded EXCEPT !.stray = FALSE]
    /\ strayed' = (strayed \/ Loaded.stray)
    /\ UNCHANGED <<index, data, held, lost>>

SyncToIndexFile ==
    /\ space # Closed
    /\ \E records \in Orders(space) : index' = Overwritten(Image(space, records))
    /\ UNCHANGED <<data, held, strayed, lost>>

\* SyncToIndexFile on request, and in the destructor.
Sync == SyncToIndexFile /\ UNCHANGED space
Destroy == SyncToIndexFile /\ space' = Closed

\* An index file that says what memory says.
Synced(file) == \E records \in Orders(space) : IsPrefix(Image(space, records), file)

\* The process is killed, perhaps in SyncToIndexFile.
Kill ==
    /\ space # Closed
    /\ space' = Closed
    /\ \/ index' = index
       \/ \E records \in Orders(space) : \E written \in 1 .. Len(records) :
             index' = Overwritten(SubSeq(Image(space, records), 1, written))
    /\ lost' = (lost \/ ~Synced(index'))
    /\ UNCHANGED <<data, held, strayed>>

-----------------------------------------------------------------------------
(***************************************************************************)
(* The client's calls.                                                     *)
(***************************************************************************)

NewHandle(b) == [block |-> b, owner |-> Min(Owners \ {h.owner : h \in held}), stored |-> 0]

\* falloc: only one free block, whichever the hash map lists first, is looked
\* at; it is given out whole.  Otherwise the file grows.
fallocFree(size) ==
    /\ space # Closed
    /\ \E b \in FreeBlocks :
          /\ b.blockSize >= size
          /\ space' = [space EXCEPT !.Begin = Erase(@, b.beginIndex), !.End = Erase(@, EndOf(b))]
          /\ held' = held \cup {NewHandle(b)}
    /\ UNCHANGED <<index, data, strayed, lost>>

fallocEnd(size) ==
    /\ space # Closed
    /\ FreeBlocks = {} \/ \E b \in FreeBlocks : b.blockSize < size
    /\ space.EndIndex + size <= MaxEnd
    /\ space' = [space EXCEPT !.EndIndex = @ + size]
    /\ held' = held \cup {NewHandle(Block(space.EndIndex, size))}
    /\ UNCHANGED <<index, data, strayed, lost>>

\* What the owner wrote is nobody's from now on.
ffree(h) ==
    LET freed == FreeBlock(space, h.block)
    IN  /\ space # Closed
        /\ space' = [freed EXCEPT !.stray = FALSE]
        /\ strayed' = (strayed \/ freed.stray)
        /\ held' = held \ {h}
        /\ data' = [i \in DOMAIN data |-> IF data[i] = h.owner THEN Nobody ELSE data[i]]
        /\ UNCHANGED <<index, lost>>

\* StorageData of len units; a hole before them is filled.
StorageData(h, len) ==
    LET to == h.block.beginIndex
        size == IF to + len > Len(data) THEN to + len ELSE Len(data)
        old == [i \in 1 .. size |-> IF i <= Len(data) THEN data[i] ELSE Nobody]
    IN  /\ space # Closed
        /\ len <= h.block.blockSize
        /\ data' = [i \in 1 .. size |-> IF i \in to + 1 .. to + len THEN h.owner ELSE old[i]]
        /\ held' = (held \ {h}) \cup {[h EXCEPT !.stored = IF len > @ THEN len ELSE @]}
        /\ UNCHANGED <<space, index, strayed, lost>>

\* LoadData: all of the block or nothing.
LoadData(b) == IF EndOf(b) > Len(data) THEN <<>> ELSE SubSeq(data, b.beginIndex + 1, EndOf(b))

\* Of what the client does after a stray merge or a lost index nothing is
\* claimed, so it does nothing more.
Client ==
    /\ ~strayed /\ ~lost
    /\ \/ \E size \in Sizes : fallocFree(size) \/ fallocEnd(size)
       \/ \E h \in held : ffree(h)
       \/ \E h \in held, len \in Sizes : StorageData(h, len)

Next == Open \/ Sync \/ Destroy \/ Kill \/ Client

Spec == Init /\ [][Next]_vars

-----------------------------------------------------------------------------
(***************************************************************************)
(* Properties.                                                             *)
(***************************************************************************)

TypeOK ==
    /\ space = Closed \/ (space.EndIndex \in 0 .. MaxEnd /\ ~space.stray)
    /\ data \in UNION {[1 .. n -> Owners \cup {Nobody}] : n \in 0 .. MaxEnd}
    /\ \A h \in held : h.owner \in Owners /\ h.stored <= h.block.blockSize

Blocks == FreeBlocks \cup {h.block : h \in held}

\* Unless a free block was merged with one it does not touch, or the process
\* was killed with an index file that was not up to date: the client's blocks
\* and the free ones fill the file up to EndIndex exactly, none overlapping
\* another and none lost, through any number of processes; and the map by end
\* leads to the same blocks as the map by begin.
BlocksTile ==
    space # Closed /\ ~strayed /\ ~lost =>
        /\ UNION {UnitsOf(b) : b \in Blocks} = 0 .. space.EndIndex - 1
        /\ \A a, b \in Blocks : a # b => UnitsOf(a) \cap UnitsOf(b) = {}
        /\ FreeBlocks \cap {h.block : h \in held} = {}
        /\ {space.End[p] : p \in DOMAIN space.End} = FreeBlocks
        /\ \A p \in DOMAIN space.End : EndOf(space.End[p]) = p

\* The same without the first exception: the front merger of FreeBlock merges
\* only blocks of which none is in use.
HeldIsNotFree ==
    space # Closed /\ ~lost =>
        \A h \in held, b \in FreeBlocks : UnitsOf(h.block) \cap UnitsOf(b) = {}

\* In the same states LoadData returns what the client last stored in a block,
\* if it filled the block.
StoredIsLoaded ==
    ~strayed /\ ~lost =>
        \A h \in held : h.stored = h.block.blockSize =>
            LoadData(h.block) = [i \in 1 .. h.block.blockSize |-> h.owner]
=============================================================================
