---------------------- MODULE FileStorageInvariant -------------------------
(***************************************************************************)
(* The inductive invariant of FileStorage.  The properties walk along the  *)
(* headers; the invariant says instead that there is a set W of positions  *)
(* whose blocks lie without gaps from the first position to the end of the *)
(* file (Tiled), no free one beside another or last (Spread), with the     *)
(* client's data in them (Keeps); and that the maps hold the blocks of W   *)
(* the object knows of (MapsOf, Seen).  A split is counted as done between *)
(* its two writes (VCell, VUsed), a new last block once the head is        *)
(* written.                                                                *)
(***************************************************************************)
EXTENDS FileStorage

Span == First .. MaxFile    \* where a block may begin or end

\* The blocks at the positions W, but for the last one, lie without gaps from
\* the first position to end.
Tiled(cell, W, end) ==
    /\ W \subseteq Span /\ First \in W /\ end \in W
    /\ \A p \in W : p <= end
    /\ \A p \in W \ {end} : /\ cell[p] \in Block /\ cell[p].blockBeginIndex = p
                            /\ EndOf(cell[p]) \in W
                            /\ \A q \in W : ~(p < q /\ q < EndOf(cell[p]))

\* No free block is the last one or has a free one behind it.
Spread(cell, W, end) ==
    \A p \in W \ {end} : cell[p].blockState = "WaitMergerBlock" =>
        EndOf(cell[p]) # end /\ cell[EndOf(cell[p])].blockState = "UsedBlock"

\* The maps hold the blocks at the positions V.
MapsOf(used, fb, fe, cell, V) ==
    /\ DOMAIN used = {p \in V : cell[p].blockState = "UsedBlock"}
    /\ \A p \in DOMAIN used : used[p] = cell[p]
    /\ DOMAIN fb = {p \in V : cell[p].blockState = "WaitMergerBlock"}
    /\ \A p \in DOMAIN fb : fb[p] = cell[p] /\ fe[EndOf(cell[p])] = cell[p]
    /\ DOMAIN fe = {EndOf(cell[p]) : p \in DOMAIN fb}

\* What the client keeps are used blocks with its data.
Keeps(k, cell, W, end) ==
    \A h \in DOMAIN k :
        /\ h \in W \ {end} /\ cell[h].blockState = "UsedBlock"
        /\ DOMAIN k[h] = 0 .. cell[h].lenOfData - 1
        /\ \A i \in DOMAIN k[h] : k[h][i] \in {Junk, cell[h + HeadLen + i]}

\* The end of the file, and the file and the used blocks as they will be when a
\* split under way has written its second header.
End == IF disk.fileEndIndex \in {Absent, Hole} THEN First ELSE disk.fileEndIndex
VCell == IF pc = "split" THEN PutBlock(disk, block).cell ELSE disk.cell
VUsed == IF pc = "split" THEN Assign(cache.m_UsedBlock, block.blockBeginIndex, block)
         ELSE cache.m_UsedBlock

\* The blocks the maps know: in a load, those that the load has come by.
Seen(W) == CASE pc = "load" -> {p \in W : p < index}
             [] pc = "grow" -> W
             [] OTHER -> W \ {End}

\* What the call under way still has to do.
CallIn(W) ==
    /\ open => cache.m_FixedHead = IF pc = "grow" THEN EndOf(block) ELSE End
    /\ pc = "load" => index \in W
    /\ pc = "grow" => /\ block.blockBeginIndex = End /\ VCell[End] = block
                      /\ block.blockState = "UsedBlock" /\ EndOf(block) <= MaxFile
    /\ pc \in {"split", "return"} =>
          /\ block.blockBeginIndex \in W \ {End} /\ VCell[block.blockBeginIndex] = block
          /\ block.blockState = "UsedBlock" /\ block.blockBeginIndex \notin DOMAIN kept
    /\ pc = "split" => block.blockBeginIndex \notin DOMAIN cache.m_UsedBlock
    /\ ~open /\ disk.verify = TRUE /\ disk.fileEndIndex = Absent => cache.m_FixedHead = First
    /\ disk.fileEndIndex = Hole => pc = "grow"

\* The file has its blocks at W.
At(W) ==
    /\ Tiled(VCell, W, End)
    /\ Spread(VCell, W, End)
    /\ Keeps(kept, VCell, W, End)
    /\ open => MapsOf(VUsed, cache.m_FreeBlockBeginIndex, cache.m_FreeBlockEndIndex, VCell, Seen(W))
    /\ CallIn(W)

\* The maps and the head, as a record.
CacheShape(c) == c = [m_FixedHead |-> c.m_FixedHead, m_UsedBlock |-> c.m_UsedBlock,
                      m_FreeBlockBeginIndex |-> c.m_FreeBlockBeginIndex,
                      m_FreeBlockEndIndex |-> c.m_FreeBlockEndIndex]

Cells == [Positions -> Block \cup Data \cup {Junk}]

DiskOK(d) == /\ d = [verify |-> d.verify, fileEndIndex |-> d.fileEndIndex, cell |-> d.cell]
             /\ d.verify \in BOOLEAN
             /\ d.fileEndIndex \in Span \cup {Absent, Hole}
             /\ d.cell \in Cells
             /\ d.verify = FALSE => d.fileEndIndex = Absent

\* Types, and what holds in any state, with a torn file too.
Basic ==
    /\ DiskOK(disk)
    /\ CacheShape(cache)
    /\ cache.m_FixedHead \in Span \cup {Absent}
    /\ ~open => /\ cache.m_UsedBlock = NoMap /\ cache.m_FreeBlockBeginIndex = NoMap
                /\ cache.m_FreeBlockEndIndex = NoMap
    /\ open \in BOOLEAN /\ torn \in BOOLEAN
    /\ pc \in {"idle", "load", "rebuild", "rebuild head", "split", "grow", "return"}
    /\ open \/ pc = "idle"
    /\ torn => ~open
    /\ open /\ pc # "rebuild" => disk.verify = TRUE
    /\ block \in Block
    /\ index \in Span
    /\ ret \in 0 .. Word - 1
    /\ DOMAIN kept \subseteq Positions
    /\ kept = [h \in DOMAIN kept |-> kept[h]]

\* The inductive invariant.
IInv == Basic /\ (~torn => \E W \in SUBSET Span : At(W))
=============================================================================
