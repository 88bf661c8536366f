------------------------- MODULE FileStorageProofs --------------------------
(***************************************************************************)
(* The proofs about FileStorage: IInv is inductive, and TypeOK, BlocksTile,*)
(* MapsMatchFile, FreeSpaceMerged and KeptSurvives follow from it.  First  *)
(* facts on files and maps as values (what becomes of a tiling when blocks *)
(* are joined, split, cut off or added, and what Free's merges do), then   *)
(* one lemma for each action, then the theorems.                           *)
(***************************************************************************)
EXTENDS FileStorageInvariant, WellFoundedInduction, TLAPS

\* The fields of a block and its end.
LEMMA BlockIs ==
    ASSUME NEW b \in Block
    PROVE  /\ b.blockBeginIndex \in First .. MaxFile - 1 /\ b.lenOfData \in 0 .. MaxFile
           /\ b.blockState \in {"UsedBlock", "WaitMergerBlock"}
           /\ EndOf(b) = b.blockBeginIndex + HeadLen + b.lenOfData
           /\ EndOf(b) \in Nat /\ EndOf(b) > b.blockBeginIndex /\ EndOf(b) >= b.blockBeginIndex + HeadLen
           /\ b = [blockBeginIndex |-> b.blockBeginIndex, lenOfData |-> b.lenOfData,
                   blockState |-> b.blockState]
BY SizesAssumption DEF Block, EndOf, Positions

\* Positions are numbers between First and MaxFile.
LEMMA SpanIs ==
    /\ First \in Int /\ MaxFile \in Int /\ First \in Span /\ First < MaxFile
    /\ \A p \in Span : p \in Int /\ p >= 0 /\ First <= p /\ p <= MaxFile
BY SizesAssumption DEF Span

\* A position is neither a missing field nor a hole read as 0.
LEMMA NotHole == \A p \in Span : p # Absent /\ p # Hole
BY SizesAssumption DEF Span, Absent, Hole

\* Some function walks: it takes p to all that every closed set with p has.
LEMMA WalkExists ==
    ASSUME NEW d
    PROVE  \E f : f = [p \in Span |-> IF Ends(d, p) THEN {p} ELSE {p} \cup f[EndOf(d.cell[p])]]
<1> DEFINE Closd(C) == \A p \in C : ~Ends(d, p) => EndOf(d.cell[p]) \in C
           g == [p \in Span |-> {q \in Span : \A C \in SUBSET Span : p \in C /\ Closd(C) => q \in C}]
<1>1. ASSUME NEW p \in Span, ~Ends(d, p) PROVE EndOf(d.cell[p]) \in Span
  BY <1>1, BlockIs, SizesAssumption DEF Ends, Span
<1>2. ASSUME NEW p \in Span, Ends(d, p) PROVE g[p] = {p}
  <2>1. {p} \in SUBSET Span /\ Closd({p})
    BY <1>2
  <2> QED BY <2>1
<1>3. ASSUME NEW p \in Span, ~Ends(d, p) PROVE g[p] = {p} \cup g[EndOf(d.cell[p])]
  <2> DEFINE e == EndOf(d.cell[p])
             D == {p} \cup g[e]
  <2>1. e \in Span
    BY <1>1, <1>3
  <2>2. ASSUME NEW q \in g[e] PROVE q \in g[p]
    BY <2>1, <2>2, <1>3
  <2>3. e \in g[e] /\ p \in g[p]
    BY <2>1
  <2>4. D \in SUBSET Span
    BY <2>1
  <2>5. ASSUME NEW q \in D, ~Ends(d, q) PROVE EndOf(d.cell[q]) \in D
    <3>1. CASE q = p
      BY <3>1, <2>3
    <3>2. CASE q \in g[e]
      <4>1. EndOf(d.cell[q]) \in Span
        BY <2>4, <2>5, <1>1
      <4>2. EndOf(d.cell[q]) \in g[e]
        BY <4>1, <3>2, <2>1, <2>5
      <4> QED BY <4>2
    <3> QED BY <3>1, <3>2
  <2>6. g[p] \subseteq D
    BY <2>4, <2>5
  <2> QED BY <2>2, <2>3, <2>6
<1> HIDE DEF Closd
<1>4. g = [p \in Span |-> IF Ends(d, p) THEN {p} ELSE {p} \cup g[EndOf(d.cell[p])]]
  <2> HIDE DEF g
  <2>1. g = [p \in Span |-> g[p]]
    BY DEF g
  <2> QED BY <2>1, <1>2, <1>3
<1> QED BY <1>4

\* A set of positions has a largest member.
LEMMA Largest ==
    ASSUME NEW T, T \subseteq Span, T # {}
    PROVE  \E x \in T : \A y \in T : y <= x
<1> DEFINE U == {MaxFile - x : x \in T}
<1>1. U \subseteq Nat /\ U # {}
  <2>1. \A x \in T : MaxFile - x \in Nat
    BY SpanIs
  <2> QED BY <2>1
<1>2. \E u \in U : \A y \in U : ~(<<y, u>> \in OpToRel(<, Nat))
  BY <1>1, WFMin, NatLessThanWellFounded
<1>3. PICK x \in T : \A y \in U : ~(<<y, MaxFile - x>> \in OpToRel(<, Nat))
  BY <1>2
<1>4. ASSUME NEW y \in T PROVE y <= x
  <2>1. MaxFile - y \in U /\ MaxFile - y \in Nat /\ MaxFile - x \in Nat /\ y \in Int /\ x \in Int /\ MaxFile \in Int
    BY SpanIs
  <2>2. ~(<<MaxFile - y, MaxFile - x>> \in {s \in Nat \X Nat : s[1] < s[2]})
    BY <1>3, <2>1 DEF OpToRel
  <2>3. ~(MaxFile - y < MaxFile - x)
    BY <2>1, <2>2
  <2> QED BY <2>1, <2>3
<1> QED BY <1>4

\* The walk along blocks that tile the file comes by exactly their positions.
LEMMA WalkIs ==
    ASSUME NEW d, NEW W, Tiled(d.cell, W, d.fileEndIndex)
    PROVE  Walk(d) = W
<1> DEFINE from == CHOOSE f : f = [p \in Span |-> IF Ends(d, p) THEN {p}
                                                  ELSE {p} \cup f[EndOf(d.cell[p])]]
           end == d.fileEndIndex
           Bad == {p \in W : from[p] # {q \in W : q >= p}}
<1>1. from = [p \in Span |-> IF Ends(d, p) THEN {p} ELSE {p} \cup from[EndOf(d.cell[p])]]
  BY WalkExists
<1>2. Walk(d) = from[First]
  BY DEF Walk, Span
<1> HIDE DEF from
<1>3. W \subseteq Span /\ end \in W /\ end \in Span /\ First \in W /\ First \in Int /\ MaxFile \in Int
  BY SpanIs DEF Tiled
<1>4. from[end] = {end}
  <2>0. d.fileEndIndex \in Int
    BY <1>3, SpanIs
  <2>1. Ends(d, end)
    BY <2>0 DEF Ends
  <2> QED BY <2>1, <1>1, <1>3
<1>5. {q \in W : q >= end} = {end}
  <2>1. \A q \in W : q <= end /\ q \in Int /\ end \in Int
    BY <1>3, SpanIs DEF Tiled
  <2>2. \A q \in W : q >= end <=> q = end
    <3> HIDE DEF end
    <3> QED BY <2>1
  <2> QED BY <2>2, <1>3
<1>6. ASSUME NEW p \in W, p # end PROVE
          /\ EndOf(d.cell[p]) \in W /\ EndOf(d.cell[p]) > p
          /\ from[p] = {p} \cup from[EndOf(d.cell[p])]
          /\ {q \in W : q >= p} = {p} \cup {q \in W : q >= EndOf(d.cell[p])}
  <2>1. /\ d.cell[p] \in Block /\ d.cell[p].blockBeginIndex = p
        /\ EndOf(d.cell[p]) \in W
        /\ p <= end
        /\ \A q \in W : ~(p < q /\ q < EndOf(d.cell[p]))
    BY <1>6 DEF Tiled
  <2>2. EndOf(d.cell[p]) > p /\ EndOf(d.cell[p]) <= MaxFile
    BY <2>1, <1>3, BlockIs, SpanIs
  <2>3. p \in Int /\ end \in Int /\ p < end /\ p < MaxFile
    <3>1. p \in Int /\ end \in Int /\ end <= MaxFile /\ MaxFile \in Int
      BY <1>3, SpanIs
    <3> HIDE DEF end
    <3> QED BY <3>1, <1>6, <2>1
  <2>4. ~Ends(d, p)
    <3>1. EndOf(d.cell[p]) \in Int
      BY <1>3, <2>1, SpanIs
    <3> QED BY <2>1, <2>2, <2>3, <3>1, <1>3 DEF Ends
  <2>5. from[p] = {p} \cup from[EndOf(d.cell[p])]
    BY <2>4, <1>1, <1>3
  <2>6. ASSUME NEW q \in W PROVE q >= p <=> q = p \/ q >= EndOf(d.cell[p])
    <3>1. q \in Int /\ EndOf(d.cell[p]) \in Int
      BY <1>3, <2>1, SpanIs
    <3>2. ~(p < q /\ q < EndOf(d.cell[p]))
      BY <2>1
    <3> HIDE DEF end
    <3> QED BY <3>1, <3>2, <2>2, <2>3
  <2> QED BY <2>1, <2>2, <2>5, <2>6
<1>7. Bad = {}
  <2> SUFFICES ASSUME Bad # {} PROVE FALSE
    OBVIOUS
  <2>1. PICK p \in Bad : \A y \in Bad : y <= p
    BY Largest, <1>3
  <2>2. p \in W /\ p # end
    BY <1>4, <1>5
  <2>3. EndOf(d.cell[p]) \in W /\ EndOf(d.cell[p]) > p /\ p \in Int /\ EndOf(d.cell[p]) \in Int
    BY <1>6, <2>2, <1>3, SpanIs
  <2>4. EndOf(d.cell[p]) \notin Bad
    <3> HIDE DEF Bad
    <3> QED BY <2>1, <2>3
  <2> QED BY <1>6, <2>2, <2>3, <2>4
<1>8. from[First] = {q \in W : q >= First}
  BY <1>7, <1>3
<1>9. \A q \in W : q >= First
  BY <1>3, SpanIs
<1> QED BY <1>2, <1>8, <1>9

\* What a tiling says of one of its blocks.
LEMMA TiledIs ==
    ASSUME NEW cell, NEW W, NEW end, Tiled(cell, W, end)
    PROVE  /\ \A q \in W : q \in Span /\ q \in Int /\ q <= end /\ First <= q
           /\ end \in W /\ First \in W
           /\ \A p \in W \ {end} :
                /\ p < end /\ p \in Positions /\ cell[p] \in Block /\ cell[p].blockBeginIndex = p
                /\ EndOf(cell[p]) = p + HeadLen + cell[p].lenOfData
                /\ EndOf(cell[p]) \in W /\ p < EndOf(cell[p])
                /\ p + HeadLen <= EndOf(cell[p])
                /\ \A q \in W : q <= p \/ q >= EndOf(cell[p])
<1>1. /\ \A q \in W : q \in Span /\ q \in Int /\ q <= end /\ First <= q /\ q <= MaxFile
      /\ end \in W /\ First \in W /\ end \in Int
  BY SpanIs DEF Tiled
<1>2. ASSUME NEW p \in W \ {end}
      PROVE  /\ p < end /\ p \in Positions /\ cell[p] \in Block /\ cell[p].blockBeginIndex = p
             /\ EndOf(cell[p]) = p + HeadLen + cell[p].lenOfData
             /\ EndOf(cell[p]) \in W /\ p < EndOf(cell[p])
             /\ p + HeadLen <= EndOf(cell[p])
             /\ \A q \in W : q <= p \/ q >= EndOf(cell[p])
  <2>1. /\ cell[p] \in Block /\ cell[p].blockBeginIndex = p /\ EndOf(cell[p]) \in W
        /\ \A q \in W : ~(p < q /\ q < EndOf(cell[p]))
    BY DEF Tiled
  <2>2. /\ EndOf(cell[p]) = p + HeadLen + cell[p].lenOfData /\ p < EndOf(cell[p])
        /\ p + HeadLen <= EndOf(cell[p])
    BY <2>1, BlockIs
  <2>3. p \in Int /\ p <= end /\ p # end /\ end <= MaxFile /\ First <= p
    BY <1>1
  <2>4. p < end /\ p \in Positions
    BY <2>3, <1>1, SpanIs DEF Positions
  <2>5. \A q \in W : q <= p \/ q >= EndOf(cell[p])
    <3>1. EndOf(cell[p]) \in Int
      BY <2>1, <1>1
    <3> QED BY <2>1, <2>3, <3>1, <1>1
  <2> QED BY <2>1, <2>2, <2>4, <2>5
<1> QED BY <1>1, <1>2

\* What the file looks like depends on the headers alone.
LEMMA HeadsSame ==
    ASSUME NEW cell, NEW W, NEW end, Tiled(cell, W, end), NEW c2,
           \A p \in W \ {end} : c2[p] = cell[p]
    PROVE  /\ Tiled(c2, W, end)
           /\ Spread(cell, W, end) => Spread(c2, W, end)
           /\ \A V \in SUBSET (W \ {end}) : \A used, fb, fe :
                MapsOf(used, fb, fe, cell, V) => MapsOf(used, fb, fe, c2, V)
<1>1. Tiled(c2, W, end)
  BY DEF Tiled
<1>2. ASSUME Spread(cell, W, end) PROVE Spread(c2, W, end)
  BY <1>2, TiledIs DEF Spread
<1>3. ASSUME NEW V \in SUBSET (W \ {end}), NEW used, NEW fb, NEW fe, MapsOf(used, fb, fe, cell, V)
      PROVE  MapsOf(used, fb, fe, c2, V)
  <2>1. /\ DOMAIN used = {p \in V : c2[p].blockState = "UsedBlock"}
        /\ DOMAIN fb = {p \in V : c2[p].blockState = "WaitMergerBlock"}
    BY <1>3 DEF MapsOf
  <2>2. /\ \A p \in DOMAIN used : used[p] = c2[p]
        /\ \A p \in DOMAIN fb : fb[p] = c2[p] /\ fe[EndOf(c2[p])] = c2[p]
    BY <1>3 DEF MapsOf
  <2>3. DOMAIN fe = {EndOf(c2[p]) : p \in DOMAIN fb}
    BY <1>3 DEF MapsOf
  <2> QED BY <2>1, <2>2, <2>3 DEF MapsOf
<1> QED BY <1>1, <1>2, <1>3

\* Without the positions between B and E.
Outside(W, B, E) == {q \in W : q <= B \/ q >= E}

\* One block in the place of those from B to E.
LEMMA ReplaceTiled ==
    ASSUME NEW cell, NEW W, NEW end, Tiled(cell, W, end),
           NEW B \in W \ {end}, NEW E \in W, NEW c2,
           c2[B] \in Block, c2[B].blockBeginIndex = B, EndOf(c2[B]) = E,
           \A q \in Outside(W, B, E) \ {B, end} : c2[q] = cell[q]
    PROVE  Tiled(c2, Outside(W, B, E), end)
<1>0. PICK W2 : W2 = Outside(W, B, E) /\ W2 = {q \in W : q <= B \/ q >= E}
  BY DEF Outside
<1>1. /\ B < E /\ B \in Int /\ E \in Int /\ end \in Int /\ E <= end /\ First <= B
      /\ \A q \in W : q \in Int
  BY TiledIs, BlockIs
<1>2. W2 \subseteq Span /\ First \in W2 /\ end \in W2 /\ E \in W2 /\ \A p \in W2 : p <= end
  BY <1>0, <1>1, TiledIs, SpanIs
<1>3. ASSUME NEW p \in W2 \ {end}
      PROVE  /\ c2[p] \in Block /\ c2[p].blockBeginIndex = p /\ EndOf(c2[p]) \in W2
             /\ \A q \in W2 : ~(p < q /\ q < EndOf(c2[p]))
  <2>1. CASE p = B
    BY <1>0, <2>1, <1>1, <1>2
  <2>2. CASE p # B
    <3>1. /\ c2[p] = cell[p] /\ p \in W \ {end} /\ p \in Int
          /\ cell[p] \in Block /\ cell[p].blockBeginIndex = p /\ EndOf(cell[p]) \in W /\ EndOf(cell[p]) \in Int
          /\ p < EndOf(cell[p])
          /\ \A q \in W : q <= p \/ q >= EndOf(cell[p])
      BY <1>0, <2>2, TiledIs
    <3>2. EndOf(cell[p]) <= B \/ EndOf(cell[p]) >= E
      BY <1>0, <3>1, <1>1, <2>2
    <3>3. \A q \in W2 : ~(p < q /\ q < EndOf(cell[p]))
      BY <1>0, <3>1, <1>1
    <3> QED BY <1>0, <3>1, <3>2, <3>3
  <2> QED BY <2>1, <2>2
<1>4. Tiled(c2, W2, end)
  BY <1>2, <1>3 DEF Tiled
<1> QED BY <1>0, <1>4

\* Two blocks, at h and at n, in the place of the one at h.
LEMMA SplitTiled ==
    ASSUME NEW cell, NEW W, NEW end, Tiled(cell, W, end),
           NEW h \in W \ {end}, NEW n, NEW c2,
           c2[h] \in Block, c2[h].blockBeginIndex = h, EndOf(c2[h]) = n,
           c2[n] \in Block, c2[n].blockBeginIndex = n, EndOf(c2[n]) = EndOf(cell[h]),
           \A q \in W \ {h, end} : c2[q] = cell[q]
    PROVE  Tiled(c2, W \cup {n}, end)
<1>1. /\ h < n /\ h \in Int /\ n \in Int /\ n < EndOf(cell[h]) /\ EndOf(cell[h]) \in W
      /\ EndOf(cell[h]) <= end /\ EndOf(cell[h]) \in Int /\ end \in Int /\ First <= h
      /\ \A q \in W : q \in Int /\ (q <= h \/ q >= EndOf(cell[h]))
  BY TiledIs, BlockIs
<1>2. n \in Span /\ n < end /\ n \notin W
  <2>1. n \in Positions
    BY DEF Block
  <2>2. n \in Span /\ n < end
    BY <2>1, <1>1, SpanIs DEF Positions, Span
  <2>3. n \notin W
    BY <1>1
  <2> QED BY <2>2, <2>3
<1> DEFINE W2 == W \cup {n}
<1>3. W2 \subseteq Span /\ First \in W2 /\ end \in W2 /\ \A p \in W2 : p <= end
  BY <1>1, <1>2, TiledIs
<1>4. ASSUME NEW p \in W2 \ {end}
      PROVE  /\ c2[p] \in Block /\ c2[p].blockBeginIndex = p /\ EndOf(c2[p]) \in W2
             /\ \A q \in W2 : ~(p < q /\ q < EndOf(c2[p]))
  <2>1. CASE p = h
    BY <2>1, <1>1
  <2>2. CASE p = n
    BY <2>2, <1>1
  <2>3. CASE p # n /\ p # h
    <3>1. /\ c2[p] = cell[p] /\ p \in W \ {end} /\ p \in Int
          /\ cell[p] \in Block /\ cell[p].blockBeginIndex = p /\ EndOf(cell[p]) \in W /\ EndOf(cell[p]) \in Int
          /\ p < EndOf(cell[p])
          /\ \A q \in W : q <= p \/ q >= EndOf(cell[p])
      BY <2>3, TiledIs
    <3>2. ~(p < n /\ n < EndOf(cell[p]))
      <4>1. h <= p \/ h >= EndOf(cell[p])
        BY <3>1
      <4>2. p <= h \/ p >= EndOf(cell[h])
        BY <1>1, <3>1
      <4>3. EndOf(cell[h]) <= p \/ EndOf(cell[h]) >= EndOf(cell[p])
        BY <1>1, <3>1
      <4> QED BY <4>1, <4>2, <4>3, <1>1, <3>1, <2>3
    <3>3. \A q \in W2 : ~(p < q /\ q < EndOf(cell[p]))
      BY <3>1, <3>2, <1>1
    <3> QED BY <3>1, <3>3
  <2> QED BY <2>1, <2>2, <2>3
<1> HIDE DEF W2
<1>5. Tiled(c2, W2, end)
  BY <1>3, <1>4 DEF Tiled
<1> QED BY <1>5 DEF W2

\* The file cut off at one of its blocks.
LEMMA CutTiled ==
    ASSUME NEW cell, NEW W, NEW end, Tiled(cell, W, end), NEW B \in W, NEW c2,
           NEW W2, W2 = {q \in W : q <= B}, \A q \in W2 \ {B} : c2[q] = cell[q]
    PROVE  Tiled(c2, W2, B)
<1>1. B \in Int /\ end \in Int /\ B <= end /\ First <= B /\ \A q \in W : q \in Int /\ q <= end
  BY TiledIs
<1>2. W2 \subseteq Span /\ First \in W2 /\ B \in W2 /\ \A p \in W2 : p <= B
  BY <1>1, TiledIs
<1>3. ASSUME NEW p \in W2 \ {B}
      PROVE  /\ c2[p] \in Block /\ c2[p].blockBeginIndex = p /\ EndOf(c2[p]) \in W2
             /\ \A q \in W2 : ~(p < q /\ q < EndOf(c2[p]))
  <2>1. p \in W /\ p \in Int /\ p < B /\ p # end /\ c2[p] = cell[p]
    BY <1>1
  <2>2. /\ cell[p] \in Block /\ cell[p].blockBeginIndex = p /\ EndOf(cell[p]) \in W /\ EndOf(cell[p]) \in Int
        /\ \A q \in W : q <= p \/ q >= EndOf(cell[p])
    BY <2>1, TiledIs
  <2>3. EndOf(cell[p]) <= B
    BY <2>1, <2>2, <1>1
  <2>4. \A q \in W2 : ~(p < q /\ q < EndOf(cell[p]))
    BY <2>1, <2>2, <1>1
  <2> QED BY <2>1, <2>2, <2>3, <2>4
<1> QED BY <1>2, <1>3 DEF Tiled

\* One more block behind the last.
LEMMA GrowTiled ==
    ASSUME NEW cell, NEW W, NEW end, Tiled(cell, W, end),
           cell[end] \in Block, cell[end].blockBeginIndex = end, EndOf(cell[end]) <= MaxFile
    PROVE  Tiled(cell, W \cup {EndOf(cell[end])}, EndOf(cell[end]))
<1> DEFINE e == EndOf(cell[end])
           W2 == W \cup {e}
<1>1. /\ end \in Int /\ e \in Int /\ end < e /\ e <= MaxFile /\ First <= end /\ First \in Int
      /\ \A q \in W : q \in Int /\ q <= end /\ q \in Span
  BY TiledIs, BlockIs, SpanIs
<1>2. W2 \subseteq Span /\ First \in W2 /\ e \in W2 /\ \A p \in W2 : p <= e
  <2>1. e \in Span
    BY <1>1, SpanIs DEF Span
  <2> HIDE DEF e
  <2> QED BY <2>1, <1>1, TiledIs
<1>3. ASSUME NEW p \in W2 \ {e}
      PROVE  /\ cell[p] \in Block /\ cell[p].blockBeginIndex = p /\ EndOf(cell[p]) \in W2
             /\ \A q \in W2 : ~(p < q /\ q < EndOf(cell[p]))
  <2>1. CASE p = end
    <3> HIDE DEF e
    <3>1. \A q \in W2 : q \in Int /\ (q <= end \/ q = e)
      BY <1>1
    <3>2. \A q \in W2 : ~(end < q /\ q < e)
      BY <3>1, <1>1
    <3> QED BY <2>1, <3>2 DEF e
  <2>2. CASE p # end
    <3>1. /\ cell[p] \in Block /\ cell[p].blockBeginIndex = p /\ EndOf(cell[p]) \in W
          /\ EndOf(cell[p]) \in Int /\ EndOf(cell[p]) <= end /\ p \in Int
          /\ \A q \in W : q <= p \/ q >= EndOf(cell[p])
      BY <2>2, TiledIs
    <3> HIDE DEF e
    <3>2. ASSUME NEW q \in W2 PROVE ~(p < q /\ q < EndOf(cell[p]))
      <4>1. q \in W \/ q = e
        OBVIOUS
      <4> QED BY <4>1, <3>1, <1>1
    <3> QED BY <3>1, <3>2
  <2> QED BY <2>1, <2>2
<1> HIDE DEF W2, e
<1>4. Tiled(cell, W2, e)
  BY <1>2, <1>3 DEF Tiled
<1> QED BY <1>4 DEF W2, e

-----------------------------------------------------------------------------
\* What a header written to the file leaves as it was.
LEMMA PutBlockIs ==
    ASSUME NEW d, DiskOK(d), NEW b \in Block
    PROVE  /\ DiskOK(PutBlock(d, b))
           /\ PutBlock(d, b).verify = d.verify
           /\ PutBlock(d, b).fileEndIndex = d.fileEndIndex
           /\ PutBlock(d, b).cell[b.blockBeginIndex] = b
           /\ \A p \in Positions : p < b.blockBeginIndex \/ p >= b.blockBeginIndex + HeadLen
                => PutBlock(d, b).cell[p] = d.cell[p]
<1> DEFINE B == b.blockBeginIndex
           tail == B + 1 .. B + HeadLen - 1
           c == [p \in Positions |-> CASE p = B -> b [] p \in tail -> Junk [] OTHER -> d.cell[p]]
<1>1. PutBlock(d, b) = [d EXCEPT !.cell = c]
  BY DEF PutBlock
<1>2. B \in Positions /\ B \in Int /\ HeadLen \in Nat /\ HeadLen > 0
  BY BlockIs, SizesAssumption DEF Block
<1>3. B \notin tail
  BY <1>2
<1>4. \A p \in Positions : p < B \/ p >= B + HeadLen => p # B /\ p \notin tail
  BY <1>2 DEF Positions
<1>5. c[B] = b
  BY <1>2
<1>6. \A p \in Positions : p < B \/ p >= B + HeadLen => c[p] = d.cell[p]
  BY <1>4
<1>7. c \in Cells
  <2>1. \A p \in Positions : d.cell[p] \in Block \cup Data \cup {Junk}
    BY DEF DiskOK, Cells
  <2> QED BY <2>1 DEF Cells
<1> HIDE DEF c
<1>8. /\ PutBlock(d, b) = [verify |-> d.verify, fileEndIndex |-> d.fileEndIndex, cell |-> c]
  BY <1>1 DEF DiskOK
<1> QED BY <1>5, <1>6, <1>7, <1>8 DEF DiskOK

\* The file with another end, and cut off there.
LEMMA PutHeadIs ==
    ASSUME NEW d, DiskOK(d), NEW end \in Span, d.verify = TRUE
    PROVE  /\ DiskOK(PutHead(d, end)) /\ DiskOK(Truncated(PutHead(d, end), end))
           /\ PutHead(d, end).verify = TRUE /\ Truncated(PutHead(d, end), end).verify = TRUE
           /\ PutHead(d, end).fileEndIndex = end /\ Truncated(PutHead(d, end), end).fileEndIndex = end
           /\ PutHead(d, end).cell = d.cell
           /\ \A p \in Positions : p < end => Truncated(PutHead(d, end), end).cell[p] = d.cell[p]
<1> DEFINE c == [p \in Positions |-> IF p < end THEN d.cell[p] ELSE Junk]
<1>1. PutHead(d, end) = [verify |-> d.verify, fileEndIndex |-> end, cell |-> d.cell]
  <2>1. d = [verify |-> d.verify, fileEndIndex |-> d.fileEndIndex, cell |-> d.cell]
    BY DEF DiskOK
  <2> QED BY <2>1 DEF PutHead
<1>2. Truncated(PutHead(d, end), end) = [verify |-> d.verify, fileEndIndex |-> end, cell |-> c]
  <2>1. Truncated(PutHead(d, end), end) = [PutHead(d, end) EXCEPT !.cell = c]
    BY <1>1 DEF Truncated
  <2> HIDE DEF c
  <2> QED BY <1>1, <2>1
<1>3. c \in Cells /\ \A p \in Positions : p < end => c[p] = d.cell[p]
  BY DEF DiskOK, Cells
<1> HIDE DEF c
<1> QED BY <1>1, <1>2, <1>3 DEF DiskOK

\* Where the free block begins and ends that Free makes of the one from h to e.
MergedBegin(fe, h) == IF h \in DOMAIN fe THEN fe[h].blockBeginIndex ELSE h
MergedEnd(fb, e) == IF e \in DOMAIN fb THEN EndOf(fb[e]) ELSE e

\* g is f below B; g is f but for the arguments from B to E.
Below(g, f, B) == DOMAIN g = {p \in DOMAIN f : p < B} /\ \A x \in DOMAIN g : g[x] = f[x]
Around(g, f, B, E) == /\ DOMAIN g = {p \in DOMAIN f : p < B \/ p >= E}
                      /\ \A x \in DOMAIN g : g[x] = f[x]

\* The map of ends that goes with the map fb of begins, a part of fe.
EndsWith(g, fe, cell, fb) == /\ DOMAIN g = {EndOf(cell[p]) : p \in DOMAIN fb}
                             /\ \A x \in DOMAIN g : g[x] = fe[x]

UsedBefore(cell, W, end, B) ==
    \A p \in W \ {end} : EndOf(cell[p]) = B => cell[p].blockState = "UsedBlock"

\* c2 holds the free block b from B to E, and outside of it what cell does.
HoldsFree(c2, cell, W, b, B, E) ==
    /\ b \in Block /\ b.blockBeginIndex = B /\ EndOf(b) = E /\ b.blockState = "WaitMergerBlock"
    /\ c2[B] = b
    /\ \A p \in W : p < B \/ p >= E => c2[p] = cell[p]

UpTo(W, B) == {q \in W : q <= B}

Region(cell, W, end, used, fb, fe, h, B, E0, E) ==
    /\ B \in W \ {end} /\ E \in W /\ B < E0 /\ B <= h /\ E0 <= E /\ B < E
    /\ B \in Int /\ E \in Int /\ E0 \in Int /\ h \in Int /\ h \in W \ {end}
    /\ h \in DOMAIN fe \/ B \notin DOMAIN fb
    /\ E0 \in DOMAIN fb \/ E \notin DOMAIN fe
    /\ DOMAIN fb \ {B, E0} = {p \in DOMAIN fb : p < B \/ p >= E}
    /\ DOMAIN fe \ {h, E} = {EndOf(cell[p]) : p \in DOMAIN fb \ {B, E0}}
    /\ DOMAIN used \ {h} = {p \in DOMAIN used : p < B \/ p >= E}
    /\ UsedBefore(cell, W, end, B)
    /\ E # end => cell[E].blockState = "UsedBlock"

\* Free's two merges, on maps in which they find what they look for.
LEMMA MergedIs ==
    ASSUME NEW c, CacheShape(c), NEW h, NEW B, NEW E0, NEW E,
           NEW used, used = c.m_UsedBlock,
           NEW fb, fb = c.m_FreeBlockBeginIndex, NEW fe, fe = c.m_FreeBlockEndIndex,
           B = MergedBegin(fe, h), E0 = EndOf(used[h]), E0 # B, E = MergedEnd(fb, E0),
           h \in DOMAIN fe \/ B \notin DOMAIN fb,
           E0 \in DOMAIN fb \/ E \notin DOMAIN fe \ {h}
    PROVE  LET r == Merged(c, h)
               fb2 == r.cache.m_FreeBlockBeginIndex
               fe2 == r.cache.m_FreeBlockEndIndex
           IN  /\ r.begin = B /\ r.end = E
               /\ CacheShape(r.cache)
               /\ r.cache.m_FixedHead = c.m_FixedHead
               /\ r.cache.m_UsedBlock = Erase(used, h)
               /\ DOMAIN fb2 = DOMAIN fb \ {B, E0} /\ \A x \in DOMAIN fb2 : fb2[x] = fb[x]
               /\ DOMAIN fe2 = DOMAIN fe \ {h, E} /\ \A x \in DOMAIN fe2 : fe2[x] = fe[x]
<1> DEFINE C(u, f, g) == [m_FixedHead |-> c.m_FixedHead, m_UsedBlock |-> u,
                          m_FreeBlockBeginIndex |-> f, m_FreeBlockEndIndex |-> g]
           R(b, e, k) == [begin |-> b, end |-> e, cache |-> k]
           r0 == R(h, E0, C(Erase(used, h), fb, fe))
           f1 == IF h \in DOMAIN fe THEN Erase(fb, B) ELSE fb
           g1 == IF h \in DOMAIN fe THEN Erase(fe, h) ELSE fe
           f2 == IF E0 \in DOMAIN fb THEN Erase(f1, E0) ELSE f1
           g2 == IF E0 \in DOMAIN fb THEN Erase(g1, E) ELSE g1
<1>1. [c EXCEPT !.m_UsedBlock = Erase(used, h)] = C(Erase(used, h), fb, fe)
  <2>1. c = [m_FixedHead |-> c.m_FixedHead, m_UsedBlock |-> c.m_UsedBlock,
             m_FreeBlockBeginIndex |-> c.m_FreeBlockBeginIndex,
             m_FreeBlockEndIndex |-> c.m_FreeBlockEndIndex]
    BY DEF CacheShape
  <2> QED BY <2>1
<1>2. Merged(c, h) = MergeAfter(MergeBefore(r0))
  BY <1>1 DEF Merged
<1>3. MergeBefore(r0) = R(B, E0, C(Erase(used, h), f1, g1))
  <2>1. CASE h \in DOMAIN fe
    BY <2>1 DEF MergeBefore, MergedBegin
  <2>2. CASE h \notin DOMAIN fe
    BY <2>2 DEF MergeBefore, MergedBegin
  <2> QED BY <2>1, <2>2
<1>0. /\ DOMAIN f1 = DOMAIN fb \ {B} \/ (f1 = fb /\ h \notin DOMAIN fe)
      /\ \A x \in DOMAIN f1 : x \in DOMAIN fb /\ f1[x] = fb[x]
  <2>1. CASE h \in DOMAIN fe
    <3>1. DOMAIN Erase(fb, B) = DOMAIN fb \ {B} /\ \A x \in DOMAIN fb \ {B} : Erase(fb, B)[x] = fb[x]
      BY DEF Erase, Restrict
    <3> QED BY <2>1, <3>1
  <2>2. CASE h \notin DOMAIN fe
    BY <2>2
  <2> QED BY <2>1, <2>2
<1>4. E0 \in DOMAIN f1 <=> E0 \in DOMAIN fb
  <2> HIDE DEF f1
  <2> QED BY <1>0
<1>5. E0 \in DOMAIN fb => f1[E0] = fb[E0]
  <2> HIDE DEF f1
  <2> QED BY <1>0, <1>4
<1>6. MergeAfter(R(B, E0, C(Erase(used, h), f1, g1))) = R(B, E, C(Erase(used, h), f2, g2))
  <2> HIDE DEF f1, g1
  <2>1. CASE E0 \in DOMAIN fb
    BY <2>1, <1>4, <1>5 DEF MergeAfter, MergedEnd
  <2>2. CASE E0 \notin DOMAIN fb
    BY <2>2, <1>4 DEF MergeAfter, MergedEnd
  <2> QED BY <2>1, <2>2
<1>7. DOMAIN f2 = DOMAIN fb \ {B, E0} /\ \A x \in DOMAIN f2 : f2[x] = fb[x]
  <2> HIDE DEF f1
  <2>1. DOMAIN f1 = DOMAIN fb \ {B}
    BY <1>0
  <2>2. DOMAIN Erase(f1, E0) = DOMAIN f1 \ {E0} /\ \A x \in DOMAIN f1 \ {E0} : Erase(f1, E0)[x] = f1[x]
    BY DEF Erase, Restrict
  <2>3. CASE E0 \in DOMAIN fb
    BY <2>1, <2>2, <2>3, <1>0
  <2>4. CASE E0 \notin DOMAIN fb
    BY <2>1, <2>4, <1>0
  <2> QED BY <2>3, <2>4
<1>8. DOMAIN g2 = DOMAIN fe \ {h, E} /\ \A x \in DOMAIN g2 : g2[x] = fe[x]
  <2>1. DOMAIN g1 = DOMAIN fe \ {h} /\ \A x \in DOMAIN g1 : g1[x] = fe[x]
    <3>1. DOMAIN Erase(fe, h) = DOMAIN fe \ {h} /\ \A x \in DOMAIN fe \ {h} : Erase(fe, h)[x] = fe[x]
      BY DEF Erase, Restrict
    <3>2. CASE h \in DOMAIN fe
      BY <3>1, <3>2
    <3>3. CASE h \notin DOMAIN fe
      BY <3>3
    <3> QED BY <3>2, <3>3
  <2> HIDE DEF g1
  <2>2. DOMAIN Erase(g1, E) = DOMAIN g1 \ {E} /\ \A x \in DOMAIN g1 \ {E} : Erase(g1, E)[x] = g1[x]
    BY DEF Erase, Restrict
  <2>3. CASE E0 \in DOMAIN fb
    BY <2>1, <2>2, <2>3
  <2>4. CASE E0 \notin DOMAIN fb
    BY <2>1, <2>4
  <2> QED BY <2>3, <2>4
<1> HIDE DEF f1, g1, f2, g2
<1>9. Merged(c, h) = R(B, E, C(Erase(used, h), f2, g2))
  BY <1>2, <1>3, <1>6
<1> QED BY <1>7, <1>8, <1>9 DEF CacheShape

\* The blocks about a used one that Free makes one free block, from B to E.
LEMMA RegionIs ==
    ASSUME NEW cell, NEW W, NEW end, Tiled(cell, W, end), Spread(cell, W, end),
           NEW used, NEW fb, NEW fe, MapsOf(used, fb, fe, cell, W \ {end}),
           NEW h \in DOMAIN used
    PROVE  Region(cell, W, end, used, fb, fe, h,
                  MergedBegin(fe, h), EndOf(cell[h]), MergedEnd(fb, EndOf(cell[h])))
<1> DEFINE B == MergedBegin(fe, h)
           E0 == EndOf(cell[h])
           E == MergedEnd(fb, E0)
<1>0. /\ B = IF h \in DOMAIN fe THEN fe[h].blockBeginIndex ELSE h
      /\ E0 = EndOf(cell[h])
      /\ E = IF E0 \in DOMAIN fb THEN EndOf(fb[E0]) ELSE E0
  BY DEF MergedBegin, MergedEnd
<1> HIDE DEF B, E0, E
<1>1. /\ DOMAIN used = {p \in W \ {end} : cell[p].blockState = "UsedBlock"}
      /\ DOMAIN fb = {p \in W \ {end} : cell[p].blockState = "WaitMergerBlock"}
      /\ \A p \in DOMAIN fb : fb[p] = cell[p] /\ fe[EndOf(cell[p])] = cell[p]
      /\ DOMAIN fe = {EndOf(cell[p]) : p \in DOMAIN fb}
  BY DEF MapsOf
<1>2. /\ \A p \in W \ {end} :
           /\ p \in Int /\ EndOf(cell[p]) \in W /\ EndOf(cell[p]) \in Int /\ p < EndOf(cell[p])
           /\ cell[p].blockBeginIndex = p
           /\ \A q \in W : q <= p \/ q >= EndOf(cell[p])
           /\ cell[p].blockState \in {"UsedBlock", "WaitMergerBlock"}
      /\ end \in Int
  BY TiledIs, BlockIs
<1>3. \A p \in DOMAIN fb : /\ EndOf(cell[p]) # end /\ EndOf(cell[p]) \in W \ {end}
                           /\ cell[EndOf(cell[p])].blockState = "UsedBlock"
  BY <1>1, <1>2 DEF Spread
<1>4. h \in W \ {end} /\ h \in Int /\ E0 \in W /\ E0 \in Int /\ h < E0 /\ cell[h].blockState = "UsedBlock"
  BY <1>0, <1>1, <1>2
<1>5. /\ h \notin DOMAIN fe => B = h
      /\ h \in DOMAIN fe => B \in DOMAIN fb /\ EndOf(cell[B]) = h
  <2>1. ASSUME h \in DOMAIN fe PROVE B \in DOMAIN fb /\ EndOf(cell[B]) = h
    <3>1. PICK p \in DOMAIN fb : h = EndOf(cell[p])
      BY <1>1, <2>1
    <3>2. fe[h] = cell[p] /\ cell[p].blockBeginIndex = p
      BY <3>1, <1>1, <1>2
    <3> QED BY <3>1, <3>2, <2>1, <1>0
  <2> QED BY <2>1, <1>0
<1>6. /\ E0 \notin DOMAIN fb => E = E0
      /\ E0 \in DOMAIN fb => E = EndOf(cell[E0]) /\ E0 \in W \ {end}
  BY <1>0, <1>1
<1>7. B \in W \ {end} /\ B \in Int /\ B <= h /\ B < E0
  <2>1. CASE h \in DOMAIN fe
    <3>1. B \in W \ {end} /\ EndOf(cell[B]) = h
      BY <2>1, <1>1, <1>5
    <3>2. B \in Int /\ B < h
      BY <3>1, <1>2
    <3> QED BY <3>1, <3>2, <1>4
  <2>2. CASE h \notin DOMAIN fe
    BY <2>2, <1>4, <1>5
  <2> QED BY <2>1, <2>2
<1>8. E \in W /\ E \in Int /\ E0 <= E /\ B < E
  BY <1>2, <1>4, <1>6, <1>7
<1>9. h \in DOMAIN fe \/ B \notin DOMAIN fb
  BY <1>1, <1>4, <1>5
<1>10. ASSUME NEW p \in W \ {end}, EndOf(cell[p]) = E0 PROVE p = h
  BY <1>0, <1>2, <1>4, <1>10
<1>11. E0 \in DOMAIN fb \/ E \notin DOMAIN fe
  <2>1. ASSUME E0 \in DOMAIN fe PROVE FALSE
    <3>1. PICK p \in DOMAIN fb : EndOf(cell[p]) = E0
      BY <1>1, <2>1
    <3> QED BY <3>1, <1>10, <1>1, <1>4
  <2> QED BY <2>1, <1>6
<1>12. ASSUME NEW p \in W \ {end}
       PROVE  p = B \/ p = h \/ (p = E0 /\ E0 \in DOMAIN fb) \/ p < B \/ p >= E
  <2>1. p <= h \/ p >= E0
    BY <1>0, <1>2, <1>4
  <2>2. p <= B \/ p >= h
    BY <1>2, <1>4, <1>5, <1>7, <1>1
  <2>3. p <= E0 \/ p >= E
    BY <1>0, <1>2, <1>4, <1>6
  <2>4. E0 \notin DOMAIN fb => E = E0
    BY <1>6
  <2>5. p \in Int
    BY <1>2
  <2> QED BY <2>1, <2>2, <2>3, <2>4, <2>5, <1>4, <1>7, <1>8
<1>13. DOMAIN fb \ {B, E0} = {p \in DOMAIN fb : p < B \/ p >= E}
  <2>1. ASSUME NEW p \in DOMAIN fb, p # B, p # E0 PROVE p < B \/ p >= E
    BY <2>1, <1>12, <1>1, <1>4
  <2>2. ASSUME NEW p \in DOMAIN fb, p < B \/ p >= E PROVE p # B /\ p # E0
    <3>1. CASE E0 \in DOMAIN fb
      <4>1. E0 < E
        BY <3>1, <1>2, <1>6
      <4> QED BY <4>1, <2>2, <1>7, <1>8, <1>4
    <3>2. CASE E0 \notin DOMAIN fb
      BY <3>2, <2>2, <1>7, <1>8
    <3> QED BY <3>1, <3>2
  <2> QED BY <2>1, <2>2
<1>14. DOMAIN used \ {h} = {p \in DOMAIN used : p < B \/ p >= E}
  <2>1. ASSUME NEW p \in DOMAIN used, p # h PROVE p < B \/ p >= E
    <3>2. p # B
      BY <2>1, <1>1, <1>5
    <3>3. ~(p = E0 /\ E0 \in DOMAIN fb)
      BY <1>1
    <3> QED BY <2>1, <3>2, <3>3, <1>12, <1>1
  <2>2. ASSUME NEW p \in DOMAIN used, p < B \/ p >= E PROVE p # h
    BY <2>2, <1>4, <1>7, <1>8
  <2> QED BY <2>1, <2>2
<1>15. ASSUME NEW p, NEW q, p \in W \ {end}, q \in W \ {end}, EndOf(cell[p]) = EndOf(cell[q]) PROVE p = q
  BY <1>2, <1>15
<1>16. DOMAIN fe \ {h, E} = {EndOf(cell[p]) : p \in DOMAIN fb \ {B, E0}}
  <2>1. ASSUME NEW p \in DOMAIN fb, p # B, p # E0 PROVE EndOf(cell[p]) # h /\ EndOf(cell[p]) # E
    <3>1. p \in W \ {end}
      BY <1>1
    <3>2. EndOf(cell[p]) # h
      <4>1. ASSUME EndOf(cell[p]) = h PROVE FALSE
        <5>1. h \in DOMAIN fe
          BY <4>1, <1>1
        <5> QED BY <5>1, <4>1, <3>1, <1>5, <1>7, <1>15, <2>1
      <4> QED BY <4>1
    <3>3. EndOf(cell[p]) # E
      <4>1. CASE E0 \in DOMAIN fb
        BY <4>1, <3>1, <1>6, <1>15, <2>1
      <4>2. CASE E0 \notin DOMAIN fb
        BY <4>2, <3>1, <1>6, <1>10, <1>1, <1>4
      <4> QED BY <4>1, <4>2
    <3> QED BY <3>2, <3>3
  <2>2. ASSUME NEW e \in DOMAIN fe, e # h, e # E
        PROVE  \E p \in DOMAIN fb \ {B, E0} : e = EndOf(cell[p])
    <3>1. PICK p \in DOMAIN fb : e = EndOf(cell[p])
      BY <1>1
    <3>2. p # B
      <4>1. ASSUME p = B PROVE FALSE
        BY <4>1, <3>1, <2>2, <1>5, <1>9
      <4> QED BY <4>1
    <3>3. p # E0
      BY <3>1, <2>2, <1>6
    <3> QED BY <3>1, <3>2, <3>3
  <2> QED BY <2>1, <2>2, <1>1
<1>17. ASSUME NEW p \in W \ {end}, EndOf(cell[p]) = B PROVE cell[p].blockState = "UsedBlock"
  <2>1. CASE h \in DOMAIN fe
    <3>1. cell[B].blockState = "WaitMergerBlock"
      BY <2>1, <1>1, <1>5
    <3>2. p \notin DOMAIN fb
      BY <3>1, <1>3, <1>17
    <3> QED BY <3>2, <1>1, <1>2
  <2>2. CASE h \notin DOMAIN fe
    <3>1. p \notin DOMAIN fb
      BY <2>2, <1>1, <1>5, <1>17
    <3> QED BY <3>1, <1>1, <1>2
  <2> QED BY <2>1, <2>2
<1>18. E # end => cell[E].blockState = "UsedBlock"
  <2>1. CASE E0 \in DOMAIN fb
    BY <2>1, <1>3, <1>6
  <2>2. CASE E0 \notin DOMAIN fb
    BY <2>2, <1>1, <1>2, <1>6, <1>8
  <2> QED BY <2>1, <2>2
<1>19. Region(cell, W, end, used, fb, fe, h, B, E0, E)
  BY <1>4, <1>7, <1>8, <1>9, <1>11, <1>13, <1>14, <1>16, <1>17, <1>18 DEF Region, UsedBefore
<1> QED BY <1>19 DEF B, E0, E

\* What the client keeps stays, where its blocks stay.
LEMMA KeepsSame ==
    ASSUME NEW k, NEW cell, NEW W, NEW end, Tiled(cell, W, end), Keeps(k, cell, W, end),
           NEW c2, NEW W2, NEW end2,
           \A h \in DOMAIN k : /\ h \in W2 \ {end2}
                               /\ \A p \in Int : h <= p /\ p < EndOf(cell[h]) => c2[p] = cell[p]
    PROVE  Keeps(k, c2, W2, end2)
<1>1. ASSUME NEW h \in DOMAIN k
      PROVE  /\ h \in W2 \ {end2} /\ c2[h].blockState = "UsedBlock"
             /\ DOMAIN k[h] = 0 .. c2[h].lenOfData - 1
             /\ \A i \in DOMAIN k[h] : k[h][i] \in {Junk, c2[h + HeadLen + i]}
  <2>1. /\ h \in W \ {end} /\ cell[h].blockState = "UsedBlock"
        /\ DOMAIN k[h] = 0 .. cell[h].lenOfData - 1
        /\ \A i \in DOMAIN k[h] : k[h][i] \in {Junk, cell[h + HeadLen + i]}
    BY DEF Keeps
  <2>2. /\ h \in Int /\ EndOf(cell[h]) = h + HeadLen + cell[h].lenOfData /\ h < EndOf(cell[h])
        /\ cell[h].lenOfData \in Int /\ HeadLen \in Int /\ HeadLen > 0
    BY <2>1, TiledIs, BlockIs, SizesAssumption
  <2>3. c2[h] = cell[h]
    BY <2>2
  <2>4. ASSUME NEW i \in DOMAIN k[h] PROVE c2[h + HeadLen + i] = cell[h + HeadLen + i]
    <3>1. i \in Int /\ i >= 0 /\ i < cell[h].lenOfData
      BY <2>1, <2>2
    <3>2. h + HeadLen + i \in Int /\ h <= h + HeadLen + i /\ h + HeadLen + i < EndOf(cell[h])
      BY <3>1, <2>2
    <3> QED BY <3>2
  <2> QED BY <2>1, <2>3, <2>4
<1> QED BY <1>1 DEF Keeps

\* The file and the maps when Free has cut the file off at B.
LEMMA CutIs ==
    ASSUME NEW cell, NEW W, NEW end, Tiled(cell, W, end), Spread(cell, W, end),
           NEW used, NEW fb, NEW fe, MapsOf(used, fb, fe, cell, W \ {end}),
           NEW B \in W \ {end}, NEW u2, NEW fb2, NEW fe2, NEW c2,
           Below(u2, used, B), Below(fb2, fb, B), EndsWith(fe2, fe, cell, fb2),
           UsedBefore(cell, W, end, B),
           \A p \in W : p < B => c2[p] = cell[p]
    PROVE  /\ Tiled(c2, UpTo(W, B), B) /\ Spread(c2, UpTo(W, B), B)
           /\ MapsOf(u2, fb2, fe2, c2, UpTo(W, B) \ {B})
<1> DEFINE W2 == UpTo(W, B)
<1>0. /\ DOMAIN u2 = {p \in DOMAIN used : p < B} /\ \A x \in DOMAIN u2 : u2[x] = used[x]
      /\ DOMAIN fb2 = {p \in DOMAIN fb : p < B} /\ \A x \in DOMAIN fb2 : fb2[x] = fb[x]
      /\ DOMAIN fe2 = {EndOf(cell[p]) : p \in DOMAIN fb2} /\ \A x \in DOMAIN fe2 : fe2[x] = fe[x]
      /\ W2 = {q \in W : q <= B}
  BY DEF Below, EndsWith, UpTo
<1> HIDE DEF W2
<1>1. /\ DOMAIN used = {p \in W \ {end} : cell[p].blockState = "UsedBlock"}
      /\ DOMAIN fb = {p \in W \ {end} : cell[p].blockState = "WaitMergerBlock"}
      /\ \A p \in DOMAIN used : used[p] = cell[p]
      /\ \A p \in DOMAIN fb : fb[p] = cell[p] /\ fe[EndOf(cell[p])] = cell[p]
  BY DEF MapsOf
<1>2. /\ \A p \in W : p \in Int /\ p <= end
      /\ B \in Int /\ B < end /\ end \in Int
  BY TiledIs
<1>3. \A p \in W2 \ {B} : p \in W \ {end} /\ p < B /\ c2[p] = cell[p]
  BY <1>0, <1>2
<1>4. \A p \in W \ {end} : p < B => p \in W2 \ {B}
  BY <1>0, <1>2
<1>5. Tiled(c2, W2, B)
  BY <1>0, <1>3, CutTiled
<1>6. ASSUME NEW p \in W2 \ {B}, c2[p].blockState = "WaitMergerBlock"
      PROVE  EndOf(c2[p]) # B /\ c2[EndOf(c2[p])].blockState = "UsedBlock"
  <2>1. p \in W \ {end} /\ c2[p] = cell[p] /\ cell[p].blockState = "WaitMergerBlock"
    BY <1>0, <1>3, <1>6
  <2>2. EndOf(cell[p]) # B /\ cell[EndOf(cell[p])].blockState = "UsedBlock"
    BY <1>0, <2>1 DEF Spread, UsedBefore
  <2>3. EndOf(cell[p]) \in W2
    BY <1>0, <1>5, <2>1 DEF Tiled
  <2> QED BY <1>0, <2>1, <2>2, <2>3, <1>3
<1>7. /\ DOMAIN u2 = {p \in W2 \ {B} : c2[p].blockState = "UsedBlock"}
      /\ \A p \in DOMAIN u2 : u2[p] = c2[p]
  <2>1. \A p \in W2 \ {B} : p \in DOMAIN used <=> c2[p].blockState = "UsedBlock"
    BY <1>0, <1>1, <1>3
  <2>2. \A p \in DOMAIN u2 : p \in W2 \ {B} /\ p \in DOMAIN used
    BY <1>0, <1>1, <1>4
  <2>3. \A p \in W2 \ {B} : p \in DOMAIN used => p \in DOMAIN u2
    BY <1>0, <1>3
  <2> QED BY <1>0, <2>1, <2>2, <2>3, <1>1, <1>3
<1>8. /\ DOMAIN fb2 = {p \in W2 \ {B} : c2[p].blockState = "WaitMergerBlock"}
      /\ \A p \in DOMAIN fb2 : fb2[p] = c2[p] /\ fb2[p] = cell[p]
  <2>1. \A p \in W2 \ {B} : p \in DOMAIN fb <=> c2[p].blockState = "WaitMergerBlock"
    BY <1>0, <1>1, <1>3
  <2>2. \A p \in DOMAIN fb2 : p \in W2 \ {B} /\ p \in DOMAIN fb
    BY <1>0, <1>1, <1>4
  <2>3. \A p \in W2 \ {B} : p \in DOMAIN fb => p \in DOMAIN fb2
    BY <1>0, <1>3
  <2> QED BY <1>0, <2>1, <2>2, <2>3, <1>1, <1>3
<1>9. /\ DOMAIN fe2 = {EndOf(c2[p]) : p \in DOMAIN fb2}
      /\ \A p \in DOMAIN fb2 : fe2[EndOf(c2[p])] = c2[p]
  <2>1. \A p \in DOMAIN fb2 : c2[p] = cell[p] /\ p \in DOMAIN fb
    BY <1>0, <1>8
  <2>2. DOMAIN fe2 = {EndOf(c2[p]) : p \in DOMAIN fb2}
    BY <1>0, <2>1
  <2>3. ASSUME NEW p \in DOMAIN fb2 PROVE fe2[EndOf(c2[p])] = c2[p]
    <3>1. EndOf(c2[p]) \in DOMAIN fe2
      BY <1>0, <2>2
    <3>2. fe2[EndOf(c2[p])] = fe[EndOf(cell[p])]
      BY <1>0, <3>1, <2>1
    <3> QED BY <1>0, <3>2, <2>1, <1>1
  <2> QED BY <1>0, <2>2, <2>3
<1> QED BY <1>5, <1>6, <1>7, <1>8, <1>9 DEF Spread, MapsOf, W2

\* The file and the maps when Free has made the blocks from B to E a free one.
LEMMA MergeIs ==
    ASSUME NEW cell, NEW W, NEW end, Tiled(cell, W, end), Spread(cell, W, end),
           NEW used, NEW fb, NEW fe, MapsOf(used, fb, fe, cell, W \ {end}),
           NEW B \in W \ {end}, NEW E \in W, E # end, NEW u2, NEW c2,
           NEW b, NEW fb0, NEW fe0, HoldsFree(c2, cell, W \ {end}, b, B, E),
           Around(u2, used, B, E), Around(fb0, fb, B, E), EndsWith(fe0, fe, cell, fb0),
           UsedBefore(cell, W, end, B), cell[E].blockState = "UsedBlock"
    PROVE  /\ Tiled(c2, Outside(W, B, E), end) /\ Spread(c2, Outside(W, B, E), end)
           /\ MapsOf(u2, Assign(fb0, B, b), Assign(fe0, E, b), c2, Outside(W, B, E) \ {end})
<1> DEFINE W2 == Outside(W, B, E)
           fb2 == Assign(fb0, B, b)
           fe2 == Assign(fe0, E, b)
<1>0. /\ DOMAIN u2 = {p \in DOMAIN used : p < B \/ p >= E} /\ \A x \in DOMAIN u2 : u2[x] = used[x]
      /\ DOMAIN fb0 = {p \in DOMAIN fb : p < B \/ p >= E} /\ \A x \in DOMAIN fb0 : fb0[x] = fb[x]
      /\ DOMAIN fe0 = {EndOf(cell[p]) : p \in DOMAIN fb0} /\ \A x \in DOMAIN fe0 : fe0[x] = fe[x]
      /\ W2 = {q \in W : q <= B \/ q >= E}
  BY DEF Around, EndsWith, Outside
<1>15. /\ b \in Block /\ b.blockBeginIndex = B /\ EndOf(b) = E /\ b.blockState = "WaitMergerBlock"
       /\ c2[B] = b
       /\ \A p \in W \ {end} : p < B \/ p >= E => c2[p] = cell[p]
  BY DEF HoldsFree
<1> HIDE DEF W2
<1>1. /\ DOMAIN used = {p \in W \ {end} : cell[p].blockState = "UsedBlock"}
      /\ DOMAIN fb = {p \in W \ {end} : cell[p].blockState = "WaitMergerBlock"}
      /\ \A p \in DOMAIN used : used[p] = cell[p]
      /\ \A p \in DOMAIN fb : fb[p] = cell[p] /\ fe[EndOf(cell[p])] = cell[p]
  BY DEF MapsOf
<1>2. /\ \A p \in W : p \in Int /\ p <= end
      /\ B \in Int /\ B < end /\ end \in Int /\ B < E /\ E \in Int
  BY <1>15, TiledIs, BlockIs
<1>14. \A p \in W \ {end} : EndOf(cell[p]) \in W /\ p < EndOf(cell[p]) /\ EndOf(cell[p]) \in Int
                              /\ \A q \in W : q <= p \/ q >= EndOf(cell[p])
  BY TiledIs
<1>3. \A p \in W2 \ {B, end} : p \in W \ {end} /\ (p < B \/ p >= E) /\ c2[p] = cell[p]
  BY <1>0, <1>15, <1>2
<1>4. \A p \in W \ {end} : p < B \/ p >= E => p \in W2 \ {B, end}
  <2>1. \A p \in W \ {end} : p < B \/ p >= E => p # B /\ (p <= B \/ p >= E)
    BY <1>0, <1>15, <1>2
  <2> QED BY <1>0, <1>15, <2>1
<1>5. Tiled(c2, W2, end) /\ B \in W2 \ {end}
  <2>1. B \in W2 \ {end}
    BY <1>0, <1>15, <1>2
  <2>2. \A q \in W2 \ {B, end} : c2[q] = cell[q]
    BY <1>0, <1>15, <1>3
  <2>3. c2[B] \in Block /\ c2[B].blockBeginIndex = B /\ EndOf(c2[B]) = E
    BY <1>15
  <2>4. Tiled(c2, Outside(W, B, E), end)
    BY <2>1, <2>2, <2>3, ReplaceTiled DEF W2
  <2> QED BY <2>1, <2>4 DEF W2
<1>6. ASSUME NEW p \in W2 \ {end}, c2[p].blockState = "WaitMergerBlock"
      PROVE  EndOf(c2[p]) # end /\ c2[EndOf(c2[p])].blockState = "UsedBlock"
  <2>1. CASE p = B
    BY <1>0, <1>15, <2>1, <1>2
  <2>2. CASE p # B
    <3>1. p \in W \ {end} /\ c2[p] = cell[p] /\ cell[p].blockState = "WaitMergerBlock"
      BY <1>0, <1>15, <1>3, <1>6, <2>2
    <3>2. /\ EndOf(cell[p]) # end /\ cell[EndOf(cell[p])].blockState = "UsedBlock"
          /\ EndOf(cell[p]) # B
      BY <1>0, <1>15, <3>1 DEF Spread, UsedBefore
    <3>3. EndOf(cell[p]) \in W2
      BY <1>0, <1>15, <1>5, <3>1 DEF Tiled
    <3> QED BY <1>0, <1>15, <3>1, <3>2, <3>3, <1>3
  <2> QED BY <1>0, <1>15, <2>1, <2>2
<1>7. /\ DOMAIN u2 = {p \in W2 \ {end} : c2[p].blockState = "UsedBlock"}
      /\ \A p \in DOMAIN u2 : u2[p] = c2[p]
  <2>1. \A p \in W2 \ {B, end} : p \in DOMAIN used <=> c2[p].blockState = "UsedBlock"
    BY <1>0, <1>15, <1>1, <1>3
  <2>2. \A p \in DOMAIN u2 : p \in W2 \ {B, end} /\ p \in DOMAIN used
    BY <1>0, <1>15, <1>1, <1>4
  <2>3. \A p \in W2 \ {B, end} : p \in DOMAIN used => p \in DOMAIN u2
    BY <1>0, <1>15, <1>3
  <2>4. c2[B].blockState # "UsedBlock"
    BY <1>15
  <2> QED BY <1>0, <1>15, <2>1, <2>2, <2>3, <2>4, <1>1, <1>3
<1>8. /\ DOMAIN fb0 = {p \in W2 \ {B, end} : c2[p].blockState = "WaitMergerBlock"}
      /\ \A p \in DOMAIN fb0 : fb0[p] = c2[p] /\ fb0[p] = cell[p] /\ c2[p] = cell[p]
  <2>1. \A p \in W2 \ {B, end} : p \in DOMAIN fb <=> c2[p].blockState = "WaitMergerBlock"
    BY <1>0, <1>15, <1>1, <1>3
  <2>2. \A p \in DOMAIN fb0 : p \in W2 \ {B, end} /\ p \in DOMAIN fb
    BY <1>0, <1>15, <1>1, <1>4
  <2>3. \A p \in W2 \ {B, end} : p \in DOMAIN fb => p \in DOMAIN fb0
    BY <1>0, <1>15, <1>3
  <2> QED BY <1>0, <1>15, <2>1, <2>2, <2>3, <1>1, <1>3
<1>9. /\ DOMAIN fb2 = DOMAIN fb0 \cup {B} /\ fb2[B] = b /\ \A p \in DOMAIN fb0 \ {B} : fb2[p] = fb0[p]
      /\ DOMAIN fe2 = DOMAIN fe0 \cup {E} /\ fe2[E] = b /\ \A p \in DOMAIN fe0 \ {E} : fe2[p] = fe0[p]
  BY DEF Assign
<1> HIDE DEF fb2, fe2
<1>10. /\ DOMAIN fb2 = {p \in W2 \ {end} : c2[p].blockState = "WaitMergerBlock"}
       /\ \A p \in DOMAIN fb2 : fb2[p] = c2[p]
  <2>1. c2[B].blockState = "WaitMergerBlock" /\ B \notin DOMAIN fb0
    BY <1>0, <1>15, <1>8
  <2> QED BY <1>0, <1>15, <2>1, <1>5, <1>8, <1>9
<1>11. \A p \in DOMAIN fb0 : EndOf(c2[p]) # E /\ EndOf(c2[p]) = EndOf(cell[p]) /\ EndOf(c2[p]) \in DOMAIN fe0
  <2>1. ASSUME NEW p \in DOMAIN fb0 PROVE EndOf(cell[p]) # E
    <3>1. p \in W \ {end} /\ (p < B \/ p >= E)
      BY <1>0, <1>15, <1>1
    <3>2. B <= p \/ B >= EndOf(cell[p])
      BY <1>0, <1>15, <3>1, <1>14
    <3>3. p \in Int /\ EndOf(cell[p]) \in Int /\ p < EndOf(cell[p])
      BY <1>0, <1>15, <3>1, <1>14, <1>2
    <3> QED BY <1>0, <1>15, <3>1, <3>2, <3>3, <1>2
  <2> QED BY <1>0, <1>15, <2>1, <1>8
<1>12. DOMAIN fe2 = {EndOf(c2[p]) : p \in DOMAIN fb2}
  <2>1. DOMAIN fe0 = {EndOf(c2[p]) : p \in DOMAIN fb0}
    BY <1>0, <1>15, <1>8
  <2>2. EndOf(c2[B]) = E
    BY <1>15
  <2> QED BY <1>0, <1>15, <2>1, <2>2, <1>9
<1>13. ASSUME NEW p \in DOMAIN fb2 PROVE fe2[EndOf(c2[p])] = c2[p]
  <2>1. CASE p = B
    BY <1>0, <1>15, <2>1, <1>9
  <2>2. CASE p # B
    <3>1. p \in DOMAIN fb0 /\ p \in DOMAIN fb
      BY <1>0, <1>15, <2>2, <1>9
    <3>2. fe2[EndOf(c2[p])] = fe[EndOf(cell[p])]
      BY <1>0, <1>15, <3>1, <1>9, <1>11
    <3> QED BY <1>0, <1>15, <3>1, <3>2, <1>1, <1>8
  <2> QED BY <1>0, <1>15, <2>1, <2>2
<1> QED BY <1>5, <1>6, <1>7, <1>10, <1>12, <1>13 DEF Spread, MapsOf, W2, fb2, fe2

\* Free on a loaded file.
LEMMA FreedIs ==
    ASSUME Basic, disk.verify = TRUE, cache.m_FixedHead = End,
           NEW W, Tiled(disk.cell, W, End), Spread(disk.cell, W, End),
           MapsOf(cache.m_UsedBlock, cache.m_FreeBlockBeginIndex, cache.m_FreeBlockEndIndex,
                  disk.cell, W \ {End}),
           NEW h \in DOMAIN cache.m_UsedBlock, Release(cache, h),
           NEW k, Keeps(k, disk.cell, W, End), h \notin DOMAIN k
    PROVE  /\ DiskOK(disk') /\ disk'.verify = TRUE /\ CacheShape(cache')
           /\ cache'.m_FixedHead = End' /\ cache'.m_FixedHead \in Span
           /\ disk'.fileEndIndex = Hole => disk.fileEndIndex = Hole
           /\ \E W2 \in SUBSET Span :
                /\ Tiled(disk'.cell, W2, End') /\ Spread(disk'.cell, W2, End')
                /\ Keeps(k, disk'.cell, W2, End')
                /\ MapsOf(cache'.m_UsedBlock, cache'.m_FreeBlockBeginIndex,
                          cache'.m_FreeBlockEndIndex, disk'.cell, W2 \ {End'})
<1> DEFINE cell == disk.cell
           end == End
           used == cache.m_UsedBlock
           fb == cache.m_FreeBlockBeginIndex
           fe == cache.m_FreeBlockEndIndex
           B == MergedBegin(fe, h)
           E0 == EndOf(cell[h])
           E == MergedEnd(fb, E0)
           r == Merged(cache, h)
           fb0 == r.cache.m_FreeBlockBeginIndex
           fe0 == r.cache.m_FreeBlockEndIndex
           b == [blockBeginIndex |-> B, lenOfData |-> E - B - HeadLen, blockState |-> "WaitMergerBlock"]
<1>1. /\ DOMAIN used = {p \in W \ {end} : cell[p].blockState = "UsedBlock"}
      /\ DOMAIN fb = {p \in W \ {end} : cell[p].blockState = "WaitMergerBlock"}
      /\ \A p \in DOMAIN used : used[p] = cell[p]
      /\ \A p \in DOMAIN fb : fb[p] = cell[p]
  BY DEF MapsOf
<1>2. /\ B \in W \ {end} /\ E \in W /\ B < E0 /\ B <= h /\ E0 <= E /\ B < E
      /\ B \in Int /\ E \in Int /\ E0 \in Int /\ h \in Int /\ h \in W \ {end}
      /\ h \in DOMAIN fe \/ B \notin DOMAIN fb
      /\ E0 \in DOMAIN fb \/ E \notin DOMAIN fe
      /\ DOMAIN fb \ {B, E0} = {p \in DOMAIN fb : p < B \/ p >= E}
      /\ DOMAIN fe \ {h, E} = {EndOf(cell[p]) : p \in DOMAIN fb \ {B, E0}}
      /\ DOMAIN used \ {h} = {p \in DOMAIN used : p < B \/ p >= E}
      /\ UsedBefore(cell, W, end, B)
      /\ E # end => cell[E].blockState = "UsedBlock"
  <2>1. /\ MapsOf(used, fb, fe, cell, W \ {end}) /\ Tiled(cell, W, end) /\ Spread(cell, W, end)
        /\ h \in DOMAIN used
    OBVIOUS
  <2>2. Region(cell, W, end, used, fb, fe, h, B, E0, E)
    <3> HIDE DEF used, fb, fe, cell, end
    <3> QED BY <2>1, RegionIs
  <2> HIDE DEF B, E, E0, used, fb, fe, cell, end
  <2> QED BY <2>2 DEF Region
<1>3. CacheShape(cache) /\ DiskOK(disk)
  BY DEF Basic
<1>4. E0 = EndOf(used[h]) /\ E0 # B
  <2>1. E0 = EndOf(used[h])
    BY <1>1
  <2> HIDE DEF B, E0
  <2> QED BY <2>1, <1>2
<1> HIDE DEF B, E0, E
<1>5. /\ r.begin = B /\ r.end = E
      /\ CacheShape(r.cache)
      /\ r.cache.m_FixedHead = cache.m_FixedHead
      /\ r.cache.m_UsedBlock = Erase(used, h)
      /\ DOMAIN fb0 = DOMAIN fb \ {B, E0} /\ \A x \in DOMAIN fb0 : fb0[x] = fb[x]
      /\ DOMAIN fe0 = DOMAIN fe \ {h, E} /\ \A x \in DOMAIN fe0 : fe0[x] = fe[x]
  <2>1. B = MergedBegin(fe, h)
    BY DEF B
  <2>2. E = MergedEnd(fb, E0)
    BY DEF E
  <2>3. E0 \in DOMAIN fb \/ E \notin DOMAIN fe \ {h}
    BY <1>2
  <2> QED BY <2>1, <2>2, <2>3, <1>2, <1>3, <1>4, MergedIs
<1> HIDE DEF r
<1>6. /\ DOMAIN Erase(used, h) = {p \in DOMAIN used : p < B \/ p >= E}
      /\ \A x \in DOMAIN Erase(used, h) : Erase(used, h)[x] = used[x]
  <2>1. /\ DOMAIN Erase(used, h) = DOMAIN used \ {h}
        /\ \A x \in DOMAIN used \ {h} : Erase(used, h)[x] = used[x]
    BY DEF Erase, Restrict
  <2> QED BY <2>1, <1>2
<1>7. /\ DOMAIN fb0 = {p \in DOMAIN fb : p < B \/ p >= E}
      /\ DOMAIN fe0 = {EndOf(cell[p]) : p \in DOMAIN fb0}
  BY <1>2, <1>5
<1>8. b \in Block /\ b.blockBeginIndex = B /\ EndOf(b) = E /\ b.blockState = "WaitMergerBlock" /\ B + HeadLen <= E
  <2>1. h + HeadLen <= E0 /\ B \in Positions /\ E \in Span
    BY <1>2, TiledIs DEF E0
  <2>2. HeadLen \in Int /\ HeadLen > 0 /\ MaxFile \in Int /\ E <= MaxFile /\ B >= 0
    BY <2>1, <1>2, SpanIs, SizesAssumption DEF Positions
  <2>3. E - B - HeadLen \in 0 .. MaxFile /\ B + HeadLen + (E - B - HeadLen) = E
    BY <2>1, <2>2, <1>2
  <2> QED BY <2>1, <2>2, <2>3, <1>2 DEF Block, EndOf
<1>9. \A p \in W : p \in Positions \/ p = end
  BY TiledIs
<1>10. CASE E = end
  <2>1. /\ cache' = [r.cache EXCEPT !.m_FixedHead = B]
        /\ disk' \in {PutHead(disk, B), Truncated(PutHead(disk, B), B)}
    BY <1>5, <1>10 DEF Release, r
  <2>2. /\ CacheShape(cache') /\ cache'.m_FixedHead = B
        /\ cache'.m_UsedBlock = Erase(used, h)
        /\ cache'.m_FreeBlockBeginIndex = fb0 /\ cache'.m_FreeBlockEndIndex = fe0
    BY <2>1, <1>5 DEF CacheShape
  <2>3. B \in Span
    BY <1>2, TiledIs
  <2>4. /\ DiskOK(disk') /\ disk'.verify = TRUE /\ disk'.fileEndIndex = B
        /\ \A p \in Positions : p < B => disk'.cell[p] = cell[p]
    <3>1. /\ DiskOK(PutHead(disk, B)) /\ DiskOK(Truncated(PutHead(disk, B), B))
          /\ PutHead(disk, B).verify = TRUE /\ Truncated(PutHead(disk, B), B).verify = TRUE
          /\ PutHead(disk, B).fileEndIndex = B /\ Truncated(PutHead(disk, B), B).fileEndIndex = B
          /\ PutHead(disk, B).cell = disk.cell
          /\ \A p \in Positions : p < B => Truncated(PutHead(disk, B), B).cell[p] = disk.cell[p]
      BY <2>3, <1>3, PutHeadIs
    <3>2. CASE disk' = PutHead(disk, B)
      BY <3>1, <3>2
    <3>3. CASE disk' = Truncated(PutHead(disk, B), B)
      BY <3>1, <3>3
    <3> QED BY <2>1, <3>2, <3>3
  <2>5. End' = B
    <3>1. B # Absent /\ B # Hole
      BY <2>3, NotHole
    <3> QED BY <2>4, <3>1 DEF End
  <2> DEFINE W2 == UpTo(W, B)
             c2 == disk'.cell
  <2>6. \A p \in W \ {end} : p < B \/ p >= E <=> p < B
    BY TiledIs, <1>10, <1>2
  <2>7. /\ DOMAIN Erase(used, h) = {p \in DOMAIN used : p < B}
        /\ DOMAIN fb0 = {p \in DOMAIN fb : p < B}
    BY <2>6, <1>6, <1>7, <1>1
  <2>8. \A p \in W : p < B => c2[p] = cell[p]
    <3>1. \A p \in W : p < B => p # end
      BY <1>2, TiledIs
    <3> QED BY <3>1, <2>4, <1>9
  <2>9. /\ Tiled(c2, W2, B) /\ Spread(c2, W2, B)
        /\ MapsOf(Erase(used, h), fb0, fe0, c2, W2 \ {B})
    <3> HIDE DEF fb, fe, used, cell, fb0, fe0, c2
    <3>1. MapsOf(used, fb, fe, cell, W \ {end}) /\ Tiled(cell, W, end) /\ Spread(cell, W, end)
      BY DEF used, fb, fe, cell
    <3>2. /\ Below(Erase(used, h), used, B) /\ Below(fb0, fb, B) /\ EndsWith(fe0, fe, cell, fb0)
          /\ UsedBefore(cell, W, end, B) /\ B \in W \ {end}
      BY <1>2, <1>5, <1>6, <1>7, <2>7 DEF Below, EndsWith
    <3> HIDE DEF end
    <3> QED BY <3>1, <3>2, <2>8, CutIs
  <2>10. Keeps(k, c2, W2, B)
    <3>1. ASSUME NEW g \in DOMAIN k
          PROVE  /\ g \in W2 \ {B}
                 /\ \A p \in Int : g <= p /\ p < EndOf(cell[g]) => c2[p] = cell[p]
      <4>1. g \in W \ {end} /\ cell[g].blockState = "UsedBlock" /\ g # h
        BY DEF Keeps
      <4>2. g < B
        BY <4>1, <2>7, <1>1, <1>2, <1>6
      <4>3. g \in W2 \ {B}
        BY <4>1, <4>2, <1>2, TiledIs DEF UpTo
      <4>4. /\ EndOf(cell[g]) <= B /\ EndOf(cell[g]) \in Int /\ g \in Int /\ First <= g /\ B < end
            /\ B \in Positions
        BY <4>1, <4>2, <1>2, TiledIs
      <4>5. \A p \in Int : g <= p /\ p < EndOf(cell[g]) => p \in Positions /\ p < B
        BY <4>4, <1>2, SpanIs DEF Positions
      <4> QED BY <4>3, <4>5, <2>4
    <3> HIDE DEF W2, c2
    <3> QED BY <3>1, KeepsSame
  <2>11. W2 \in SUBSET Span
    BY TiledIs DEF UpTo, Outside
  <2>12. disk'.fileEndIndex # Hole
    BY <2>3, <2>4, NotHole
  <2> QED BY <2>2, <2>3, <2>4, <2>5, <2>9, <2>10, <2>11, <2>12
<1>11. CASE E # end
  <2>1. /\ cache' = [r.cache EXCEPT !.m_FreeBlockBeginIndex = Assign(@, B, b),
                                    !.m_FreeBlockEndIndex = Assign(@, E, b)]
        /\ disk' = PutBlock(disk, b)
    BY <1>5, <1>11 DEF Release, r
  <2>2. /\ CacheShape(cache') /\ cache'.m_FixedHead = End
        /\ cache'.m_UsedBlock = Erase(used, h)
        /\ cache'.m_FreeBlockBeginIndex = Assign(fb0, B, b)
        /\ cache'.m_FreeBlockEndIndex = Assign(fe0, E, b)
    <3> HIDE DEF b
    <3> QED BY <2>1, <1>5 DEF CacheShape
  <2> HIDE DEF b
  <2>4. /\ DiskOK(disk') /\ disk'.verify = TRUE /\ disk'.fileEndIndex = disk.fileEndIndex
        /\ disk'.cell[B] = b
        /\ \A p \in Positions : p < B \/ p >= B + HeadLen => disk'.cell[p] = cell[p]
    BY <2>1, <1>3, <1>8, PutBlockIs
  <2>5. End' = End /\ End \in Span
    BY <2>4, TiledIs DEF End
  <2> DEFINE W2 == Outside(W, B, E)
             c2 == disk'.cell
  <2>6. \A p \in Positions : p < B \/ p >= E => c2[p] = cell[p]
    <3>1. \A p \in Positions : p < B \/ p >= E => p < B \/ p >= B + HeadLen
      BY <1>2, <1>8, SizesAssumption DEF Positions
    <3> QED BY <3>1, <2>4
  <2>7. \A p \in W \ {end} : p < B \/ p >= E => c2[p] = cell[p]
    BY <2>6, <1>9
  <2>9. /\ Tiled(c2, W2, end) /\ Spread(c2, W2, end)
        /\ MapsOf(Erase(used, h), Assign(fb0, B, b), Assign(fe0, E, b), c2, W2 \ {end})
    <3> HIDE DEF fb, fe, used, cell, fb0, fe0, c2
    <3>1. MapsOf(used, fb, fe, cell, W \ {end}) /\ Tiled(cell, W, end) /\ Spread(cell, W, end)
      BY DEF used, fb, fe, cell
    <3>2. /\ Around(Erase(used, h), used, B, E) /\ Around(fb0, fb, B, E) /\ EndsWith(fe0, fe, cell, fb0)
          /\ UsedBefore(cell, W, end, B) /\ B \in W \ {end} /\ E \in W /\ E # end
          /\ cell[E].blockState = "UsedBlock"
      BY <1>2, <1>5, <1>6, <1>7, <1>11 DEF Around, EndsWith
    <3>3. c2[B] = b
      BY <2>4 DEF c2
    <3>4. HoldsFree(c2, cell, W \ {end}, b, B, E)
      BY <1>8, <3>3, <2>7 DEF HoldsFree, c2, cell
    <3> HIDE DEF end
    <3> QED BY <3>1, <3>2, <3>4, MergeIs
  <2>10. Keeps(k, c2, W2, end)
    <3>1. ASSUME NEW g \in DOMAIN k
          PROVE  /\ g \in W2 \ {end}
                 /\ \A p \in Int : g <= p /\ p < EndOf(cell[g]) => c2[p] = cell[p]
      <4>1. g \in W \ {end} /\ cell[g].blockState = "UsedBlock" /\ g # h
        BY DEF Keeps
      <4>2. g < B \/ g >= E
        BY <4>1, <1>1, <1>2
      <4>3. g \in W2 \ {end}
        BY <4>1, <4>2, <1>2, TiledIs DEF Outside
      <4>4. /\ EndOf(cell[g]) <= B \/ g >= E
            /\ EndOf(cell[g]) \in Int /\ g \in Int /\ First <= g /\ EndOf(cell[g]) <= MaxFile
        <5>1. /\ EndOf(cell[g]) \in W /\ EndOf(cell[g]) \in Int /\ g \in Int /\ First <= g
              /\ B <= g \/ B >= EndOf(cell[g])
          BY <4>1, <1>2, TiledIs
        <5>2. EndOf(cell[g]) <= MaxFile
          BY <5>1, TiledIs, SpanIs
        <5> QED BY <5>1, <5>2, <4>2, <1>2
      <4>5. \A p \in Int : g <= p /\ p < EndOf(cell[g]) => p \in Positions /\ (p < B \/ p >= E)
        BY <4>4, <1>2, SpanIs DEF Positions
      <4> QED BY <4>3, <4>5, <2>6
    <3> HIDE DEF W2, c2
    <3> QED BY <3>1, KeepsSame
  <2>11. W2 \in SUBSET Span
    BY TiledIs DEF UpTo, Outside
  <2> QED BY <2>2, <2>4, <2>5, <2>9, <2>10, <2>11
<1> QED BY <1>10, <1>11

-----------------------------------------------------------------------------
\* An open file has its blocks somewhere.
LEMMA LoadedIs ==
    ASSUME IInv, open
    PROVE  /\ torn = FALSE
           /\ \E W \in SUBSET Span : At(W)
BY DEF IInv, Basic

\* Only between the two writes that let the file grow may the head be a hole.
LEMMA InUse ==
    ASSUME IInv, open, pc # "grow"
    PROVE  disk.fileEndIndex # Hole
BY LoadedIs DEF At, CallIn

\* Between two calls on an open file.
LEMMA IdleIs ==
    ASSUME NEW W, At(W), open, pc = "idle"
    PROVE  /\ Tiled(disk.cell, W, End) /\ Spread(disk.cell, W, End) /\ Keeps(kept, disk.cell, W, End)
           /\ MapsOf(cache.m_UsedBlock, cache.m_FreeBlockBeginIndex, cache.m_FreeBlockEndIndex,
                     disk.cell, W \ {End})
           /\ cache.m_FixedHead = End
BY DEF At, CallIn, Seen, VCell, VUsed

\* At without the case of a split.
LEMMA NextAt ==
    ASSUME NEW W, pc' # "split",
           Tiled(disk'.cell, W, End'), Spread(disk'.cell, W, End'), Keeps(kept', disk'.cell, W, End'),
           open' => MapsOf(cache'.m_UsedBlock, cache'.m_FreeBlockBeginIndex,
                           cache'.m_FreeBlockEndIndex, disk'.cell, Seen(W)'),
           CallIn(W)'
    PROVE  At(W)'
BY DEF At, VCell, VUsed

\* Empty maps hold no blocks.
LEMMA NoMaps ==
    /\ DOMAIN NoMap = {}
    /\ \A cell : MapsOf(NoMap, NoMap, NoMap, cell, {})
<1>1. DOMAIN NoMap = {}
  BY DEF NoMap
<1>2. ASSUME NEW cell PROVE MapsOf(NoMap, NoMap, NoMap, cell, {})
  BY <1>1 DEF MapsOf
<1> QED BY <1>1, <1>2

\* The object after close or IsInit.
LEMMA FreshIs ==
    ASSUME NEW head
    PROVE  /\ CacheShape(Fresh(head)) /\ Fresh(head).m_FixedHead = head
           /\ Fresh(head).m_UsedBlock = NoMap /\ Fresh(head).m_FreeBlockBeginIndex = NoMap
           /\ Fresh(head).m_FreeBlockEndIndex = NoMap
BY DEF Fresh, CacheShape

\* A file without blocks.
LEMMA FirstTiled ==
    ASSUME NEW cell
    PROVE  Tiled(cell, {First}, First) /\ Spread(cell, {First}, First)
BY SpanIs DEF Tiled, Spread

\* The blocks and files the program begins with.
LEMMA NoBlockIs == NoBlock \in Block
<1>1. First \in Positions /\ 0 \in 0 .. MaxFile
  BY SizesAssumption DEF Positions
<1> QED BY <1>1 DEF NoBlock, Block

LEMMA EmptyIs ==
    /\ DiskOK(EmptyFile) /\ EmptyFile.fileEndIndex = Absent /\ EmptyFile.verify = FALSE
    /\ EmptyFile.fileEndIndex # Hole
BY DEF EmptyFile, DiskOK, Cells, Absent, Hole

\* The invariant holds at first.
LEMMA InitInv == Init => IInv
<1> SUFFICES ASSUME Init PROVE IInv
  OBVIOUS
<1>1. /\ DiskOK(disk) /\ disk.fileEndIndex = Absent /\ disk.verify = FALSE
      /\ CacheShape(cache) /\ cache.m_FixedHead = Absent /\ cache.m_UsedBlock = NoMap
      /\ cache.m_FreeBlockBeginIndex = NoMap /\ cache.m_FreeBlockEndIndex = NoMap
      /\ open = FALSE /\ torn = FALSE /\ pc = "idle" /\ block \in Block /\ index \in Span
      /\ ret \in 0 .. Word - 1 /\ DOMAIN kept = {} /\ kept = [h \in DOMAIN kept |-> kept[h]]
      /\ disk.fileEndIndex # Hole
  BY EmptyIs, FreshIs, NoBlockIs, SpanIs, SizesAssumption DEF Init
<1>2. Basic
  BY <1>1 DEF Basic
<1>3. At({First})
  <2>1. End = First /\ VCell = disk.cell
    BY <1>1 DEF End, VCell
  <2>2. Keeps(kept, disk.cell, {First}, First)
    BY <1>1 DEF Keeps
  <2> QED BY <2>1, <2>2, <1>1, FirstTiled DEF At, CallIn
<1>4. {First} \in SUBSET Span
  BY SpanIs
<1> QED BY <1>2, <1>3, <1>4 DEF IInv

\* Whatever closes the file.
LEMMA ClosedStep ==
    ASSUME IInv, NEW head \in Span \cup {Absent}, Closed(head), disk' = disk,
           torn' \in BOOLEAN, ret' \in 0 .. Word - 1,
           kept' = [h \in DOMAIN kept' |-> kept'[h]],
           DOMAIN kept' \subseteq DOMAIN kept, \A h \in DOMAIN kept' : kept'[h] = kept[h],
           torn' = FALSE => /\ torn = FALSE /\ pc # "split" /\ disk.fileEndIndex # Hole
                            /\ disk.verify = TRUE /\ disk.fileEndIndex = Absent => head = First
    PROVE  IInv'
<1>1. /\ open' = FALSE /\ pc' = "idle" /\ cache' = Fresh(head) /\ block' = NoBlock /\ index' = First
  BY DEF Closed
<1>2. Basic'
  <2>1. DiskOK(disk') /\ DOMAIN kept' \subseteq Positions
    BY DEF IInv, Basic
  <2> QED BY <1>1, <2>1, FreshIs, NoBlockIs, SpanIs DEF Basic
<1>3. ASSUME torn' = FALSE PROVE \E W \in SUBSET Span : At(W)'
  <2>1. PICK W \in SUBSET Span : At(W)
    BY <1>3 DEF IInv
  <2>2. VCell = disk.cell /\ End' = End
    BY <1>3 DEF VCell, End
  <2>3. Tiled(disk.cell, W, End) /\ Spread(disk.cell, W, End) /\ Keeps(kept, disk.cell, W, End)
    BY <2>1, <2>2 DEF At
  <2>4. Keeps(kept', disk.cell, W, End)
    BY <2>3 DEF Keeps
  <2>5. CallIn(W)'
    BY <1>1, <1>3, FreshIs DEF CallIn
  <2> QED BY <1>1, <2>2, <2>3, <2>4, <2>5, NextAt
<1> QED BY <1>2, <1>3 DEF IInv

\* What is cast to unsigned int fits it.
LEMMA UnsignedIs == \A n \in Int : Unsigned(n) \in 0 .. Word - 1
BY SizesAssumption DEF Unsigned

\* m_FixedHead of an open file.
LEMMA HeadIs ==
    ASSUME IInv, open
    PROVE  /\ pc = "grow" => cache.m_FixedHead = EndOf(block) /\ block.blockBeginIndex = End
           /\ pc # "grow" => cache.m_FixedHead = End
           /\ End \in Span
           /\ disk.fileEndIndex \in {Absent, Hole} => End = First
BY LoadedIs, TiledIs DEF At, CallIn, End

\* The steps that close the file, or make it anew.  A split that fails, or a head
\* that stays a hole, leaves it torn.
LEMMA AllocateFailsStep == ASSUME IInv, AllocateFails PROVE IInv'
<1> DEFINE head == IF pc = "grow" THEN block.blockBeginIndex ELSE cache.m_FixedHead
<1>2. torn = FALSE
  BY LoadedIs DEF AllocateFails
<1>3. kept = [h \in DOMAIN kept |-> kept[h]]
  BY DEF IInv, Basic
<1>4. head \in Span \cup {Absent}
  BY HeadIs DEF AllocateFails
<1>5. disk.fileEndIndex = Absent => head = First
  BY HeadIs DEF AllocateFails
<1>6. Closed(head) /\ disk' = disk /\ kept' = kept /\ ret' \in 0 .. Word - 1
  BY UnsignedIs DEF AllocateFails
<1>7. torn' \in BOOLEAN /\ (torn' = FALSE => pc # "split" /\ disk.fileEndIndex # Hole)
  BY DEF AllocateFails
<1> HIDE DEF head
<1> QED BY <1>2, <1>3, <1>4, <1>5, <1>6, <1>7, ClosedStep

LEMMA AccessFailsStep == ASSUME IInv, AccessFails PROVE IInv'
<1>1. open /\ pc = "idle" /\ torn = FALSE
  BY LoadedIs DEF AccessFails, Ready
<1>2. kept = [h \in DOMAIN kept |-> kept[h]]
  BY DEF IInv, Basic
<1>3. cache.m_FixedHead \in Span /\ (disk.fileEndIndex = Absent => cache.m_FixedHead = First)
  BY <1>1, HeadIs
<1>4. Closed(cache.m_FixedHead) /\ disk' = disk /\ kept' = kept /\ torn' = torn /\ ret' \in 0 .. Word - 1
  BY SizesAssumption DEF AccessFails
<1> QED BY <1>1, <1>2, <1>3, <1>4, InUse, ClosedStep

LEMMA LoadFailsStep == ASSUME IInv, LoadFails PROVE IInv'
<1>1. open /\ pc \in {"load", "rebuild", "rebuild head"}
  BY DEF LoadFails, IInv, Basic
<1>2. kept = [h \in DOMAIN kept |-> kept[h]] /\ ret \in 0 .. Word - 1
  BY DEF IInv, Basic
<1>3. cache.m_FixedHead \in Span /\ (disk.fileEndIndex = Absent => cache.m_FixedHead = First)
  BY <1>1, HeadIs
<1>4. torn = FALSE
  BY <1>1, LoadedIs
<1>5. Closed(cache.m_FixedHead) /\ disk' = disk /\ kept' = kept /\ torn' = torn /\ ret' = ret
  BY DEF LoadFails
<1> QED BY <1>1, <1>2, <1>3, <1>4, <1>5, InUse, ClosedStep

LEMMA CrashStep == ASSUME IInv, Crash PROVE IInv'
<1>1. kept = [h \in DOMAIN kept |-> kept[h]] /\ torn \in BOOLEAN
  BY DEF IInv, Basic
<1>2. Closed(Absent) /\ disk' = disk /\ kept' = kept /\ ret' \in 0 .. Word - 1 /\ torn = FALSE
  BY <1>1, SizesAssumption DEF Crash
<1>3. torn' \in BOOLEAN /\ (torn' = FALSE => pc # "split" /\ ~(disk.verify = TRUE /\ disk.fileEndIndex \in {Absent, Hole}))
  BY DEF Crash
<1>4. disk.verify = TRUE \/ disk.fileEndIndex # Hole
  <2>1. disk.verify \in BOOLEAN /\ (disk.verify = FALSE => disk.fileEndIndex = Absent)
    BY DEF IInv, Basic, DiskOK
  <2> QED BY <2>1 DEF Absent, Hole
<1> QED BY <1>1, <1>2, <1>3, <1>4, ClosedStep

LEMMA FreeFailsStep == ASSUME IInv, NEW h, FreeFails(h) PROVE IInv'
<1> DEFINE head == IF Merged(cache, h).end = cache.m_FixedHead THEN Absent ELSE cache.m_FixedHead
<1>1. open /\ pc = "idle" /\ torn = FALSE /\ h \in DOMAIN cache.m_UsedBlock
  BY LoadedIs DEF FreeFails, Ready
<1>2. PICK W \in SUBSET Span : At(W)
  BY <1>1, LoadedIs
<1>3. disk.fileEndIndex # Absent
  <2>1. /\ Tiled(disk.cell, W, End)
        /\ MapsOf(cache.m_UsedBlock, cache.m_FreeBlockBeginIndex, cache.m_FreeBlockEndIndex,
                  disk.cell, W \ {End})
    BY <1>1, <1>2, IdleIs
  <2>2. h \in W \ {End}
    BY <1>1, <2>1 DEF MapsOf
  <2>3. h \in Int /\ h < End /\ First <= h /\ End \in Int
    BY <2>1, <2>2, TiledIs
  <2> QED BY <2>3, SpanIs DEF End
<1>4. head \in Span \cup {Absent}
  BY <1>1, HeadIs
<1>5. Closed(head) /\ disk' = disk /\ kept' = Erase(kept, h) /\ torn' = torn /\ ret' \in 0 .. Word - 1
  BY SizesAssumption DEF FreeFails
<1> HIDE DEF head
<1>6. /\ kept' = [g \in DOMAIN kept' |-> kept'[g]] /\ DOMAIN kept' \subseteq DOMAIN kept
      /\ \A g \in DOMAIN kept' : kept'[g] = kept[g]
  BY <1>5 DEF Erase, Restrict
<1> QED BY <1>1, <1>3, <1>4, <1>5, <1>6, InUse, ClosedStep

LEMMA clearFileStep == ASSUME IInv, clearFile PROVE IInv'
<1>1. /\ open' = FALSE /\ pc' = "idle" /\ cache' = Fresh(cache.m_FixedHead) /\ block' = NoBlock
      /\ index' = First /\ disk' = EmptyFile /\ DOMAIN kept' = {}
      /\ kept' = [h \in DOMAIN kept' |-> kept'[h]] /\ torn' = FALSE /\ ret' = 0
  BY DEF clearFile, Closed
<1>2. Basic'
  <2>1. cache.m_FixedHead \in Span \cup {Absent}
    BY DEF IInv, Basic
  <2>2. 0 \in 0 .. Word - 1
    BY SizesAssumption
  <2> QED BY <1>1, <2>1, <2>2, EmptyIs, FreshIs, NoBlockIs, SpanIs DEF Basic
<1>3. At({First})'
  <2>1. End' = First
    BY <1>1, EmptyIs DEF End
  <2>2. Keeps(kept', disk'.cell, {First}, First)
    BY <1>1 DEF Keeps
  <2>3. CallIn({First})'
    BY <1>1, EmptyIs DEF CallIn
  <2> QED BY <2>1, <2>2, <2>3, <1>1, FirstTiled, NextAt
<1>4. {First} \in SUBSET Span
  BY SpanIs
<1> QED BY <1>2, <1>3, <1>4 DEF IInv

\* A call that finds the file closed reads the head, and knows no block yet.
LEMMA IsInitStep == ASSUME IInv, IsInit PROVE IInv'
<1>1. /\ ~open /\ pc = "idle" /\ torn = FALSE
      /\ open' = TRUE /\ index' = First /\ cache' = Fresh(LoadedHead) /\ ret' = 0
      /\ disk' = disk /\ block' = block /\ kept' = kept /\ torn' = torn
      /\ disk.verify \in BOOLEAN
  BY DEF IsInit, IInv, Basic, DiskOK
<1>2. /\ disk.verify = TRUE => pc' = "load"
      /\ disk.verify = FALSE => pc' = "rebuild"
  BY DEF IsInit
<1>3. PICK W \in SUBSET Span : At(W)
  BY <1>1 DEF IInv
<1>4. VCell = disk.cell /\ End' = End
  BY <1>1 DEF VCell, End
<1>5. Tiled(disk.cell, W, End) /\ Spread(disk.cell, W, End) /\ Keeps(kept, disk.cell, W, End)
  BY <1>3, <1>4 DEF At
<1>6. LoadedHead = End
  <2>1. CASE disk.verify = FALSE
    <3>1. disk.fileEndIndex = Absent
      BY <2>1 DEF IInv, Basic, DiskOK
    <3> QED BY <2>1, <3>1 DEF LoadedHead, End
  <2>4. disk.fileEndIndex # Hole
    BY <1>1, <1>3 DEF At, CallIn
  <2>2. CASE disk.verify = TRUE /\ disk.fileEndIndex = Absent
    <3>1. cache.m_FixedHead = First
      BY <1>1, <1>3, <2>2 DEF At, CallIn
    <3> QED BY <2>2, <3>1 DEF LoadedHead, End
  <2>3. CASE disk.verify = TRUE /\ disk.fileEndIndex # Absent
    BY <2>3, <2>4 DEF LoadedHead, End
  <2> QED BY <1>1, <2>1, <2>2, <2>3
<1>7. Basic'
  <2>1. End \in Span
    BY <1>5, TiledIs
  <2>2. /\ DiskOK(disk') /\ block' \in Block /\ DOMAIN kept' \subseteq Positions
        /\ kept' = [h \in DOMAIN kept' |-> kept'[h]]
    BY <1>1 DEF IInv, Basic
  <2>3. pc' \in {"load", "rebuild"} /\ (pc' # "rebuild" => disk'.verify = TRUE) /\ 0 \in 0 .. Word - 1
    BY <1>1, <1>2, SizesAssumption
  <2> QED BY <1>1, <1>6, <2>1, <2>2, <2>3, FreshIs, SpanIs DEF Basic
<1>8. Seen(W)' = {}
  <2>1. CASE pc' = "load"
    <3>1. \A p \in W : ~(p < First)
      BY <1>5, TiledIs, SpanIs
    <3> QED BY <2>1, <3>1, <1>1 DEF Seen
  <2>2. CASE pc' = "rebuild"
    <3>1. End = First
      BY <2>2, <1>1, <1>2 DEF IInv, Basic, DiskOK, End
    <3>2. W = {First}
      BY <3>1, <1>5, TiledIs, SpanIs
    <3> QED BY <3>1, <3>2, <2>2, <1>4 DEF Seen
  <2> QED BY <1>1, <1>2, <2>1, <2>2
<1>9. MapsOf(cache'.m_UsedBlock, cache'.m_FreeBlockBeginIndex, cache'.m_FreeBlockEndIndex,
             disk'.cell, Seen(W)')
  BY <1>1, <1>8, FreshIs, NoMaps
<1>10. CallIn(W)'
  <2>1. disk.fileEndIndex # Hole
    BY <1>1, <1>3 DEF At, CallIn
  <2> QED BY <2>1, <1>1, <1>2, <1>4, <1>5, <1>6, FreshIs, TiledIs DEF CallIn
<1>11. At(W)'
  BY <1>1, <1>2, <1>4, <1>5, <1>9, <1>10, NextAt
<1> QED BY <1>7, <1>11 DEF IInv

\* A step that leaves the file's object open keeps Basic when it keeps these.
LEMMA NextBasic ==
    ASSUME IInv, open' = TRUE, torn' = torn, open,
           DiskOK(disk'), CacheShape(cache'), cache'.m_FixedHead \in Span,
           pc' \in {"idle", "load", "rebuild", "rebuild head", "split", "grow", "return"},
           pc' # "rebuild" => disk'.verify = TRUE,
           block' \in Block, index' \in Span, ret' \in 0 .. Word - 1,
           DOMAIN kept' \subseteq Positions, kept' = [h \in DOMAIN kept' |-> kept'[h]]
    PROVE  Basic'
<1>1. torn' = FALSE
  BY LoadedIs
<1> QED BY <1>1 DEF Basic

\* Basic, for an open file.
LEMMA OpenIs ==
    ASSUME IInv, open
    PROVE  /\ open = TRUE /\ torn = FALSE /\ DiskOK(disk) /\ CacheShape(cache)
           /\ cache.m_FixedHead \in Span \cup {Absent}
           /\ pc \in {"idle", "load", "rebuild", "rebuild head", "split", "grow", "return"}
           /\ pc # "rebuild" => disk.verify = TRUE
           /\ block \in Block /\ index \in Span /\ ret \in 0 .. Word - 1
           /\ DOMAIN kept \subseteq Positions /\ kept = [h \in DOMAIN kept |-> kept[h]]
BY DEF IInv, Basic

\* The load has come by all the blocks; or the file is made anew, without any.
LEMMA LoadDoneStep == ASSUME IInv, LoadDone PROVE IInv'
<1>1. /\ pc = "load" /\ index >= cache.m_FixedHead /\ pc' = "idle" /\ index' = First /\ disk' = disk
      /\ cache' = cache /\ open' = open /\ block' = block /\ ret' = ret /\ kept' = kept /\ torn' = torn
  BY DEF LoadDone
<1>2. open
  BY <1>1 DEF IInv, Basic
<1>3. cache.m_FixedHead = End /\ End \in Span /\ End' = End
  BY <1>1, <1>2, HeadIs DEF End
<1>4. Basic'
  BY <1>1, <1>2, <1>3, OpenIs, NextBasic, SpanIs
<1>5. PICK W \in SUBSET Span : At(W)
  BY <1>2, LoadedIs
<1>6. /\ Tiled(disk.cell, W, End) /\ Spread(disk.cell, W, End) /\ Keeps(kept, disk.cell, W, End)
      /\ MapsOf(cache.m_UsedBlock, cache.m_FreeBlockBeginIndex, cache.m_FreeBlockEndIndex,
                disk.cell, {p \in W : p < index})
      /\ index \in W
  BY <1>1, <1>2, <1>5 DEF At, CallIn, Seen, VCell, VUsed
<1>7. {p \in W : p < index} = W \ {End}
  BY <1>1, <1>3, <1>6, TiledIs
<1>8. Seen(W)' = W \ {End}
  BY <1>1, <1>3 DEF Seen
<1>9. CallIn(W)'
  BY <1>1, <1>2, <1>3, InUse DEF CallIn
<1>10. At(W)'
  BY <1>1, <1>3, <1>6, <1>7, <1>8, <1>9, NextAt
<1> QED BY <1>4, <1>10 DEF IInv

LEMMA RebuildStep == ASSUME IInv, Rebuild PROVE IInv'
<1>1. /\ pc = "rebuild" /\ pc' = "rebuild head" /\ disk' = [disk EXCEPT !.verify = TRUE]
      /\ cache' = cache /\ open' = open /\ block' = block /\ index' = index /\ ret' = ret
      /\ kept' = kept /\ torn' = torn
  BY DEF Rebuild
<1>2. open
  BY <1>1 DEF IInv, Basic
<1>3. /\ DiskOK(disk') /\ disk'.verify = TRUE /\ disk'.cell = disk.cell
      /\ disk'.fileEndIndex = disk.fileEndIndex
  <2>1. disk = [verify |-> disk.verify, fileEndIndex |-> disk.fileEndIndex, cell |-> disk.cell]
    BY <1>2, OpenIs DEF DiskOK
  <2>2. disk' = [verify |-> TRUE, fileEndIndex |-> disk.fileEndIndex, cell |-> disk.cell]
    BY <2>1, <1>1
  <2>3. disk.fileEndIndex \in Span \cup {Absent, Hole} /\ disk.cell \in Cells
    BY <1>2, OpenIs DEF DiskOK
  <2> QED BY <2>2, <2>3 DEF DiskOK
<1>4. cache.m_FixedHead = End /\ End \in Span /\ End' = End
  BY <1>1, <1>2, <1>3, HeadIs DEF End
<1>5. Basic'
  BY <1>1, <1>2, <1>3, <1>4, OpenIs, NextBasic
<1>6. PICK W \in SUBSET Span : At(W)
  BY <1>2, LoadedIs
<1>7. /\ Tiled(disk.cell, W, End) /\ Spread(disk.cell, W, End) /\ Keeps(kept, disk.cell, W, End)
      /\ MapsOf(cache.m_UsedBlock, cache.m_FreeBlockBeginIndex, cache.m_FreeBlockEndIndex,
                disk.cell, W \ {End})
  BY <1>1, <1>2, <1>6 DEF At, CallIn, Seen, VCell, VUsed
<1>8. Seen(W)' = W \ {End}
  BY <1>1, <1>4 DEF Seen
<1>9. CallIn(W)'
  BY <1>1, <1>2, <1>3, <1>4, InUse DEF CallIn
<1>10. At(W)'
  BY <1>1, <1>3, <1>4, <1>7, <1>8, <1>9, NextAt
<1> QED BY <1>5, <1>10 DEF IInv

LEMMA RebuildHeadStep == ASSUME IInv, RebuildHead PROVE IInv'
<1>1. /\ pc = "rebuild head" /\ pc' = "idle" /\ disk' = PutHead(disk, cache.m_FixedHead)
      /\ cache' = cache /\ open' = open /\ block' = block /\ index' = index /\ ret' = ret
      /\ kept' = kept /\ torn' = torn
  BY DEF RebuildHead
<1>2. open
  BY <1>1 DEF IInv, Basic
<1>3. cache.m_FixedHead = End /\ End \in Span
  BY <1>1, <1>2, HeadIs
<1>4. /\ DiskOK(disk') /\ disk'.verify = TRUE /\ disk'.cell = disk.cell /\ disk'.fileEndIndex = End
  BY <1>1, <1>2, <1>3, OpenIs, PutHeadIs
<1>5. End' = End
  <2>1. End # Absent /\ End # Hole
    BY <1>3, NotHole
  <2> QED BY <2>1, <1>4 DEF End
<1>6. Basic'
  BY <1>1, <1>2, <1>3, <1>4, OpenIs, NextBasic
<1>7. PICK W \in SUBSET Span : At(W)
  BY <1>2, LoadedIs
<1>8. /\ Tiled(disk.cell, W, End) /\ Spread(disk.cell, W, End) /\ Keeps(kept, disk.cell, W, End)
      /\ MapsOf(cache.m_UsedBlock, cache.m_FreeBlockBeginIndex, cache.m_FreeBlockEndIndex,
                disk.cell, W \ {End})
  BY <1>1, <1>2, <1>7 DEF At, CallIn, Seen, VCell, VUsed
<1>9. Seen(W)' = W \ {End}
  BY <1>1, <1>5 DEF Seen
<1>10. CallIn(W)'
  BY <1>1, <1>2, <1>3, <1>4, <1>5, NotHole DEF CallIn
<1>11. At(W)'
  BY <1>1, <1>4, <1>5, <1>8, <1>9, <1>10, NextAt
<1> QED BY <1>6, <1>11 DEF IInv

\* The second write of a split makes the file what the invariant counted on.
LEMMA AllocateSplitUsedStep == ASSUME IInv, AllocateSplitUsed PROVE IInv'
<1>1. /\ pc = "split" /\ pc' = "return" /\ disk' = PutBlock(disk, block)
      /\ cache' = [cache EXCEPT !.m_UsedBlock = Assign(@, block.blockBeginIndex, block)]
      /\ open' = open /\ block' = block /\ index' = index /\ ret' = ret /\ kept' = kept /\ torn' = torn
  BY DEF AllocateSplitUsed
<1>2. open
  BY <1>1 DEF IInv, Basic
<1>3. /\ DiskOK(disk') /\ disk'.verify = TRUE /\ disk'.fileEndIndex = disk.fileEndIndex
      /\ End' = End /\ disk'.cell = VCell
  <2>1. DiskOK(disk) /\ block \in Block /\ disk.verify = TRUE
    BY <1>1, <1>2, OpenIs
  <2>2. disk'.cell = VCell
    BY <1>1 DEF VCell
  <2> QED BY <1>1, <2>1, <2>2, PutBlockIs DEF End
<1>4. /\ CacheShape(cache') /\ cache'.m_FixedHead = cache.m_FixedHead
      /\ cache'.m_UsedBlock = VUsed
      /\ cache'.m_FreeBlockBeginIndex = cache.m_FreeBlockBeginIndex
      /\ cache'.m_FreeBlockEndIndex = cache.m_FreeBlockEndIndex
  <2>1. cache = [m_FixedHead |-> cache.m_FixedHead, m_UsedBlock |-> cache.m_UsedBlock,
                 m_FreeBlockBeginIndex |-> cache.m_FreeBlockBeginIndex,
                 m_FreeBlockEndIndex |-> cache.m_FreeBlockEndIndex]
    BY <1>2, OpenIs DEF CacheShape
  <2> DEFINE u == Assign(cache.m_UsedBlock, block.blockBeginIndex, block)
  <2>2. u = VUsed /\ cache' = [cache EXCEPT !.m_UsedBlock = u]
    BY <1>1 DEF VUsed
  <2> HIDE DEF u
  <2> QED BY <2>1, <2>2 DEF CacheShape
<1>5. cache.m_FixedHead = End /\ End \in Span
  BY <1>1, <1>2, HeadIs
<1>6. Basic'
  BY <1>1, <1>2, <1>3, <1>4, <1>5, OpenIs, NextBasic
<1>7. PICK W \in SUBSET Span : At(W)
  BY <1>2, LoadedIs
<1>8. /\ Tiled(VCell, W, End) /\ Spread(VCell, W, End) /\ Keeps(kept, VCell, W, End)
      /\ MapsOf(VUsed, cache.m_FreeBlockBeginIndex, cache.m_FreeBlockEndIndex, VCell, W \ {End})
      /\ block.blockBeginIndex \in W \ {End} /\ VCell[block.blockBeginIndex] = block
      /\ block.blockState = "UsedBlock" /\ block.blockBeginIndex \notin DOMAIN kept
  BY <1>1, <1>2, <1>7 DEF At, CallIn, Seen
<1>9. Seen(W)' = W \ {End}
  BY <1>1, <1>3 DEF Seen
<1>10. CallIn(W)'
  <2>1. VCell' = VCell
    BY <1>1, <1>3 DEF VCell
  <2> QED BY <2>1, <1>1, <1>2, <1>3, <1>4, <1>5, <1>8, InUse DEF CallIn
<1>11. At(W)'
  BY <1>1, <1>3, <1>4, <1>8, <1>9, <1>10, NextAt
<1> QED BY <1>6, <1>11 DEF IInv

\* The new block becomes the client's.
LEMMA AllocateReturnStep == ASSUME IInv, AllocateReturn PROVE IInv'
<1> DEFINE h == block.blockBeginIndex
           new == [i \in 0 .. block.lenOfData - 1 |-> Junk]
<1>1. /\ pc = "return" /\ ret' = h /\ kept' = Assign(kept, h, new) /\ pc' = "idle" /\ block' = NoBlock
      /\ disk' = disk /\ cache' = cache /\ open' = open /\ index' = index /\ torn' = torn
  BY DEF AllocateReturn
<1>2. open
  BY <1>1 DEF IInv, Basic
<1>3. PICK W \in SUBSET Span : At(W)
  BY <1>2, LoadedIs
<1>4. /\ Tiled(disk.cell, W, End) /\ Spread(disk.cell, W, End) /\ Keeps(kept, disk.cell, W, End)
      /\ MapsOf(cache.m_UsedBlock, cache.m_FreeBlockBeginIndex, cache.m_FreeBlockEndIndex,
                disk.cell, W \ {End})
      /\ h \in W \ {End} /\ disk.cell[h] = block /\ block.blockState = "UsedBlock" /\ h \notin DOMAIN kept
  BY <1>1, <1>2, <1>3 DEF At, CallIn, Seen, VCell, VUsed
<1>5. /\ DOMAIN kept' = DOMAIN kept \cup {h} /\ kept'[h] = new
      /\ \A x \in DOMAIN kept : kept'[x] = kept[x]
      /\ kept' = [x \in DOMAIN kept' |-> kept'[x]]
  <2> HIDE DEF h, new
  <2>1. \A x \in DOMAIN kept : x # h
    BY <1>4
  <2> QED BY <1>1, <2>1 DEF Assign
<1>6. cache.m_FixedHead = End /\ End \in Span /\ End' = End
  BY <1>1, <1>2, HeadIs DEF End
<1>7. h \in Positions /\ h \in 0 .. Word - 1
  <2>1. h \in Positions
    BY <1>4, TiledIs
  <2> QED BY <2>1, SizesAssumption DEF Positions
<1>8. Basic'
  BY <1>1, <1>2, <1>5, <1>6, <1>7, OpenIs, NextBasic, NoBlockIs
<1>9. Keeps(kept', disk.cell, W, End)
  <2>1. DOMAIN new = 0 .. disk.cell[h].lenOfData - 1 /\ \A i \in DOMAIN new : new[i] = Junk
    BY <1>4
  <2> HIDE DEF new, h
  <2> QED BY <2>1, <1>4, <1>5 DEF Keeps
<1>10. Seen(W)' = W \ {End}
  BY <1>1, <1>6 DEF Seen
<1>11. CallIn(W)'
  BY <1>1, <1>2, <1>6, InUse DEF CallIn
<1>12. At(W)'
  BY <1>1, <1>4, <1>6, <1>9, <1>10, <1>11, NextAt
<1> QED BY <1>8, <1>12 DEF IInv

\* Free gives up the client's data and then changes file and maps as FreedIs says.
LEMMA FreeStep == ASSUME IInv, NEW h, Free(h) PROVE IInv'
<1>1. /\ open /\ pc = "idle" /\ h \in DOMAIN cache.m_UsedBlock /\ Release(cache, h)
      /\ kept' = Erase(kept, h) /\ ret' = 0
      /\ open' = open /\ pc' = pc /\ block' = block /\ index' = index /\ torn' = torn
  BY DEF Free, Ready
<1>2. PICK W \in SUBSET Span : At(W)
  BY <1>1, LoadedIs
<1>3. /\ Tiled(disk.cell, W, End) /\ Spread(disk.cell, W, End) /\ Keeps(kept, disk.cell, W, End)
      /\ MapsOf(cache.m_UsedBlock, cache.m_FreeBlockBeginIndex, cache.m_FreeBlockEndIndex,
                disk.cell, W \ {End})
      /\ cache.m_FixedHead = End
  BY <1>1, <1>2, IdleIs
<1>4. /\ DOMAIN kept' = DOMAIN kept \ {h} /\ \A x \in DOMAIN kept' : kept'[x] = kept[x]
      /\ kept' = [x \in DOMAIN kept' |-> kept'[x]]
  BY <1>1 DEF Erase, Restrict
<1>5. Keeps(kept', disk.cell, W, End) /\ h \notin DOMAIN kept'
  BY <1>3, <1>4 DEF Keeps
<1>6. Basic /\ disk.verify = TRUE
  BY <1>1, OpenIs DEF IInv
<1>7. /\ DiskOK(disk') /\ disk'.verify = TRUE /\ CacheShape(cache')
      /\ cache'.m_FixedHead = End' /\ cache'.m_FixedHead \in Span
      /\ disk'.fileEndIndex = Hole => disk.fileEndIndex = Hole
      /\ \E W2 \in SUBSET Span :
           /\ Tiled(disk'.cell, W2, End') /\ Spread(disk'.cell, W2, End')
           /\ Keeps(kept', disk'.cell, W2, End')
           /\ MapsOf(cache'.m_UsedBlock, cache'.m_FreeBlockBeginIndex,
                     cache'.m_FreeBlockEndIndex, disk'.cell, W2 \ {End'})
  BY <1>1, <1>3, <1>5, <1>6, FreedIs
<1>8. Basic'
  <2>1. DOMAIN kept' \subseteq Positions /\ 0 \in 0 .. Word - 1
    BY <1>1, <1>4, OpenIs, SizesAssumption
  <2> QED BY <1>1, <1>4, <1>7, <2>1, OpenIs, NextBasic
<1>9. PICK W2 \in SUBSET Span :
           /\ Tiled(disk'.cell, W2, End') /\ Spread(disk'.cell, W2, End')
           /\ Keeps(kept', disk'.cell, W2, End')
           /\ MapsOf(cache'.m_UsedBlock, cache'.m_FreeBlockBeginIndex,
                     cache'.m_FreeBlockEndIndex, disk'.cell, W2 \ {End'})
  BY <1>7
<1>10. Seen(W2)' = W2 \ {End'}
  BY <1>1 DEF Seen
<1>11. CallIn(W2)'
  BY <1>1, <1>7, InUse DEF CallIn
<1>12. At(W2)'
  BY <1>1, <1>9, <1>10, <1>11, NextAt
<1> QED BY <1>8, <1>12 DEF IInv

\* Writing behind the head changes none of it, or makes it a hole.
LEMMA ExtendedIs ==
    ASSUME NEW d, DiskOK(d), d.verify = TRUE
    PROVE  /\ DiskOK(Extended(d)) /\ Extended(d).verify = TRUE /\ Extended(d).cell = d.cell
           /\ d.fileEndIndex \in {Absent, Hole} => Extended(d).fileEndIndex = Hole
           /\ d.fileEndIndex \notin {Absent, Hole} => Extended(d).fileEndIndex = d.fileEndIndex
<1> DEFINE end == IF d.fileEndIndex = Absent THEN Hole ELSE d.fileEndIndex
<1>1. Extended(d) = [verify |-> d.verify, fileEndIndex |-> end, cell |-> d.cell]
  BY DEF Extended, PutHead, DiskOK
<1>2. end \in Span \cup {Absent, Hole}
  BY DEF DiskOK
<1> QED BY <1>1, <1>2 DEF DiskOK

\* The file grows by a block.
LEMMA AllocateEndStep == ASSUME IInv, NEW size \in Sizes, AllocateEnd(size) PROVE IInv'
<1> DEFINE new == [blockBeginIndex |-> cache.m_FixedHead, lenOfData |-> size,
                   blockState |-> "UsedBlock"]
           used2 == Assign(cache.m_UsedBlock, cache.m_FixedHead, new)
<1>1. /\ open /\ pc = "idle" /\ EndOf(new) <= MaxFile /\ disk' = PutBlock(Extended(disk), new)
      /\ cache' = [cache EXCEPT !.m_UsedBlock = used2, !.m_FixedHead = EndOf(new)]
      /\ block' = new /\ pc' = "grow" /\ ret' = 0
      /\ open' = open /\ index' = index /\ kept' = kept /\ torn' = torn
  BY DEF AllocateEnd, Ready
<1>2. PICK W \in SUBSET Span : At(W)
  BY <1>1, LoadedIs
<1>3. /\ Tiled(disk.cell, W, End) /\ Spread(disk.cell, W, End) /\ Keeps(kept, disk.cell, W, End)
      /\ MapsOf(cache.m_UsedBlock, cache.m_FreeBlockBeginIndex, cache.m_FreeBlockEndIndex,
                disk.cell, W \ {End})
      /\ cache.m_FixedHead = End
  BY <1>1, <1>2, IdleIs
<1>4. End \in Span /\ End \in Int /\ End >= 0 /\ First <= End /\ End \in W
  BY <1>3, TiledIs, SpanIs
<1>5. /\ new \in Block /\ new.blockBeginIndex = End /\ new.blockState = "UsedBlock"
      /\ EndOf(new) \in Span
  <2>1. size \in Nat /\ HeadLen \in Nat /\ HeadLen > 0 /\ First \in Nat
    BY SizesAssumption
  <2>2. EndOf(new) = End + HeadLen + size
    BY <1>3 DEF EndOf
  <2>3. MaxFile \in Int /\ End + HeadLen + size <= MaxFile
    BY <1>1, <2>2, SpanIs
  <2>4. End \in First .. MaxFile - 1 /\ size \in 0 .. MaxFile
    BY <2>1, <2>3, <1>4
  <2>5. EndOf(new) \in First .. MaxFile
    BY <2>1, <2>2, <2>3, <1>4
  <2> QED BY <2>4, <2>5, <1>3 DEF Block, Positions, Span
<1> HIDE DEF new
<1>6. /\ DiskOK(disk') /\ disk'.verify = TRUE
      /\ End' = End /\ disk'.cell[End] = new
      /\ \A p \in Positions : p < End => disk'.cell[p] = disk.cell[p]
  <2>1. DiskOK(disk) /\ disk.verify = TRUE
    BY <1>1, OpenIs
  <2>5. /\ DiskOK(Extended(disk)) /\ Extended(disk).verify = TRUE /\ Extended(disk).cell = disk.cell
        /\ disk.fileEndIndex \in {Absent, Hole} => Extended(disk).fileEndIndex = Hole
        /\ disk.fileEndIndex \notin {Absent, Hole} => Extended(disk).fileEndIndex = disk.fileEndIndex
    BY <2>1, ExtendedIs
  <2>2. DiskOK(disk') /\ disk'.verify = TRUE /\ disk'.fileEndIndex = Extended(disk).fileEndIndex
    BY <1>1, <1>5, <2>5, PutBlockIs
  <2>3. /\ disk'.cell[End] = new
        /\ \A p \in Positions : p < End => disk'.cell[p] = disk.cell[p]
    BY <1>1, <1>5, <2>5, PutBlockIs
  <2>4. End' = End
    BY <2>2, <2>5 DEF End
  <2> QED BY <2>2, <2>3, <2>4
<1>7. /\ CacheShape(cache') /\ cache'.m_FixedHead = EndOf(new)
      /\ cache'.m_UsedBlock = used2
      /\ cache'.m_FreeBlockBeginIndex = cache.m_FreeBlockBeginIndex
      /\ cache'.m_FreeBlockEndIndex = cache.m_FreeBlockEndIndex
  <2>1. cache = [m_FixedHead |-> cache.m_FixedHead, m_UsedBlock |-> cache.m_UsedBlock,
                 m_FreeBlockBeginIndex |-> cache.m_FreeBlockBeginIndex,
                 m_FreeBlockEndIndex |-> cache.m_FreeBlockEndIndex]
    BY <1>1, OpenIs DEF CacheShape
  <2> HIDE DEF used2
  <2> QED BY <2>1, <1>1 DEF CacheShape
<1>8. Basic'
  <2>1. 0 \in 0 .. Word - 1
    BY SizesAssumption
  <2> QED BY <2>1, <1>1, <1>5, <1>6, <1>7, OpenIs, NextBasic
<1> DEFINE c2 == disk'.cell
<1>9. \A p \in W \ {End} : c2[p] = disk.cell[p]
  BY <1>3, <1>6, TiledIs
<1>10. Tiled(c2, W, End) /\ Spread(c2, W, End)
  BY <1>3, <1>9, HeadsSame
<1>11. Keeps(kept, c2, W, End)
  <2>1. ASSUME NEW h \in DOMAIN kept
        PROVE  /\ h \in W \ {End}
               /\ \A p \in Int : h <= p /\ p < EndOf(disk.cell[h]) => c2[p] = disk.cell[p]
    <3>1. h \in W \ {End}
      BY <1>3 DEF Keeps
    <3>2. /\ First <= h /\ h \in Int /\ EndOf(disk.cell[h]) <= End /\ EndOf(disk.cell[h]) \in Int
          /\ First \in Int /\ MaxFile \in Int /\ End <= MaxFile
      BY <3>1, <1>3, <1>4, TiledIs, SpanIs
    <3>3. \A p \in Int : h <= p /\ p < EndOf(disk.cell[h]) => p \in Positions /\ p < End
      BY <3>2, <1>4 DEF Positions
    <3> QED BY <3>1, <3>3, <1>6
  <2> HIDE DEF c2
  <2> QED BY <2>1, <1>3, KeepsSame
<1>12. MapsOf(used2, cache.m_FreeBlockBeginIndex, cache.m_FreeBlockEndIndex, c2, W)
  <2> DEFINE used == cache.m_UsedBlock
             fb == cache.m_FreeBlockBeginIndex
             fe == cache.m_FreeBlockEndIndex
  <2>1. MapsOf(used, fb, fe, c2, W \ {End})
    BY <1>3, <1>9, HeadsSame
  <2>2. /\ DOMAIN used2 = DOMAIN used \cup {End} /\ used2[End] = new
        /\ \A x \in DOMAIN used \ {End} : used2[x] = used[x]
    BY <1>3 DEF Assign
  <2>3. c2[End].blockState = "UsedBlock" /\ c2[End] = new
    BY <1>5, <1>6
  <2> HIDE DEF used, fb, fe, used2, c2
  <2>4. /\ DOMAIN used = {p \in W \ {End} : c2[p].blockState = "UsedBlock"}
        /\ \A p \in DOMAIN used : used[p] = c2[p]
        /\ DOMAIN fb = {p \in W \ {End} : c2[p].blockState = "WaitMergerBlock"}
        /\ \A p \in DOMAIN fb : fb[p] = c2[p] /\ fe[EndOf(c2[p])] = c2[p]
        /\ DOMAIN fe = {EndOf(c2[p]) : p \in DOMAIN fb}
    BY <2>1 DEF MapsOf
  <2>5. DOMAIN used2 = {p \in W : c2[p].blockState = "UsedBlock"} /\ \A p \in DOMAIN used2 : used2[p] = c2[p]
    BY <2>2, <2>3, <2>4, <1>4
  <2>6. DOMAIN fb = {p \in W : c2[p].blockState = "WaitMergerBlock"}
    BY <2>3, <2>4
  <2>7. MapsOf(used2, fb, fe, c2, W)
    BY <2>4, <2>5, <2>6 DEF MapsOf
  <2> QED BY <2>7 DEF fb, fe
<1>13. Seen(W)' = W
  BY <1>1 DEF Seen
<1>14. CallIn(W)'
  <2>1. VCell' = c2
    BY <1>1 DEF VCell
  <2> QED BY <2>1, <1>1, <1>5, <1>6, <1>7 DEF CallIn
<1>15. At(W)'
  <2> HIDE DEF used2
  <2> QED BY <1>1, <1>6, <1>7, <1>10, <1>11, <1>12, <1>13, <1>14, NextAt
<1> QED BY <1>8, <1>15 DEF IInv

\* The head names the new end, which makes the new block part of the file.
LEMMA AllocateEndHeadStep == ASSUME IInv, AllocateEndHead PROVE IInv'
<1> DEFINE e == EndOf(block)
           cell == disk.cell
<1>1. /\ pc = "grow" /\ disk' = PutHead(disk, cache.m_FixedHead) /\ pc' = "return"
      /\ cache' = cache /\ open' = open /\ block' = block /\ index' = index /\ ret' = ret
      /\ kept' = kept /\ torn' = torn
  BY DEF AllocateEndHead
<1>2. open
  BY <1>1 DEF IInv, Basic
<1>3. PICK W \in SUBSET Span : At(W)
  BY <1>2, LoadedIs
<1>4. /\ Tiled(cell, W, End) /\ Spread(cell, W, End) /\ Keeps(kept, cell, W, End)
      /\ MapsOf(cache.m_UsedBlock, cache.m_FreeBlockBeginIndex, cache.m_FreeBlockEndIndex,
                cell, W)
      /\ block.blockBeginIndex = End /\ cell[End] = block
      /\ block.blockState = "UsedBlock" /\ e <= MaxFile
      /\ cache.m_FixedHead = e
  BY <1>1, <1>2, <1>3 DEF At, CallIn, Seen, VCell, VUsed
<1>5. block \in Block
  BY <1>2, OpenIs
<1>6. /\ End \in Int /\ e \in Int /\ End < e /\ First <= End /\ e \in Span
      /\ \A q \in W : q \in Int /\ q <= End
  <2>1. e \in Nat /\ e > End
    BY <1>4, <1>5, BlockIs
  <2>2. End \in Int /\ First <= End /\ First \in Int /\ \A q \in W : q \in Int /\ q <= End
    BY <1>4, TiledIs, SpanIs
  <2>3. e \in Span
    BY <2>1, <2>2, <1>4, SpanIs DEF Span
  <2> QED BY <2>1, <2>2, <2>3
<1>0. PICK W2 : W2 = W \cup {e}
  OBVIOUS
<1>7. Tiled(cell, W2, e)
  BY <1>0, <1>4, <1>5, GrowTiled
<1>8. W2 \ {e} = W
  BY <1>0, <1>6
<1>9. /\ DiskOK(disk') /\ disk'.verify = TRUE /\ disk'.cell = cell /\ disk'.fileEndIndex = e
  <2>1. DiskOK(disk) /\ disk.verify = TRUE
    BY <1>1, <1>2, OpenIs
  <2>2. disk' = PutHead(disk, e) /\ e \in Span
    BY <1>1, <1>4, <1>6
  <2> HIDE DEF e
  <2> QED BY <2>1, <2>2, PutHeadIs
<1>10. End' = e
  <2>1. e # Absent /\ e # Hole
    BY <1>6, NotHole
  <2> QED BY <2>1, <1>9 DEF End
<1> HIDE DEF e, cell
<1>11. Basic'
  BY <1>1, <1>2, <1>4, <1>6, <1>9, OpenIs, NextBasic
<1>12. Spread(cell, W2, e)
  <2>1. ASSUME NEW p \in W, cell[p].blockState = "WaitMergerBlock"
        PROVE  EndOf(cell[p]) # e /\ cell[EndOf(cell[p])].blockState = "UsedBlock"
    <3>1. p \in W \ {End}
      BY <1>4, <2>1
    <3>2. EndOf(cell[p]) \in W /\ e \notin W
      BY <3>1, <1>4, <1>6, TiledIs
    <3> QED BY <3>1, <3>2, <2>1, <1>4 DEF Spread
  <2> QED BY <2>1, <1>8 DEF Spread
<1>13. Keeps(kept, cell, W2, e)
  BY <1>4, <1>8 DEF Keeps
<1>14. Seen(W2)' = W
  BY <1>1, <1>8, <1>10 DEF Seen
<1>15. CallIn(W2)'
  <2>1. VCell' = cell
    BY <1>1, <1>9 DEF VCell
  <2>2. End \in W2 \ {e} /\ End \notin DOMAIN kept
    BY <1>0, <1>4, <1>6, <1>8, TiledIs DEF Keeps
  <2>3. disk'.fileEndIndex # Hole
    BY <1>6, <1>9, NotHole
  <2> QED BY <2>1, <2>2, <2>3, <1>1, <1>2, <1>4, <1>10 DEF CallIn
<1>16. At(W2)'
  <2> QED BY <1>1, <1>4, <1>7, <1>9, <1>10, <1>12, <1>13, <1>14, <1>15, NextAt
<1>17. W2 \in SUBSET Span
  BY <1>7 DEF Tiled
<1> QED BY <1>11, <1>16, <1>17 DEF IInv

\* Outside of the block at h nothing is touched.
LEMMA KeepsOutside ==
    ASSUME NEW k, NEW cell, NEW W, NEW end, Tiled(cell, W, end), Keeps(k, cell, W, end),
           NEW h \in W \ {end}, h \notin DOMAIN k, NEW c2,
           \A p \in Positions : p < h \/ p >= EndOf(cell[h]) => c2[p] = cell[p],
           NEW W2, W \subseteq W2
    PROVE  Keeps(k, c2, W2, end)
<1>1. ASSUME NEW g \in DOMAIN k
      PROVE  /\ g \in W2 \ {end}
             /\ \A p \in Int : g <= p /\ p < EndOf(cell[g]) => c2[p] = cell[p]
  <2>1. g \in W \ {end} /\ g # h
    BY DEF Keeps
  <2>2. /\ g \in Int /\ h \in Int /\ EndOf(cell[g]) \in W /\ EndOf(cell[g]) \in Int
        /\ EndOf(cell[h]) \in Int /\ First <= g
        /\ g <= h \/ g >= EndOf(cell[h])
        /\ h <= g \/ h >= EndOf(cell[g])
    BY <2>1, TiledIs
  <2>3. EndOf(cell[g]) <= MaxFile /\ MaxFile \in Int /\ First \in Int
    BY <2>2, TiledIs, SpanIs
  <2>4. \A p \in Int : g <= p /\ p < EndOf(cell[g]) => p \in Positions /\ (p < h \/ p >= EndOf(cell[h]))
    BY <2>1, <2>2, <2>3 DEF Positions
  <2> QED BY <2>1, <2>4
<1> QED BY <1>1, KeepsSame

\* A block's header written anew, with the length it has.
LEMMA RewriteIs ==
    ASSUME NEW d, DiskOK(d), NEW W, NEW end, Tiled(d.cell, W, end), NEW h \in W \ {end},
           NEW b \in Block, b.blockBeginIndex = h, EndOf(b) = EndOf(d.cell[h])
    PROVE  /\ Tiled(PutBlock(d, b).cell, W, end)
           /\ PutBlock(d, b).cell[h] = b
           /\ \A p \in Positions : p < h \/ p >= EndOf(d.cell[h]) => PutBlock(d, b).cell[p] = d.cell[p]
           /\ \A q \in W \ {h, end} : PutBlock(d, b).cell[q] = d.cell[q]
<1> DEFINE c2 == PutBlock(d, b).cell
           E == EndOf(d.cell[h])
<1>1. /\ c2[h] = b
      /\ \A p \in Positions : p < h \/ p >= h + HeadLen => c2[p] = d.cell[p]
  BY PutBlockIs
<1>2. /\ h \in Int /\ E \in W /\ E \in Int /\ h + HeadLen <= E /\ HeadLen \in Int
      /\ \A q \in W \ {end} : q \in Positions
      /\ \A q \in W : q \in Int /\ (q <= h \/ q >= E)
  BY TiledIs, SizesAssumption
<1>3. \A p \in Positions : p < h \/ p >= E => c2[p] = d.cell[p]
  <2>1. \A p \in Positions : p < h \/ p >= E => p < h \/ p >= h + HeadLen
    BY <1>2, SpanIs DEF Positions
  <2> QED BY <2>1, <1>1
<1>4. \A q \in W \ {h, end} : c2[q] = d.cell[q]
  <2>1. \A q \in W \ {h, end} : q < h \/ q >= E
    BY <1>2
  <2> QED BY <2>1, <1>2, <1>3
<1>5. W = Outside(W, h, E)
  BY <1>2 DEF Outside
<1> HIDE DEF c2, E
<1>6. c2[h] \in Block /\ c2[h].blockBeginIndex = h /\ EndOf(c2[h]) = E
  BY <1>1 DEF E
<1>7. Tiled(c2, W, end)
  <2>1. Tiled(c2, Outside(W, h, E), end)
    BY <1>2, <1>4, <1>5, <1>6, ReplaceTiled
  <2> QED BY <2>1, <1>5
<1> QED BY <1>1, <1>3, <1>4, <1>7 DEF c2, E

\* A free block of the size becomes used: no neighbour was free.
LEMMA AllocateExactStep ==
    ASSUME IInv, NEW h \in DOMAIN cache.m_FreeBlockBeginIndex, NEW size \in Sizes,
           AllocateExact(h, size)
    PROVE  IInv'
<1> DEFINE cell == disk.cell
           used == cache.m_UsedBlock
           fb == cache.m_FreeBlockBeginIndex
           fe == cache.m_FreeBlockEndIndex
           new == [fb[h] EXCEPT !.blockState = "UsedBlock"]
           c2 == disk'.cell
           e == EndOf(new)
<1>1. /\ open /\ pc = "idle" /\ disk' = PutBlock(disk, new)
      /\ cache' = [cache EXCEPT !.m_UsedBlock = Assign(used, h, new),
                                !.m_FreeBlockBeginIndex = Erase(fb, h),
                                !.m_FreeBlockEndIndex = Erase(fe, e)]
      /\ block' = new /\ pc' = "return" /\ ret' = 0
      /\ open' = open /\ index' = index /\ kept' = kept /\ torn' = torn
  BY DEF AllocateExact, Ready
<1>2. PICK W \in SUBSET Span : At(W)
  BY <1>1, LoadedIs
<1>3. /\ Tiled(cell, W, End) /\ Spread(cell, W, End) /\ Keeps(kept, cell, W, End)
      /\ MapsOf(used, fb, fe, cell, W \ {End})
      /\ cache.m_FixedHead = End
  BY <1>1, <1>2, IdleIs
<1>4. /\ DOMAIN used = {p \in W \ {End} : cell[p].blockState = "UsedBlock"}
      /\ \A p \in DOMAIN used : used[p] = cell[p]
      /\ DOMAIN fb = {p \in W \ {End} : cell[p].blockState = "WaitMergerBlock"}
      /\ \A p \in DOMAIN fb : fb[p] = cell[p] /\ fe[EndOf(cell[p])] = cell[p]
      /\ DOMAIN fe = {EndOf(cell[p]) : p \in DOMAIN fb}
  BY <1>3 DEF MapsOf
<1>5. h \in W \ {End} /\ cell[h].blockState = "WaitMergerBlock" /\ fb[h] = cell[h] /\ cell[h] \in Block
  BY <1>3, <1>4, TiledIs
<1>6. /\ new \in Block /\ new.blockBeginIndex = h /\ new.blockState = "UsedBlock"
      /\ e = EndOf(cell[h])
  <2>1. /\ cell[h] = [blockBeginIndex |-> cell[h].blockBeginIndex, lenOfData |-> cell[h].lenOfData,
                      blockState |-> cell[h].blockState]
        /\ cell[h].blockBeginIndex \in Positions /\ cell[h].lenOfData \in 0 .. MaxFile
        /\ cell[h].blockBeginIndex = h
    BY <1>3, <1>5, TiledIs, BlockIs DEF Positions
  <2>2. new = [blockBeginIndex |-> h, lenOfData |-> cell[h].lenOfData, blockState |-> "UsedBlock"]
    BY <2>1, <1>5
  <2> HIDE DEF new
  <2> QED BY <2>1, <2>2 DEF Block, EndOf
<1> HIDE DEF new, e
<1>7. /\ DiskOK(disk') /\ disk'.verify = TRUE /\ disk'.fileEndIndex = disk.fileEndIndex /\ End' = End
  <2>1. DiskOK(disk) /\ disk.verify = TRUE
    BY <1>1, OpenIs
  <2>2. DiskOK(disk') /\ disk'.verify = TRUE /\ disk'.fileEndIndex = disk.fileEndIndex
    BY <1>1, <1>6, <2>1, PutBlockIs
  <2> QED BY <2>2 DEF End
<1>8. /\ CacheShape(cache') /\ cache'.m_FixedHead = End
      /\ cache'.m_UsedBlock = Assign(used, h, new)
      /\ cache'.m_FreeBlockBeginIndex = Erase(fb, h) /\ cache'.m_FreeBlockEndIndex = Erase(fe, e)
  <2>1. cache = [m_FixedHead |-> cache.m_FixedHead, m_UsedBlock |-> cache.m_UsedBlock,
                 m_FreeBlockBeginIndex |-> cache.m_FreeBlockBeginIndex,
                 m_FreeBlockEndIndex |-> cache.m_FreeBlockEndIndex]
    BY <1>1, OpenIs DEF CacheShape
  <2> QED BY <2>1, <1>1, <1>3 DEF CacheShape
<1>9. End \in Span
  BY <1>3, TiledIs
<1>10. Basic'
  <2>1. 0 \in 0 .. Word - 1
    BY SizesAssumption
  <2> QED BY <2>1, <1>1, <1>6, <1>7, <1>8, <1>9, OpenIs, NextBasic
<1>11. /\ Tiled(c2, W, End) /\ c2[h] = new
       /\ \A p \in Positions : p < h \/ p >= EndOf(cell[h]) => c2[p] = cell[p]
       /\ \A q \in W \ {h, End} : c2[q] = cell[q]
  <2>1. DiskOK(disk)
    BY <1>1, OpenIs
  <2>2. /\ Tiled(PutBlock(disk, new).cell, W, End) /\ PutBlock(disk, new).cell[h] = new
        /\ \A p \in Positions : p < h \/ p >= EndOf(disk.cell[h])
             => PutBlock(disk, new).cell[p] = disk.cell[p]
        /\ \A q \in W \ {h, End} : PutBlock(disk, new).cell[q] = disk.cell[q]
    <3>1. EndOf(new) = EndOf(disk.cell[h]) /\ Tiled(disk.cell, W, End)
      BY <1>3, <1>6 DEF e
    <3> QED BY <2>1, <3>1, <1>5, <1>6, RewriteIs
  <2> QED BY <2>2, <1>1
<1>12. h \notin DOMAIN kept
  BY <1>3, <1>5 DEF Keeps
<1>13. Keeps(kept, c2, W, End)
  <2> HIDE DEF c2, cell
  <2> QED BY <1>3, <1>5, <1>11, <1>12, KeepsOutside
<1> HIDE DEF c2, cell, used, fb, fe
<1>14. Spread(c2, W, End)
  <2>1. ASSUME NEW p \in W \ {End}, c2[p].blockState = "WaitMergerBlock"
        PROVE  EndOf(c2[p]) # End /\ c2[EndOf(c2[p])].blockState = "UsedBlock"
    <3>1. p # h
      BY <2>1, <1>6, <1>11
    <3>2. c2[p] = cell[p] /\ cell[p].blockState = "WaitMergerBlock"
      BY <3>1, <2>1, <1>11
    <3>3. EndOf(cell[p]) # End /\ cell[EndOf(cell[p])].blockState = "UsedBlock" /\ EndOf(cell[p]) \in W
      BY <3>2, <1>3, TiledIs DEF Spread
    <3>4. EndOf(cell[p]) # h
      BY <3>3, <1>5
    <3> QED BY <3>2, <3>3, <3>4, <1>11
  <2> QED BY <2>1 DEF Spread
<1>15. MapsOf(Assign(used, h, new), Erase(fb, h), Erase(fe, e), c2, W \ {End})
  <2> DEFINE u2 == Assign(used, h, new)
             fb2 == Erase(fb, h)
             fe2 == Erase(fe, e)
  <2>1. /\ DOMAIN u2 = DOMAIN used \cup {h} /\ u2[h] = new /\ \A x \in DOMAIN used \ {h} : u2[x] = used[x]
        /\ DOMAIN fb2 = DOMAIN fb \ {h} /\ \A x \in DOMAIN fb2 : fb2[x] = fb[x]
        /\ DOMAIN fe2 = DOMAIN fe \ {e} /\ \A x \in DOMAIN fe2 : fe2[x] = fe[x]
    BY DEF Assign, Erase, Restrict
  <2> HIDE DEF u2, fb2, fe2
  <2>2. DOMAIN u2 = {p \in W \ {End} : c2[p].blockState = "UsedBlock"} /\ \A p \in DOMAIN u2 : u2[p] = c2[p]
    BY <2>1, <1>4, <1>5, <1>6, <1>11
  <2>3. /\ DOMAIN fb2 = {p \in W \ {End} : c2[p].blockState = "WaitMergerBlock"}
        /\ \A p \in DOMAIN fb2 : fb2[p] = c2[p] /\ c2[p] = cell[p] /\ p # h /\ p \in DOMAIN fb
    BY <2>1, <1>4, <1>5, <1>6, <1>11
  <2>4. ASSUME NEW p \in DOMAIN fb2 PROVE EndOf(cell[p]) # e
    <3>1. p \in W \ {End} /\ p # h
      BY <2>3
    <3>2. /\ p \in Int /\ h \in Int /\ p < EndOf(cell[p]) /\ h < EndOf(cell[h])
          /\ p <= h \/ p >= EndOf(cell[h])
          /\ h <= p \/ h >= EndOf(cell[p])
          /\ EndOf(cell[p]) \in W /\ EndOf(cell[h]) \in W
      BY <3>1, <1>3, <1>5, TiledIs
    <3>3. EndOf(cell[p]) \in Int /\ EndOf(cell[h]) \in Int
      BY <3>2, <1>3, TiledIs
    <3> QED BY <3>1, <3>2, <3>3, <1>6
  <2>5. DOMAIN fe2 = {EndOf(c2[p]) : p \in DOMAIN fb2}
    <3>1. ASSUME NEW x \in DOMAIN fe2 PROVE \E p \in DOMAIN fb2 : x = EndOf(c2[p])
      <4>1. PICK p \in DOMAIN fb : x = EndOf(cell[p])
        BY <2>1, <1>4
      <4>2. p # h
        BY <4>1, <2>1, <1>6
      <4> QED BY <4>1, <4>2, <2>1, <2>3
    <3>2. ASSUME NEW p \in DOMAIN fb2 PROVE EndOf(c2[p]) \in DOMAIN fe2
      BY <2>1, <2>3, <2>4, <1>4
    <3> QED BY <3>1, <3>2
  <2>6. ASSUME NEW p \in DOMAIN fb2 PROVE fe2[EndOf(c2[p])] = c2[p]
    BY <2>1, <2>3, <2>5, <1>4
  <2>7. MapsOf(u2, fb2, fe2, c2, W \ {End})
    BY <2>2, <2>3, <2>5, <2>6 DEF MapsOf
  <2> QED BY <2>7 DEF u2, fb2, fe2
<1>16. Seen(W)' = W \ {End}
  BY <1>1, <1>7 DEF Seen
<1>17. VCell' = c2
  BY <1>1 DEF VCell, c2
<1>18. CallIn(W)'
  BY <1>1, <1>5, <1>6, <1>7, <1>8, <1>11, <1>12, <1>17, InUse DEF CallIn
<1>19. At(W)'
  BY <1>1, <1>7, <1>8, <1>11, <1>13, <1>14, <1>15, <1>16, <1>18, NextAt DEF c2
<1> QED BY <1>10, <1>19 DEF IInv

\* A free block becomes a shorter one, with a used one, still to be written, behind.
LEMMA AllocateSplitStep ==
    ASSUME IInv, NEW h \in DOMAIN cache.m_FreeBlockBeginIndex, NEW size \in Sizes,
           AllocateSplit(h, size)
    PROVE  IInv'
<1> DEFINE cell == disk.cell
           used == cache.m_UsedBlock
           fb == cache.m_FreeBlockBeginIndex
           fe == cache.m_FreeBlockEndIndex
           f == fb[h]
           e == EndOf(f)
           n == e - (size + HeadLen)
           rest == [f EXCEPT !.lenOfData = @ - (size + HeadLen)]
           new == [blockBeginIndex |-> n, lenOfData |-> size, blockState |-> "UsedBlock"]
           fb2 == [fb EXCEPT ![h] = rest]
           fe2 == Assign(Erase(fe, e), n, rest)
           u2 == Assign(used, n, new)
           c2 == PutBlock(disk', block').cell
<1>1. /\ open /\ pc = "idle" /\ f.lenOfData > size + HeadLen /\ disk' = PutBlock(disk, rest)
      /\ cache' = [cache EXCEPT !.m_FreeBlockEndIndex = fe2, !.m_FreeBlockBeginIndex[h] = rest]
      /\ block' = new /\ pc' = "split" /\ ret' = 0
      /\ open' = open /\ index' = index /\ kept' = kept /\ torn' = torn
  BY DEF AllocateSplit, Ready, Splits
<1>2. PICK W \in SUBSET Span : At(W)
  BY <1>1, LoadedIs
<1>3. /\ Tiled(cell, W, End) /\ Spread(cell, W, End) /\ Keeps(kept, cell, W, End)
      /\ MapsOf(used, fb, fe, cell, W \ {End})
      /\ cache.m_FixedHead = End
  BY <1>1, <1>2, IdleIs
<1>4. /\ DOMAIN used = {p \in W \ {End} : cell[p].blockState = "UsedBlock"}
      /\ \A p \in DOMAIN used : used[p] = cell[p]
      /\ DOMAIN fb = {p \in W \ {End} : cell[p].blockState = "WaitMergerBlock"}
      /\ \A p \in DOMAIN fb : fb[p] = cell[p] /\ fe[EndOf(cell[p])] = cell[p]
      /\ DOMAIN fe = {EndOf(cell[p]) : p \in DOMAIN fb}
  BY <1>3 DEF MapsOf
<1>5. h \in W \ {End} /\ cell[h].blockState = "WaitMergerBlock" /\ f = cell[h] /\ f \in Block
  BY <1>3, <1>4, TiledIs
<1>6. /\ size \in Int /\ size >= 0 /\ HeadLen \in Int /\ HeadLen > 0 /\ h \in Int /\ h >= First /\ First \in Int
      /\ f.lenOfData \in Int /\ f.lenOfData <= MaxFile /\ f.lenOfData > size + HeadLen
      /\ e = h + HeadLen + f.lenOfData /\ e \in W /\ e <= MaxFile /\ MaxFile \in Int /\ h \in Positions
      /\ f = [blockBeginIndex |-> h, lenOfData |-> f.lenOfData, blockState |-> "WaitMergerBlock"]
  <2>1. /\ f = [blockBeginIndex |-> f.blockBeginIndex, lenOfData |-> f.lenOfData,
                blockState |-> f.blockState]
        /\ f.blockBeginIndex = h /\ f.blockState = "WaitMergerBlock"
        /\ f.lenOfData \in 0 .. MaxFile /\ e = h + HeadLen + f.lenOfData /\ e \in W
        /\ h \in Positions /\ h \in Span
    BY <1>3, <1>5, TiledIs, BlockIs
  <2>2. e \in Span
    BY <2>1, <1>3, TiledIs
  <2> QED BY <2>1, <2>2, <1>1, SpanIs, SizesAssumption
<1>7. /\ e \in Int /\ n \in Int /\ h + HeadLen < n /\ n + HeadLen <= e /\ n \in Positions
  <2> HIDE DEF e, f
  <2>1. e \in Int /\ n \in Int /\ h + HeadLen < n /\ n + HeadLen <= e /\ n < MaxFile /\ First <= n
    BY <1>6
  <2> QED BY <2>1, <1>6 DEF Positions
<1>8. /\ rest \in Block /\ rest.blockBeginIndex = h /\ rest.blockState = "WaitMergerBlock"
      /\ EndOf(rest) = n
  <2>1. rest = [blockBeginIndex |-> h, lenOfData |-> f.lenOfData - (size + HeadLen),
                blockState |-> "WaitMergerBlock"]
    <3> HIDE DEF f
    <3> QED BY <1>6
  <2> HIDE DEF f, rest, e
  <2>2. f.lenOfData - (size + HeadLen) \in 0 .. MaxFile
    BY <1>6
  <2>3. EndOf(rest) = h + HeadLen + (f.lenOfData - (size + HeadLen))
    BY <2>1 DEF EndOf
  <2> QED BY <2>1, <2>2, <2>3, <1>6 DEF Block
<1>9. /\ new \in Block /\ new.blockBeginIndex = n /\ new.blockState = "UsedBlock" /\ EndOf(new) = e
  <2> HIDE DEF f, e
  <2>1. size \in 0 .. MaxFile /\ n + HeadLen + size = e
    BY <1>6
  <2> HIDE DEF n
  <2> QED BY <2>1, <1>7 DEF Block, EndOf
<1> HIDE DEF rest, new, n, e, f
<1>10. /\ DiskOK(disk') /\ disk'.verify = TRUE /\ disk'.fileEndIndex = disk.fileEndIndex /\ End' = End
       /\ disk'.cell[h] = rest
       /\ \A p \in Positions : p < h \/ p >= h + HeadLen => disk'.cell[p] = cell[p]
  <2>1. DiskOK(disk) /\ disk.verify = TRUE
    BY <1>1, OpenIs
  <2>2. DiskOK(disk') /\ disk'.verify = TRUE /\ disk'.fileEndIndex = disk.fileEndIndex
    BY <1>1, <1>8, <2>1, PutBlockIs
  <2>3. /\ disk'.cell[h] = rest
        /\ \A p \in Positions : p < h \/ p >= h + HeadLen => disk'.cell[p] = cell[p]
    BY <1>1, <1>8, <2>1, PutBlockIs
  <2> QED BY <2>2, <2>3 DEF End
<1>11. /\ c2[n] = new
       /\ \A p \in Positions : p < n \/ p >= n + HeadLen => c2[p] = disk'.cell[p]
  BY <1>1, <1>9, <1>10, PutBlockIs
<1> HIDE DEF c2, cell
<1>12. c2[h] = rest /\ \A p \in Positions : p < h \/ p >= e => c2[p] = cell[p]
  <2>1. h < n
    BY <1>6, <1>7
  <2>2. \A p \in Positions : p < h \/ p >= e => (p < h \/ p >= h + HeadLen) /\ (p < n \/ p >= n + HeadLen)
    BY <1>6, <1>7 DEF Positions
  <2> QED BY <2>1, <2>2, <1>6, <1>10, <1>11
<1>13. \A q \in W \ {h, End} : c2[q] = cell[q]
  <2>1. \A q \in W \ {h, End} : q \in Positions /\ (q < h \/ q >= e)
    <3>1. \A q \in W : q \in Int /\ (q <= h \/ q >= e)
      BY <1>3, <1>5, TiledIs DEF e
    <3>2. \A q \in W \ {End} : q \in Positions
      BY <1>3, TiledIs
    <3> QED BY <3>1, <3>2, <1>6
  <2> QED BY <2>1, <1>12
<1>0. PICK W2 : W2 = W \cup {n}
  OBVIOUS
<1>14. Tiled(c2, W2, End)
  <2>1. EndOf(cell[h]) = e
    BY <1>5 DEF e
  <2> QED BY <2>1, <1>0, <1>3, <1>5, <1>8, <1>9, <1>11, <1>12, <1>13, SplitTiled
<1>15. n \notin W /\ n # End /\ n \in W2 \ {End} /\ n # h /\ h \in W2 \ {End}
  <2>1. \A q \in W : q \in Int /\ (q <= h \/ q >= e)
    BY <1>3, <1>5, TiledIs DEF e
  <2>2. n \notin W
    BY <2>1, <1>6, <1>7
  <2> QED BY <2>2, <1>0, <1>3, <1>5, TiledIs
<1>16. Keeps(kept, c2, W2, End)
  <2>1. h \notin DOMAIN kept
    BY <1>3, <1>5 DEF Keeps
  <2>2. \A p \in Positions : p < h \/ p >= EndOf(cell[h]) => c2[p] = cell[p]
    BY <1>5, <1>12 DEF e
  <2> QED BY <2>1, <2>2, <1>0, <1>3, <1>5, KeepsOutside
<1>17. ASSUME NEW p \in W \ {End}, p # h, cell[p].blockState = "WaitMergerBlock"
       PROVE  /\ EndOf(cell[p]) \in W /\ EndOf(cell[p]) # End /\ EndOf(cell[p]) # h
              /\ EndOf(cell[p]) # e /\ EndOf(cell[p]) # n
              /\ cell[EndOf(cell[p])].blockState = "UsedBlock"
  <2>1. /\ EndOf(cell[p]) \in W /\ EndOf(cell[p]) # End /\ cell[EndOf(cell[p])].blockState = "UsedBlock"
    BY <1>3, <1>17, TiledIs DEF Spread
  <2>2. EndOf(cell[p]) # h /\ EndOf(cell[p]) # n
    BY <2>1, <1>5, <1>15
  <2>3. /\ p \in Int /\ p < EndOf(cell[p]) /\ EndOf(cell[p]) \in Int
        /\ p <= h \/ p >= e
        /\ h <= p \/ h >= EndOf(cell[p])
    BY <1>3, <1>5, TiledIs DEF e
  <2>4. EndOf(cell[p]) # e
    BY <2>3, <1>6, <1>7, <1>17
  <2> QED BY <2>1, <2>2, <2>4
<1>18. Spread(c2, W2, End)
  <2>1. ASSUME NEW p \in W2 \ {End}, c2[p].blockState = "WaitMergerBlock"
        PROVE  EndOf(c2[p]) # End /\ c2[EndOf(c2[p])].blockState = "UsedBlock"
    <3>1. CASE p = h
      BY <3>1, <1>8, <1>9, <1>11, <1>12, <1>15
    <3>2. CASE p # h
      <4>1. p # n
        BY <2>1, <1>9, <1>11
      <4>2. p \in W \ {End} /\ c2[p] = cell[p]
        BY <4>1, <3>2, <1>0, <1>13
      <4> QED BY <4>2, <3>2, <2>1, <1>13, <1>17
    <3> QED BY <3>1, <3>2
  <2> QED BY <2>1 DEF Spread
<1>19. MapsOf(u2, fb2, fe2, c2, W2 \ {End})
  <2> HIDE DEF used, fb, fe
  <2>1. /\ DOMAIN u2 = DOMAIN used \cup {n} /\ u2[n] = new /\ \A x \in DOMAIN used \ {n} : u2[x] = used[x]
        /\ DOMAIN fe2 = (DOMAIN fe \ {e}) \cup {n} /\ fe2[n] = rest
        /\ \A x \in DOMAIN fe \ {e, n} : fe2[x] = fe[x]
    BY DEF Assign, Erase, Restrict
  <2>2. DOMAIN fb2 = DOMAIN fb /\ fb2[h] = rest /\ \A x \in DOMAIN fb \ {h} : fb2[x] = fb[x]
    BY DEF fb
  <2> HIDE DEF u2, fb2, fe2
  <2>3. \A p \in W2 \ {End} : p = n \/ p = h \/ (p \in W \ {h, End} /\ c2[p] = cell[p])
    BY <1>0, <1>13
  <2>4. DOMAIN u2 = {p \in W2 \ {End} : c2[p].blockState = "UsedBlock"} /\ \A p \in DOMAIN u2 : u2[p] = c2[p]
    <3>1. ASSUME NEW p \in DOMAIN u2
          PROVE  p \in W2 \ {End} /\ c2[p].blockState = "UsedBlock" /\ u2[p] = c2[p]
      BY <2>1, <1>0, <1>4, <1>5, <1>9, <1>11, <1>13, <1>15
    <3>2. ASSUME NEW p \in W2 \ {End}, c2[p].blockState = "UsedBlock" PROVE p \in DOMAIN u2
      BY <3>2, <2>1, <2>3, <1>4, <1>8, <1>12
    <3> QED BY <3>1, <3>2
  <2>5. /\ DOMAIN fb2 = {p \in W2 \ {End} : c2[p].blockState = "WaitMergerBlock"}
        /\ \A p \in DOMAIN fb2 : fb2[p] = c2[p]
    <3>1. ASSUME NEW p \in DOMAIN fb2
          PROVE  p \in W2 \ {End} /\ c2[p].blockState = "WaitMergerBlock" /\ fb2[p] = c2[p]
      BY <2>2, <1>0, <1>4, <1>8, <1>12, <1>13
    <3>2. ASSUME NEW p \in W2 \ {End}, c2[p].blockState = "WaitMergerBlock" PROVE p \in DOMAIN fb2
      BY <3>2, <2>2, <2>3, <1>4, <1>5, <1>9, <1>11
    <3> QED BY <3>1, <3>2
  <2>6. \A p \in DOMAIN fb2 \ {h} : /\ p \in DOMAIN fb /\ c2[p] = cell[p]
                                   /\ EndOf(cell[p]) # e /\ EndOf(cell[p]) # n
    BY <2>2, <1>4, <1>13, <1>17
  <2>7. DOMAIN fe2 = {EndOf(c2[p]) : p \in DOMAIN fb2}
    <3>1. ASSUME NEW x \in DOMAIN fe2 PROVE \E p \in DOMAIN fb2 : x = EndOf(c2[p])
      <4>1. CASE x = n
        BY <4>1, <2>2, <1>8, <1>12, <1>4, <1>5
      <4>2. CASE x # n
        <5>1. x \in DOMAIN fe /\ x # e
          BY <4>2, <2>1
        <5>2. PICK p \in DOMAIN fb : x = EndOf(cell[p])
          BY <5>1, <1>4
        <5>3. p # h
          BY <5>1, <5>2, <1>5 DEF e
        <5> QED BY <5>2, <5>3, <2>2, <2>6
      <4> QED BY <4>1, <4>2
    <3>2. ASSUME NEW p \in DOMAIN fb2 PROVE EndOf(c2[p]) \in DOMAIN fe2
      <4>1. CASE p = h
        BY <4>1, <2>1, <1>8, <1>12
      <4>2. CASE p # h
        BY <4>2, <2>1, <2>6, <1>4
      <4> QED BY <4>1, <4>2
    <3> QED BY <3>1, <3>2
  <2>8. ASSUME NEW p \in DOMAIN fb2 PROVE fe2[EndOf(c2[p])] = c2[p]
    <3>1. CASE p = h
      BY <3>1, <2>1, <1>8, <1>12
    <3>2. CASE p # h
      BY <3>2, <2>1, <2>6, <1>4
    <3> QED BY <3>1, <3>2
  <2> QED BY <2>4, <2>5, <2>7, <2>8 DEF MapsOf
<1>20. /\ CacheShape(cache') /\ cache'.m_FixedHead = End
       /\ cache'.m_UsedBlock = used
       /\ cache'.m_FreeBlockBeginIndex = fb2 /\ cache'.m_FreeBlockEndIndex = fe2
  <2>1. cache = [m_FixedHead |-> End, m_UsedBlock |-> used,
                 m_FreeBlockBeginIndex |-> fb, m_FreeBlockEndIndex |-> fe]
    BY <1>1, <1>3, OpenIs DEF CacheShape
  <2> HIDE DEF used, fb, fe, fe2
  <2>2. cache' = [m_FixedHead |-> End, m_UsedBlock |-> used,
                  m_FreeBlockBeginIndex |-> fb2, m_FreeBlockEndIndex |-> fe2]
    BY <2>1, <1>1
  <2> QED BY <2>2 DEF CacheShape
<1>21. Basic'
  <2>1. 0 \in 0 .. Word - 1 /\ End \in Span
    BY <1>3, TiledIs, SizesAssumption
  <2> QED BY <2>1, <1>1, <1>9, <1>10, <1>20, OpenIs, NextBasic
<1>22. VCell' = c2 /\ VUsed' = u2 /\ Seen(W2)' = W2 \ {End}
  <2>1. VCell' = c2
    BY <1>1 DEF VCell, c2
  <2>2. VUsed' = u2
    BY <1>1, <1>9, <1>20 DEF VUsed
  <2>3. Seen(W2)' = W2 \ {End}
    BY <1>1, <1>10 DEF Seen
  <2> QED BY <2>1, <2>2, <2>3
<1> HIDE DEF u2, fb2, fe2
<1>23. CallIn(W2)'
  <2>1. n \notin DOMAIN kept /\ n \notin DOMAIN cache'.m_UsedBlock
    BY <1>3, <1>4, <1>15, <1>20 DEF Keeps
  <2>2. disk'.fileEndIndex # Hole
    BY <1>1, <1>10, InUse
  <2> QED BY <2>1, <2>2, <1>1, <1>9, <1>10, <1>11, <1>15, <1>20, <1>22 DEF CallIn
<1>24. At(W2)'
  <2>1. MapsOf(VUsed', cache'.m_FreeBlockBeginIndex, cache'.m_FreeBlockEndIndex, VCell', Seen(W2)')
    BY <1>19, <1>20, <1>22
  <2>2. Tiled(VCell', W2, End') /\ Spread(VCell', W2, End') /\ Keeps(kept', VCell', W2, End')
    BY <1>1, <1>10, <1>14, <1>16, <1>18, <1>22
  <2> QED BY <2>1, <2>2, <1>23 DEF At
<1>25. W2 \in SUBSET Span
  BY <1>14 DEF Tiled
<1> QED BY <1>21, <1>24, <1>25 DEF IInv

\* The positions the load has come by before i.
Before(W, i) == {p \in W : p < i}
Same(g, f) == DOMAIN g = DOMAIN f /\ \A x \in DOMAIN f : g[x] = f[x]

\* The maps of the blocks before i, with the block at i.
LEMMA LoadedOneIs ==
    ASSUME NEW cell, NEW W, NEW end, Tiled(cell, W, end), NEW i \in W \ {end},
           NEW used, NEW fb, NEW fe, MapsOf(used, fb, fe, cell, Before(W, i))
    PROVE  /\ cell[i].blockState = "UsedBlock" =>
                MapsOf(Assign(used, i, cell[i]), fb, fe, cell, Before(W, EndOf(cell[i])))
           /\ cell[i].blockState = "WaitMergerBlock" => \A u2, fb0, fe0 :
                Same(u2, used) /\ Same(fb0, fb) /\ Same(fe0, fe) =>
                MapsOf(u2, Assign(fb0, i, cell[i]), Assign(fe0, EndOf(cell[i]), cell[i]), cell,
                       Before(W, EndOf(cell[i])))
<1> DEFINE b == cell[i]
           e == EndOf(b)
<1>1. /\ i \in Int /\ e \in Int /\ i < e /\ \A q \in W : q \in Int /\ (q <= i \/ q >= e)
      /\ \A p \in W \ {end} : /\ EndOf(cell[p]) \in Int /\ p < EndOf(cell[p])
                              /\ i <= p \/ i >= EndOf(cell[p])
      /\ \A p \in W : p <= end
  BY TiledIs
<1>2. PICK V : V = Before(W, i) /\ V = {p \in W : p < i}
  BY DEF Before
<1>3. PICK V2 : V2 = Before(W, e) /\ V2 = {p \in W : p < e}
  BY DEF Before
<1>4. V2 = V \cup {i} /\ i \notin V
  <2> HIDE DEF e
  <2>1. ASSUME NEW q \in W PROVE q < e <=> q < i \/ q = i
    BY <1>1
  <2>2. ~(i < i)
    BY <1>1
  <2> QED BY <2>1, <2>2, <1>2, <1>3
<1>5. \A p \in V : p \in W \ {end} /\ EndOf(cell[p]) # e
  <2> HIDE DEF e
  <2> QED BY <1>1, <1>2, TiledIs
<1>6. /\ DOMAIN used = {p \in V : cell[p].blockState = "UsedBlock"}
      /\ \A p \in DOMAIN used : used[p] = cell[p]
      /\ DOMAIN fb = {p \in V : cell[p].blockState = "WaitMergerBlock"}
      /\ \A p \in DOMAIN fb : fb[p] = cell[p] /\ fe[EndOf(cell[p])] = cell[p]
      /\ DOMAIN fe = {EndOf(cell[p]) : p \in DOMAIN fb}
  BY <1>2 DEF MapsOf
<1>7. ASSUME b.blockState = "UsedBlock" PROVE MapsOf(Assign(used, i, b), fb, fe, cell, V2)
  <2> DEFINE u2 == Assign(used, i, b)
  <2>1. DOMAIN u2 = DOMAIN used \cup {i} /\ u2[i] = b /\ \A x \in DOMAIN used \ {i} : u2[x] = used[x]
    BY DEF Assign
  <2> HIDE DEF u2
  <2>2. DOMAIN u2 = {p \in V2 : cell[p].blockState = "UsedBlock"} /\ \A p \in DOMAIN u2 : u2[p] = cell[p]
    BY <2>1, <1>4, <1>6, <1>7
  <2>3. DOMAIN fb = {p \in V2 : cell[p].blockState = "WaitMergerBlock"}
    BY <1>4, <1>6, <1>7
  <2>4. MapsOf(u2, fb, fe, cell, V2)
    BY <2>2, <2>3, <1>6 DEF MapsOf
  <2> QED BY <2>4 DEF u2
<1>8. ASSUME b.blockState = "WaitMergerBlock", NEW u2, NEW fb0, NEW fe0,
             Same(u2, used), Same(fb0, fb), Same(fe0, fe)
      PROVE  MapsOf(u2, Assign(fb0, i, b), Assign(fe0, e, b), cell, V2)
  <2> DEFINE fb2 == Assign(fb0, i, b)
             fe2 == Assign(fe0, e, b)
  <2>0. /\ DOMAIN u2 = DOMAIN used /\ \A x \in DOMAIN used : u2[x] = used[x]
        /\ DOMAIN fb0 = DOMAIN fb /\ \A x \in DOMAIN fb : fb0[x] = fb[x]
        /\ DOMAIN fe0 = DOMAIN fe /\ \A x \in DOMAIN fe : fe0[x] = fe[x]
    BY <1>8 DEF Same
  <2>1. /\ DOMAIN fb2 = DOMAIN fb0 \cup {i} /\ fb2[i] = b /\ \A x \in DOMAIN fb0 \ {i} : fb2[x] = fb0[x]
        /\ DOMAIN fe2 = DOMAIN fe0 \cup {e} /\ fe2[e] = b /\ \A x \in DOMAIN fe0 \ {e} : fe2[x] = fe0[x]
    BY DEF Assign
  <2> HIDE DEF fb2, fe2
  <2>2. DOMAIN u2 = {p \in V2 : cell[p].blockState = "UsedBlock"} /\ \A p \in DOMAIN u2 : u2[p] = cell[p]
    BY <2>0, <1>4, <1>6, <1>8
  <2>3. /\ DOMAIN fb2 = {p \in V2 : cell[p].blockState = "WaitMergerBlock"}
        /\ \A p \in DOMAIN fb2 : fb2[p] = cell[p]
    BY <2>0, <2>1, <1>4, <1>6, <1>8
  <2>4. DOMAIN fe2 = {EndOf(cell[p]) : p \in DOMAIN fb2}
    BY <2>0, <2>1, <1>6
  <2>5. ASSUME NEW p \in DOMAIN fb2 PROVE fe2[EndOf(cell[p])] = cell[p]
    <3>1. CASE p = i
      BY <3>1, <2>1
    <3>2. CASE p # i
      <4>1. p \in DOMAIN fb /\ p \in V
        BY <3>2, <2>0, <2>1, <1>6
      <4>2. EndOf(cell[p]) # e /\ EndOf(cell[p]) \in DOMAIN fe /\ fe[EndOf(cell[p])] = cell[p]
        BY <4>1, <1>5, <1>6
      <4> QED BY <4>2, <2>0, <2>1
    <3> QED BY <3>1, <3>2
  <2>6. MapsOf(u2, fb2, fe2, cell, V2)
    BY <2>2, <2>3, <2>4, <2>5 DEF MapsOf
  <2> QED BY <2>6 DEF fb2, fe2
<1> QED BY <1>3, <1>7, <1>8

\* A loaded block is added to the maps.  Free, called for a free one, finds no
\* neighbour to merge it with, and writes the header that is there.
LEMMA LoadBlockStep == ASSUME IInv, LoadBlock PROVE IInv'
<1> DEFINE cell == disk.cell
           used == cache.m_UsedBlock
           fb == cache.m_FreeBlockBeginIndex
           fe == cache.m_FreeBlockEndIndex
           i == index
           b == disk.cell[index]
           e == EndOf(b)
           c == [cache EXCEPT !.m_UsedBlock = Assign(@, b.blockBeginIndex, b)]
           r == Merged(c, i)
<1>1. /\ pc = "load" /\ index < cache.m_FixedHead /\ index' = e
      /\ open' = open /\ pc' = pc /\ block' = block /\ ret' = ret /\ kept' = kept /\ torn' = torn
      /\ \/ b.blockState = "UsedBlock" /\ cache' = c /\ disk' = disk
         \/ b.blockState = "WaitMergerBlock" /\ Release(c, b.blockBeginIndex)
  BY DEF LoadBlock
<1>2. open = TRUE
  BY <1>1 DEF IInv, Basic
<1>3. PICK W \in SUBSET Span : At(W)
  BY <1>2, LoadedIs
<1>4. cache.m_FixedHead = End /\ End \in Span
  BY <1>1, <1>2, HeadIs
<1>5. /\ Tiled(cell, W, End) /\ Spread(cell, W, End) /\ Keeps(kept, cell, W, End)
      /\ MapsOf(used, fb, fe, cell, Before(W, i))
      /\ i \in W \ {End}
  <2>1. i \in W /\ i # End
    BY <1>1, <1>2, <1>3, <1>4, SpanIs DEF At, CallIn
  <2> QED BY <2>1, <1>1, <1>2, <1>3 DEF At, Seen, VCell, VUsed, Before
<1>6. /\ b \in Block /\ b.blockBeginIndex = i /\ e \in W /\ e \in Int /\ i < e /\ i \in Int
      /\ e = i + HeadLen + b.lenOfData /\ e \in Span
      /\ b.lenOfData \in Int /\ HeadLen \in Int
  <2>1. b \in Block /\ b.blockBeginIndex = i /\ e \in W /\ i < e /\ e = i + HeadLen + b.lenOfData
    BY <1>5, TiledIs
  <2> QED BY <2>1, <1>5, TiledIs, BlockIs, SpanIs, SizesAssumption
<1>7. cache = [m_FixedHead |-> End, m_UsedBlock |-> used, m_FreeBlockBeginIndex |-> fb,
               m_FreeBlockEndIndex |-> fe]
  BY <1>2, <1>4, OpenIs DEF CacheShape
<1>8. c = [m_FixedHead |-> End, m_UsedBlock |-> Assign(used, i, b), m_FreeBlockBeginIndex |-> fb,
           m_FreeBlockEndIndex |-> fe]
  BY <1>6, <1>7
<1> DEFINE Rest == /\ DiskOK(disk') /\ disk'.verify = TRUE /\ CacheShape(cache')
                   /\ cache'.m_FixedHead = End /\ End' = End
                   /\ disk'.fileEndIndex = disk.fileEndIndex
                   /\ Tiled(disk'.cell, W, End) /\ Spread(disk'.cell, W, End)
                   /\ Keeps(kept, disk'.cell, W, End)
                   /\ MapsOf(cache'.m_UsedBlock, cache'.m_FreeBlockBeginIndex,
                             cache'.m_FreeBlockEndIndex, disk'.cell, Before(W, e))
<1>9. ASSUME b.blockState = "UsedBlock", cache' = c, disk' = disk PROVE Rest
  <2>1. MapsOf(Assign(used, i, b), fb, fe, cell, Before(W, e))
    BY <1>5, <1>9, LoadedOneIs
  <2>2. /\ CacheShape(cache') /\ cache'.m_FixedHead = End /\ cache'.m_UsedBlock = Assign(used, i, b)
        /\ cache'.m_FreeBlockBeginIndex = fb /\ cache'.m_FreeBlockEndIndex = fe
    BY <1>8, <1>9 DEF CacheShape
  <2>3. DiskOK(disk') /\ disk'.verify = TRUE /\ End' = End /\ disk'.fileEndIndex = disk.fileEndIndex
    BY <1>1, <1>2, <1>9, OpenIs DEF End
  <2> QED BY <2>1, <2>2, <2>3, <1>5, <1>9
<1>10. ASSUME b.blockState = "WaitMergerBlock", Release(c, i) PROVE Rest
  <2>1. /\ DOMAIN used = {p \in Before(W, i) : cell[p].blockState = "UsedBlock"}
        /\ DOMAIN fb = {p \in Before(W, i) : cell[p].blockState = "WaitMergerBlock"}
        /\ DOMAIN fe = {EndOf(cell[p]) : p \in DOMAIN fb}
    BY <1>5 DEF MapsOf
  <2>2. \A p \in Before(W, i) : /\ p \in W \ {End} /\ p \in Int /\ p < i /\ p # e /\ p # i
                                /\ EndOf(cell[p]) # e
    <3>1. \A p \in Before(W, i) : p \in W /\ p < i
      BY DEF Before
    <3>2. \A p \in W \ {End} : EndOf(cell[p]) \in Int /\ (i <= p \/ i >= EndOf(cell[p]))
      BY <1>5, TiledIs
    <3>3. \A p \in W : p \in Int /\ p <= End
      BY <1>5, TiledIs
    <3>4. i \in W /\ i <= End /\ End \in Int /\ i \in Int /\ e \in Int /\ i < e
      BY <3>3, <1>5, <1>6, TiledIs
    <3> HIDE DEF e, b, i
    <3>5. ASSUME NEW p \in Before(W, i) PROVE p \in W \ {End} /\ p \in Int /\ p < i /\ p # e /\ p # i
      <4>1. p \in W /\ p \in Int /\ p < i
        BY <3>1, <3>3
      <4>2. p # End /\ p # e /\ p # i
        BY <4>1, <3>4
      <4> QED BY <4>1, <4>2
    <3>6. ASSUME NEW p \in Before(W, i) PROVE EndOf(cell[p]) # e
      BY <3>2, <3>4, <3>5
    <3> QED BY <3>5, <3>6
  <2>3. \A p \in DOMAIN fb : EndOf(cell[p]) # i
    BY <2>1, <2>2, <1>5, <1>10 DEF Spread
  <2>4. i \notin DOMAIN fb /\ e \notin DOMAIN fb /\ i \notin DOMAIN fe /\ e \notin DOMAIN fe /\ i \notin DOMAIN used
    BY <2>1, <2>2, <2>3
  <2>5. e # End
    BY <1>5, <1>10 DEF Spread
  <2>6. Assign(used, i, b)[i] = b
    BY DEF Assign
  <2> DEFINE u2 == Erase(Assign(used, i, b), i)
             fb0 == r.cache.m_FreeBlockBeginIndex
             fe0 == r.cache.m_FreeBlockEndIndex
             C == [m_FixedHead |-> End, m_UsedBlock |-> u2,
                   m_FreeBlockBeginIndex |-> Assign(fb0, i, b), m_FreeBlockEndIndex |-> Assign(fe0, e, b)]
  <2>7. /\ r.begin = i /\ r.end = e /\ CacheShape(r.cache) /\ r.cache.m_FixedHead = End
        /\ r.cache.m_UsedBlock = u2
        /\ DOMAIN fb0 = DOMAIN fb \ {i, e} /\ \A x \in DOMAIN fb0 : fb0[x] = fb[x]
        /\ DOMAIN fe0 = DOMAIN fe \ {i, e} /\ \A x \in DOMAIN fe0 : fe0[x] = fe[x]
    <3>1. /\ CacheShape(c) /\ c.m_UsedBlock = Assign(used, i, b) /\ c.m_FreeBlockBeginIndex = fb
          /\ c.m_FreeBlockEndIndex = fe /\ c.m_FixedHead = End
      BY <1>8 DEF CacheShape
    <3>2. /\ i = MergedBegin(fe, i) /\ e = EndOf(Assign(used, i, b)[i]) /\ e # i /\ e = MergedEnd(fb, e)
      BY <2>4, <2>6, <1>6 DEF MergedBegin, MergedEnd
    <3> HIDE DEF c, used, fb, fe, i, b, e
    <3> QED BY <3>1, <3>2, <2>4, MergedIs
  <2>8. b = [blockBeginIndex |-> i, lenOfData |-> e - i - HeadLen, blockState |-> "WaitMergerBlock"]
    <3>1. b = [blockBeginIndex |-> b.blockBeginIndex, lenOfData |-> b.lenOfData, blockState |-> b.blockState]
      BY <1>6, BlockIs
    <3>2. b.lenOfData = e - i - HeadLen
      BY <1>6
    <3> QED BY <3>1, <3>2, <1>6, <1>10
  <2>9. disk' = PutBlock(disk, b) /\ cache' = [r.cache EXCEPT !.m_FreeBlockBeginIndex = Assign(@, i, b),
                                                              !.m_FreeBlockEndIndex = Assign(@, e, b)]
    <3>1. c.m_FixedHead = End
      BY <1>8
    <3> HIDE DEF c, i, b, e
    <3> QED BY <3>1, <2>5, <2>7, <2>8, <1>10 DEF Release
  <2>10. /\ CacheShape(cache') /\ cache'.m_FixedHead = End /\ cache'.m_UsedBlock = u2
         /\ cache'.m_FreeBlockBeginIndex = Assign(fb0, i, b)
         /\ cache'.m_FreeBlockEndIndex = Assign(fe0, e, b)
    <3> HIDE DEF r, i, b, e, u2
    <3> QED BY <2>7, <2>9 DEF CacheShape
  <2>11. Same(u2, used) /\ Same(fb0, fb) /\ Same(fe0, fe)
    <3>1. DOMAIN u2 = DOMAIN used /\ \A x \in DOMAIN used : u2[x] = used[x]
      BY <2>4 DEF Erase, Restrict, Assign
    <3>2. DOMAIN fb0 = DOMAIN fb /\ DOMAIN fe0 = DOMAIN fe
      BY <2>4, <2>7
    <3> QED BY <3>1, <3>2, <2>7 DEF Same
  <2>12. MapsOf(u2, Assign(fb0, i, b), Assign(fe0, e, b), cell, Before(W, e))
    <3> HIDE DEF u2, fb0, fe0, used, fb, fe
    <3> QED BY <2>11, <1>5, <1>10, LoadedOneIs
  <2>13. DiskOK(disk) /\ disk.verify = TRUE
    BY <1>1, <1>2, OpenIs
  <2>14. DiskOK(disk') /\ disk'.verify = TRUE /\ disk'.fileEndIndex = disk.fileEndIndex /\ End' = End
    <3>1. DiskOK(disk') /\ disk'.verify = TRUE /\ disk'.fileEndIndex = disk.fileEndIndex
      BY <2>9, <2>13, <1>6, PutBlockIs
    <3> QED BY <3>1 DEF End
  <2>15. /\ disk'.cell[i] = cell[i]
         /\ \A p \in Positions : p < i \/ p >= EndOf(cell[i]) => disk'.cell[p] = cell[p]
         /\ \A q \in W \ {i, End} : disk'.cell[q] = cell[q]
    <3>1. /\ Tiled(PutBlock(disk, b).cell, W, End)
          /\ PutBlock(disk, b).cell[i] = b
          /\ \A p \in Positions : p < i \/ p >= EndOf(disk.cell[i]) => PutBlock(disk, b).cell[p] = disk.cell[p]
          /\ \A q \in W \ {i, End} : PutBlock(disk, b).cell[q] = disk.cell[q]
      <4>1. EndOf(b) = EndOf(disk.cell[i]) /\ Tiled(disk.cell, W, End) /\ b = disk.cell[i]
        BY <1>5
      <4>2. b \in Block /\ b.blockBeginIndex = i /\ i \in W \ {End} /\ DiskOK(disk)
        BY <2>13, <1>5, <1>6
      <4> HIDE DEF b, i, e, r, c
      <4> QED BY <4>1, <4>2, RewriteIs
    <3> QED BY <3>1, <2>9
  <2>16. i \notin DOMAIN kept
    BY <1>5, <1>10 DEF Keeps
  <2>17. Keeps(kept, disk'.cell, W, End)
    <3> HIDE DEF cell, i
    <3> QED BY <2>15, <2>16, <1>5, KeepsOutside
  <2>18. \A q \in W \ {End} : disk'.cell[q] = cell[q]
    BY <2>15
  <2>19. Before(W, e) \in SUBSET (W \ {End})
    <3>1. \A p \in W : p \in Int /\ p <= End
      BY <1>5, TiledIs
    <3>2. e <= End
      BY <3>1, <1>6
    <3>3. e \in Int /\ End \in Int
      BY <3>1, <1>5, <1>6, TiledIs
    <3> HIDE DEF e
    <3>4. ASSUME NEW p \in W, p < e PROVE p # End
      BY <3>1, <3>2, <3>3, <3>4
    <3> QED BY <3>4 DEF Before
  <2>20. /\ Tiled(disk'.cell, W, End) /\ Spread(disk'.cell, W, End)
         /\ MapsOf(u2, Assign(fb0, i, b), Assign(fe0, e, b), disk'.cell, Before(W, e))
    <3> HIDE DEF u2, fb0, fe0, cell, i, b, e
    <3> QED BY <2>12, <2>18, <2>19, <1>5, HeadsSame
  <2> QED BY <2>10, <2>14, <2>17, <2>20
<1>11. Rest
  BY <1>1, <1>6, <1>9, <1>10
<1>12. Basic'
  <2> HIDE DEF e
  <2> QED BY <1>1, <1>2, <1>4, <1>6, <1>11, OpenIs, NextBasic
<1>13. Seen(W)' = Before(W, e)
  BY <1>1 DEF Seen, Before
<1>14. CallIn(W)'
  BY <1>1, <1>2, <1>6, <1>11, InUse DEF CallIn
<1>15. At(W)'
  <2> HIDE DEF e
  <2> QED BY <1>1, <1>11, <1>13, <1>14, NextAt
<1> QED BY <1>12, <1>15 DEF IInv

\* Data written into a block that the client has, within its length.
LEMMA StoredStep ==
    ASSUME IInv, open, pc = "idle", NEW h \in DOMAIN kept, NEW v \in Data,
           NEW pos \in Int, NEW n \in Int, pos >= 0,
           pos + n <= disk.cell[h].lenOfData, Stored(h, pos, n, v),
           ret' = 0, UNCHANGED <<cache, open, pc, block, index, torn>>
    PROVE  IInv'
<1> DEFINE cell == disk.cell
           from == h + HeadLen + pos
           hit == from .. from + n - 1
           c2 == [p \in Positions |-> IF p \in hit THEN v ELSE cell[p]]
           kh == [i \in DOMAIN kept[h] |-> IF i \in pos .. pos + n - 1 THEN v ELSE kept[h][i]]
<1>1. PICK W \in SUBSET Span : At(W)
  BY LoadedIs
<1>2. /\ Tiled(cell, W, End) /\ Spread(cell, W, End) /\ Keeps(kept, cell, W, End)
      /\ MapsOf(cache.m_UsedBlock, cache.m_FreeBlockBeginIndex, cache.m_FreeBlockEndIndex,
                cell, W \ {End})
      /\ cache.m_FixedHead = End
  BY <1>1, IdleIs
<1>3. /\ DiskOK(disk) /\ disk.verify = TRUE
      /\ disk = [verify |-> disk.verify, fileEndIndex |-> disk.fileEndIndex, cell |-> cell]
      /\ cell \in Cells /\ DOMAIN kept \subseteq Positions /\ kept = [g \in DOMAIN kept |-> kept[g]]
  BY OpenIs DEF DiskOK
<1>4. disk' = [verify |-> disk.verify, fileEndIndex |-> disk.fileEndIndex, cell |-> c2]
  <2> HIDE DEF hit
  <2>1. disk' = [disk EXCEPT !.cell = c2]
    BY DEF Stored, hit
  <2> HIDE DEF c2
  <2> QED BY <2>1, <1>3
<1>5. /\ DOMAIN kept' = DOMAIN kept /\ kept'[h] = kh /\ \A g \in DOMAIN kept \ {h} : kept'[g] = kept[g]
      /\ kept' = [g \in DOMAIN kept' |-> kept'[g]]
  BY <1>3 DEF Stored
<1>6. /\ h \in W \ {End} /\ cell[h].blockState = "UsedBlock"
      /\ DOMAIN kept[h] = 0 .. cell[h].lenOfData - 1
      /\ \A i \in DOMAIN kept[h] : kept[h][i] \in {Junk, cell[h + HeadLen + i]}
  BY <1>2 DEF Keeps
<1>7. /\ h \in Int /\ cell[h].lenOfData \in Int /\ HeadLen \in Int /\ HeadLen > 0 /\ First \in Int
      /\ EndOf(cell[h]) = h + HeadLen + cell[h].lenOfData /\ EndOf(cell[h]) \in Int
      /\ First <= h /\ EndOf(cell[h]) <= MaxFile /\ MaxFile \in Int
  <2>1. /\ cell[h] \in Block /\ EndOf(cell[h]) = h + HeadLen + cell[h].lenOfData /\ EndOf(cell[h]) \in W
        /\ h \in Int /\ First <= h
    BY <1>2, <1>6, TiledIs
  <2>2. EndOf(cell[h]) \in Span
    BY <2>1, <1>2, TiledIs
  <2> QED BY <2>1, <2>2, BlockIs, SpanIs, SizesAssumption
<1>8. /\ \A p \in Int : p \in hit <=> from <= p /\ p <= from + n - 1
      /\ \A p \in hit : p \in Int /\ h < p /\ p < EndOf(cell[h])
  BY <1>7
<1>9. \A p \in Positions : /\ p \in hit => c2[p] = v
                           /\ p \notin hit => c2[p] = cell[p]
  OBVIOUS
<1>10. c2 \in Cells
  BY <1>3 DEF Cells
<1> HIDE DEF hit, c2
<1>11. /\ DiskOK(disk') /\ disk'.verify = TRUE /\ disk'.cell = c2 /\ End' = End
       /\ disk'.fileEndIndex # Hole
  <2>1. disk'.verify = disk.verify /\ disk'.fileEndIndex = disk.fileEndIndex /\ disk'.cell = c2
    BY <1>4
  <2>2. DiskOK(disk')
    BY <2>1, <1>3, <1>4, <1>10 DEF DiskOK
  <2> QED BY <2>1, <2>2, <1>3, InUse DEF End
<1>12. \A q \in W \ {End} : c2[q] = cell[q]
  <2>1. ASSUME NEW q \in W \ {End} PROVE q \in Positions /\ q \notin hit
    <3>1. q \in Positions /\ q \in Int /\ (q <= h \/ q >= EndOf(cell[h]))
      BY <1>2, <1>6, TiledIs
    <3> QED BY <3>1, <1>7, <1>8
  <2> QED BY <2>1, <1>9
<1>13. /\ Tiled(c2, W, End) /\ Spread(c2, W, End)
       /\ MapsOf(cache.m_UsedBlock, cache.m_FreeBlockBeginIndex, cache.m_FreeBlockEndIndex,
                 c2, W \ {End})
  <2> HIDE DEF cell
  <2> QED BY <1>2, <1>12, HeadsSame
<1>14. ASSUME NEW g \in DOMAIN kept
       PROVE  /\ g \in W \ {End} /\ c2[g].blockState = "UsedBlock"
              /\ DOMAIN kept'[g] = 0 .. c2[g].lenOfData - 1
              /\ \A i \in DOMAIN kept'[g] : kept'[g][i] \in {Junk, c2[g + HeadLen + i]}
  <2>1. /\ g \in W \ {End} /\ cell[g].blockState = "UsedBlock"
        /\ DOMAIN kept[g] = 0 .. cell[g].lenOfData - 1
        /\ \A i \in DOMAIN kept[g] : kept[g][i] \in {Junk, cell[g + HeadLen + i]}
    BY <1>2 DEF Keeps
  <2>2. c2[g] = cell[g]
    BY <2>1, <1>12
  <2>3. DOMAIN kept'[g] = DOMAIN kept[g]
    BY <1>5
  <2>4. /\ g \in Int /\ cell[g].lenOfData \in Int /\ First <= g /\ EndOf(cell[g]) \in Int
        /\ EndOf(cell[g]) = g + HeadLen + cell[g].lenOfData /\ EndOf(cell[g]) <= MaxFile
        /\ g <= h \/ g >= EndOf(cell[h])
        /\ h <= g \/ h >= EndOf(cell[g])
    <3>1. /\ cell[g] \in Block /\ EndOf(cell[g]) = g + HeadLen + cell[g].lenOfData /\ EndOf(cell[g]) \in W
          /\ g \in Int /\ First <= g
          /\ g <= h \/ g >= EndOf(cell[h])
          /\ h <= g \/ h >= EndOf(cell[g])
      BY <1>2, <1>6, <2>1, TiledIs
    <3>2. EndOf(cell[g]) \in Span
      BY <3>1, <1>2, TiledIs
    <3> QED BY <3>1, <3>2, BlockIs, SpanIs
  <2>5. ASSUME NEW i \in DOMAIN kept[g] PROVE kept'[g][i] \in {Junk, c2[g + HeadLen + i]}
    <3>1. i \in Int /\ i >= 0 /\ i < cell[g].lenOfData
      BY <2>1, <2>4
    <3>2. g + HeadLen + i \in Positions
      BY <3>1, <2>4, <1>7 DEF Positions
    <3>3. CASE g = h /\ i \in pos .. pos + n - 1
      <4>1. g + HeadLen + i \in hit
        BY <3>1, <3>3, <1>7, <1>8
      <4> QED BY <4>1, <3>2, <3>3, <1>5, <1>9
    <3>4. CASE ~(g = h /\ i \in pos .. pos + n - 1)
      <4>1. g + HeadLen + i \notin hit
        BY <3>1, <3>4, <2>4, <1>7, <1>8
      <4>2. kept'[g][i] = kept[g][i]
        BY <3>4, <1>5
      <4> QED BY <4>1, <4>2, <3>2, <2>1, <1>9
    <3> QED BY <3>3, <3>4
  <2> QED BY <2>1, <2>2, <2>3, <2>5
<1>15. Keeps(kept', c2, W, End)
  BY <1>5, <1>14 DEF Keeps
<1>16. Basic'
  <2>1. 0 \in 0 .. Word - 1 /\ End \in Span
    BY <1>2, TiledIs, SizesAssumption
  <2> QED BY <2>1, <1>2, <1>3, <1>5, <1>11, OpenIs, NextBasic
<1>17. Seen(W)' = W \ {End}
  BY <1>11 DEF Seen
<1>18. CallIn(W)'
  BY <1>2, <1>11 DEF CallIn
<1>19. At(W)'
  BY <1>11, <1>13, <1>15, <1>17, <1>18, NextAt
<1> QED BY <1>16, <1>19 DEF IInv

\* The unsigned test of the length keeps write within the block.
LEMMA writeStep ==
    ASSUME IInv, NEW h \in DOMAIN kept, NEW v \in Data, NEW pos \in DOMAIN kept[h],
           NEW n \in 1 .. MaxFile, write(h, pos, n, v)
    PROVE  IInv'
<1>1. /\ open /\ pc = "idle" /\ h \in DOMAIN cache.m_UsedBlock /\ ~TooLong(h, pos, n) /\ Stored(h, pos, n, v)
      /\ ret' = 0 /\ UNCHANGED <<cache, open, pc, block, index, torn>>
  BY DEF write, Ready
<1>2. PICK W \in SUBSET Span : At(W)
  BY <1>1, LoadedIs
<1>3. /\ Keeps(kept, disk.cell, W, End) /\ Tiled(disk.cell, W, End)
      /\ MapsOf(cache.m_UsedBlock, cache.m_FreeBlockBeginIndex, cache.m_FreeBlockEndIndex,
                disk.cell, W \ {End})
  BY <1>1, <1>2, IdleIs
<1>4. /\ h \in W \ {End} /\ DOMAIN kept[h] = 0 .. disk.cell[h].lenOfData - 1
      /\ cache.m_UsedBlock[h] = disk.cell[h]
  BY <1>1, <1>3 DEF Keeps, MapsOf
<1>5. disk.cell[h].lenOfData \in 0 .. MaxFile
  BY <1>3, <1>4, TiledIs, BlockIs
<1>6. pos \in Int /\ n \in Int /\ pos >= 0 /\ disk.cell[h].lenOfData - pos \in 0 .. Word - 1
  BY <1>4, <1>5, SizesAssumption
<1>7. Unsigned(disk.cell[h].lenOfData - pos) = disk.cell[h].lenOfData - pos
  BY <1>6, SizesAssumption DEF Unsigned
<1>8. pos + n <= disk.cell[h].lenOfData
  BY <1>1, <1>4, <1>5, <1>6, <1>7 DEF TooLong
<1> QED BY <1>1, <1>6, <1>8, StoredStep

\* fset stays within the block as long as its caller does.
LEMMA fsetStep ==
    ASSUME IInv, NEW h \in DOMAIN kept, NEW v \in Data, NEW n \in 1 .. MaxFile,
           n - 1 \in DOMAIN kept[h], fset(h, n, v)
    PROVE  IInv'
<1>1. /\ open /\ pc = "idle" /\ Stored(h, 0, n, v)
      /\ ret' = 0 /\ UNCHANGED <<cache, open, pc, block, index, torn>>
  BY DEF fset, Ready
<1>2. PICK W \in SUBSET Span : At(W)
  BY <1>1, LoadedIs
<1>3. Keeps(kept, disk.cell, W, End) /\ Tiled(disk.cell, W, End)
  BY <1>1, <1>2, IdleIs
<1>4. /\ h \in W \ {End} /\ DOMAIN kept[h] = 0 .. disk.cell[h].lenOfData - 1
  BY <1>3 DEF Keeps
<1>5. disk.cell[h].lenOfData \in 0 .. MaxFile
  BY <1>3, <1>4, TiledIs, BlockIs
<1> DEFINE pos == 0
<1>6. n \in Int /\ pos \in Int /\ pos >= 0 /\ pos + n <= disk.cell[h].lenOfData
  BY <1>4, <1>5
<1>7. Stored(h, pos, n, v)
  BY <1>1
<1> HIDE DEF pos
<1> QED BY <1>1, <1>6, <1>7, StoredStep

\* Every step keeps the invariant.
LEMMA NextInv == IInv /\ [Next]_vars => IInv'
<1> SUFFICES ASSUME IInv, [Next]_vars PROVE IInv'
  OBVIOUS
<1>1. CASE IsInit
  BY <1>1, IsInitStep
<1>2. CASE LoadBlock
  BY <1>2, LoadBlockStep
<1>3. CASE LoadDone
  BY <1>3, LoadDoneStep
<1>4. CASE Rebuild
  BY <1>4, RebuildStep
<1>5. CASE RebuildHead
  BY <1>5, RebuildHeadStep
<1>6. ASSUME NEW size \in Sizes, NEW h \in DOMAIN cache.m_FreeBlockBeginIndex, AllocateSplit(h, size)
      PROVE  IInv'
  BY <1>6, AllocateSplitStep
<1>7. ASSUME NEW size \in Sizes, NEW h \in DOMAIN cache.m_FreeBlockBeginIndex, AllocateExact(h, size)
      PROVE  IInv'
  BY <1>7, AllocateExactStep
<1>8. ASSUME NEW size \in Sizes, AllocateEnd(size) PROVE IInv'
  BY <1>8, AllocateEndStep
<1>9. CASE AllocateSplitUsed
  BY <1>9, AllocateSplitUsedStep
<1>10. CASE AllocateEndHead
  BY <1>10, AllocateEndHeadStep
<1>11. CASE AllocateReturn
  BY <1>11, AllocateReturnStep
<1>12. ASSUME NEW h \in DOMAIN kept, Free(h) PROVE IInv'
  BY <1>12, FreeStep
<1>13. ASSUME NEW h \in DOMAIN kept, FreeFails(h) PROVE IInv'
  BY <1>13, FreeFailsStep
<1>14. ASSUME NEW h \in DOMAIN kept, NEW v \in Data, NEW pos \in DOMAIN kept[h], NEW n \in 1 .. MaxFile,
              write(h, pos, n, v)
       PROVE  IInv'
  BY <1>14, writeStep
<1>15. ASSUME NEW h \in DOMAIN kept, NEW v \in Data, NEW n \in 1 .. MaxFile, n - 1 \in DOMAIN kept[h],
              fset(h, n, v)
       PROVE  IInv'
  BY <1>15, fsetStep
<1>16. CASE clearFile
  BY <1>16, clearFileStep
<1>17. CASE AllocateFails
  BY <1>17, AllocateFailsStep
<1>18. CASE AccessFails
  BY <1>18, AccessFailsStep
<1>19. CASE LoadFails
  BY <1>19, LoadFailsStep
<1>20. CASE Crash
  BY <1>20, CrashStep
<1>21. CASE UNCHANGED vars
  <2>1. /\ disk' = disk /\ cache' = cache /\ open' = open /\ pc' = pc /\ block' = block /\ index' = index
        /\ ret' = ret /\ kept' = kept /\ torn' = torn
    BY <1>21 DEF vars
  <2>2. Basic'
    BY <2>1 DEF IInv, Basic
  <2>3. ASSUME NEW W, At(W) PROVE At(W)'
    <3>1. VCell' = VCell /\ VUsed' = VUsed /\ End' = End /\ Seen(W)' = Seen(W)
      BY <2>1 DEF VCell, VUsed, End, Seen
    <3>2. CallIn(W)'
      BY <2>1, <2>3, <3>1 DEF At, CallIn
    <3> QED BY <2>1, <2>3, <3>1, <3>2 DEF At
  <2> QED BY <2>1, <2>2, <2>3 DEF IInv
<1> QED
  BY <1>1, <1>2, <1>3, <1>4, <1>5, <1>6, <1>7, <1>8, <1>9, <1>10, <1>11, <1>12, <1>13, <1>14, <1>15,
     <1>16, <1>17, <1>18, <1>19, <1>20, <1>21 DEF Next

\* Every reachable state satisfies the inductive invariant: whatever was
\* allocated, freed, written, failed or crashed.
THEOREM IInvHolds == Spec => []IInv
BY InitInv, NextInv, PTL DEF Spec

-----------------------------------------------------------------------------
\* What the invariant says of all the state, a file half loaded or written included.
LEMMA TypesHold == IInv => TypeOK
<1> SUFFICES ASSUME IInv PROVE TypeOK
  OBVIOUS
<1>1. /\ disk.verify \in BOOLEAN /\ disk.fileEndIndex \in First .. MaxFile \cup {Absent, Hole}
      /\ DOMAIN disk.cell = Positions
      /\ \A p \in Positions : disk.cell[p] \in Block \cup Data \cup {Junk}
  BY DEF IInv, Basic, DiskOK, Cells, Span
<1>2. /\ IsMap(cache.m_UsedBlock) /\ IsMap(cache.m_FreeBlockBeginIndex)
      /\ IsMap(cache.m_FreeBlockEndIndex)
  <2>1. CASE ~open
    BY <2>1, NoMaps DEF IInv, Basic, IsMap
  <2>2. CASE open
    <3> DEFINE used == cache.m_UsedBlock
               fb == cache.m_FreeBlockBeginIndex
               fe == cache.m_FreeBlockEndIndex
    <3>1. PICK W \in SUBSET Span : At(W)
      BY <2>2, LoadedIs
    <3>2. Tiled(VCell, W, End) /\ MapsOf(VUsed, fb, fe, VCell, Seen(W))
      BY <2>2, <3>1 DEF At
    <3>3. block \in Block
      BY <2>2, OpenIs
    <3>4. \A p \in Seen(W) : p \in Span /\ VCell[p] \in Block
      <4>1. pc = "grow" => VCell[End] = block
        BY <3>1 DEF At, CallIn
      <4>2. \A p \in Seen(W) : p \in W /\ (p = End => pc = "grow")
        <5>1. CASE pc = "load"
          <6>1. \A p \in W : p \in Int /\ p <= End
            BY <3>2, TiledIs
          <6>2. index \in W
            BY <5>1, <3>1 DEF At, CallIn
          <6>3. Seen(W) = {p \in W : p < index}
            BY <5>1 DEF Seen
          <6>4. End \in Int /\ index \in Int /\ index <= End
            BY <6>1, <6>2, <3>2, TiledIs
          <6>5. \A p \in Seen(W) : p \in W /\ p # End
            BY <6>3, <6>4
          <6> QED BY <6>5
        <5>2. CASE pc # "load"
          BY <5>2 DEF Seen
        <5> QED BY <5>1, <5>2
      <4>3. \A p \in W \ {End} : VCell[p] \in Block
        BY <3>2, TiledIs
      <4> QED BY <4>1, <4>2, <4>3, <3>3
    <3>5. /\ DOMAIN VUsed \subseteq Seen(W) /\ \A p \in DOMAIN VUsed : VUsed[p] = VCell[p]
          /\ DOMAIN fb \subseteq Seen(W)
          /\ \A p \in DOMAIN fb : fb[p] = VCell[p] /\ fe[EndOf(VCell[p])] = VCell[p]
          /\ DOMAIN fe = {EndOf(VCell[p]) : p \in DOMAIN fb}
      BY <3>2 DEF MapsOf
    <3>6. IsMap(VUsed) /\ IsMap(fb)
      BY <3>4, <3>5 DEF IsMap, Span
    <3>7. IsMap(fe)
      <4>1. ASSUME NEW p \in DOMAIN fb PROVE EndOf(VCell[p]) \in Span
        <5>1. p \in W \ {End}
          <6>1. pc = "grow" => VCell[End].blockState = "UsedBlock"
            BY <3>1 DEF At, CallIn
          <6>2. VCell[p].blockState = "WaitMergerBlock" /\ p \in Seen(W)
            BY <3>2 DEF MapsOf
          <6>3. CASE pc = "load"
            <7>1. \A q \in W : q \in Int /\ q <= End
              BY <3>2, TiledIs
            <7>2. index \in W
              BY <6>3, <3>1 DEF At, CallIn
            <7>3. p \in W /\ p < index
              BY <6>2, <6>3 DEF Seen
            <7> QED BY <7>1, <7>2, <7>3, <3>2, TiledIs
          <6>4. CASE pc # "load"
            BY <6>1, <6>2, <6>4 DEF Seen
          <6> QED BY <6>3, <6>4
        <5> QED BY <5>1, <3>2, TiledIs
      <4>2. \A x \in DOMAIN fe : x \in Span /\ fe[x] \in Block
        BY <4>1, <3>4, <3>5
      <4> QED BY <4>2 DEF IsMap, Span
    <3>8. IsMap(used)
      <4>1. CASE pc = "split"
        <5> DEFINE n == block.blockBeginIndex
        <5>1. n \notin DOMAIN used /\ VUsed = Assign(used, n, block)
          BY <4>1, <3>1 DEF At, CallIn, VUsed
        <5>2. \A x \in DOMAIN used : x \in DOMAIN VUsed /\ VUsed[x] = used[x]
          <6> HIDE DEF used
          <6> QED BY <5>1 DEF Assign
        <5> QED BY <5>2, <3>6 DEF IsMap
      <4>2. CASE pc # "split"
        BY <4>2, <3>6 DEF VUsed
      <4> QED BY <4>1, <4>2
    <3> QED BY <3>6, <3>7, <3>8
  <2> QED BY <2>1, <2>2
<1>3. /\ cache.m_FixedHead \in First .. MaxFile \cup {Absent} /\ open \in BOOLEAN /\ torn \in BOOLEAN
      /\ pc \in {"idle", "load", "rebuild", "rebuild head", "split", "grow", "return"}
      /\ open \/ pc = "idle"
      /\ block \in Block /\ index \in First .. MaxFile /\ ret \in 0 .. Word - 1
      /\ DOMAIN kept \subseteq Positions
  BY DEF IInv, Basic, Span
<1> QED BY <1>1, <1>2, <1>3 DEF TypeOK

\* A file between two calls, and its loaded maps, in terms of the walk.
LEMMA WholeIs ==
    ASSUME IInv, Whole
    PROVE  LET W == Walk(disk)
               end == disk.fileEndIndex
           IN  /\ Tiled(disk.cell, W, end) /\ Spread(disk.cell, W, end) /\ Keeps(kept, disk.cell, W, end)
               /\ Ready => /\ MapsOf(cache.m_UsedBlock, cache.m_FreeBlockBeginIndex,
                                     cache.m_FreeBlockEndIndex, disk.cell, W \ {end})
                           /\ cache.m_FixedHead = end
<1>1. PICK W \in SUBSET Span : At(W)
  BY DEF IInv, Whole
<1>2. End = disk.fileEndIndex /\ VCell = disk.cell
  BY DEF Whole, End, VCell
<1>3. Walk(disk) = W
  BY <1>1, <1>2, WalkIs DEF At
<1>4. Ready => MapsOf(cache.m_UsedBlock, cache.m_FreeBlockBeginIndex, cache.m_FreeBlockEndIndex,
                      disk.cell, W \ {End}) /\ cache.m_FixedHead = End
  BY <1>1, IdleIs DEF Ready
<1> QED BY <1>1, <1>2, <1>3, <1>4 DEF At

\* The blocks the walk comes by are those at its positions.
LEMMA BlocksIs ==
    ASSUME IInv, Whole
    PROVE  /\ \A p \in Walk(disk) \ {disk.fileEndIndex} : disk.cell[p] \in Blocks
           /\ \A b \in Blocks : /\ b.blockBeginIndex \in Walk(disk) \ {disk.fileEndIndex}
                                /\ disk.cell[b.blockBeginIndex] = b /\ b \in Block
<1>1. \A p \in Walk(disk) \ {disk.fileEndIndex} : disk.cell[p] \in Blocks
  BY DEF Blocks
<1>2. ASSUME NEW b \in Blocks
      PROVE  /\ b.blockBeginIndex \in Walk(disk) \ {disk.fileEndIndex}
             /\ disk.cell[b.blockBeginIndex] = b /\ b \in Block
  <2>1. PICK p \in Walk(disk) \ {disk.fileEndIndex} : b = disk.cell[p]
    BY DEF Blocks
  <2>2. disk.cell[p] \in Block /\ disk.cell[p].blockBeginIndex = p
    BY WholeIs, TiledIs
  <2> QED BY <2>1, <2>2
<1> QED BY <1>1, <1>2

\* The properties, from the invariant.
LEMMA BlocksTileHolds == IInv => BlocksTile
<1> SUFFICES ASSUME IInv, Whole
             PROVE  /\ disk.fileEndIndex \in Walk(disk)
                    /\ \A p \in Walk(disk) \ {disk.fileEndIndex} :
                         disk.cell[p] \in Block /\ disk.cell[p].blockBeginIndex = p
  BY DEF BlocksTile
<1> QED BY WholeIs, TiledIs

LEMMA FreeSpaceMergedHolds == IInv => FreeSpaceMerged
<1> SUFFICES ASSUME IInv, Whole, NEW b \in Blocks, b.blockState = "WaitMergerBlock"
             PROVE  EndOf(b) < disk.fileEndIndex /\ disk.cell[EndOf(b)].blockState = "UsedBlock"
  BY DEF FreeSpaceMerged
<1> DEFINE p == b.blockBeginIndex
           W == Walk(disk)
           end == disk.fileEndIndex
<1>1. p \in W \ {end} /\ disk.cell[p] = b
  BY BlocksIs
<1>2. Tiled(disk.cell, W, end) /\ Spread(disk.cell, W, end)
  BY WholeIs
<1> HIDE DEF p, W, end
<1>3. EndOf(b) # end /\ disk.cell[EndOf(b)].blockState = "UsedBlock"
  BY <1>1, <1>2 DEF Spread
<1>4. EndOf(b) \in W
  BY <1>1, <1>2, TiledIs
<1>5. EndOf(b) \in Int /\ EndOf(b) <= end /\ end \in Int
  BY <1>2, <1>4, TiledIs
<1> QED BY <1>3, <1>5 DEF end

LEMMA KeptSurvivesHolds == IInv => KeptSurvives
<1> SUFFICES ASSUME IInv PROVE KeptSurvives
  OBVIOUS
<1>1. ASSUME Whole, NEW h \in DOMAIN kept
      PROVE  /\ \E b \in Blocks : /\ b.blockBeginIndex = h
                                  /\ b.blockState = "UsedBlock"
                                  /\ DOMAIN kept[h] = 0 .. b.lenOfData - 1
             /\ \A i \in DOMAIN kept[h] : kept[h][i] \in {Junk, disk.cell[h + HeadLen + i]}
  <2>1. Keeps(kept, disk.cell, Walk(disk), disk.fileEndIndex)
        /\ Tiled(disk.cell, Walk(disk), disk.fileEndIndex)
    BY <1>1, WholeIs
  <2>2. /\ h \in Walk(disk) \ {disk.fileEndIndex} /\ disk.cell[h].blockState = "UsedBlock"
        /\ DOMAIN kept[h] = 0 .. disk.cell[h].lenOfData - 1
        /\ \A i \in DOMAIN kept[h] : kept[h][i] \in {Junk, disk.cell[h + HeadLen + i]}
    BY <2>1 DEF Keeps
  <2>3. disk.cell[h] \in Blocks /\ disk.cell[h].blockBeginIndex = h
    BY <2>1, <2>2, <1>1, BlocksIs, TiledIs
  <2> QED BY <2>2, <2>3
<1>2. ASSUME Ready, ~torn PROVE DOMAIN kept \subseteq DOMAIN cache.m_UsedBlock
  <2>1. PICK W \in SUBSET Span : At(W)
    BY <1>2 DEF IInv
  <2>2. /\ Keeps(kept, disk.cell, W, End)
        /\ MapsOf(cache.m_UsedBlock, cache.m_FreeBlockBeginIndex, cache.m_FreeBlockEndIndex,
                  disk.cell, W \ {End})
    BY <1>2, <2>1, IdleIs DEF Ready
  <2> QED BY <2>2 DEF Keeps, MapsOf
<1> QED BY <1>1, <1>2 DEF KeptSurvives

LEMMA MapsMatchFileHolds == IInv => MapsMatchFile
<1> SUFFICES ASSUME IInv, Ready, Whole PROVE MapsMatchFile
  BY DEF MapsMatchFile
<1> DEFINE Used == {b \in Blocks : b.blockState = "UsedBlock"}
           Free2 == Blocks \ Used
           V == Walk(disk) \ {disk.fileEndIndex}
           used == cache.m_UsedBlock
           fb == cache.m_FreeBlockBeginIndex
           fe == cache.m_FreeBlockEndIndex
<1>1. /\ DOMAIN used = {p \in V : disk.cell[p].blockState = "UsedBlock"}
      /\ \A p \in DOMAIN used : used[p] = disk.cell[p]
      /\ DOMAIN fb = {p \in V : disk.cell[p].blockState = "WaitMergerBlock"}
      /\ \A p \in DOMAIN fb : fb[p] = disk.cell[p] /\ fe[EndOf(disk.cell[p])] = disk.cell[p]
      /\ DOMAIN fe = {EndOf(disk.cell[p]) : p \in DOMAIN fb}
      /\ cache.m_FixedHead = disk.fileEndIndex
  BY WholeIs DEF MapsOf
<1>2. /\ \A p \in V : disk.cell[p] \in Blocks /\ disk.cell[p].blockBeginIndex = p
      /\ \A b \in Blocks : b.blockBeginIndex \in V /\ disk.cell[b.blockBeginIndex] = b /\ b \in Block
  BY WholeIs, BlocksIs, TiledIs
<1>3. \A b \in Blocks : b \in Free2 <=> b.blockState = "WaitMergerBlock"
  BY <1>2, BlockIs
<1> HIDE DEF V
<1>4. /\ DOMAIN used = {b.blockBeginIndex : b \in Used}
      /\ \A b \in Used : used[b.blockBeginIndex] = b
  BY <1>1, <1>2
<1>5. /\ DOMAIN fb = {b.blockBeginIndex : b \in Free2}
      /\ \A b \in Free2 : fb[b.blockBeginIndex] = b
  BY <1>1, <1>2, <1>3
<1>6. /\ DOMAIN fe = {EndOf(b) : b \in Free2}
      /\ \A b \in Free2 : fe[EndOf(b)] = b
  BY <1>1, <1>2, <1>3
<1> QED BY <1>1, <1>4, <1>5, <1>6 DEF MapsMatchFile

\* The file, the object's maps and the locals of allocate and LoadStorageFile
\* stay within their types.
THEOREM StorageTyped == Spec => []TypeOK
BY IInvHolds, TypesHold, PTL

\* The headers lead from the first block to the end of the file, each naming its
\* own position, for every size of the file: LoadStorageFile comes by all the blocks
\* and stops at the end, unless the file is torn: by a split whose second write is
\* missing, or by a head that has never been written.
THEOREM BlocksTileFile == Spec => []BlocksTile
BY IInvHolds, BlocksTileHolds, PTL

\* The three maps and m_FixedHead of an object at rest say what the file says,
\* loaded or kept up to date by allocate and Free, as long as the file is not torn.
THEOREM MapsTrue == Spec => []MapsMatchFile
BY IInvHolds, MapsMatchFileHolds, PTL

\* No free block is beside another or last in the file: the two merges and the
\* cut in Free leave none, and a load of a file that is not torn brings none back.
THEOREM FreeMerged == Spec => []FreeSpaceMerged
BY IInvHolds, FreeSpaceMergedHolds, PTL

\* A block stays the client's, with its length and contents, until it frees it,
\* across all that happens to other blocks, and across the failures and restarts
\* that do not leave the file torn.
THEOREM KeptSafe == Spec => []KeptSurvives
BY IInvHolds, KeptSurvivesHolds, PTL
=============================================================================
