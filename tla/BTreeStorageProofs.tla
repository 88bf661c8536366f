------------------------ MODULE BTreeStorageProofs --------------------------
(***************************************************************************)
(* The second file allocator keeps the file tiled, and what was stored in  *)
(* a block is loaded, for every size of the file and of the blocks.        *)
(***************************************************************************)
EXTENDS BTreeStorage, FiniteSetTheorems, SequenceTheorems, WellFoundedInduction, TLAPS

\* What is assumed of the constants: no block is empty.
SomeSizes == Sizes \subseteq Nat \ {0} /\ MaxEnd \in Nat

-----------------------------------------------------------------------------
(* Blocks that tile the file.                                              *)

AllBlocks == [beginIndex : Nat, blockSize : Nat \ {0}]
Apart(a, b) == EndOf(a) <= b.beginIndex \/ EndOf(b) <= a.beginIndex

\* The blocks S fill the file up to end, each unit once.
Tiles(end, S) ==
    /\ end \in Nat
    /\ S \subseteq AllBlocks
    /\ \A b \in S : EndOf(b) <= end
    /\ \A a, b \in S : a # b => Apart(a, b)
    /\ \A i \in 0 .. end - 1 : \E b \in S : b.beginIndex <= i /\ i < EndOf(b)

LEMMA BlockIs ==
    ASSUME NEW b \in AllBlocks
    PROVE  /\ b.beginIndex \in Nat /\ b.blockSize \in Nat /\ b.blockSize > 0 /\ EndOf(b) = b.beginIndex + b.blockSize
           /\ EndOf(b) \in Nat /\ b.beginIndex < EndOf(b)
  BY DEF AllBlocks, EndOf

LEMMA BlockOf ==
    ASSUME NEW begin \in Nat, NEW size \in Nat, size > 0
    PROVE  /\ Block(begin, size) \in AllBlocks /\ Block(begin, size).beginIndex = begin
           /\ Block(begin, size).blockSize = size /\ EndOf(Block(begin, size)) = begin + size
  BY DEF AllBlocks, Block, EndOf

\* Where a block of a tiling begins, or ends, tells which it is.
LEMMA WhichBlock ==
    ASSUME NEW end, NEW S, Tiles(end, S), NEW a \in S, NEW b \in S
    PROVE  /\ a.beginIndex = b.beginIndex => a = b
           /\ EndOf(a) = EndOf(b) => a = b
<1>1. a \in AllBlocks /\ b \in AllBlocks /\ (a # b => Apart(a, b))
  BY DEF Tiles
<1>2. /\ a.beginIndex \in Nat /\ EndOf(a) \in Nat /\ a.beginIndex < EndOf(a)
      /\ b.beginIndex \in Nat /\ EndOf(b) \in Nat /\ b.beginIndex < EndOf(b)
  BY <1>1, BlockIs
<1> QED BY <1>1, <1>2 DEF Apart

\* A unit is in one block only.
LEMMA OneBlock ==
    ASSUME NEW end, NEW S, Tiles(end, S), NEW a \in S, NEW b \in S, NEW i \in Int,
           a.beginIndex <= i, i < EndOf(a), b.beginIndex <= i, i < EndOf(b)
    PROVE  a = b
<1>1. a \in AllBlocks /\ b \in AllBlocks /\ (a # b => Apart(a, b))
  BY DEF Tiles
<1>2. a.beginIndex \in Int /\ EndOf(a) \in Int /\ b.beginIndex \in Int /\ EndOf(b) \in Int
  BY <1>1, BlockIs
<1> QED BY <1>1, <1>2 DEF Apart

\* Two blocks that touch, made one.
LEMMA TilesMerge ==
    ASSUME NEW end, NEW S, Tiles(end, S), NEW b \in S, NEW c \in S, EndOf(b) = c.beginIndex,
           NEW d, d = Block(b.beginIndex, b.blockSize + c.blockSize)
    PROVE  Tiles(end, (S \ {b, c}) \cup {d}) /\ d \notin S \ {b, c}
<1>1. b \in AllBlocks /\ c \in AllBlocks /\ end \in Nat
  BY DEF Tiles
<1>2. /\ b.beginIndex \in Nat /\ b.blockSize \in Nat /\ b.blockSize > 0 /\ EndOf(b) = b.beginIndex + b.blockSize
      /\ c.beginIndex \in Nat /\ c.blockSize \in Nat /\ c.blockSize > 0 /\ EndOf(c) = c.beginIndex + c.blockSize
      /\ EndOf(c) <= end
  BY <1>1, BlockIs DEF Tiles
<1>3. /\ d \in AllBlocks /\ d.beginIndex = b.beginIndex /\ EndOf(d) = b.beginIndex + (b.blockSize + c.blockSize)
  <2>1. b.blockSize + c.blockSize \in Nat /\ b.blockSize + c.blockSize > 0
    BY <1>2
  <2> QED BY <1>2, <2>1, BlockOf
<1>4. EndOf(d) = EndOf(c) /\ EndOf(b) = c.beginIndex /\ EndOf(b) \in Nat /\ EndOf(c) \in Nat
  <2> DEFINE x == b.beginIndex
             y == b.blockSize
             z == c.blockSize
  <2>1. x \in Nat /\ y \in Nat /\ z \in Nat /\ EndOf(d) = x + (y + z) /\ EndOf(c) = (x + y) + z
        /\ EndOf(b) = x + y /\ EndOf(b) = c.beginIndex
    BY <1>2, <1>3
  <2> HIDE DEF x, y, z
  <2>2. x + (y + z) = (x + y) + z /\ (x + y) + z \in Nat /\ x + y \in Nat
    BY <2>1
  <2> QED BY <2>1, <2>2
<1>5. ASSUME NEW a \in S \ {b, c} PROVE Apart(a, d) /\ Apart(d, a)
  <2>1. a \in AllBlocks /\ Apart(a, b) /\ Apart(a, c)
    BY DEF Tiles
  <2>2. a.beginIndex \in Nat /\ EndOf(a) \in Nat /\ a.beginIndex < EndOf(a)
    BY <2>1, BlockIs
  <2>3. EndOf(a) <= b.beginIndex \/ EndOf(c) <= a.beginIndex
    <3>1. EndOf(a) <= b.beginIndex \/ EndOf(b) <= a.beginIndex
      BY <2>1 DEF Apart
    <3>2. EndOf(a) <= c.beginIndex \/ EndOf(c) <= a.beginIndex
      BY <2>1 DEF Apart
    <3> QED BY <3>1, <3>2, <2>2, <1>2, <1>4
  <2> QED BY <2>3, <1>3, <1>4 DEF Apart
<1>6. d \notin S \ {b, c}
  <2>1. b.beginIndex < EndOf(d) /\ d.beginIndex \in Nat /\ EndOf(d) \in Nat
    BY <1>2, <1>3
  <2>2. ~Apart(d, d)
    BY <2>1, <1>3 DEF Apart
  <2> QED BY <1>5, <2>2
<1>7. ASSUME NEW i \in 0 .. end - 1
      PROVE  \E a \in (S \ {b, c}) \cup {d} : a.beginIndex <= i /\ i < EndOf(a)
  <2>1. PICK a \in S : a.beginIndex <= i /\ i < EndOf(a)
    BY DEF Tiles
  <2>2. CASE a \notin {b, c}
    BY <2>1, <2>2
  <2>3. CASE a \in {b, c}
    <3>1. d.beginIndex <= i /\ i < EndOf(d)
      <4>1. i \in Int
        OBVIOUS
      <4>2. CASE a = b
        BY <2>1, <4>1, <4>2, <1>2, <1>3
      <4>3. CASE a = c
        <5>1. d.beginIndex = b.beginIndex /\ b.beginIndex < c.beginIndex /\ b.beginIndex \in Int /\ c.beginIndex \in Int
          BY <1>2, <1>3
        <5> QED BY <2>1, <4>1, <4>3, <5>1, <1>4
      <4> QED BY <2>3, <4>2, <4>3
    <3> QED BY <3>1
  <2> QED BY <2>2, <2>3
<1>8. /\ (S \ {b, c}) \cup {d} \subseteq AllBlocks
      /\ \A a \in (S \ {b, c}) \cup {d} : EndOf(a) <= end
  BY <1>2, <1>3, <1>4 DEF Tiles
<1>9. \A a, g \in (S \ {b, c}) \cup {d} : a # g => Apart(a, g)
  BY <1>5 DEF Tiles
<1> QED BY <1>1, <1>6, <1>7, <1>8, <1>9 DEF Tiles

\* The last block, given back.
LEMMA TilesCut ==
    ASSUME NEW end, NEW S, Tiles(end, S), NEW b \in S, EndOf(b) >= end
    PROVE  Tiles(b.beginIndex, S \ {b}) /\ b.beginIndex <= end
<1>1. b \in AllBlocks /\ end \in Nat /\ EndOf(b) <= end
  BY DEF Tiles
<1>2. b.beginIndex \in Nat /\ EndOf(b) \in Nat /\ b.beginIndex < EndOf(b) /\ EndOf(b) = end
  BY <1>1, BlockIs
<1>3. ASSUME NEW a \in S \ {b} PROVE EndOf(a) <= b.beginIndex
  <2>1. a \in AllBlocks /\ Apart(a, b) /\ EndOf(a) <= end
    BY DEF Tiles
  <2>2. a.beginIndex \in Nat /\ EndOf(a) \in Nat /\ a.beginIndex < EndOf(a)
    BY <2>1, BlockIs
  <2> QED BY <2>1, <2>2, <1>1, <1>2 DEF Apart
<1>4. ASSUME NEW i \in 0 .. b.beginIndex - 1
      PROVE  \E a \in S \ {b} : a.beginIndex <= i /\ i < EndOf(a)
  <2>1. i \in 0 .. end - 1 /\ i < b.beginIndex /\ i \in Int
    BY <1>1, <1>2
  <2>2. PICK a \in S : a.beginIndex <= i /\ i < EndOf(a)
    BY <2>1 DEF Tiles
  <2>3. a # b
    BY <2>1, <2>2, <1>2
  <2> QED BY <2>2, <2>3
<1>5. S \ {b} \subseteq AllBlocks /\ \A a, g \in S \ {b} : a # g => Apart(a, g)
  BY DEF Tiles
<1> QED BY <1>1, <1>2, <1>3, <1>4, <1>5 DEF Tiles

\* A block behind the last.
LEMMA TilesGrow ==
    ASSUME NEW end, NEW S, Tiles(end, S), NEW n \in Nat, n > 0
    PROVE  Tiles(end + n, S \cup {Block(end, n)}) /\ Block(end, n) \notin S
<1> DEFINE d == Block(end, n)
<1>1. end \in Nat
  BY DEF Tiles
<1>2. d \in AllBlocks /\ d.beginIndex = end /\ EndOf(d) = end + n
  BY <1>1, BlockOf
<1> HIDE DEF d
<1>3. ASSUME NEW a \in S PROVE Apart(a, d) /\ Apart(d, a) /\ a # d /\ EndOf(a) <= end + n
  <2>1. a \in AllBlocks /\ EndOf(a) <= end
    BY DEF Tiles
  <2>2. EndOf(a) \in Nat
    BY <2>1, BlockIs
  <2>3. EndOf(a) <= end + n /\ EndOf(d) > end
    BY <1>1, <1>2, <2>1, <2>2
  <2>4. a # d
    BY <1>1, <2>1, <2>2, <2>3
  <2> QED BY <1>2, <2>1, <2>3, <2>4 DEF Apart
<1>4. ASSUME NEW i \in 0 .. (end + n) - 1
      PROVE  \E a \in S \cup {d} : a.beginIndex <= i /\ i < EndOf(a)
  <2>1. CASE i < end
    <3>1. i \in 0 .. end - 1
      BY <1>1, <2>1
    <3> QED BY <3>1 DEF Tiles
  <2>2. CASE ~(i < end)
    <3>1. d.beginIndex <= i /\ i < EndOf(d)
      BY <1>1, <1>2, <2>2
    <3> QED BY <3>1
  <2> QED BY <2>1, <2>2
<1>5. \A a, g \in S \cup {d} : a # g => Apart(a, g)
  BY <1>3 DEF Tiles
<1>6. end + n \in Nat /\ S \cup {d} \subseteq AllBlocks /\ \A a \in S \cup {d} : EndOf(a) <= end + n
  <2>1. end + n \in Nat /\ EndOf(d) <= end + n
    BY <1>1, <1>2
  <2> QED BY <1>2, <1>3, <2>1 DEF Tiles
<1>7. Tiles(end + n, S \cup {d})
  BY <1>4, <1>5, <1>6 DEF Tiles
<1> QED BY <1>3, <1>7 DEF d

-----------------------------------------------------------------------------
(* The two maps.                                                           *)

\* The fields of an open storage.
IsSpace(s) ==
    \E o, end, f, g, y : s = [open |-> o, EndIndex |-> end, Begin |-> f, End |-> g, stray |-> y]

\* The maps lead to the blocks F.
Maps(s, F) ==
    /\ DOMAIN s.Begin = {b.beginIndex : b \in F} /\ \A b \in F : s.Begin[b.beginIndex] = b
    /\ DOMAIN s.End = {EndOf(b) : b \in F} /\ \A b \in F : s.End[EndOf(b)] = b

\* The free blocks F of the maps and the blocks X tile the file.
Parted(s, F, X) == IsSpace(s) /\ Maps(s, F) /\ Tiles(s.EndIndex, F \cup X) /\ F \cap X = {}

\* What changes of the fields leave.
LEMMA MapsSet ==
    ASSUME NEW s, IsSpace(s), NEW f, NEW g
    PROVE  [s EXCEPT !.Begin = f, !.End = g]
           = [open |-> s.open, EndIndex |-> s.EndIndex, Begin |-> f, End |-> g, stray |-> s.stray]
<1>1. PICK o, e, a, b, z : s = [open |-> o, EndIndex |-> e, Begin |-> a, End |-> b, stray |-> z]
  BY DEF IsSpace
<1>2. s.EndIndex = e /\ s.stray = z /\ s.open = o
  BY <1>1
<1> DEFINE t == [s EXCEPT !.Begin = f]
<1>3. t = [open |-> o, EndIndex |-> e, Begin |-> f, End |-> b, stray |-> z]
  BY <1>1
<1> HIDE DEF t
<1>4. [t EXCEPT !.End = g] = [open |-> o, EndIndex |-> e, Begin |-> f, End |-> g, stray |-> z]
  BY <1>3
<1>5. [s EXCEPT !.Begin = f, !.End = g] = [t EXCEPT !.End = g]
  BY DEF t
<1> QED BY <1>2, <1>4, <1>5

LEMMA StraySet ==
    ASSUME NEW s, IsSpace(s), NEW y
    PROVE  [s EXCEPT !.stray = y]
           = [open |-> s.open, EndIndex |-> s.EndIndex, Begin |-> s.Begin, End |-> s.End, stray |-> y]
<1>1. PICK o, e, a, b, z : s = [open |-> o, EndIndex |-> e, Begin |-> a, End |-> b, stray |-> z]
  BY DEF IsSpace
<1>2. s.EndIndex = e /\ s.Begin = a /\ s.End = b /\ s.open = o
  BY <1>1
<1>3. [s EXCEPT !.stray = y] = [open |-> o, EndIndex |-> e, Begin |-> a, End |-> b, stray |-> y]
  BY <1>1
<1> QED BY <1>2, <1>3

LEMMA EndSet ==
    ASSUME NEW s, IsSpace(s), NEW end
    PROVE  [s EXCEPT !.EndIndex = end]
           = [open |-> s.open, EndIndex |-> end, Begin |-> s.Begin, End |-> s.End, stray |-> s.stray]
<1>1. PICK o, e, a, b, z : s = [open |-> o, EndIndex |-> e, Begin |-> a, End |-> b, stray |-> z]
  BY DEF IsSpace
<1>2. s.stray = z /\ s.Begin = a /\ s.End = b /\ s.open = o
  BY <1>1
<1>3. [s EXCEPT !.EndIndex = end] = [open |-> o, EndIndex |-> end, Begin |-> a, End |-> b, stray |-> z]
  BY <1>1
<1> QED BY <1>2, <1>3

\* A record of these fields is a storage.
LEMMA SpaceFields ==
    ASSUME NEW o, NEW end, NEW f, NEW g, NEW y, NEW t,
           t = [open |-> o, EndIndex |-> end, Begin |-> f, End |-> g, stray |-> y]
    PROVE  IsSpace(t) /\ t.EndIndex = end /\ t.Begin = f /\ t.End = g /\ t.stray = y /\ t.open = o
<1>1. t.EndIndex = end /\ t.Begin = f /\ t.End = g /\ t.stray = y /\ t.open = o
  OBVIOUS
<1>2. IsSpace(t)
  BY DEF IsSpace
<1> QED BY <1>1, <1>2

\* A free block, taken out of the maps.
LEMMA ErasedIs ==
    ASSUME NEW s, NEW F, NEW X, Parted(s, F, X), NEW c \in F,
           NEW t, t = [open |-> s.open, EndIndex |-> s.EndIndex, Begin |-> Erase(s.Begin, c.beginIndex),
                       End |-> Erase(s.End, EndOf(c)), stray |-> s.stray]
    PROVE  IsSpace(t) /\ Maps(t, F \ {c}) /\ t.EndIndex = s.EndIndex /\ t.stray = s.stray
<1>1. IsSpace(s) /\ Maps(s, F) /\ Tiles(s.EndIndex, F \cup X)
  BY DEF Parted
<1>3. IsSpace(t) /\ t.EndIndex = s.EndIndex /\ t.stray = s.stray
      /\ t.Begin = Erase(s.Begin, c.beginIndex) /\ t.End = Erase(s.End, EndOf(c))
  BY SpaceFields
<1>4. \A b \in F : (b.beginIndex = c.beginIndex => b = c) /\ (EndOf(b) = EndOf(c) => b = c)
  BY <1>1, WhichBlock
<1>5. DOMAIN t.Begin = DOMAIN s.Begin \ {c.beginIndex} /\ \A p \in DOMAIN t.Begin : t.Begin[p] = s.Begin[p]
  BY <1>3 DEF Erase, Restrict
<1>6. DOMAIN t.End = DOMAIN s.End \ {EndOf(c)} /\ \A p \in DOMAIN t.End : t.End[p] = s.End[p]
  BY <1>3 DEF Erase, Restrict
<1>7. {b.beginIndex : b \in F} \ {c.beginIndex} = {b.beginIndex : b \in F \ {c}}
  BY <1>4
<1>8. {EndOf(b) : b \in F} \ {EndOf(c)} = {EndOf(b) : b \in F \ {c}}
  BY <1>4
<1>9. Maps(t, F \ {c})
  BY <1>1, <1>5, <1>6, <1>7, <1>8 DEF Maps
<1> QED BY <1>3, <1>9

\* A block, entered into the maps.
LEMMA EnteredIs ==
    ASSUME NEW s, NEW F, NEW X, NEW c, Parted(s, F, X \cup {c}),
           NEW t, t = [open |-> s.open, EndIndex |-> s.EndIndex, Begin |-> Entered(s.Begin, c.beginIndex, c),
                       End |-> Entered(s.End, EndOf(c), c), stray |-> s.stray]
    PROVE  IsSpace(t) /\ Maps(t, F \cup {c}) /\ t.EndIndex = s.EndIndex /\ t.stray = s.stray
<1>1. IsSpace(s) /\ Maps(s, F) /\ Tiles(s.EndIndex, F \cup (X \cup {c}))
  BY DEF Parted
<1>3. IsSpace(t) /\ t.EndIndex = s.EndIndex /\ t.stray = s.stray
      /\ t.Begin = Entered(s.Begin, c.beginIndex, c) /\ t.End = Entered(s.End, EndOf(c), c)
  BY SpaceFields
<1>4. \A b \in F : (b.beginIndex = c.beginIndex => b = c) /\ (EndOf(b) = EndOf(c) => b = c)
  BY <1>1, WhichBlock
<1>5. /\ DOMAIN t.Begin = DOMAIN s.Begin \cup {c.beginIndex}
      /\ \A p \in DOMAIN t.Begin : t.Begin[p] = IF p = c.beginIndex THEN c ELSE s.Begin[p]
  BY <1>3 DEF Entered
<1>6. /\ DOMAIN t.End = DOMAIN s.End \cup {EndOf(c)}
      /\ \A p \in DOMAIN t.End : t.End[p] = IF p = EndOf(c) THEN c ELSE s.End[p]
  BY <1>3 DEF Entered
<1>7. {b.beginIndex : b \in F} \cup {c.beginIndex} = {b.beginIndex : b \in F \cup {c}}
  OBVIOUS
<1>8. {EndOf(b) : b \in F} \cup {EndOf(c)} = {EndOf(b) : b \in F \cup {c}}
  OBVIOUS
<1>9. ASSUME NEW b \in F \cup {c} PROVE t.Begin[b.beginIndex] = b /\ t.End[EndOf(b)] = b
  <2>1. b.beginIndex \in DOMAIN t.Begin /\ EndOf(b) \in DOMAIN t.End
    BY <1>1, <1>5, <1>6 DEF Maps
  <2>2. CASE b = c
    BY <2>1, <2>2, <1>5, <1>6
  <2>3. CASE b # c
    <3>1. b \in F /\ b.beginIndex # c.beginIndex /\ EndOf(b) # EndOf(c)
      BY <2>3, <1>4
    <3> QED BY <2>1, <3>1, <1>1, <1>5, <1>6 DEF Maps
  <2> QED BY <2>2, <2>3
<1>10. Maps(t, F \cup {c})
  BY <1>1, <1>5, <1>6, <1>7, <1>8, <1>9 DEF Maps
<1> QED BY <1>3, <1>10

\* FreeBlock, without the block in front: that merger is always a stray one.
LEMMA MergedFrontIs ==
    ASSUME NEW s, IsSpace(s), NEW b \in AllBlocks, s.stray \in BOOLEAN
    PROVE  LET m == MergedFront(s, b)
           IN  IsSpace(m.s) /\ m.s.stray \in BOOLEAN /\ (m = [s |-> s, b |-> b] \/ m.s.stray)
<1> DEFINE key == FrontKey(b)
           r == [s EXCEPT !.Begin = Erase(@, s.End[key].beginIndex), !.End = Erase(@, key), !.stray = key # b.beginIndex]
<1>1. key # b.beginIndex
  BY BlockIs DEF FrontKey
<1>2. IsSpace(r) /\ r.stray
  <2> HIDE DEF key
  <2> DEFINE f == Erase(s.Begin, s.End[key].beginIndex)
             g == Erase(s.End, key)
             u == [s EXCEPT !.Begin = f, !.End = g]
  <2>1. r = [u EXCEPT !.stray = key # b.beginIndex]
    OBVIOUS
  <2> HIDE DEF f, g
  <2>2. IsSpace(u)
    <3>1. u = [open |-> s.open, EndIndex |-> s.EndIndex, Begin |-> f, End |-> g, stray |-> s.stray]
      BY MapsSet
    <3> HIDE DEF u
    <3> QED BY <3>1, SpaceFields
  <2> DEFINE y == key # b.beginIndex
  <2> HIDE DEF u, y
  <2>3. IsSpace([u EXCEPT !.stray = y]) /\ [u EXCEPT !.stray = y].stray = y
    <3> DEFINE w == [u EXCEPT !.stray = y]
    <3>1. w = [open |-> u.open, EndIndex |-> u.EndIndex, Begin |-> u.Begin, End |-> u.End, stray |-> y]
      BY <2>2, StraySet
    <3> HIDE DEF w
    <3>2. IsSpace(w) /\ w.stray = y
      BY <3>1, SpaceFields
    <3> QED BY <3>2 DEF w
  <2>4. IsSpace(r) /\ r.stray = y
    BY <2>1, <2>3 DEF y
  <2> HIDE DEF r
  <2> QED BY <1>1, <2>4 DEF y
<1> QED BY <1>2 DEF MergedFront

LEMMA MergedBackIs ==
    ASSUME NEW s, NEW F, NEW X, NEW b, b \notin X, Parted(s, F, X \cup {b})
    PROVE  /\ MergedBack(s, b).s.EndIndex = s.EndIndex /\ MergedBack(s, b).b \notin X
           /\ \E G : Parted(MergedBack(s, b).s, G, X \cup {MergedBack(s, b).b})
<1>1. CASE EndOf(b) \notin DOMAIN s.Begin
  BY <1>1 DEF MergedBack
<1>2. CASE EndOf(b) \in DOMAIN s.Begin
  <2> DEFINE c == s.Begin[EndOf(b)]
             d == Block(b.beginIndex, b.blockSize + c.blockSize)
             t == [s EXCEPT !.Begin = Erase(@, EndOf(b)), !.End = Erase(@, EndOf(c))]
             S == F \cup (X \cup {b})
  <2>1. IsSpace(s) /\ Maps(s, F) /\ Tiles(s.EndIndex, S) /\ F \cap (X \cup {b}) = {}
    BY DEF Parted
  <2>2. c \in F /\ c.beginIndex = EndOf(b)
    BY <1>2, <2>1 DEF Maps
  <2>3. IsSpace(t) /\ Maps(t, F \ {c}) /\ t.EndIndex = s.EndIndex /\ t.stray = s.stray
    <3> DEFINE f == Erase(s.Begin, EndOf(b))
               g == Erase(s.End, EndOf(c))
    <3>1. t = [s EXCEPT !.Begin = f, !.End = g]
      OBVIOUS
    <3> HIDE DEF f, g
    <3>2. t = [open |-> s.open, EndIndex |-> s.EndIndex, Begin |-> f, End |-> g, stray |-> s.stray]
      BY <2>1, <3>1, MapsSet
    <3> HIDE DEF t, c
    <3>3. f = Erase(s.Begin, c.beginIndex) /\ g = Erase(s.End, EndOf(c))
      BY <2>2 DEF f, g
    <3> HIDE DEF f, g
    <3>4. t = [open |-> s.open, EndIndex |-> s.EndIndex, Begin |-> Erase(s.Begin, c.beginIndex),
               End |-> Erase(s.End, EndOf(c)), stray |-> s.stray]
      BY <3>2, <3>3
    <3> QED BY <2>2, <3>4, ErasedIs
  <2>4. Tiles(s.EndIndex, (S \ {b, c}) \cup {d}) /\ d \notin S \ {b, c}
    <3> HIDE DEF c, d, S
    <3>1. b \in S /\ c \in S
      BY <2>2 DEF S
    <3> QED BY <2>1, <2>2, <3>1, TilesMerge DEF d
  <2>5. d.beginIndex = b.beginIndex
    BY DEF Block
  <2> HIDE DEF c, d, t
  <2>6. (S \ {b, c}) \cup {d} = (F \ {c}) \cup (X \cup {d}) /\ (F \ {c}) \cap (X \cup {d}) = {} /\ d \notin X
    BY <2>1, <2>2, <2>4
  <2> HIDE DEF S
  <2>7. Parted(t, F \ {c}, X \cup {d})
    BY <2>3, <2>4, <2>6 DEF Parted
  <2>8. MergedBack(s, b) = [s |-> t, b |-> d]
    BY <1>2 DEF MergedBack, t, c, d
  <2> QED BY <2>3, <2>5, <2>6, <2>7, <2>8
<1> QED BY <1>1, <1>2

LEMMA RecordedIs ==
    ASSUME NEW s, NEW F, NEW X, NEW b, b \notin X, Parted(s, F, X \cup {b})
    PROVE  /\ Recorded(s, b).stray = s.stray
           /\ Recorded(s, b).EndIndex <= s.EndIndex
           /\ \E G : Parted(Recorded(s, b), G, X)
<1> DEFINE S == F \cup (X \cup {b})
           end == s.EndIndex
<1>1. IsSpace(s) /\ Maps(s, F) /\ Tiles(end, S) /\ F \cap (X \cup {b}) = {}
  BY DEF Parted
<1>2. b \in AllBlocks /\ end \in Nat
  BY <1>1 DEF Tiles
<1>3. CASE EndOf(b) >= end
  <2> DEFINE t == [s EXCEPT !.EndIndex = b.beginIndex]
  <2>1. Recorded(s, b) = t
    BY <1>3 DEF Recorded
  <2>2. IsSpace(t) /\ t.EndIndex = b.beginIndex /\ t.stray = s.stray /\ t.Begin = s.Begin /\ t.End = s.End
    <3>1. t = [open |-> s.open, EndIndex |-> b.beginIndex, Begin |-> s.Begin, End |-> s.End, stray |-> s.stray]
      BY <1>1, EndSet
    <3> HIDE DEF t
    <3> QED BY <3>1, SpaceFields
  <2>3. Tiles(b.beginIndex, S \ {b}) /\ b.beginIndex <= end
    <3> HIDE DEF end
    <3>1. b \in S
      OBVIOUS
    <3> HIDE DEF S
    <3> QED BY <1>1, <1>3, <3>1, TilesCut
  <2>4. S \ {b} = F \cup X /\ F \cap X = {}
    BY <1>1
  <2> HIDE DEF t, S
  <2>5. Maps(t, F)
    BY <1>1, <2>2 DEF Maps
  <2>6. Parted(t, F, X)
    BY <2>2, <2>3, <2>4, <2>5 DEF Parted
  <2> QED BY <2>1, <2>2, <2>3, <2>6
<1>4. CASE ~(EndOf(b) >= end)
  <2> DEFINE t == [s EXCEPT !.Begin = Entered(@, b.beginIndex, b), !.End = Entered(@, EndOf(b), b)]
  <2>1. Recorded(s, b) = t
    BY <1>4 DEF Recorded
  <2>2. IsSpace(t) /\ Maps(t, F \cup {b}) /\ t.EndIndex = end /\ t.stray = s.stray
    <3> DEFINE f == Entered(s.Begin, b.beginIndex, b)
               g == Entered(s.End, EndOf(b), b)
    <3>1. t = [s EXCEPT !.Begin = f, !.End = g]
      OBVIOUS
    <3> HIDE DEF f, g
    <3>2. t = [open |-> s.open, EndIndex |-> s.EndIndex, Begin |-> f, End |-> g, stray |-> s.stray]
      BY <1>1, <3>1, MapsSet
    <3> HIDE DEF t
    <3>3. t = [open |-> s.open, EndIndex |-> s.EndIndex, Begin |-> Entered(s.Begin, b.beginIndex, b),
               End |-> Entered(s.End, EndOf(b), b), stray |-> s.stray]
      BY <3>2 DEF f, g
    <3> QED BY <3>3, EnteredIs
  <2>3. S = (F \cup {b}) \cup X /\ (F \cup {b}) \cap X = {}
    BY <1>1
  <2> HIDE DEF t, S
  <2>4. Parted(t, F \cup {b}, X)
    BY <1>1, <2>2, <2>3 DEF Parted
  <2>5. end <= end
    BY <1>2
  <2> QED BY <2>1, <2>2, <2>4, <2>5
<1> QED BY <1>3, <1>4

\* What is done to a storage leaves it one, and leaves what the history says of it.
LEMMA MergedBackKeeps ==
    ASSUME NEW s, NEW b, IsSpace(s)
    PROVE  IsSpace(MergedBack(s, b).s) /\ MergedBack(s, b).s.stray = s.stray
<1>1. CASE EndOf(b) \notin DOMAIN s.Begin
  BY <1>1 DEF MergedBack
<1>2. CASE EndOf(b) \in DOMAIN s.Begin
  <2> DEFINE f == Erase(s.Begin, EndOf(b))
             g == Erase(s.End, EndOf(s.Begin[EndOf(b)]))
             t == [s EXCEPT !.Begin = f, !.End = g]
  <2>1. MergedBack(s, b).s = t
    BY <1>2 DEF MergedBack
  <2> HIDE DEF f, g
  <2>2. IsSpace(t) /\ t.stray = s.stray
    <3>1. t = [s EXCEPT !.Begin = f, !.End = g]
      OBVIOUS
    <3> HIDE DEF t
    <3>2. t = [open |-> s.open, EndIndex |-> s.EndIndex, Begin |-> f, End |-> g, stray |-> s.stray]
      BY <3>1, MapsSet
    <3> QED BY <3>2, SpaceFields
  <2> QED BY <2>1, <2>2
<1> QED BY <1>1, <1>2

LEMMA RecordedKeeps ==
    ASSUME NEW s, NEW b, IsSpace(s)
    PROVE  IsSpace(Recorded(s, b)) /\ Recorded(s, b).stray = s.stray
<1>1. CASE EndOf(b) >= s.EndIndex
  <2>1. Recorded(s, b) = [open |-> s.open, EndIndex |-> b.beginIndex, Begin |-> s.Begin, End |-> s.End,
                          stray |-> s.stray]
    BY <1>1, EndSet DEF Recorded
  <2> QED BY <2>1, SpaceFields
<1>2. CASE ~(EndOf(b) >= s.EndIndex)
  <2> DEFINE f == Entered(s.Begin, b.beginIndex, b)
             g == Entered(s.End, EndOf(b), b)
             t == [s EXCEPT !.Begin = f, !.End = g]
  <2>1. Recorded(s, b) = t
    BY <1>2 DEF Recorded
  <2> HIDE DEF f, g
  <2>2. IsSpace(t) /\ t.stray = s.stray
    <3>1. t = [s EXCEPT !.Begin = f, !.End = g]
      OBVIOUS
    <3> HIDE DEF t
    <3>2. t = [open |-> s.open, EndIndex |-> s.EndIndex, Begin |-> f, End |-> g, stray |-> s.stray]
      BY <3>1, MapsSet
    <3> QED BY <3>2, SpaceFields
  <2> QED BY <2>1, <2>2
<1> QED BY <1>1, <1>2

\* A block given back: no block is lost and none is there twice, unless the
\* block was merged with one that it does not touch.
LEMMA FreeBlockIs ==
    ASSUME NEW s, NEW b \in AllBlocks, IsSpace(s), s.stray \in BOOLEAN
    PROVE  /\ IsSpace(FreeBlock(s, b)) /\ FreeBlock(s, b).stray \in BOOLEAN
           /\ ~FreeBlock(s, b).stray =>
                /\ ~s.stray
                /\ \A F, X : Parted(s, F, X \cup {b}) /\ b \notin X =>
                      /\ FreeBlock(s, b).EndIndex <= s.EndIndex
                      /\ \E G : Parted(FreeBlock(s, b), G, X)
<1> DEFINE front == MergedFront(s, b)
           back == MergedBack(front.s, front.b)
           r == Recorded(back.s, back.b)
<1>1. FreeBlock(s, b) = r
  BY DEF FreeBlock
<1>2. /\ IsSpace(front.s) /\ front.s.stray \in BOOLEAN
      /\ (front.s = s /\ front.b = b) \/ front.s.stray
  BY MergedFrontIs
<1> HIDE DEF front
<1>3. IsSpace(back.s) /\ back.s.stray = front.s.stray
  BY <1>2, MergedBackKeeps
<1>4. ASSUME ~front.s.stray, NEW F, NEW X, Parted(s, F, X \cup {b}), b \notin X
      PROVE  r.EndIndex <= s.EndIndex /\ \E G : Parted(r, G, X)
  <2>1. front.s = s /\ front.b = b
    BY <1>2, <1>4
  <2>2. /\ back.s.EndIndex = s.EndIndex /\ back.b \notin X
        /\ \E G : Parted(back.s, G, X \cup {back.b})
    <3>1. back = MergedBack(s, b)
      BY <2>1
    <3>2. /\ MergedBack(s, b).s.EndIndex = s.EndIndex /\ MergedBack(s, b).b \notin X
          /\ \E G : Parted(MergedBack(s, b).s, G, X \cup {MergedBack(s, b).b})
      BY <1>4, MergedBackIs
    <3> HIDE DEF back
    <3> QED BY <3>1, <3>2
  <2> HIDE DEF back
  <2>3. PICK G : Parted(back.s, G, X \cup {back.b})
    BY <2>2
  <2>4. r.EndIndex <= back.s.EndIndex /\ \E H : Parted(r, H, X)
    BY <2>2, <2>3, RecordedIs
  <2> QED BY <2>2, <2>4
<1> HIDE DEF back
<1>5. IsSpace(r) /\ r.stray = back.s.stray
  BY <1>3, RecordedKeeps
<1> HIDE DEF r
<1>6. ~front.s.stray => ~s.stray
  BY <1>2
<1>7. IsSpace(r) /\ r.stray \in BOOLEAN /\ r.stray = front.s.stray
  BY <1>2, <1>3, <1>5
<1> QED BY <1>1, <1>4, <1>6, <1>7

-----------------------------------------------------------------------------
(* The index file.                                                         *)

\* The least member of a set of numbers.
LEMMA Least ==
    ASSUME NEW U, U \subseteq Nat, U # {}
    PROVE  \E x \in U : \A y \in U : x <= y
<1>1. PICK x \in U : \A y \in U : ~(<<y, x>> \in OpToRel(<, Nat))
  BY WFMin, NatLessThanWellFounded
<1>2. ASSUME NEW y \in U PROVE x <= y
  <2>1. ~(<<y, x>> \in {s \in Nat \X Nat : s[1] < s[2]})
    BY <1>1 DEF OpToRel
  <2> QED BY <2>1
<1> QED BY <1>2

\* The records 1 to n of a file are the blocks F, each once.
Lists(file, n, F) ==
    /\ n \in Nat
    /\ F = {file[j + 1] : j \in 1 .. n}
    /\ \A i, j \in 1 .. n : i # j => file[i + 1] # file[j + 1]

\* The index file says that all is used by X but the blocks it lists.
Saved(file, X) ==
    \/ file = <<>> /\ X = {}
    \/ /\ file # <<>> /\ Len(file) \in Nat /\ file[1].EndIndex <= MaxEnd
       /\ Len(file) - 1 >= file[1].BlockNum
       /\ \E F : /\ Lists(file, file[1].BlockNum, F)
                 /\ Tiles(file[1].EndIndex, F \cup X) /\ F \cap X = {}

LEMMA FreshIs ==
    ASSUME NEW end, NEW X, Tiles(end, X)
    PROVE  /\ IsSpace(Fresh(end)) /\ Fresh(end).stray = FALSE /\ Fresh(end).EndIndex = end
           /\ Parted(Fresh(end), {}, X)
<1> DEFINE t == Fresh(end)
<1>1. t = [open |-> TRUE, EndIndex |-> end, Begin |-> NoMap, End |-> NoMap, stray |-> FALSE]
  BY DEF Fresh
<1> HIDE DEF t
<1>2. IsSpace(t) /\ t.EndIndex = end /\ t.Begin = NoMap /\ t.End = NoMap /\ t.stray = FALSE
  BY <1>1, SpaceFields
<1>3. DOMAIN NoMap = {}
  BY DEF NoMap
<1>4. Maps(t, {})
  BY <1>2, <1>3 DEF Maps
<1>5. {} \cup X = X /\ {} \cap X = {}
  OBVIOUS
<1>6. Parted(t, {}, X)
  BY <1>2, <1>4, <1>5 DEF Parted
<1> QED BY <1>2, <1>6 DEF t

\* The load, record by record.
Freeing(f, end, n, file) ==
    f = [k \in 0 .. n |-> IF k = 0 THEN Fresh(end) ELSE FreeBlock(f[k - 1], file[k + 1])]

LEMMA FreedExists ==
    ASSUME NEW end, NEW n \in Nat, NEW file
    PROVE  \E f : Freeing(f, end, n, file)
<1> DEFINE P(m) == \E f : f = [k \in 0 .. m |-> IF k = 0 THEN Fresh(end) ELSE FreeBlock(f[k - 1], file[k + 1])]
           Bad == {m \in 0 .. n : ~P(m)}
<1>1. P(0)
  <2> DEFINE f == [k \in 0 .. 0 |-> Fresh(end)]
  <2>1. f = [k \in 0 .. 0 |-> IF k = 0 THEN Fresh(end) ELSE FreeBlock(f[k - 1], file[k + 1])]
    OBVIOUS
  <2> QED BY <2>1
<1>2. ASSUME NEW m \in Nat, m > 0, P(m - 1) PROVE P(m)
  <2>1. PICK f : f = [k \in 0 .. m - 1 |-> IF k = 0 THEN Fresh(end) ELSE FreeBlock(f[k - 1], file[k + 1])]
    BY <1>2
  <2> DEFINE g == [k \in 0 .. m |-> IF k = m THEN FreeBlock(f[m - 1], file[m + 1]) ELSE f[k]]
  <2>2. ASSUME NEW k \in 0 .. m
        PROVE  g[k] = IF k = 0 THEN Fresh(end) ELSE FreeBlock(g[k - 1], file[k + 1])
    <3>1. CASE k = m
      BY <3>1, <1>2
    <3>2. CASE k # m
      BY <3>2, <2>1, <1>2
    <3> QED BY <3>1, <3>2
  <2>3. g = [k \in 0 .. m |-> g[k]]
    OBVIOUS
  <2>4. g = [k \in 0 .. m |-> IF k = 0 THEN Fresh(end) ELSE FreeBlock(g[k - 1], file[k + 1])]
    <3> HIDE DEF g
    <3> QED BY <2>2, <2>3
  <2> QED BY <2>4
<1> HIDE DEF P
<1>3. Bad = {}
  <2> SUFFICES ASSUME Bad # {} PROVE FALSE
    OBVIOUS
  <2>1. PICK m \in Bad : \A j \in Bad : m <= j
    <3>1. Bad \subseteq Nat
      OBVIOUS
    <3> HIDE DEF Bad
    <3> QED BY <3>1, Least
  <2>2. m # 0
    BY <1>1
  <2>3. m - 1 \notin Bad /\ m - 1 \in 0 .. n
    BY <2>1, <2>2
  <2> QED BY <2>1, <2>2, <2>3, <1>2
<1>4. P(n)
  BY <1>3
<1> QED BY <1>4 DEF P, Freeing

\* After k of n records: they are the free blocks, and the others are still
\* taken for used ones.
LEMMA FreedIs ==
    ASSUME NEW end, NEW n \in Nat, NEW file, NEW F, NEW X, Lists(file, n, F), Tiles(end, F \cup X), F \cap X = {},
           NEW f, Freeing(f, end, n, file)
    PROVE  /\ IsSpace(f[n]) /\ f[n].stray \in BOOLEAN
           /\ ~f[n].stray => f[n].EndIndex <= end /\ \E G : Parted(f[n], G, X)
<1> DEFINE Rest(k) == {file[j + 1] : j \in k + 1 .. n}
           Done(k) == /\ IsSpace(f[k]) /\ f[k].stray \in BOOLEAN
                      /\ ~f[k].stray => /\ f[k].EndIndex \in Int /\ f[k].EndIndex <= end
                                        /\ \E G : Parted(f[k], G, X \cup Rest(k))
           Bad == {k \in 0 .. n : ~Done(k)}
<1>0. /\ end \in Nat
      /\ \A k \in 0 .. n : f[k] = IF k = 0 THEN Fresh(end) ELSE FreeBlock(f[k - 1], file[k + 1])
  BY DEF Tiles, Freeing
<1>1. Done(0)
  <2>1. Rest(0) = F
    BY DEF Lists
  <2>2. f[0] = Fresh(end)
    BY <1>0
  <2>3. F \cup X = X \cup F
    OBVIOUS
  <2> HIDE DEF Rest
  <2>4. Parted(Fresh(end), {}, X \cup F) /\ IsSpace(Fresh(end)) /\ Fresh(end).stray = FALSE
        /\ Fresh(end).EndIndex = end
    BY <2>3, FreshIs
  <2>5. end \in Int /\ end <= end /\ X \cup F = X \cup Rest(0)
    BY <2>1, <1>0
  <2>6. f[0].EndIndex \in Int /\ f[0].EndIndex <= end /\ IsSpace(f[0]) /\ f[0].stray \in BOOLEAN
    BY <2>2, <2>4, <2>5
  <2>7. Parted(f[0], {}, X \cup Rest(0))
    BY <2>2, <2>4, <2>5
  <2> QED BY <2>6, <2>7
<1>2. ASSUME NEW k \in 1 .. n, Done(k - 1) PROVE Done(k)
  <2> DEFINE b == file[k + 1]
             s == f[k - 1]
  <2>1. f[k] = FreeBlock(s, b)
    BY <1>0
  <2>2. b \in F /\ b \in AllBlocks
    BY DEF Lists, Tiles
  <2>3. X \cup Rest(k - 1) = (X \cup Rest(k)) \cup {b}
    <3>1. (k - 1) + 1 .. n = {k} \cup (k + 1 .. n)
      OBVIOUS
    <3> QED BY <3>1
  <2>4. b \notin X \cup Rest(k)
    <3>1. b \notin X
      BY <2>2
    <3>2. \A j \in k + 1 .. n : j \in 1 .. n /\ j # k
      OBVIOUS
    <3>3. b \notin Rest(k)
      BY <3>2 DEF Lists
    <3> QED BY <3>1, <3>3
  <2> HIDE DEF Rest, b
  <2>5. /\ IsSpace(s) /\ s.stray \in BOOLEAN
        /\ ~s.stray => /\ s.EndIndex \in Int /\ s.EndIndex <= end
                       /\ \E G : Parted(s, G, (X \cup Rest(k)) \cup {b})
    BY <1>2, <2>3
  <2> HIDE DEF s
  <2>6. IsSpace(f[k]) /\ f[k].stray \in BOOLEAN /\ (~f[k].stray => ~s.stray)
    BY <2>1, <2>2, <2>5, FreeBlockIs
  <2>7. ASSUME ~f[k].stray
        PROVE  f[k].EndIndex \in Int /\ f[k].EndIndex <= end /\ \E G : Parted(f[k], G, X \cup Rest(k))
    <3>1. PICK G : Parted(s, G, (X \cup Rest(k)) \cup {b})
      BY <2>5, <2>6, <2>7
    <3>2. f[k].EndIndex <= s.EndIndex /\ \E H : Parted(f[k], H, X \cup Rest(k))
      <4> DEFINE Y == X \cup Rest(k)
      <4> HIDE DEF Y
      <4>1. Parted(s, G, Y \cup {b}) /\ b \notin Y
        BY <2>4, <3>1 DEF Y
      <4>2. ~FreeBlock(s, b).stray
        BY <2>1, <2>7
      <4>3. FreeBlock(s, b).EndIndex <= s.EndIndex /\ \E H : Parted(FreeBlock(s, b), H, Y)
        BY <2>2, <2>5, <4>1, <4>2, FreeBlockIs
      <4> QED BY <2>1, <4>3 DEF Y
    <3>3. f[k].EndIndex \in Int
      BY <3>2 DEF Parted, Tiles
    <3>4. f[k].EndIndex <= end
      BY <2>5, <2>6, <2>7, <3>2, <3>3, <1>0
    <3> QED BY <3>2, <3>3, <3>4
  <2> QED BY <2>6, <2>7
<1>3. Rest(n) = {}
  OBVIOUS
<1> HIDE DEF Done
<1>4. Bad = {}
  <2> SUFFICES ASSUME Bad # {} PROVE FALSE
    OBVIOUS
  <2>1. PICK m \in Bad : \A j \in Bad : m <= j
    <3>1. Bad \subseteq Nat
      OBVIOUS
    <3> HIDE DEF Bad
    <3> QED BY <3>1, Least
  <2>2. m # 0
    BY <1>1
  <2>3. m - 1 \notin Bad /\ m - 1 \in 0 .. n /\ m \in 1 .. n
    BY <2>1, <2>2
  <2> QED BY <2>1, <2>3, <1>2
<1>5. Done(n)
  BY <1>4
<1> HIDE DEF Rest
<1>6. X \cup Rest(n) = X
  BY <1>3
<1> QED BY <1>5, <1>6 DEF Done

LEMMA LoadedIs ==
    ASSUME SomeSizes, NEW X, Saved(index, X)
    PROVE  /\ IsSpace(Loaded) /\ Loaded.stray \in BOOLEAN
           /\ ~Loaded.stray => Loaded.EndIndex <= MaxEnd /\ \E G : Parted(Loaded, G, X)
<1>1. CASE index = <<>> /\ X = {}
  <2>1. Tiles(0, {})
    BY DEF Tiles
  <2>2. Loaded = Fresh(0)
    BY <1>1 DEF Loaded
  <2>3. 0 <= MaxEnd
    BY DEF SomeSizes
  <2> QED BY <1>1, <2>1, <2>2, <2>3, FreshIs
<1>2. CASE ~(index = <<>> /\ X = {})
  <2> DEFINE n == index[1].BlockNum
             end == index[1].EndIndex
  <2>1. /\ index # <<>> /\ Len(index) \in Nat /\ end <= MaxEnd /\ Len(index) - 1 >= n
        /\ \E F : Lists(index, n, F) /\ Tiles(end, F \cup X) /\ F \cap X = {}
    BY <1>2 DEF Saved
  <2>2. PICK F : Lists(index, n, F) /\ Tiles(end, F \cup X) /\ F \cap X = {}
    BY <2>1
  <2>3. n \in Nat /\ end \in Nat /\ MaxEnd \in Nat
    BY <2>2 DEF Lists, Tiles, SomeSizes
  <2>4. ~(Len(index) - 1 < n)
    BY <2>1, <2>3
  <2> DEFINE f == CHOOSE g : Freeing(g, end, n, index)
  <2>5. Loaded = f[n]
    BY <2>1, <2>4 DEF Loaded, Freeing
  <2>6. Freeing(f, end, n, index)
    <3> HIDE DEF end, n
    <3> QED BY <2>3, FreedExists
  <2> HIDE DEF f, n, end
  <2>7. /\ IsSpace(f[n]) /\ f[n].stray \in BOOLEAN
        /\ ~f[n].stray => f[n].EndIndex <= end /\ \E G : Parted(f[n], G, X)
    BY <2>2, <2>3, <2>6, FreedIs
  <2>8. ASSUME ~f[n].stray PROVE f[n].EndIndex <= MaxEnd
    <3>1. f[n].EndIndex \in Nat /\ f[n].EndIndex <= end
      BY <2>7, <2>8 DEF Parted, Tiles
    <3> QED BY <3>1, <2>1, <2>3
  <2> QED BY <2>5, <2>7, <2>8
<1> QED BY <1>1, <1>2

\* A head or a record of the index file.
Lines == AllBlocks \cup [BlockNum : Nat, EndIndex : Nat]

\* The free blocks are as many as their begins.
LEMMA FreeIs ==
    ASSUME NEW s, NEW F, NEW X, Parted(s, F, X)
    PROVE  /\ IsFiniteSet(F) /\ Cardinality(F) \in Nat /\ Cardinality(DOMAIN s.Begin) = Cardinality(F)
           /\ {s.Begin[p] : p \in DOMAIN s.Begin} = F
<1>1. Maps(s, F) /\ Tiles(s.EndIndex, F \cup X)
  BY DEF Parted
<1>2. \A p \in DOMAIN s.Begin : s.Begin[p] \in F /\ s.Begin[p].beginIndex = p
  BY <1>1 DEF Maps
<1>3. \A b \in F : b.beginIndex \in DOMAIN s.Begin /\ s.Begin[b.beginIndex] = b
  BY <1>1 DEF Maps
<1> DEFINE f == [p \in DOMAIN s.Begin |-> s.Begin[p]]
<1>4. f \in Bijection(DOMAIN s.Begin, F)
  <2>1. f \in [DOMAIN s.Begin -> F]
    BY <1>2
  <2>2. \A p, q \in DOMAIN s.Begin : f[p] = f[q] => p = q
    BY <1>2
  <2>3. \A b \in F : \E p \in DOMAIN s.Begin : f[p] = b
    BY <1>3
  <2> HIDE DEF f
  <2> QED BY <2>1, <2>2, <2>3 DEF Bijection, Injection, Surjection, IsInjective
<1>5. IsFiniteSet(DOMAIN s.Begin)
  <2>1. s.EndIndex \in Nat
    BY <1>1 DEF Tiles
  <2>2. \A b \in F : b.beginIndex \in Nat /\ b.beginIndex <= s.EndIndex
    <3> TAKE b \in F
    <3>1. b \in AllBlocks /\ EndOf(b) <= s.EndIndex
      BY <1>1 DEF Tiles
    <3> QED BY <2>1, <3>1, BlockIs
  <2>3. \A p \in DOMAIN s.Begin : p \in 0 .. s.EndIndex
    BY <1>2, <2>1, <2>2
  <2>4. DOMAIN s.Begin \in SUBSET (0 .. s.EndIndex)
    BY <2>3
  <2>5. IsFiniteSet(0 .. s.EndIndex)
    BY <2>1, FS_Interval
  <2> QED BY <2>4, <2>5, FS_Subset
<1>6. ExistsBijection(DOMAIN s.Begin, F)
  BY <1>4 DEF ExistsBijection
<1>7. IsFiniteSet(F) /\ Cardinality(F) = Cardinality(DOMAIN s.Begin)
  BY <1>5, <1>6, FS_Bijection
<1>8. Cardinality(F) \in Nat
  BY <1>7, FS_CardinalityType
<1> QED BY <1>2, <1>3, <1>7, <1>8

\* What SyncToIndexFile writes: each free block once.
LEMMA ImageIs ==
    ASSUME NEW s, NEW F, NEW X, Parted(s, F, X), NEW records \in Orders(s),
           NEW n, n = Cardinality(F), NEW image, image = Image(s, records)
    PROVE  /\ image \in Seq(Lines) /\ n \in Nat /\ Len(image) = n + 1
           /\ image[1].BlockNum = n /\ image[1].EndIndex = s.EndIndex
           /\ Lists(image, n, F)
<1>1. /\ IsFiniteSet(F) /\ n \in Nat /\ Cardinality(DOMAIN s.Begin) = n
      /\ Orders(s) = SetToSeqs(F)
  BY FreeIs DEF Orders
<1>2. F \subseteq AllBlocks /\ s.EndIndex \in Nat
  BY DEF Parted, Tiles
<1>3. records \in [1 .. n -> F] /\ \A i, j \in 1 .. n : i # j => records[i] # records[j]
  BY <1>1 DEF SetToSeqs
<1>4. \A b \in F : \E j \in 1 .. n : records[j] = b
  <2>1. records \in Injection(1 .. n, F)
    BY <1>3 DEF Injection, IsInjective
  <2>2. IsFiniteSet(1 .. n) /\ Cardinality(1 .. n) = n
    BY <1>1, FS_Interval
  <2>3. records \in Surjection(1 .. n, F)
    BY <1>1, <2>1, <2>2, FS_Injection
  <2> QED BY <2>3 DEF Surjection
<1> DEFINE head == [BlockNum |-> n, EndIndex |-> s.EndIndex]
<1>5. head \in Lines /\ head.BlockNum = n /\ head.EndIndex = s.EndIndex
  BY <1>1, <1>2 DEF Lines
<1>6. image = <<head>> \o records
  BY <1>1 DEF Image
<1> HIDE DEF head
<1>7. records \in Seq(Lines) /\ Len(records) = n
  BY <1>1, <1>2, <1>3 DEF Lines
<1>8. /\ image \in Seq(Lines) /\ Len(image) = n + 1 /\ image[1] = head
      /\ \A j \in 1 .. n : image[j + 1] = records[j]
  <2>1. <<head>> \in Seq(Lines) /\ Len(<<head>>) = 1 /\ <<head>>[1] = head
    BY <1>5
  <2> DEFINE one == <<head>>
  <2> HIDE DEF one
  <2>2. one \in Seq(Lines) /\ Len(one) = 1 /\ one[1] = head /\ image = one \o records
    BY <2>1, <1>6 DEF one
  <2>3. /\ image \in Seq(Lines) /\ Len(image) = Len(one) + Len(records)
        /\ \A i \in 1 .. Len(one) + Len(records) :
              image[i] = IF i <= Len(one) THEN one[i] ELSE records[i - Len(one)]
    <3>1. Len(one \o records) = Len(one) + Len(records) /\ one \o records \in Seq(Lines)
      BY <2>2, <1>7, ConcatProperties
    <3>2. \A i \in 1 .. Len(one) + Len(records) :
             (one \o records)[i] = IF i <= Len(one) THEN one[i] ELSE records[i - Len(one)]
      BY <2>2, <1>7, ConcatProperties
    <3> QED BY <2>2, <3>1, <3>2
  <2>4. Len(image) = n + 1
    BY <2>2, <2>3, <1>1, <1>7
  <2>5. image[1] = head
    BY <2>2, <2>3, <1>1, <1>7
  <2>6. ASSUME NEW j \in 1 .. n PROVE image[j + 1] = records[j]
    <3>1. j + 1 \in 1 .. Len(one) + Len(records) /\ ~(j + 1 <= Len(one)) /\ (j + 1) - Len(one) = j
      BY <2>2, <1>1, <1>7
    <3> QED BY <3>1, <2>3
  <2> QED BY <2>3, <2>4, <2>5, <2>6
<1>9. Lists(image, n, F)
  BY <1>1, <1>3, <1>4, <1>8 DEF Lists
<1> QED BY <1>1, <1>5, <1>8, <1>9

\* A file that begins with it.
LEMMA PrefixSaved ==
    ASSUME NEW s, NEW F, NEW X, Parted(s, F, X), s.EndIndex <= MaxEnd, NEW records \in Orders(s),
           NEW file \in Seq(Lines), IsPrefix(Image(s, records), file)
    PROVE  Saved(file, X)
<1> DEFINE image == Image(s, records)
           n == Cardinality(F)
<1>1. /\ image \in Seq(Lines) /\ n \in Nat /\ Len(image) = n + 1
      /\ image[1].BlockNum = n /\ image[1].EndIndex = s.EndIndex
      /\ Lists(image, n, F)
  BY ImageIs
<1>2. Len(image) <= Len(file) /\ SubSeq(image, 1, Len(image)) = SubSeq(file, 1, Len(image)) /\ Len(file) \in Nat
  BY DEF IsPrefix
<1> HIDE DEF image, n
<1>3. ASSUME NEW i \in 1 .. n + 1 PROVE file[i] = image[i]
  <2>1. i \in 1 .. Len(image)
    BY <1>1
  <2>2. SubSeq(image, 1, Len(image))[i] = image[i] /\ SubSeq(file, 1, Len(image))[i] = file[i]
    BY <2>1, <1>1, <1>2
  <2> QED BY <1>2, <2>2
<1>4. file[1] = image[1] /\ \A j \in 1 .. n : file[j + 1] = image[j + 1]
  <2>1. 1 \in 1 .. n + 1 /\ \A j \in 1 .. n : j + 1 \in 1 .. n + 1
    BY <1>1
  <2> QED BY <2>1, <1>3
<1>5. Lists(file, n, F)
  BY <1>1, <1>4 DEF Lists
<1>6. file # <<>> /\ Len(file) - 1 >= n
  BY <1>1, <1>2
<1>7. Tiles(s.EndIndex, F \cup X) /\ F \cap X = {}
  BY DEF Parted
<1> QED BY <1>1, <1>2, <1>4, <1>5, <1>6, <1>7 DEF Saved

LEMMA OverwrittenIs ==
    ASSUME index \in Seq(Lines), NEW new \in Seq(Lines)
    PROVE  Overwritten(new) \in Seq(Lines) /\ IsPrefix(new, Overwritten(new))
<1> DEFINE rest == SubSeq(index, Len(new) + 1, Len(index))
<1>1. rest \in Seq(Lines)
  <2>1. Len(new) \in Nat /\ Len(index) \in Nat
    OBVIOUS
  <2>2. \A i \in Len(new) + 1 .. Len(index) : index[i] \in Lines
    BY <2>1
  <2> QED BY <2>1, <2>2, SubSeqProperties
<1> HIDE DEF rest
<1>2. /\ new \o rest \in Seq(Lines) /\ Len(new \o rest) = Len(new) + Len(rest)
      /\ \A i \in 1 .. Len(new) : (new \o rest)[i] = new[i]
  BY <1>1
<1>3. SubSeq(new, 1, Len(new)) = SubSeq(new \o rest, 1, Len(new))
  BY <1>2
<1>4. Len(new) <= Len(new \o rest)
  BY <1>1, <1>2
<1> QED BY <1>2, <1>3, <1>4 DEF Overwritten, IsPrefix, rest

-----------------------------------------------------------------------------
(* The invariant.                                                          *)

HeldBlocks == {h.block : h \in held}
Handles == [block : AllBlocks, owner : Owners, stored : Nat]

\* The client's handles: each of an owner of its own, for a block that touches
\* no other's, with what the owner stored at its beginning.
HeldOK ==
    /\ held \subseteq Handles
    /\ \A h \in held : h.stored <= h.block.blockSize
    /\ \A g, h \in held : g # h => g.owner # h.owner /\ Apart(g.block, h.block)
    /\ \A h \in held : \A i \in 1 .. h.stored :
          /\ h.block.beginIndex + i \in 1 .. Len(data)
          /\ data[h.block.beginIndex + i] = h.owner

\* An open storage knows what the client does not have; the index file of a
\* closed one does.
SpaceOK ==
    IF space = Closed THEN Saved(index, HeldBlocks)
    ELSE space.stray = FALSE /\ space.EndIndex <= MaxEnd /\ \E F : Parted(space, F, HeldBlocks)

Sound ==
    /\ index \in Seq(Lines) /\ data \in Seq(Owners \cup {Nobody})
    /\ HeldOK /\ SpaceOK

Inv ==
    /\ strayed \in BOOLEAN /\ lost \in BOOLEAN
    /\ ~strayed /\ ~lost => Sound

LEMMA InitInv == SomeSizes /\ Init => Inv
<1> SUFFICES ASSUME SomeSizes, Init PROVE Inv
  OBVIOUS
<1>1. index \in Seq(Lines) /\ data \in Seq(Owners \cup {Nobody})
  BY DEF Init
<1>2. HeldOK
  BY DEF Init, HeldOK
<1>3. SpaceOK
  BY DEF Init, SpaceOK, Saved, HeldBlocks
<1> QED BY <1>1, <1>2, <1>3 DEF Init, Inv, Sound

\* An open storage is not a closed one.
LEMMA IsOpen ==
    ASSUME NEW s, IsSpace(s)
    PROVE  s # Closed
<1>1. "EndIndex" \in DOMAIN s
  BY DEF IsSpace
<1>2. "EndIndex" \notin DOMAIN Closed
  BY DEF Closed
<1> QED BY <1>1, <1>2

\* The history is not part of what a storage knows.
LEMMA UnstrayIs ==
    ASSUME NEW s, NEW F, NEW X, Parted(s, F, X), NEW t, t = [s EXCEPT !.stray = FALSE]
    PROVE  Parted(t, F, X) /\ t.EndIndex = s.EndIndex /\ t.stray = FALSE /\ t # Closed
<1>1. IsSpace(s)
  BY DEF Parted
<1>2. t = [open |-> s.open, EndIndex |-> s.EndIndex, Begin |-> s.Begin, End |-> s.End, stray |-> FALSE]
  BY <1>1, StraySet
<1>3. IsSpace(t) /\ t.EndIndex = s.EndIndex /\ t.Begin = s.Begin /\ t.End = s.End /\ t.stray = FALSE
  BY <1>2, SpaceFields
<1>4. Maps(t, F)
  BY <1>3 DEF Parted, Maps
<1>5. Parted(t, F, X)
  BY <1>3, <1>4 DEF Parted
<1> QED BY <1>3, <1>5, IsOpen

LEMMA OpenInv == ASSUME SomeSizes, Inv, Open PROVE Inv'
<1>1. CASE strayed \/ lost \/ Loaded.stray
  <2>1. Loaded.stray \in BOOLEAN \/ strayed \/ lost
    BY LoadedIs DEF Inv, Sound, SpaceOK, Open
  <2>2. strayed' \in BOOLEAN /\ lost' \in BOOLEAN /\ (strayed' \/ lost')
    BY <1>1, <2>1 DEF Inv, Open
  <2> QED BY <2>2 DEF Inv
<1>2. CASE ~strayed /\ ~lost /\ ~Loaded.stray
  <2>1. Sound /\ Saved(index, HeldBlocks)
    BY <1>2 DEF Inv, Sound, SpaceOK, Open
  <2>2. Loaded.EndIndex <= MaxEnd /\ Loaded.stray \in BOOLEAN
    BY <1>2, <2>1, LoadedIs
  <2>3. PICK F : Parted(Loaded, F, HeldBlocks)
    BY <1>2, <2>1, LoadedIs
  <2>4. Parted(space', F, HeldBlocks) /\ space'.EndIndex = Loaded.EndIndex /\ space'.stray = FALSE /\ space' # Closed
    <3>1. space' = [Loaded EXCEPT !.stray = FALSE]
      BY DEF Open
    <3> QED BY <2>3, <3>1, UnstrayIs
  <2>5. UNCHANGED <<index, data, held, lost>> /\ strayed' = strayed
    BY <1>2, <2>2 DEF Open, Inv
  <2>6. HeldBlocks' = HeldBlocks /\ HeldOK'
    BY <2>1, <2>5 DEF HeldBlocks, HeldOK, Sound
  <2>7. SpaceOK'
    BY <2>2, <2>4, <2>6 DEF SpaceOK
  <2> QED BY <2>1, <2>5, <2>6, <2>7 DEF Inv, Sound
<1>3. Loaded.stray \in BOOLEAN \/ strayed \/ lost
  BY LoadedIs DEF Inv, Sound, SpaceOK, Open
<1> QED BY <1>1, <1>2, <1>3

\* What is written of the image is lines.
LEMMA WritingIs ==
    ASSUME Sound, space # Closed, NEW records \in Orders(space)
    PROVE  /\ Image(space, records) \in Seq(Lines)
           /\ \A file \in Seq(Lines) : IsPrefix(Image(space, records), file) => Saved(file, HeldBlocks)
<1>1. PICK F : Parted(space, F, HeldBlocks)
  BY DEF Sound, SpaceOK
<1>2. space.EndIndex <= MaxEnd
  BY DEF Sound, SpaceOK
<1> QED BY <1>1, <1>2, ImageIs, PrefixSaved

LEMMA SyncInv == ASSUME SomeSizes, Inv, Sync \/ Destroy PROVE Inv'
<1>1. SyncToIndexFile /\ (space' = space \/ space' = Closed)
  BY DEF Sync, Destroy
<1>2. space # Closed /\ UNCHANGED <<data, held, strayed, lost>>
  BY <1>1 DEF SyncToIndexFile
<1>3. CASE strayed \/ lost
  BY <1>2, <1>3 DEF Inv
<1>4. CASE ~strayed /\ ~lost
  <2>1. Sound
    BY <1>4 DEF Inv
  <2>2. PICK records \in Orders(space) : index' = Overwritten(Image(space, records))
    BY <1>1 DEF SyncToIndexFile
  <2>3. Image(space, records) \in Seq(Lines) /\ index \in Seq(Lines)
    BY <1>2, <2>1, WritingIs DEF Sound
  <2>4. index' \in Seq(Lines) /\ IsPrefix(Image(space, records), index')
    BY <2>2, <2>3, OverwrittenIs
  <2>5. Saved(index', HeldBlocks)
    BY <1>2, <2>1, <2>4, WritingIs
  <2>6. HeldBlocks' = HeldBlocks /\ HeldOK'
    BY <1>2, <2>1 DEF HeldBlocks, HeldOK, Sound
  <2>7. SpaceOK'
    <3>1. CASE space' = Closed
      BY <2>5, <2>6, <3>1 DEF SpaceOK
    <3>2. CASE space' = space
      BY <1>2, <2>1, <2>6, <3>2 DEF SpaceOK, Sound
    <3> QED BY <1>1, <3>1, <3>2
  <2> QED BY <1>2, <2>1, <2>4, <2>6, <2>7 DEF Inv, Sound
<1> QED BY <1>3, <1>4

LEMMA KillInv == ASSUME SomeSizes, Inv, Kill PROVE Inv'
<1>1. space # Closed /\ space' = Closed /\ UNCHANGED <<data, held, strayed>> /\ lost' = (lost \/ ~Synced(index'))
  BY DEF Kill
<1>2. lost' \in BOOLEAN /\ strayed' \in BOOLEAN
  BY <1>1 DEF Inv
<1>3. CASE strayed \/ lost \/ ~Synced(index')
  BY <1>1, <1>2, <1>3 DEF Inv
<1>4. CASE ~strayed /\ ~lost /\ Synced(index')
  <2>1. Sound
    BY <1>4 DEF Inv
  <2>2. index' \in Seq(Lines)
    <3>1. CASE index' = index
      BY <2>1, <3>1 DEF Sound
    <3>2. ASSUME NEW records \in Orders(space), NEW written \in 1 .. Len(records),
                 index' = Overwritten(SubSeq(Image(space, records), 1, written))
          PROVE  index' \in Seq(Lines)
      <4> DEFINE image == Image(space, records)
      <4>1. image \in Seq(Lines) /\ index \in Seq(Lines)
        BY <1>1, <2>1, WritingIs DEF Sound
      <4>2. Len(image) = 1 + Len(records) /\ Len(records) \in Nat
        <5>1. PICK F : Parted(space, F, HeldBlocks)
          BY <1>1, <2>1 DEF Sound, SpaceOK
        <5>2. Cardinality(F) \in Nat /\ {space.Begin[p] : p \in DOMAIN space.Begin} = F
              /\ Len(image) = Cardinality(F) + 1
          BY <5>1, FreeIs, ImageIs
        <5>3. records \in [1 .. Cardinality(F) -> F]
          BY <5>2 DEF Orders, SetToSeqs
        <5>4. Len(records) = Cardinality(F)
          BY <5>2, <5>3
        <5> QED BY <5>2, <5>4
      <4> HIDE DEF image
      <4>3. SubSeq(image, 1, written) \in Seq(Lines)
        BY <4>1, <4>2
      <4> QED BY <3>2, <4>1, <4>3, OverwrittenIs DEF image
    <3> QED BY <3>1, <3>2 DEF Kill
  <2>3. PICK records \in Orders(space) : IsPrefix(Image(space, records), index')
    BY <1>4 DEF Synced
  <2>4. Saved(index', HeldBlocks)
    BY <1>1, <2>1, <2>2, <2>3, WritingIs
  <2>5. HeldBlocks' = HeldBlocks /\ HeldOK'
    BY <1>1, <2>1 DEF HeldBlocks, HeldOK, Sound
  <2>6. SpaceOK'
    BY <1>1, <2>4, <2>5 DEF SpaceOK
  <2> QED BY <1>1, <1>2, <2>1, <2>2, <2>5, <2>6 DEF Inv, Sound
<1> QED BY <1>3, <1>4

\* Two handles of one block are one handle.
LEMMA HandleIs ==
    ASSUME HeldOK, NEW h \in held
    PROVE  /\ h.block \in AllBlocks /\ h.owner \in Owners /\ h.stored \in Nat /\ h.block \in HeldBlocks
           /\ \A g \in held : g.block.beginIndex = h.block.beginIndex => g = h
           /\ \A g \in held : g.owner = h.owner => g = h
<1>1. /\ h.block \in AllBlocks /\ h.owner \in Owners /\ h.stored \in Nat /\ h.block \in HeldBlocks
      /\ \A g \in held : g.block \in AllBlocks
  BY DEF HeldOK, Handles, HeldBlocks
<1>2. ASSUME NEW g \in held, g.block.beginIndex = h.block.beginIndex PROVE g = h
  <2>1. g # h => Apart(g.block, h.block)
    BY DEF HeldOK
  <2>2. /\ g.block.beginIndex \in Nat /\ EndOf(g.block) \in Nat /\ g.block.beginIndex < EndOf(g.block)
        /\ EndOf(h.block) \in Nat /\ h.block.beginIndex < EndOf(h.block)
    BY <1>1, BlockIs
  <2> QED BY <1>2, <2>1, <2>2 DEF Apart
<1> QED BY <1>1, <1>2 DEF HeldOK

\* A unit that no handle covers leaves an owner unused.
LEMMA OwnerLeft ==
    ASSUME SomeSizes, HeldOK, NEW u \in 0 .. MaxEnd - 1,
           \A h \in held : EndOf(h.block) <= MaxEnd /\ h.block.beginIndex # u
    PROVE  Owners \ {h.owner : h \in held} # {}
<1> SUFFICES ASSUME \A o \in Owners : \E h \in held : h.owner = o
             PROVE  FALSE
  OBVIOUS
<1>0. MaxEnd \in Nat
  BY DEF SomeSizes
<1> DEFINE By(o) == CHOOSE h \in held : h.owner = o
           f == [o \in Owners |-> By(o).block.beginIndex]
           T == (0 .. MaxEnd - 1) \ {u}
<1>1. ASSUME NEW o \in Owners PROVE By(o) \in held /\ By(o).owner = o
  OBVIOUS
<1>2. ASSUME NEW o \in Owners PROVE f[o] \in T
  <2> DEFINE h == By(o)
  <2>1. h \in held
    BY <1>1
  <2>2. f[o] = h.block.beginIndex
    OBVIOUS
  <2> HIDE DEF By, f
  <2>3. h.block \in AllBlocks /\ EndOf(h.block) <= MaxEnd /\ h.block.beginIndex # u
    BY <2>1, HandleIs
  <2>4. h.block.beginIndex \in Nat /\ EndOf(h.block) \in Nat /\ h.block.beginIndex < EndOf(h.block)
    BY <2>3, BlockIs
  <2> HIDE DEF h
  <2> QED BY <2>2, <2>3, <2>4, <1>0
<1>3. ASSUME NEW o \in Owners, NEW q \in Owners, f[o] = f[q] PROVE o = q
  <2>1. By(o) \in held /\ By(q) \in held /\ By(o).owner = o /\ By(q).owner = q
    BY <1>1
  <2>2. By(o).block.beginIndex = By(q).block.beginIndex
    BY <1>3
  <2> HIDE DEF By
  <2>3. By(o) = By(q)
    BY <2>1, <2>2, HandleIs
  <2> QED BY <2>1, <2>3
<1>4. f \in [Owners -> T]
  BY <1>2
<1> HIDE DEF f, T, By
<1>5. f \in Injection(Owners, T)
  BY <1>3, <1>4 DEF Injection, IsInjective
<1>6. IsFiniteSet(0 .. MaxEnd - 1) /\ Cardinality(0 .. MaxEnd - 1) = MaxEnd
  <2>1. MaxEnd - 1 \in Int /\ (0 > MaxEnd - 1 => MaxEnd = 0) /\ (MaxEnd - 1) - 0 + 1 = MaxEnd
    BY <1>0
  <2> QED BY <2>1, FS_Interval
<1>7. IsFiniteSet(T) /\ Cardinality(T) = MaxEnd - 1
  BY <1>6, FS_RemoveElement DEF T
<1>8. Cardinality(Owners) = MaxEnd
  <2>1. MaxEnd \in Int /\ (1 > MaxEnd => MaxEnd = 0) /\ MaxEnd - 1 + 1 = MaxEnd
    BY <1>0
  <2> QED BY <2>1, FS_Interval DEF Owners
<1>9. Cardinality(Owners) <= Cardinality(T)
  BY <1>5, <1>7, FS_Injection
<1> QED BY <1>0, <1>7, <1>8, <1>9

LEMMA NewHandleIs ==
    ASSUME Owners \ {h.owner : h \in held} # {}, NEW b, SomeSizes
    PROVE  /\ NewHandle(b).block = b /\ NewHandle(b).owner \in Owners /\ NewHandle(b).stored = 0
           /\ NewHandle(b) = [block |-> b, owner |-> NewHandle(b).owner, stored |-> 0]
           /\ \A h \in held : h.owner # NewHandle(b).owner
<1> DEFINE U == Owners \ {h.owner : h \in held}
<1>1. U \subseteq Nat
  BY DEF Owners, SomeSizes
<1>2. \E x \in U : \A y \in U : x <= y
  <2> HIDE DEF U
  <2> QED BY <1>1, Least DEF U
<1>3. Min(U) \in U
  <2> HIDE DEF U
  <2> QED BY <1>2 DEF Min
<1>4. NewHandle(b) = [block |-> b, owner |-> Min(U), stored |-> 0]
  BY DEF NewHandle
<1>5. Min(U) \in Owners /\ \A h \in held : h.owner # Min(U)
  BY <1>3
<1> HIDE DEF U
<1>6. NewHandle(b).block = b /\ NewHandle(b).owner = Min(U) /\ NewHandle(b).stored = 0
  BY <1>4
<1> QED BY <1>4, <1>5, <1>6

\* A block that the client gets.
LEMMA GivenIs ==
    ASSUME SomeSizes, Sound, NEW b \in AllBlocks, NEW k, k = NewHandle(b),
           EndOf(b) <= MaxEnd, \A h \in held : EndOf(h.block) <= MaxEnd /\ Apart(h.block, b),
           held' = held \cup {k}, data' = data
    PROVE  HeldOK' /\ HeldBlocks' = HeldBlocks \cup {b}
<1>1. HeldOK
  BY DEF Sound
<1>2. /\ b.beginIndex \in Nat /\ EndOf(b) \in Nat /\ b.beginIndex < EndOf(b)
      /\ b.blockSize \in Nat /\ MaxEnd \in Nat
  BY BlockIs DEF SomeSizes
<1>3. b.beginIndex \in 0 .. MaxEnd - 1
  BY <1>2
<1>4. \A h \in held : h.block.beginIndex # b.beginIndex
  <2> TAKE h \in held
  <2>1. h.block \in AllBlocks /\ Apart(h.block, b)
    BY <1>1, HandleIs
  <2>2. h.block.beginIndex \in Nat /\ EndOf(h.block) \in Nat /\ h.block.beginIndex < EndOf(h.block)
    BY <2>1, BlockIs
  <2> QED BY <2>1, <2>2, <1>2 DEF Apart
<1>5. Owners \ {h.owner : h \in held} # {}
  BY <1>1, <1>3, <1>4, OwnerLeft
<1>6. /\ k.block = b /\ k.owner \in Owners /\ k.stored = 0
      /\ k = [block |-> b, owner |-> k.owner, stored |-> 0]
      /\ \A h \in held : h.owner # k.owner
  BY <1>5, NewHandleIs
<1>7. k \in Handles
  BY <1>6 DEF Handles
<1>8. \A h \in held : Apart(h.block, b) /\ Apart(b, h.block)
  BY DEF Apart
<1>9. HeldBlocks' = HeldBlocks \cup {b}
  BY <1>6 DEF HeldBlocks
<1>10. held' \subseteq Handles
  BY <1>1, <1>7 DEF HeldOK
<1>11. \A h \in held' : h.stored <= h.block.blockSize
  BY <1>1, <1>2, <1>6 DEF HeldOK
<1>12. \A g, h \in held' : g # h => g.owner # h.owner /\ Apart(g.block, h.block)
  BY <1>1, <1>6, <1>8 DEF HeldOK
<1>13. ASSUME NEW h \in held', NEW i \in 1 .. h.stored
       PROVE  h.block.beginIndex + i \in 1 .. Len(data') /\ data'[h.block.beginIndex + i] = h.owner
  <2>1. h # k
    BY <1>6
  <2> QED BY <1>1, <2>1 DEF HeldOK
<1>14. HeldOK'
  BY <1>10, <1>11, <1>12, <1>13 DEF HeldOK
<1> QED BY <1>9, <1>14

LEMMA fallocFreeInv == ASSUME SomeSizes, Inv, ~strayed, ~lost, NEW size, fallocFree(size) PROVE Inv'
<1>1. Sound /\ space # Closed /\ UNCHANGED <<index, data, strayed, lost>>
  BY DEF Inv, fallocFree
<1>2. PICK b \in FreeBlocks :
         /\ space' = [space EXCEPT !.Begin = Erase(@, b.beginIndex), !.End = Erase(@, EndOf(b))]
         /\ held' = held \cup {NewHandle(b)}
  BY DEF fallocFree
<1>3. PICK F : Parted(space, F, HeldBlocks)
  BY <1>1 DEF Sound, SpaceOK
<1>4. space.EndIndex <= MaxEnd /\ space.stray = FALSE
  BY <1>1 DEF Sound, SpaceOK
<1>5. b \in F
  BY <1>3, FreeIs DEF FreeBlocks
<1>6. IsSpace(space) /\ Tiles(space.EndIndex, F \cup HeldBlocks) /\ F \cap HeldBlocks = {}
  BY <1>3 DEF Parted
<1>7. IsSpace(space') /\ Maps(space', F \ {b}) /\ space'.EndIndex = space.EndIndex /\ space'.stray = space.stray
  <2> DEFINE f == Erase(space.Begin, b.beginIndex)
             g == Erase(space.End, EndOf(b))
  <2>1. space' = [space EXCEPT !.Begin = f, !.End = g]
    BY <1>2
  <2> HIDE DEF f, g
  <2>2. space' = [open |-> space.open, EndIndex |-> space.EndIndex, Begin |-> f, End |-> g, stray |-> space.stray]
    BY <1>6, <2>1, MapsSet
  <2>3. space' = [open |-> space.open, EndIndex |-> space.EndIndex, Begin |-> Erase(space.Begin, b.beginIndex),
                  End |-> Erase(space.End, EndOf(b)), stray |-> space.stray]
    BY <2>2 DEF f, g
  <2> QED BY <1>3, <1>5, <2>3, ErasedIs
<1>8. HeldOK' /\ HeldBlocks' = HeldBlocks \cup {b}
  <2>1. b \in AllBlocks /\ EndOf(b) <= space.EndIndex /\ space.EndIndex \in Nat
    BY <1>5, <1>6 DEF Tiles
  <2>2. \A h \in held : EndOf(h.block) <= space.EndIndex /\ Apart(h.block, b) /\ h.block \in AllBlocks
    BY <1>5, <1>6 DEF Tiles, HeldBlocks
  <2>3. MaxEnd \in Nat
    BY DEF SomeSizes
  <2>4. EndOf(b) <= MaxEnd
    BY <1>4, <2>1, <2>3, BlockIs
  <2>5. \A h \in held : EndOf(h.block) <= MaxEnd /\ Apart(h.block, b)
    <3> TAKE h \in held
    <3>1. EndOf(h.block) \in Nat
      BY <2>2, BlockIs
    <3> QED BY <1>4, <2>1, <2>2, <2>3, <3>1
  <2> QED BY <1>1, <1>2, <2>1, <2>4, <2>5, GivenIs
<1>9. (F \ {b}) \cup HeldBlocks' = F \cup HeldBlocks /\ (F \ {b}) \cap HeldBlocks' = {}
  BY <1>5, <1>6, <1>8
<1>10. Parted(space', F \ {b}, HeldBlocks')
  BY <1>6, <1>7, <1>9 DEF Parted
<1>11. SpaceOK'
  BY <1>4, <1>7, <1>10, IsOpen DEF SpaceOK
<1> QED BY <1>1, <1>8, <1>11 DEF Inv, Sound

LEMMA fallocEndInv ==
    ASSUME SomeSizes, Inv, ~strayed, ~lost, NEW size \in Sizes, fallocEnd(size) PROVE Inv'
<1>1. /\ Sound /\ space # Closed /\ UNCHANGED <<index, data, strayed, lost>>
      /\ space.EndIndex + size <= MaxEnd
      /\ space' = [space EXCEPT !.EndIndex = space.EndIndex + size]
      /\ held' = held \cup {NewHandle(Block(space.EndIndex, size))}
  BY DEF Inv, fallocEnd
<1>2. PICK F : Parted(space, F, HeldBlocks)
  BY <1>1 DEF Sound, SpaceOK
<1>3. IsSpace(space) /\ Maps(space, F) /\ Tiles(space.EndIndex, F \cup HeldBlocks) /\ F \cap HeldBlocks = {}
  BY <1>2 DEF Parted
<1> DEFINE b == Block(space.EndIndex, size)
           end == space.EndIndex + size
<1>4. space.EndIndex \in Nat /\ size \in Nat /\ size > 0 /\ MaxEnd \in Nat
  BY <1>3 DEF Tiles, SomeSizes
<1>5. b \in AllBlocks /\ EndOf(b) = end /\ b.beginIndex = space.EndIndex
  BY <1>4, BlockOf
<1>6. Tiles(end, (F \cup HeldBlocks) \cup {b}) /\ b \notin F \cup HeldBlocks
  BY <1>3, <1>4, TilesGrow
<1> HIDE DEF b, end
<1>7. /\ IsSpace(space') /\ space'.EndIndex = end /\ space'.stray = space.stray
      /\ space'.Begin = space.Begin /\ space'.End = space.End
  <2>1. space' = [space EXCEPT !.EndIndex = end]
    BY <1>1 DEF end
  <2>2. space' = [open |-> space.open, EndIndex |-> end, Begin |-> space.Begin, End |-> space.End,
                  stray |-> space.stray]
    BY <1>3, <2>1, EndSet
  <2> QED BY <2>2, SpaceFields
<1>8. HeldOK' /\ HeldBlocks' = HeldBlocks \cup {b}
  <2>1. \A h \in held : h.block \in AllBlocks /\ EndOf(h.block) <= space.EndIndex
    BY <1>3 DEF Tiles, HeldBlocks
  <2>2. \A h \in held : EndOf(h.block) <= MaxEnd /\ Apart(h.block, b)
    <3> TAKE h \in held
    <3>1. EndOf(h.block) \in Nat /\ EndOf(h.block) <= space.EndIndex
      BY <2>1, BlockIs
    <3>2. EndOf(h.block) <= MaxEnd
      BY <1>1, <1>4, <3>1
    <3> QED BY <1>5, <3>1, <3>2 DEF Apart
  <2>3. EndOf(b) <= MaxEnd
    BY <1>1, <1>5 DEF end
  <2>4. held' = held \cup {NewHandle(b)}
    BY <1>1 DEF b
  <2> QED BY <1>1, <1>5, <2>2, <2>3, <2>4, GivenIs
<1>9. F \cup HeldBlocks' = (F \cup HeldBlocks) \cup {b} /\ F \cap HeldBlocks' = {}
  BY <1>3, <1>6, <1>8
<1>10. Maps(space', F)
  BY <1>3, <1>7 DEF Maps
<1>11. Parted(space', F, HeldBlocks')
  BY <1>6, <1>7, <1>9, <1>10 DEF Parted
<1>12. space'.EndIndex <= MaxEnd /\ space'.stray = FALSE
  BY <1>1, <1>7 DEF end, Sound, SpaceOK
<1>13. SpaceOK'
  BY <1>7, <1>11, <1>12, IsOpen DEF SpaceOK
<1> QED BY <1>1, <1>8, <1>13 DEF Inv, Sound

LEMMA ffreeInv == ASSUME SomeSizes, Inv, ~strayed, ~lost, NEW h \in held, ffree(h) PROVE Inv'
<1> DEFINE freed == FreeBlock(space, h.block)
           X == HeldBlocks \ {h.block}
<1>1. /\ Sound /\ space # Closed /\ UNCHANGED <<index, lost>>
      /\ space' = [freed EXCEPT !.stray = FALSE] /\ strayed' = (strayed \/ freed.stray)
      /\ held' = held \ {h}
      /\ data' = [i \in DOMAIN data |-> IF data[i] = h.owner THEN Nobody ELSE data[i]]
  BY DEF Inv, ffree
<1>2. HeldOK /\ data \in Seq(Owners \cup {Nobody})
  BY <1>1 DEF Sound
<1>3. PICK F : Parted(space, F, HeldBlocks)
  BY <1>1 DEF Sound, SpaceOK
<1>4. IsSpace(space) /\ space.stray = FALSE /\ space.EndIndex <= MaxEnd /\ space.EndIndex \in Nat
  BY <1>1, <1>3 DEF Sound, SpaceOK, Parted, Tiles
<1>5. h.block \in AllBlocks /\ h.block \in HeldBlocks
  BY <1>2, HandleIs
<1>6. freed.stray \in BOOLEAN
  BY <1>4, <1>5, FreeBlockIs
<1>7. strayed' \in BOOLEAN /\ lost' \in BOOLEAN
  BY <1>1, <1>6 DEF Inv
<1>8. CASE freed.stray
  BY <1>1, <1>7, <1>8 DEF Inv
<1>9. CASE ~freed.stray
  <2>1. HeldBlocks = X \cup {h.block} /\ h.block \notin X
    BY <1>5
  <2>2. HeldBlocks' = X
    <3>1. \A g \in held : g.block = h.block => g = h
      BY <1>2, HandleIs
    <3> QED BY <1>1, <3>1 DEF HeldBlocks
  <2> HIDE DEF X
  <2>3. freed.EndIndex <= space.EndIndex /\ \E G : Parted(freed, G, X)
    BY <1>3, <1>4, <1>5, <1>9, <2>1, FreeBlockIs
  <2> HIDE DEF freed
  <2>4. PICK G : Parted(freed, G, X)
    BY <2>3
  <2>5. Parted(space', G, X) /\ space'.EndIndex = freed.EndIndex /\ space'.stray = FALSE /\ space' # Closed
    BY <1>1, <2>4, UnstrayIs
  <2>6. space'.EndIndex <= MaxEnd
    <3>1. freed.EndIndex \in Nat /\ MaxEnd \in Nat
      BY <2>4 DEF Parted, Tiles, SomeSizes
    <3> QED BY <1>4, <2>3, <2>5, <3>1
  <2>7. SpaceOK'
    BY <2>2, <2>5, <2>6 DEF SpaceOK
  <2>8. data' \in Seq(Owners \cup {Nobody}) /\ Len(data') = Len(data)
    <3>1. Len(data) \in Nat /\ DOMAIN data = 1 .. Len(data)
      BY <1>2
    <3>2. data' \in [1 .. Len(data) -> Owners \cup {Nobody}]
      BY <1>1, <1>2, <3>1
    <3> QED BY <3>1, <3>2
  <2>9. HeldOK'
    <3>1. held' \subseteq held
      BY <1>1
    <3>2. ASSUME NEW g \in held', NEW i \in 1 .. g.stored
          PROVE  /\ g.block.beginIndex + i \in 1 .. Len(data')
                 /\ data'[g.block.beginIndex + i] = g.owner
      <4>1. g \in held /\ g # h /\ g.owner # h.owner
        BY <1>1, <1>2, HandleIs
      <4>2. g.block.beginIndex + i \in 1 .. Len(data) /\ data[g.block.beginIndex + i] = g.owner
        BY <1>2, <4>1 DEF HeldOK
      <4>3. g.block.beginIndex + i \in DOMAIN data
        BY <1>2, <4>2
      <4> QED BY <1>1, <2>8, <4>1, <4>2, <4>3
    <3> QED BY <1>2, <3>1, <3>2 DEF HeldOK
  <2> QED BY <1>1, <1>7, <2>7, <2>8, <2>9 DEF Inv, Sound
<1> QED BY <1>6, <1>8, <1>9

LEMMA StorageDataInv ==
    ASSUME SomeSizes, Inv, ~strayed, ~lost, NEW h \in held, NEW len \in Sizes, StorageData(h, len) PROVE Inv'
<1> DEFINE to == h.block.beginIndex
           size == IF to + len > Len(data) THEN to + len ELSE Len(data)
           stored == IF len > h.stored THEN len ELSE h.stored
           k == [h EXCEPT !.stored = stored]
<1>1. /\ Sound /\ space # Closed /\ UNCHANGED <<space, index, strayed, lost>>
      /\ len <= h.block.blockSize
      /\ held' = (held \ {h}) \cup {k}
      /\ data' = [i \in 1 .. size |-> IF i \in to + 1 .. to + len THEN h.owner
                                      ELSE [j \in 1 .. size |-> IF j <= Len(data) THEN data[j] ELSE Nobody][i]]
  BY DEF Inv, StorageData
<1>2. HeldOK /\ data \in Seq(Owners \cup {Nobody}) /\ Len(data) \in Nat
  BY <1>1 DEF Sound
<1>3. /\ h.block \in AllBlocks /\ h.owner \in Owners /\ h.stored \in Nat /\ h \in Handles
      /\ h.stored <= h.block.blockSize
  BY <1>2, HandleIs DEF HeldOK
<1>4. to \in Nat /\ h.block.blockSize \in Nat /\ EndOf(h.block) = to + h.block.blockSize /\ len \in Nat
  BY <1>3, BlockIs DEF SomeSizes
<1>5. k = [block |-> h.block, owner |-> h.owner, stored |-> stored]
  <2> HIDE DEF stored
  <2> QED BY <1>3 DEF Handles
<1>6. stored \in Nat /\ stored <= h.block.blockSize
  BY <1>1, <1>3, <1>4
<1>7. size \in Nat /\ size >= Len(data) /\ size >= to + len
  BY <1>2, <1>4
<1> HIDE DEF k, size
<1>8. k.block = h.block /\ k.owner = h.owner /\ k.stored = stored /\ k \in Handles
  BY <1>3, <1>5, <1>6 DEF Handles
<1>9. /\ \A i \in 1 .. size : data'[i] = IF i \in to + 1 .. to + len THEN h.owner
                                        ELSE IF i <= Len(data) THEN data[i] ELSE Nobody
      /\ Len(data') = size /\ data' \in Seq(Owners \cup {Nobody})
  <2>1. ASSUME NEW i \in 1 .. size
        PROVE  /\ data'[i] = IF i \in to + 1 .. to + len THEN h.owner
                             ELSE IF i <= Len(data) THEN data[i] ELSE Nobody
               /\ data'[i] \in Owners \cup {Nobody}
    <3>1. data'[i] = IF i \in to + 1 .. to + len THEN h.owner
                     ELSE IF i <= Len(data) THEN data[i] ELSE Nobody
      BY <1>1
    <3>2. i <= Len(data) => data[i] \in Owners \cup {Nobody}
      BY <1>2
    <3> QED BY <1>3, <3>1, <3>2
  <2>2. DOMAIN data' = 1 .. size /\ data' = [i \in 1 .. size |-> data'[i]]
    BY <1>1
  <2>3. data' \in [1 .. size -> Owners \cup {Nobody}]
    BY <2>1, <2>2
  <2> QED BY <1>7, <2>1, <2>2, <2>3
<1>10. HeldBlocks' = HeldBlocks
  BY <1>1, <1>8 DEF HeldBlocks
<1>11. held' \subseteq Handles /\ \A g \in held' : g.stored <= g.block.blockSize
  BY <1>1, <1>2, <1>6, <1>8 DEF HeldOK
<1>12. \A g, l \in held' : g # l => g.owner # l.owner /\ Apart(g.block, l.block)
  BY <1>1, <1>2, <1>8 DEF HeldOK
<1>13. ASSUME NEW g \in held', NEW i \in 1 .. g.stored
       PROVE  g.block.beginIndex + i \in 1 .. Len(data') /\ data'[g.block.beginIndex + i] = g.owner
  <2>1. CASE g = k
    <3>1. i \in Nat /\ i > 0 /\ i <= stored /\ g.block.beginIndex = to /\ g.owner = h.owner
      BY <1>6, <1>8, <2>1
    <3>2. CASE i <= len
      <4>1. to + i \in 1 .. size /\ to + i \in to + 1 .. to + len
        BY <1>4, <1>7, <3>1, <3>2
      <4> QED BY <1>9, <3>1, <4>1
    <3>3. CASE ~(i <= len)
      <4>1. i \in 1 .. h.stored
        BY <1>3, <1>4, <3>1, <3>3
      <4>2. to + i \in 1 .. Len(data) /\ data[to + i] = h.owner
        BY <1>2, <4>1 DEF HeldOK
      <4>3. to + i \in 1 .. size /\ to + i <= Len(data)
        BY <1>2, <1>7, <4>2
      <4> QED BY <1>9, <3>1, <4>2, <4>3
    <3> QED BY <3>2, <3>3
  <2>2. CASE g # k
    <3>1. g \in held /\ g # h /\ Apart(g.block, h.block)
      BY <1>1, <1>2, <2>2 DEF HeldOK
    <3>2. /\ g.block \in AllBlocks /\ g.stored <= g.block.blockSize /\ g.stored \in Nat
          /\ g.block.beginIndex + i \in 1 .. Len(data) /\ data[g.block.beginIndex + i] = g.owner
      BY <1>2, <3>1 DEF HeldOK, Handles
    <3>3. g.block.beginIndex \in Nat /\ g.block.blockSize \in Nat /\ EndOf(g.block) = g.block.beginIndex + g.block.blockSize
      BY <3>2, BlockIs
    <3> DEFINE p == g.block.beginIndex + i
    <3>4. p \in Nat /\ g.block.beginIndex < p /\ p <= EndOf(g.block)
      BY <3>2, <3>3
    <3>5. EndOf(g.block) <= to \/ to + h.block.blockSize <= g.block.beginIndex
      BY <1>4, <3>1 DEF Apart
    <3>6. ~(p \in to + 1 .. to + len)
      <4>1. to + len <= to + h.block.blockSize
        BY <1>1, <1>4
      <4> HIDE DEF p
      <4>2. CASE EndOf(g.block) <= to
        BY <1>4, <3>3, <3>4, <4>2
      <4>3. CASE to + h.block.blockSize <= g.block.beginIndex
        BY <1>4, <3>3, <3>4, <4>1, <4>3
      <4> QED BY <3>5, <4>2, <4>3
    <3>7. p \in 1 .. size /\ p <= Len(data) /\ data[p] = g.owner
      BY <1>2, <1>7, <3>2
    <3> HIDE DEF p
    <3>8. data'[p] = g.owner /\ p \in 1 .. Len(data')
      BY <1>9, <3>6, <3>7
    <3> QED BY <3>8 DEF p
  <2> QED BY <2>1, <2>2
<1>14. HeldOK'
  BY <1>11, <1>12, <1>13 DEF HeldOK
<1>15. SpaceOK'
  BY <1>1, <1>10 DEF SpaceOK, Sound
<1> QED BY <1>1, <1>9, <1>14, <1>15 DEF Inv, Sound

LEMMA NextInv == SomeSizes /\ Inv /\ [Next]_vars => Inv'
<1> SUFFICES ASSUME SomeSizes, Inv, [Next]_vars PROVE Inv'
  OBVIOUS
<1>1. CASE Open
  BY <1>1, OpenInv
<1>2. CASE Sync \/ Destroy
  BY <1>2, SyncInv
<1>3. CASE Kill
  BY <1>3, KillInv
<1>4. CASE Client
  <2>1. ~strayed /\ ~lost
    BY <1>4 DEF Client
  <2>2. ASSUME NEW size \in Sizes, fallocFree(size) PROVE Inv'
    BY <2>1, <2>2, fallocFreeInv
  <2>3. ASSUME NEW size \in Sizes, fallocEnd(size) PROVE Inv'
    BY <2>1, <2>3, fallocEndInv
  <2>4. ASSUME NEW h \in held, ffree(h) PROVE Inv'
    BY <2>1, <2>4, ffreeInv
  <2>5. ASSUME NEW h \in held, NEW len \in Sizes, StorageData(h, len) PROVE Inv'
    BY <2>1, <2>5, StorageDataInv
  <2> QED BY <1>4, <2>2, <2>3, <2>4, <2>5 DEF Client
<1>5. CASE UNCHANGED vars
  BY <1>5 DEF vars, Inv, Sound, HeldOK, SpaceOK, HeldBlocks
<1> QED BY <1>1, <1>2, <1>3, <1>4, <1>5 DEF Next

\* The blocks tile the file.
LEMMA InvTiles == SomeSizes /\ Inv => BlocksTile
<1> SUFFICES ASSUME SomeSizes, Inv, space # Closed, ~strayed, ~lost
             PROVE  /\ UNION {UnitsOf(b) : b \in Blocks} = 0 .. space.EndIndex - 1
                    /\ \A a, b \in Blocks : a # b => UnitsOf(a) \cap UnitsOf(b) = {}
                    /\ FreeBlocks \cap {h.block : h \in held} = {}
                    /\ {space.End[p] : p \in DOMAIN space.End} = FreeBlocks
                    /\ \A p \in DOMAIN space.End : EndOf(space.End[p]) = p
  BY DEF BlocksTile
<1>1. PICK F : Parted(space, F, HeldBlocks)
  BY DEF Inv, Sound, SpaceOK
<1>2. FreeBlocks = F
  BY <1>1, FreeIs DEF FreeBlocks
<1>3. Blocks = F \cup HeldBlocks
  BY <1>2 DEF Blocks, HeldBlocks
<1>4. Maps(space, F) /\ Tiles(space.EndIndex, Blocks) /\ F \cap HeldBlocks = {}
  BY <1>1, <1>3 DEF Parted
<1> DEFINE end == space.EndIndex
<1>5. end \in Nat /\ \A b \in Blocks : b \in AllBlocks /\ EndOf(b) <= end
  BY <1>4 DEF Tiles
<1>6. \A b \in Blocks : /\ b.beginIndex \in Nat /\ EndOf(b) \in Nat /\ EndOf(b) <= end
                        /\ UnitsOf(b) = b.beginIndex .. EndOf(b) - 1
  BY <1>5, BlockIs DEF UnitsOf
<1>7. ASSUME NEW i PROVE i \in UNION {UnitsOf(b) : b \in Blocks} <=> i \in 0 .. end - 1
  <2>1. ASSUME NEW b \in Blocks, i \in UnitsOf(b) PROVE i \in 0 .. end - 1
    BY <1>5, <1>6, <2>1
  <2>2. ASSUME i \in 0 .. end - 1 PROVE \E b \in Blocks : i \in UnitsOf(b)
    <3>1. PICK b \in Blocks : b.beginIndex <= i /\ i < EndOf(b)
      BY <1>4, <2>2 DEF Tiles
    <3>2. i \in UnitsOf(b)
      BY <1>5, <1>6, <2>2, <3>1
    <3> QED BY <3>2
  <2> QED BY <2>1, <2>2
<1>8. ASSUME NEW a \in Blocks, NEW b \in Blocks, a # b PROVE UnitsOf(a) \cap UnitsOf(b) = {}
  <2>1. EndOf(a) <= b.beginIndex \/ EndOf(b) <= a.beginIndex
    BY <1>4, <1>8 DEF Tiles, Apart
  <2> QED BY <1>6, <2>1
<1>9. /\ {space.End[p] : p \in DOMAIN space.End} = F
      /\ \A p \in DOMAIN space.End : EndOf(space.End[p]) = p
  BY <1>4 DEF Maps
<1>10. FreeBlocks \cap {h.block : h \in held} = {}
  BY <1>2, <1>4 DEF HeldBlocks
<1> HIDE DEF end
<1>11. UNION {UnitsOf(b) : b \in Blocks} = 0 .. end - 1
  BY <1>7
<1> QED BY <1>2, <1>8, <1>9, <1>10, <1>11 DEF end

\* What was stored is loaded.
LEMMA InvStored == SomeSizes /\ Inv => StoredIsLoaded
<1> SUFFICES ASSUME SomeSizes, Inv, ~strayed, ~lost, NEW h \in held, h.stored = h.block.blockSize
             PROVE  LoadData(h.block) = [i \in 1 .. h.block.blockSize |-> h.owner]
  BY DEF StoredIsLoaded
<1>1. HeldOK /\ data \in Seq(Owners \cup {Nobody})
  BY DEF Inv, Sound
<1> DEFINE b == h.block
           n == b.blockSize
           from == b.beginIndex
<1>2. b \in AllBlocks
  BY <1>1, HandleIs
<1>3. n \in Nat /\ n > 0 /\ from \in Nat /\ EndOf(b) = from + n
  BY <1>2, BlockIs
<1>4. \A i \in 1 .. n : from + i \in 1 .. Len(data) /\ data[from + i] = h.owner
  BY <1>1 DEF HeldOK
<1>5. Len(data) \in Nat
  BY <1>1
<1> HIDE DEF n, from, b
<1>6. from + n <= Len(data)
  <2>1. n \in 1 .. n
    BY <1>3
  <2> QED BY <1>4, <1>5, <2>1
<1>7. LoadData(b) = SubSeq(data, from + 1, from + n)
  <2>1. ~(from + n > Len(data))
    BY <1>3, <1>5, <1>6
  <2> QED BY <1>3, <2>1 DEF LoadData, from
<1>8. SubSeq(data, from + 1, from + n) = [i \in 1 .. n |-> h.owner]
  <2> DEFINE t == SubSeq(data, from + 1, from + n)
  <2>1. \A i \in from + 1 .. from + n : data[i] \in Owners \cup {Nobody}
    <3> TAKE i \in from + 1 .. from + n
    <3>1. i \in 1 .. Len(data)
      BY <1>3, <1>5, <1>6
    <3> QED BY <1>1, <3>1
  <2>2. from + 1 \in Int /\ from + n \in Int /\ from + 1 <= from + n
        /\ (from + n) - (from + 1) + 1 = n
    BY <1>3
  <2>3. /\ t \in Seq(Owners \cup {Nobody}) /\ Len(t) = n
        /\ \A i \in 1 .. n : t[i] = data[from + 1 + i - 1]
    BY <2>1, <2>2, SubSeqProperties
  <2> HIDE DEF t
  <2>4. \A i \in 1 .. n : t[i] = h.owner
    <3> TAKE i \in 1 .. n
    <3>1. from + 1 + i - 1 = from + i
      BY <1>3
    <3> QED BY <1>4, <2>3, <3>1
  <2>5. t = [i \in 1 .. n |-> t[i]]
    BY <2>3
  <2>6. t = [i \in 1 .. n |-> h.owner]
    BY <2>4, <2>5
  <2> QED BY <2>6 DEF t
<1> QED BY <1>7, <1>8 DEF b, n

\* Unless a free block was merged with one it does not touch, or the process
\* was killed with an index file that was not up to date: whatever the client
\* gets, gives back and stores, and through however many processes, its
\* blocks and the free ones tile the file, and what it stored is loaded.
THEOREM BTreeStorageSafe ==
    ASSUME SomeSizes PROVE Spec => [](BlocksTile /\ StoredIsLoaded)
<1>1. Init => Inv
  BY InitInv
<1>2. Inv /\ [Next]_vars => Inv'
  BY NextInv
<1>3. Inv => BlocksTile /\ StoredIsLoaded
  BY InvTiles, InvStored
<1> QED BY <1>1, <1>2, <1>3, PTL DEF Spec
=============================================================================
