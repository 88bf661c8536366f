----------------------------- MODULE JsonBuffer -----------------------------
(***************************************************************************)
(* JsonBuffer of Basic/Json.hpp: the memory of a JSON document.  It hands  *)
(* out pieces of a chunk one behind the other; a piece as large as a chunk *)
(* gets a chunk of its own and leaves the current one as it is.  Nothing   *)
(* is given back but all at once.                                          *)
(*                                                                         *)
(* An address is a chunk and an offset.  nowBuff is meaningless where      *)
(* leftSize is 0: at first, and after free() it points into a freed chunk. *)
(***************************************************************************)
EXTENDS Integers, Sequences

CONSTANTS buffSize,     \* the size of a chunk
          Sizes,        \* the sizes asked for
          MaxPieces     \* bound: how many pieces are in use at a time

VARIABLES m_buffPool,   \* the sizes of the chunks
          nowBuff, leftSize,
          pieces        \* history: what was handed out since the last free()

vars == <<m_buffPool, nowBuff, leftSize, pieces>>

Address(chunk, offset) == [chunk |-> chunk, offset |-> offset]
Piece(address, size) == [at |-> address, size |-> size]
Addresses == [chunk : Nat, offset : Nat]
Pieces == [at : Addresses, size : Sizes]

Init ==
    /\ m_buffPool = <<>>
    /\ nowBuff = Address(0, 0)
    /\ leftSize = 0
    /\ pieces = <<>>

HandOut(address, size) == pieces' = Append(pieces, Piece(address, size))

NewChunk(size) == m_buffPool' = Append(m_buffPool, size)

\* Where the new chunk begins.
NewStart == Address(Len(m_buffPool) + 1, 0)

\* Mutant: one byte more than is left.
FitsChunk_OneMore(size) == leftSize + 1 >= size

FitsChunk(size) == leftSize >= size

MallocHere(size) ==
    /\ FitsChunk(size)
    /\ HandOut(nowBuff, size)
    /\ nowBuff' = [nowBuff EXCEPT !.offset = @ + size]
    /\ leftSize' = leftSize - size
    /\ UNCHANGED m_buffPool

MallocNextChunk(size) ==
    /\ ~FitsChunk(size)
    /\ size < buffSize
    /\ HandOut(NewStart, size)
    /\ NewChunk(buffSize)
    /\ nowBuff' = Address(Len(m_buffPool) + 1, size)
    /\ leftSize' = buffSize - size

MallocOwnChunk(size) ==
    /\ ~FitsChunk(size)
    /\ size >= buffSize
    /\ HandOut(NewStart, size)
    /\ NewChunk(size)
    /\ UNCHANGED <<nowBuff, leftSize>>

malloc(size) == MallocHere(size) \/ MallocNextChunk(size) \/ MallocOwnChunk(size)

free ==
    /\ m_buffPool' = <<>>
    /\ leftSize' = 0
    /\ pieces' = <<>>
    /\ UNCHANGED nowBuff

Next ==
    \/ Len(pieces) < MaxPieces /\ \E size \in Sizes : malloc(size)
    \/ free

Spec == Init /\ [][Next]_vars

-----------------------------------------------------------------------------

TypeOK ==
    /\ m_buffPool \in Seq(Nat)
    /\ nowBuff \in Addresses
    /\ leftSize \in Nat
    /\ pieces \in Seq(Pieces)

EndOf(p) == p.at.offset + p.size

\* Whatever sizes are asked for in whatever order, every piece lies within an
\* allocated chunk, and no two pieces share a byte: the nodes, keys and texts
\* of a document never overwrite one another.
PiecesDisjoint ==
    /\ \A i \in 1 .. Len(pieces) :
         /\ pieces[i].at.chunk \in 1 .. Len(m_buffPool)
         /\ EndOf(pieces[i]) <= m_buffPool[pieces[i].at.chunk]
    /\ \A i, j \in 1 .. Len(pieces) :
         i < j /\ pieces[i].at.chunk = pieces[j].at.chunk =>
            \/ EndOf(pieces[i]) <= pieces[j].at.offset
            \/ EndOf(pieces[j]) <= pieces[i].at.offset

\* What makes it so: the bytes left are those from nowBuff to the end of its
\* chunk, behind every piece of that chunk.
LeftIsFree ==
    leftSize > 0 =>
        /\ nowBuff.chunk \in 1 .. Len(m_buffPool)
        /\ nowBuff.offset + leftSize <= m_buffPool[nowBuff.chunk]
        /\ \A i \in 1 .. Len(pieces) : pieces[i].at.chunk = nowBuff.chunk => EndOf(pieces[i]) <= nowBuff.offset

Inv == TypeOK /\ PiecesDisjoint /\ LeftIsFree
=============================================================================
