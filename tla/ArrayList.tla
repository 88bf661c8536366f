------------------------------ MODULE ArrayList ------------------------------
(***************************************************************************)
(* The class ArrayList (ArrayList/ArrayList.hpp): a ring of                *)
(* m_ArraySize = ArraySize + 2 slots.  beginIndex is the slot before the   *)
(* oldest item, endIndex the slot after the newest one, so ArraySize items *)
(* fit.  The methods are operators on the object ("list"), which is how    *)
(* the classes that contain an ArrayList use them.  A method returns the   *)
(* object after the call, what it returns, and what it copied out.         *)
(*                                                                         *)
(* Blocks of m_DataSize bytes are the elements of Item; Junk is memory     *)
(* malloc returned and nobody wrote.                                       *)
(***************************************************************************)
EXTENDS Integers, Sequences

CONSTANTS Item, Junk,
          ArraySize,   \* the size given to Init
          MaxBatch     \* bound: the longest array given to push_all

ASSUME ArrayListAssumption ==
    /\ ArraySize \in Nat /\ MaxBatch \in Nat
    /\ Junk \notin Item

m_ArraySize == ArraySize + 2
Slots == 0 .. m_ArraySize - 1

\* beginIndex may leave the ring: pop_all can set it to -1 (line 201).
Lists == [m_DataArray : [Slots -> Item \cup {Junk}],
          beginIndex : -1 .. m_ArraySize - 1, endIndex : Slots]

Batches == UNION {[1 .. n -> Item] : n \in 0 .. MaxBatch}

-----------------------------------------------------------------------------
(* The methods.                                                            *)

NewList == [m_DataArray |-> [i \in Slots |-> Junk], beginIndex |-> 0, endIndex |-> 1]

full(list) == (list.endIndex + 1) % m_ArraySize = list.beginIndex

empty(list) == (list.beginIndex + 1) % m_ArraySize = list.endIndex

size(list) ==
    LET n == list.endIndex - list.beginIndex - 1
    IN  IF n < 0 THEN n + m_ArraySize ELSE n

\* Variants of the code, each with a plausible slip (see the README: mutants).
push_back_NoModulo(list, d) ==
    IF full(list)
    THEN [list |-> list, ret |-> 0]
    ELSE [list |-> [list EXCEPT !.m_DataArray[list.endIndex] = d, !.endIndex = @ + 1], ret |-> 1]

push_back_NoFullTest(list, d) ==
    [list |-> [list EXCEPT !.m_DataArray[list.endIndex] = d,
                           !.endIndex = (list.endIndex + 1) % m_ArraySize], ret |-> 1]

push_back(list, d) ==
    IF full(list)
    THEN [list |-> list, ret |-> 0]
    ELSE [list |-> [list EXCEPT !.m_DataArray[list.endIndex] = d,
                                !.endIndex = (list.endIndex + 1) % m_ArraySize],
          ret |-> 1]

pop_front_Peek(list) ==
    LET next == (list.beginIndex + 1) % m_ArraySize IN
    IF empty(list)
    THEN [list |-> list, ret |-> 0, out |-> <<>>]
    ELSE [list |-> list, ret |-> 1, out |-> <<list.m_DataArray[next]>>]

pop_front(list) ==
    LET next == (list.beginIndex + 1) % m_ArraySize IN
    IF empty(list)
    THEN [list |-> list, ret |-> 0, out |-> <<>>]
    ELSE [list |-> [list EXCEPT !.beginIndex = next],
          ret |-> 1, out |-> <<list.m_DataArray[next]>>]

\* n items of batch, from the one after the first "skip", copied to slot "at" on.
memcpy(array, at, batch, skip, n) ==
    [i \in Slots |-> IF i \in at .. at + n - 1 THEN batch[skip + 1 + i - at] ELSE array[i]]

Lesser(m, n) == IF m < n THEN m ELSE n

FitsWithoutWrap_NoZeroTest(list, batch) ==
    \/ list.endIndex < list.beginIndex
    \/ m_ArraySize - list.endIndex - 1 >= Len(batch)

\* The free slots up to the end of the memory suffice, or the last slot must
\* stay free because the oldest item is in slot 1: one copy.
FitsWithoutWrap(list, batch) ==
    \/ list.endIndex < list.beginIndex
    \/ list.beginIndex = 0
    \/ m_ArraySize - list.endIndex - 1 >= Len(batch)

WrapLength_OneMore(list, batch) ==
    Lesser(list.beginIndex, Len(batch) - (m_ArraySize - list.endIndex))

\* What a wrapping push_all puts at the start of the memory.  With
\* beginIndex = -1 it is -2 blocks: a memcpy of nearly 2^64 bytes.
WrapLength(list, batch) ==
    Lesser(list.beginIndex - 1, Len(batch) - (m_ArraySize - list.endIndex))

push_all_crashes(list, batch) ==
    ~FitsWithoutWrap(list, batch) /\ WrapLength(list, batch) < 0

push_all(list, batch) ==
    LET first == IF list.endIndex < list.beginIndex
                 THEN list.beginIndex - list.endIndex - 1
                 ELSE m_ArraySize - list.endIndex - 1
        n == Lesser(first, Len(batch))
        head == m_ArraySize - list.endIndex
        tail == WrapLength(list, batch)
    IN  IF FitsWithoutWrap(list, batch)
        THEN [list |-> [list EXCEPT !.m_DataArray = memcpy(@, list.endIndex, batch, 0, n),
                                    !.endIndex = @ + n],
              ret |-> Len(batch) - n]
        ELSE [list |-> [list EXCEPT !.m_DataArray =
                            memcpy(memcpy(@, list.endIndex, batch, 0, head), 0, batch, head, tail),
                                    !.endIndex = tail],
              ret |-> Len(batch) - head - tail]

pop_all(list) ==
    LET num == IF list.endIndex > list.beginIndex
               THEN list.endIndex - list.beginIndex - 1
               ELSE m_ArraySize - list.beginIndex - 1 + list.endIndex
    IN  [list |-> [list EXCEPT !.beginIndex = list.endIndex - 1],
         ret |-> num,
         out |-> [i \in 1 .. num |-> list.m_DataArray[(list.beginIndex + i) % m_ArraySize]]]

\* The waiting items, oldest first (the ring as its client sees it).
Waiting(list) ==
    [i \in 1 .. size(list) |-> list.m_DataArray[(list.beginIndex + i) % m_ArraySize]]
=============================================================================
