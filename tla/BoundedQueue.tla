---------------------------- MODULE BoundedQueue ----------------------------
(***************************************************************************)
(* What a bounded block queue promises its client: items leave in the      *)
(* order in which they were accepted, each once, and an item is turned     *)
(* away only when Capacity items are already waiting.  The class ArrayList *)
(* is meant to implement it with a ring of memory (ArrayList/ArrayList.hpp)*)
(***************************************************************************)
EXTENDS Integers, Sequences

CONSTANTS Item,       \* what is queued
          Capacity,   \* the most items the queue holds, a natural number
          MaxBatch    \* bound: the longest batch a client offers at once

VARIABLES contents,   \* the waiting items, oldest first
          ret,        \* what the last operation returned
          out         \* the items the last operation handed out

vars == <<contents, ret, out>>

Batches == UNION {[1 .. n -> Item] : n \in 0 .. MaxBatch}

Lesser(m, n) == IF m < n THEN m ELSE n

Room == Capacity - Len(contents)

Init == contents = <<>> /\ ret = 0 /\ out = <<>>

\* One item: accepted (1) while there is room, turned away (0) otherwise.
Put(d) ==
    /\ out' = <<>>
    /\ \/ Room > 0 /\ contents' = Append(contents, d) /\ ret' = 1
       \/ Room = 0 /\ contents' = contents /\ ret' = 0

\* A batch: as long a prefix as there is room for; the answer is what is left.
PutAll(batch) ==
    LET n == Lesser(Room, Len(batch)) IN
    /\ contents' = contents \o SubSeq(batch, 1, n)
    /\ ret' = Len(batch) - n
    /\ out' = <<>>

Take ==
    \/ contents # <<>> /\ contents' = Tail(contents) /\ ret' = 1 /\ out' = <<Head(contents)>>
    \/ contents = <<>> /\ contents' = contents /\ ret' = 0 /\ out' = <<>>

TakeAll == contents' = <<>> /\ ret' = Len(contents) /\ out' = contents

\* The queue is set up again: what it held is dropped.
Discard == contents' = <<>> /\ ret' = 0 /\ out' = <<>>

Next == \/ \E d \in Item : Put(d)
        \/ \E batch \in Batches : PutAll(batch)
        \/ Take \/ TakeAll \/ Discard

Spec == Init /\ [][Next]_vars
=============================================================================
