-------------------------- MODULE ArrayListClient --------------------------
(***************************************************************************)
(* An ArrayList under one client, and the queue it is meant to be.         *)
(*                                                                         *)
(* A "free" client offers items whenever it likes and takes them one at a  *)
(* time.  A "paced" client asks size() before it offers anything, never    *)
(* offers more than fits, and may also take everything at once.  (What a   *)
(* client meets that does neither is the subject of ThreadMsgQueue.)       *)
(***************************************************************************)
EXTENDS ArrayList

VARIABLES ring,             \* the object
          answer, copied,   \* what the last method returned and handed out
          client            \* the client's discipline, fixed from the start

clientVars == <<ring, answer, copied, client>>

ClientInit ==
    /\ ring = NewList /\ answer = 0 /\ copied = <<>>
    /\ client \in {"free", "paced"}

\* May the client offer n items now?
Offers(n) == client = "free" \/ size(ring) + n <= ArraySize

PushBack(d) ==
    /\ Offers(1)
    /\ LET r == push_back(ring, d) IN ring' = r.list /\ answer' = r.ret
    /\ copied' = <<>> /\ UNCHANGED client

PopFront ==
    /\ LET r == pop_front(ring) IN ring' = r.list /\ answer' = r.ret /\ copied' = r.out
    /\ UNCHANGED client

PushAll(batch) ==
    /\ Offers(Len(batch))
    /\ ~push_all_crashes(ring, batch)
    /\ LET r == push_all(ring, batch) IN ring' = r.list /\ answer' = r.ret
    /\ copied' = <<>> /\ UNCHANGED client

PopAll ==
    /\ client = "paced"
    /\ LET r == pop_all(ring) IN ring' = r.list /\ answer' = r.ret /\ copied' = r.out
    /\ UNCHANGED client

\* Init called again: new memory of the same size.
ReInit ==
    /\ ring' = NewList /\ answer' = 0 /\ copied' = <<>>
    /\ UNCHANGED client

ClientNext ==
    \/ \E d \in Item : PushBack(d)
    \/ \E batch \in Batches : PushAll(batch)
    \/ PopFront \/ PopAll \/ ReInit

ClientSpec == ClientInit /\ [][ClientNext]_clientVars

-----------------------------------------------------------------------------
(* Properties.                                                             *)

\* Every field keeps its type; beginIndex may be -1 but endIndex stays in the ring.
ClientTypeOK ==
    /\ ring \in Lists
    /\ answer \in Nat
    /\ copied \in Seq(Item \cup {Junk})
    /\ client \in {"free", "paced"}

\* What the three index tests (lines 60-95) are worth.  No history of calls
\* makes the ring hold more than ArraySize items, empty() holds exactly of an
\* empty ring, and full() never of a ring with room.  But full() does NOT say
\* that every full ring is full: a paced client's pop_all may leave beginIndex
\* at -1 (line 201), and then full() is 0 even of ArraySize items.  So size()
\* is the test to go by, and full() is right just when beginIndex is not -1.
IndexTestsSound ==
    /\ size(ring) \in 0 .. ArraySize
    /\ empty(ring) <=> size(ring) = 0
    /\ full(ring) <=> size(ring) = ArraySize /\ ring.beginIndex # -1

\* The undefined branch of push_all (a negative length given to memcpy, lines
\* 167-181) is out of reach of a client that never calls pop_all or that paces
\* itself by size().
NoWildCopy ==
    \A batch \in Batches : Offers(Len(batch)) => ~push_all_crashes(ring, batch)

Queue == INSTANCE BoundedQueue WITH contents <- Waiting(ring), Capacity <- ArraySize, ret <- answer, out <- copied

\* Under either discipline the ring is a bounded FIFO queue: push_back and
\* push_all accept exactly what fits and say so, pop_front and pop_all hand out
\* the oldest items in order, once.
ImplementsBoundedQueue == Queue!Spec
=============================================================================
