---------------------------- MODULE MsgQueueIPC -----------------------------
(***************************************************************************)
(* Thread_Msg_Queue/Msg_Queue_IPC.hpp: messages handed from thread to      *)
(* thread in buffers, whose addresses travel as the types of empty         *)
(* messages in two kernel queues: one of the unused buffers, one of the    *)
(* filled ones.                                                            *)
(*                                                                         *)
(* The keys of the kernel queues are the same for every object of the      *)
(* machine: a constructor removes the queues it finds, whoever uses them,  *)
(* and a destructor removes those of its object if they are still there.   *)
(* The threads use the first object; another may be made beside it.  A     *)
(* kernel queue has room for all the addresses (16384, by default).        *)
(***************************************************************************)
EXTENDS Integers, Sequences, FiniteSets

CONSTANTS Senders, Receivers,
          ArraySize,     \* how many buffers there are
          Data,          \* what is sent
          MaxTimes       \* bound: how often a receiver with a timeout polls

VARIABLES free, used,    \* the kernel queues of m_msgID_free and m_msgID_used
          exists,        \* they have not been removed
          buffer,        \* what is in m_data
          pc, hand,      \* per thread: where it stands, and its local buffer
          datum,         \* per thread: what it sends, or has received
          times,         \* per thread: polls left; Forever when timeout < 0
          due,           \* history: what was put into the used queue and not taken
          wanted         \* history, per receiver: what was in the buffer when it was put

vars == <<free, used, exists, buffer, pc, hand, datum, times, due, wanted>>

Threads == Senders \cup Receivers
Pointors == 1 .. ArraySize
NULL == 0
NoData == "none"
Forever == -1

\* The constructor: every buffer is unused.
Init ==
    /\ free = [i \in Pointors |-> i]
    /\ used = <<>>
    /\ exists = TRUE
    /\ buffer = [p \in Pointors |-> NoData]
    /\ pc = [t \in Threads |-> "idle"]
    /\ hand = [t \in Threads |-> NULL]
    /\ datum = [t \in Threads |-> NoData]
    /\ times = [t \in Threads |-> 0]
    /\ due = <<>>
    /\ wanted = [r \in Receivers |-> NoData]

Goto(t, place) == pc' = [pc EXCEPT ![t] = place]

-----------------------------------------------------------------------------
(***************************************************************************)
(* The queues.                                                             *)
(***************************************************************************)

\* GetUsefullPointor, which does not wait.
GetUsefullPointor(t) ==
    /\ exists /\ free # <<>>
    /\ hand' = [hand EXCEPT ![t] = Head(free)]
    /\ free' = Tail(free)

NoUsefullPointor == ~exists \/ free = <<>>

\* GiveBackUsedPointor and PutPointorToUsedQueue; their msgsnd is not checked.
GiveBackUsedPointor(t) ==
    /\ free' = IF exists THEN Append(free, hand[t]) ELSE free
    /\ hand' = [hand EXCEPT ![t] = NULL]

PutPointorToUsedQueue(t) ==
    /\ used' = IF exists THEN Append(used, hand[t]) ELSE used
    /\ due' = IF exists THEN Append(due, datum[t]) ELSE due
    /\ hand' = [hand EXCEPT ![t] = NULL]

-----------------------------------------------------------------------------
(***************************************************************************)
(* MSGSnd.                                                                 *)
(***************************************************************************)

\* A buffer to fill, or -1.
MSGSnd(s, d) ==
    /\ pc[s] = "idle"
    /\ \/ /\ GetUsefullPointor(s)
          /\ Goto(s, "copy")
          /\ datum' = [datum EXCEPT ![s] = d]
       \/ NoUsefullPointor /\ UNCHANGED <<free, hand, pc, datum>>
    /\ UNCHANGED <<used, exists, buffer, times, due, wanted>>

SndCopy(s) ==
    /\ pc[s] = "copy"
    /\ buffer' = [buffer EXCEPT ![hand[s]] = datum[s]]
    /\ Goto(s, "put")
    /\ UNCHANGED <<free, used, exists, hand, datum, times, due, wanted>>

SndPut(s) ==
    /\ pc[s] = "put"
    /\ PutPointorToUsedQueue(s)
    /\ Goto(s, "idle")
    /\ UNCHANGED <<free, exists, buffer, datum, times, wanted>>

-----------------------------------------------------------------------------
(***************************************************************************)
(* MSGRcv.                                                                 *)
(***************************************************************************)

MSGRcv(r, n) ==
    /\ pc[r] = "idle"
    /\ Goto(r, "rcv")
    /\ times' = [times EXCEPT ![r] = n]
    /\ UNCHANGED <<free, used, exists, buffer, hand, datum, due, wanted>>

\* Mutant: the buffer is given back before its content is copied.
RcvTake_GiveFirst(r) ==
    /\ pc[r] = "rcv"
    /\ exists /\ used # <<>>
    /\ hand' = [hand EXCEPT ![r] = Head(used)]
    /\ used' = Tail(used)
    /\ free' = Append(free, Head(used))
    /\ wanted' = [wanted EXCEPT ![r] = Head(due)]
    /\ due' = Tail(due)
    /\ Goto(r, "copy")
    /\ UNCHANGED <<exists, buffer, datum, times>>

\* The msgrcv that finds a buffer.
RcvTake(r) ==
    /\ pc[r] = "rcv"
    /\ exists /\ used # <<>>
    /\ hand' = [hand EXCEPT ![r] = Head(used)]
    /\ used' = Tail(used)
    /\ wanted' = [wanted EXCEPT ![r] = Head(due)]
    /\ due' = Tail(due)
    /\ Goto(r, "copy")
    /\ UNCHANGED <<free, exists, buffer, datum, times>>

\* The one that does not: with a timeout it is tried again until the polls
\* are used up, without one it ends only when the queue is removed.
RcvMiss(r) ==
    /\ pc[r] = "rcv"
    /\ IF times[r] = Forever THEN ~exists ELSE ~exists \/ used = <<>>
    /\ IF times[r] > 1
       THEN times' = [times EXCEPT ![r] = @ - 1] /\ UNCHANGED pc
       ELSE times' = [times EXCEPT ![r] = 0] /\ Goto(r, "idle")
    /\ UNCHANGED <<free, used, exists, buffer, hand, datum, due, wanted>>

RcvCopy(r) ==
    /\ pc[r] = "copy"
    /\ datum' = [datum EXCEPT ![r] = buffer[hand[r]]]
    /\ Goto(r, "give")
    /\ UNCHANGED <<free, used, exists, buffer, hand, times, due, wanted>>

\* Mutant: only the form without a timeout gives the buffer back.
RcvGive_Forgotten(r) ==
    /\ pc[r] = "give"
    /\ IF times[r] = Forever THEN GiveBackUsedPointor(r) ELSE hand' = [hand EXCEPT ![r] = NULL] /\ UNCHANGED free
    /\ times' = [times EXCEPT ![r] = 0]
    /\ Goto(r, "idle")
    /\ UNCHANGED <<used, exists, buffer, datum, due, wanted>>

RcvGive(r) ==
    /\ pc[r] = "give"
    /\ GiveBackUsedPointor(r)
    /\ times' = [times EXCEPT ![r] = 0]
    /\ Goto(r, "idle")
    /\ UNCHANGED <<used, exists, buffer, datum, due, wanted>>

\* Another object is made, or this one is destroyed: the queues are removed.
Removed ==
    /\ exists
    /\ exists' = FALSE
    /\ free' = <<>> /\ used' = <<>> /\ due' = <<>>
    /\ UNCHANGED <<buffer, pc, hand, datum, times, wanted>>

Next ==
    \/ \E s \in Senders : (\E d \in Data : MSGSnd(s, d)) \/ SndCopy(s) \/ SndPut(s)
    \/ \E r \in Receivers : \/ \E n \in {Forever} \cup 0 .. MaxTimes : MSGRcv(r, n)
                            \/ RcvTake(r) \/ RcvMiss(r) \/ RcvCopy(r) \/ RcvGive(r)
    \/ Removed

Spec == Init /\ [][Next]_vars

-----------------------------------------------------------------------------
(***************************************************************************)
(* Properties.                                                             *)
(***************************************************************************)

TypeOK ==
    /\ free \in Seq(Pointors) /\ used \in Seq(Pointors) /\ due \in Seq(Data)
    /\ buffer \in [Pointors -> Data \cup {NoData}]
    /\ pc \in [Threads -> {"idle", "rcv", "copy", "put", "give"}]
    /\ hand \in [Threads -> Pointors \cup {NULL}]
    /\ times \in [Threads -> -1 .. MaxTimes]

\* As long as the queues exist every buffer is in one place only: in one of
\* the queues, once, or in the hand of one thread; so none is lost and no two
\* threads work on the same.
BufferHasOneOwner ==
    exists =>
        \A p \in Pointors :
            Cardinality({i \in DOMAIN free : free[i] = p}) + Cardinality({i \in DOMAIN used : used[i] = p})
            + Cardinality({t \in Threads : hand[t] = p}) = 1

\* A receiver gets what the sender of that buffer wrote, in the order in which
\* the buffers were put into the queue, and also when the queues are removed
\* while it works; and what waits in the queue is not touched any more.
DataIntact ==
    /\ \A r \in Receivers : pc[r] = "give" => datum[r] = wanted[r]
    /\ Len(used) = Len(due)
    /\ \A i \in DOMAIN used : buffer[used[i]] = due[i]
=============================================================================
