------------------------ MODULE ThreadMsgQueueHistory ------------------------
(***************************************************************************)
(* Thread_Msg_Queue under senders that number their items and stop after   *)
(* MaxSend of them, and receivers that use every form of MsgRecv.  The     *)
(* history records what the list accepted and what receivers were handed.  *)
(***************************************************************************)
EXTENDS ThreadMsgQueue, FiniteSets

CONSTANTS MaxSend,   \* bound: items a sender offers
          MaxRecv,   \* bound: calls a receiver makes
          AllowedCalls   \* the forms of MsgRecv in use, a subset of Calls

ASSUME HistoryAssumption ==
    /\ MaxSend \in Nat /\ MaxRecv \in Nat /\ AllowedCalls \subseteq Calls
    /\ Item = Senders \X (1 .. MaxSend)

VARIABLES sent,      \* how many items each sender has offered
          received,  \* how many calls each receiver has made
          accepted,  \* the items stored, in the order of storing
          handed,    \* the items copied to receivers, in the order of copying
          behind,    \* whether beginIndex has ever been -1
          spilt      \* whether a pop_all has written past a buffer for one item

hvars == <<vars, sent, received, accepted, handed, behind, spilt>>

HInit == /\ Init
         /\ sent = [s \in Senders |-> 0] /\ received = [r \in Receivers |-> 0]
         /\ accepted = <<>> /\ handed = <<>> /\ behind = FALSE /\ spilt = FALSE

\* The number of items of a send that were stored.
Stored(b, result) == IF b.array THEN Len(b.items) - result ELSE result

HSend(s) ==
    /\ \E n \in 1 .. MaxBatch, array \in BOOLEAN :
         /\ sent[s] + n <= MaxSend
         /\ MsgSend(s, [i \in 1 .. n |-> <<s, sent[s] + i>>], array)
         /\ sent' = [sent EXCEPT ![s] = @ + n]
    /\ UNCHANGED <<received, accepted, handed, behind, spilt>>

HPush(s) ==
    /\ Push(s)
    /\ accepted' = IF crashed' THEN accepted
                   ELSE accepted \o SubSeq(batch[s].items, 1, Stored(batch[s], ret'[s]))
    /\ UNCHANGED <<sent, received, handed, behind, spilt>>

HRecv(r) ==
    /\ received[r] < MaxRecv
    /\ \E c \in AllowedCalls : MsgRecv(r, c)
    /\ received' = [received EXCEPT ![r] = @ + 1]
    /\ UNCHANGED <<sent, accepted, handed, behind, spilt>>

HPop(r) ==
    /\ Pop(r) \/ Pop2(r)
    /\ handed' = handed \o got'[r]
    /\ behind' = (behind \/ list'.beginIndex = -1)
    /\ spilt' = (spilt \/ Len(got'[r]) < ret'[r])
    /\ UNCHANGED <<sent, received, accepted>>

HOther(t) ==
    /\ \/ Lock(t)
       \/ t \in Senders /\ Notify(t)
       \/ t \in Receivers /\ (Wait(t) \/ Timeout(t) \/ SpuriousWake(t) \/ Wake(t))
    /\ UNCHANGED <<sent, received, accepted, handed, behind, spilt>>

HNext == \/ \E s \in Senders : HSend(s) \/ HPush(s)
         \/ \E r \in Receivers : HRecv(r) \/ HPop(r)
         \/ \E t \in Threads : HOther(t)

HSpec == HInit /\ [][HNext]_hvars

\* Every thread keeps running and gets a lock it keeps asking for; timeouts
\* happen, spurious wake-ups need not.
HFairness ==
    /\ \A s \in Senders : WF_hvars(HPush(s)) /\ WF_hvars(Notify(s) /\ HOther(s))
    /\ \A r \in Receivers : WF_hvars(HPop(r)) /\ WF_hvars(HOther(r) /\ (Wait(r) \/ Timeout(r)))
                            /\ SF_hvars(HOther(r) /\ Wake(r))
    /\ \A t \in Threads : SF_hvars(HOther(t) /\ Lock(t))

FairHSpec == HSpec /\ HFairness

-----------------------------------------------------------------------------

TypeOK == ThreadsOK /\ list \in Lists

\* What receivers are handed, over all of them and in the room they gave for it,
\* is what was accepted, in that order, none twice and none invented -- though
\* some may be missing.
HandedInOrder ==
    \E kept \in SUBSET (1 .. Len(accepted)) :
        /\ Cardinality(kept) = Len(handed)
        /\ \A i \in kept :
              handed[Cardinality({j \in kept : j <= i})] = accepted[i]

\* As long as no pop_all has left beginIndex at -1 (ArrayList.hpp line 201) or
\* run over a buffer for one item (Thread_Msg_Queue.hpp line 146), nothing is
\* missing either: accepted = handed followed by the waiting items.
KeptUnlessBehindOrSpilt == ~behind /\ ~spilt => accepted = handed \o Waiting(list)

\* "Get All Data In DataArray" (Thread_Msg_Queue.hpp:59): a call that took
\* everything leaves no accepted item that nobody will ever be handed.
AllDataKept == accepted = handed \o Waiting(list)

\* "-1 means block untill receive data" (Thread_Msg_Queue.hpp:113): a receiver
\* blocked without a timeout does not stay blocked beside a waiting item.
BlockedReceiverGetsData ==
    \A r \in Receivers :
        (r \in m_condition /\ ~call[r].timed /\ size(list) > 0)
            ~> (r \notin m_condition \/ size(list) = 0)
=============================================================================
