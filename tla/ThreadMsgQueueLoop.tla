------------------------- MODULE ThreadMsgQueueLoop -------------------------
(***************************************************************************)
(* Thread_Msg_Queue the way Thread_Msg_Queue/Test.cpp runs it: senders     *)
(* that send one item after another and never stop (inDo, lines 79-92) and *)
(* receivers that call MsgRecv ( buf, -1 ) for ever (outDo, lines 26-37).  *)
(* One of the items, Marked, is followed through the queue.                *)
(***************************************************************************)
EXTENDS ThreadMsgQueue

CONSTANTS Plain, Marked

ASSUME LoopAssumption == Plain # Marked /\ Item = {Plain, Marked}

VARIABLE offered    \* whether Marked has been sent

lvars == <<vars, offered>>

LInit == Init /\ offered = FALSE

LSend(s) ==
    \/ MsgSend(s, <<Plain>>, FALSE) /\ UNCHANGED offered
    \/ ~offered /\ MsgSend(s, <<Marked>>, FALSE) /\ offered' = TRUE

LRecv(r) == MsgRecv(r, [all |-> FALSE, timed |-> FALSE]) /\ UNCHANGED offered

LLock(t) == Lock(t) /\ UNCHANGED offered
LSendStep(s) == (Push(s) \/ Notify(s)) /\ UNCHANGED offered
LRecvStep(r) == (Pop(r) \/ Wait(r) \/ Pop2(r)) /\ UNCHANGED offered
LWake(r) == Wake(r) /\ UNCHANGED offered
LSpurious(r) == SpuriousWake(r) /\ UNCHANGED offered

LNext == \/ \E s \in Senders : LSend(s) \/ LSendStep(s)
         \/ \E r \in Receivers : LRecv(r) \/ LRecvStep(r) \/ LWake(r) \/ LSpurious(r)
         \/ \E t \in Threads : LLock(t)

\* Every thread is scheduled, and a thread that keeps asking for a mutex that is
\* free again and again gets it: the senders sleep between calls (line 90).
\* Nothing makes spurious wake-ups happen.
LFairness ==
    /\ \A s \in Senders : WF_lvars(LSend(s)) /\ WF_lvars(LSendStep(s))
    /\ \A r \in Receivers : WF_lvars(LRecv(r)) /\ WF_lvars(LRecvStep(r)) /\ SF_lvars(LWake(r))
    /\ \A t \in Threads : SF_lvars(LLock(t))

LSpec == LInit /\ [][LNext]_lvars /\ LFairness

MarkedWaits == \E i \in 1 .. size(list) : Waiting(list)[i] = Marked

\* A lost wake-up heals while senders keep sending: whatever was stored is taken
\* out again, because every send notifies, even one that found the list full.
StoredIsTaken == MarkedWaits ~> ~MarkedWaits
=============================================================================
