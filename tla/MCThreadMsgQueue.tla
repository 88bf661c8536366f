-------------------------- MODULE MCThreadMsgQueue --------------------------
(* Instances of ThreadMsgQueueHistory for TLC. *)
EXTENDS ThreadMsgQueueHistory, TLC

\* Senders number their items.
MCItem == Senders \X (1 .. MaxSend)

\* Three of the four forms of MsgRecv: pop_all is in them with its first call
\* (all) and only after the wait (one item, timed).
MCCalls == [all : {FALSE}, timed : BOOLEAN] \cup [all : {TRUE}, timed : {TRUE}]

\* The form that takes everything and waits for ever.
MCAllForever == {[all |-> TRUE, timed |-> FALSE]}

\* MsgRecv of one item with Timeout = -1, the form Thread_Msg_Queue/Test.cpp uses.
MCForever == {[all |-> FALSE, timed |-> FALSE]}

MCSymmetry == Permutations(Receivers)
=============================================================================
