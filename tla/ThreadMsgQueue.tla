--------------------------- MODULE ThreadMsgQueue ---------------------------
(***************************************************************************)
(* The class Thread_Msg_Queue (Thread_Msg_Queue/Thread_Msg_Queue.hpp): an  *)
(* ArrayList shared by threads, guarded by m_lock, with a condition        *)
(* variable m_condition on which receivers wait under a second mutex,      *)
(* m_cv_lock.  A sender notifies after it has released m_lock, whether or  *)
(* not anything was stored; a receiver that finds the list empty waits     *)
(* once, with no predicate, and pops again however it woke.                *)
(*                                                                         *)
(* This module holds the steps of the threads.  ThreadMsgQueueHistory      *)
(* gives them numbered items and a history, ThreadMsgQueueLoop lets them   *)
(* run forever as in Thread_Msg_Queue/Test.cpp.                            *)
(***************************************************************************)
EXTENDS ArrayList

CONSTANTS Senders, Receivers,
          None          \* no thread

ASSUME ThreadAssumption == Senders \cap Receivers = {} /\ None \notin Senders \cup Receivers

Threads == Senders \cup Receivers

\* The two MsgRecv overloads (all: lines 70-106, one: lines 119-155), each with
\* Timeout = -1 or a number of seconds.
Calls == [all : BOOLEAN, timed : BOOLEAN]

VARIABLES
    list,        \* m_DataArray
    m_lock,      \* the thread that holds m_lock
    m_cv_lock,   \* the thread that holds m_cv_lock
    m_condition, \* the threads blocked on the condition variable
    pc,          \* where each thread is
    batch,       \* what a sender is sending, and whether as an array
    call,        \* the call a receiver is in
    timedOut,    \* whether wait_for returned cv_status::timeout
    ret,         \* the value a thread's last call returned
    got,         \* what a receiver's last call copied to its buffer
    crashed      \* the process died in an undefined memcpy

vars == <<list, m_lock, m_cv_lock, m_condition, pc, batch, call, timedOut, ret, got, crashed>>

ThreadsOK ==
    /\ m_lock \in Threads \cup {None}
    /\ m_cv_lock \in Receivers \cup {None}
    /\ m_condition \subseteq Receivers
    /\ pc \in [Threads -> {"idle", "lock", "push", "notify",
                           "pop", "cv", "blocked", "lock2", "pop2"}]
    /\ call \in [Receivers -> Calls]
    /\ timedOut \in [Receivers -> BOOLEAN]
    /\ crashed \in BOOLEAN

\* The constructor (lines 24-27).
Init ==
    /\ list = NewList
    /\ m_lock = None /\ m_cv_lock = None /\ m_condition = {}
    /\ pc = [t \in Threads |-> "idle"]
    /\ batch = [s \in Senders |-> [items |-> <<>>, array |-> FALSE]]
    /\ call = [r \in Receivers |-> [all |-> FALSE, timed |-> FALSE]]
    /\ timedOut = [r \in Receivers |-> FALSE]
    /\ ret = [t \in Threads |-> 0]
    /\ got = [r \in Receivers |-> <<>>]
    /\ crashed = FALSE

Goto(t, from, to) == ~crashed /\ pc[t] = from /\ pc' = [pc EXCEPT ![t] = to]

Locals == <<batch, call, timedOut, ret, got, crashed>>

-----------------------------------------------------------------------------
(* Both sides: m_lock.lock() (lines 36, 51, 73, 85, 100, 123, 135, 145).   *)

Lock(t) ==
    /\ \/ t \in Senders /\ Goto(t, "lock", "push")
       \/ t \in Receivers /\ Goto(t, "lock", "pop")
       \/ t \in Receivers /\ Goto(t, "lock2", "pop2")
    /\ m_lock = None /\ m_lock' = t
    /\ UNCHANGED <<list, m_cv_lock, m_condition, Locals>>

-----------------------------------------------------------------------------
(* MsgSend of one item (lines 33-41) or of an array (lines 48-56).         *)

MsgSend(s, items, array) ==
    /\ Goto(s, "idle", "lock")
    /\ array \/ Len(items) = 1
    /\ batch' = [batch EXCEPT ![s] = [items |-> items, array |-> array]]
    /\ UNCHANGED <<list, m_lock, m_cv_lock, m_condition, call, timedOut, ret, got, crashed>>

Store(s, result) == list' = result.list /\ ret' = [ret EXCEPT ![s] = result.ret]

\* push_back or push_all, and m_lock.unlock().  The undefined memcpy of
\* push_all ends the process.
Push(s) ==
    LET b == batch[s] IN
    /\ Goto(s, "push", "notify")
    /\ \/ ~b.array /\ Store(s, push_back(list, b.items[1])) /\ UNCHANGED crashed
       \/ b.array /\ ~push_all_crashes(list, b.items)
          /\ Store(s, push_all(list, b.items)) /\ UNCHANGED crashed
       \/ b.array /\ push_all_crashes(list, b.items)
          /\ crashed' = TRUE /\ UNCHANGED <<list, ret>>
    /\ m_lock' = None
    /\ UNCHANGED <<m_cv_lock, m_condition, batch, call, timedOut, got>>

\* A sender that notifies only when it stored something.
Notify_IfStored(s) ==
    /\ Goto(s, "notify", "idle")
    /\ IF m_condition = {} \/ ret[s] = 0
       THEN UNCHANGED m_condition
       ELSE \E r \in m_condition : m_condition' = m_condition \ {r}
    /\ UNCHANGED <<list, m_lock, m_cv_lock, Locals>>

\* m_condition.notify_one(), and return: the system picks the waiter.
Notify(s) ==
    /\ Goto(s, "notify", "idle")
    /\ IF m_condition = {}
       THEN UNCHANGED m_condition
       ELSE \E r \in m_condition : m_condition' = m_condition \ {r}
    /\ UNCHANGED <<list, m_lock, m_cv_lock, Locals>>

-----------------------------------------------------------------------------
(* MsgRecv (lines 70-106 and 119-155).                                     *)

MsgRecv(r, c) ==
    /\ Goto(r, "idle", "lock")
    /\ call' = [call EXCEPT ![r] = c]
    /\ timedOut' = [timedOut EXCEPT ![r] = FALSE]
    /\ got' = [got EXCEPT ![r] = <<>>]
    /\ UNCHANGED <<list, m_lock, m_cv_lock, m_condition, batch, ret, crashed>>

\* What a pop does to the list and to the thread, of whose buffer "held" is what
\* is left afterwards.
Deliver(r, result, held) ==
    /\ list' = result.list
    /\ ret' = [ret EXCEPT ![r] = result.ret]
    /\ got' = [got EXCEPT ![r] = held]
    /\ m_lock' = None

\* The first pop (lines 73-75, 123-125): done, or on to the wait.
Pop(r) ==
    LET result == IF call[r].all THEN pop_all(list) ELSE pop_front(list) IN
    /\ Goto(r, "pop", IF result.ret = 0 THEN "cv" ELSE "idle")
    /\ Deliver(r, result, result.out)
    /\ UNCHANGED <<m_cv_lock, m_condition, batch, call, timedOut, crashed>>

\* Take m_cv_lock and wait, which releases it again in one step with blocking.
Wait(r) ==
    /\ Goto(r, "cv", "blocked")
    /\ m_cv_lock = None
    /\ m_condition' = m_condition \cup {r}
    /\ UNCHANGED <<list, m_lock, m_cv_lock, Locals>>

\* The seconds are over: of a thread nobody has notified, or of one that was and
\* has not run again, for wait_for reads the clock when it wakes.  The
\* notification is then consumed by a call that returns -1.
Timeout(r) ==
    /\ ~crashed /\ pc[r] = "blocked" /\ call[r].timed /\ ~timedOut[r]
    /\ m_condition' = m_condition \ {r}
    /\ timedOut' = [timedOut EXCEPT ![r] = TRUE]
    /\ UNCHANGED <<list, m_lock, m_cv_lock, pc, batch, call, ret, got, crashed>>

\* A condition variable may wake a thread nobody notified.
SpuriousWake(r) ==
    /\ ~crashed /\ r \in m_condition
    /\ m_condition' = m_condition \ {r}
    /\ UNCHANGED <<list, m_lock, m_cv_lock, pc, Locals>>

\* Woken: the wait returns holding m_cv_lock again.  After a timeout the call
\* returns -1 and lets it go (lines 92-95, 138-141).
Wake(r) ==
    /\ r \notin m_condition
    /\ m_cv_lock = None
    /\ \/ /\ timedOut[r]
          /\ Goto(r, "blocked", "idle")
          /\ ret' = [ret EXCEPT ![r] = -1]
          /\ UNCHANGED m_cv_lock
       \/ /\ ~timedOut[r]
          /\ Goto(r, "blocked", "lock2")
          /\ m_cv_lock' = r
          /\ UNCHANGED ret
    /\ UNCHANGED <<list, m_lock, m_condition, batch, call, timedOut, got, crashed>>

\* A buffer for one item holds the first of them.
Holds(c, items) == IF ~c.all /\ Len(items) > 1 THEN SubSeq(items, 1, 1) ELSE items

\* The second pop, with m_cv_lock held.  MsgRecv of one item with a timeout
\* calls pop_all here (line 146): what does not fit its buffer is written over
\* whatever the caller keeps behind it, which may end the process.
Pop2(r) ==
    LET result == IF call[r].all \/ call[r].timed THEN pop_all(list) ELSE pop_front(list)
        held == Holds(call[r], result.out)
    IN  /\ Goto(r, "pop2", "idle")
        /\ Deliver(r, result, held)
        /\ m_cv_lock' = None
        /\ crashed' \in {FALSE, held # result.out}
        /\ UNCHANGED <<m_condition, batch, call, timedOut>>
=============================================================================
