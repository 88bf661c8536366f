---------------------------- MODULE SocketServer ----------------------------
(***************************************************************************)
(* Socket/Socket_Svr_Epoll.hpp: a control thread waits for the events of   *)
(* an epoll object and accepts connections; worker threads poll a message  *)
(* queue for descriptors to read from.                                     *)
(*                                                                         *)
(* Only the listening socket is ever registered: the registration of the   *)
(* accepted ones is commented out (line 214).  A worker therefore gets a   *)
(* descriptor only when the control thread takes the listening socket for  *)
(* another one, which happens after a Start_Svr beside a running server:   *)
(* it overwrites m_sck before it fails.  Reading that socket fails, and    *)
(* the worker closes it; the branches for data are never reached.          *)
(*                                                                         *)
(* Registration is edge-triggered: an event is reported once per arrival.  *)
(* Sockets are numbered in the order they are made; 0 stands for none.     *)
(***************************************************************************)
EXTENDS Integers, Sequences, FiniteSets

CONSTANTS Workers,
          Ports,
          Backlog,      \* listen: how many connections may wait
          MaxConn,      \* how many descriptors are left for connections
          QueueSize,    \* epoll_ipc_size
          MaxStart      \* bound: how often Start_Svr is called

VARIABLES m_svr_status,
          m_sck,        \* the socket made last
          listening,    \* the registered socket: its number and port, or Closed
          taken,        \* the ports on which sockets listen: none is ever closed but by a worker
          pending,      \* connections that wait at the registered socket
          edge,         \* epoll has an event to report
          event,        \* what epoll_wait reported to the control thread
          control,      \* where the control thread stands
          retry,
          queue,        \* m_event_msg_queue
          worker,       \* per worker: its socket, Polling, or Ended
          main,         \* where the thread of Start_Svr and Stop_Svr stands
          joined,       \* the threads of earlier starts in m_work_thread_array, joined
          connections,  \* the connections accepted; none is ever closed
          failures      \* history: accepts of the last round that failed beside a waiting connection

vars == <<m_svr_status, m_sck, listening, taken, pending, edge, event, control, retry,
          queue, worker, main, joined, connections, failures>>

Closed == [sck |-> 0, port |-> 0]
Polling == -1
Ended == -2

Init ==
    /\ m_svr_status = 0 /\ m_sck = 0
    /\ listening = Closed /\ taken = {}
    /\ pending = 0 /\ edge = FALSE /\ event = 0
    /\ control = "none" /\ retry = 0
    /\ queue = <<>>
    /\ worker = [w \in Workers |-> Ended]
    /\ main = "idle" /\ joined = FALSE
    /\ connections = 0 /\ failures = 0

-----------------------------------------------------------------------------
(***************************************************************************)
(* Start_Svr and Stop_Svr.                                                 *)
(***************************************************************************)

\* m_sck is the new socket whether or not it can be bound.  A thread object
\* that is still to be joined must not be assigned to: the program is ended.
Start_Svr(port) ==
    /\ main \in {"idle", "stopped"}
    /\ m_sck < MaxStart
    /\ m_sck' = m_sck + 1
    /\ IF port \in taken
       THEN UNCHANGED <<m_svr_status, listening, taken, pending, edge, event, control, worker, main, failures>>
       ELSE IF control # "none"
       THEN /\ main' = "terminated"
            /\ UNCHANGED <<m_svr_status, listening, taken, pending, edge, event, control, worker, failures>>
       ELSE /\ m_svr_status' = 1
            /\ listening' = [sck |-> m_sck', port |-> port]
            /\ taken' = taken \cup {port}
            /\ pending' = 0 /\ edge' = FALSE /\ event' = 0 /\ failures' = 0
            /\ control' = "loop"
            /\ worker' = [w \in Workers |-> Polling]
            /\ main' = "idle"
    /\ UNCHANGED <<retry, queue, joined, connections>>

Stop_Svr ==
    /\ main = "idle"
    /\ control # "none"
    /\ m_svr_status' = 0
    /\ main' = "joining"
    /\ UNCHANGED <<m_sck, listening, taken, pending, edge, event, control, retry, queue, worker, joined,
                   connections, failures>>

\* The threads of an earlier start are in the array as well, and cannot be
\* joined again: the second Stop_Svr throws.
Joined ==
    /\ main = "joining"
    /\ control = "ended"
    /\ IF joined
       THEN main' = "thrown" /\ UNCHANGED <<control, joined>>
       ELSE /\ \A w \in Workers : worker[w] = Ended
            /\ main' = "stopped"
            /\ control' = "none"
            /\ joined' = TRUE
    /\ UNCHANGED <<m_svr_status, m_sck, listening, taken, pending, edge, event, retry, queue, worker,
                   connections, failures>>

-----------------------------------------------------------------------------
(***************************************************************************)
(* control_thread_run.                                                     *)
(***************************************************************************)

\* The test of the status, and epoll_wait: an event or, at any time, a timeout.
ControlLoop ==
    /\ control = "loop"
    /\ \/ m_svr_status # 1 /\ control' = "ended" /\ UNCHANGED <<edge, event>>
       \/ m_svr_status = 1 /\ edge /\ control' = "event" /\ event' = listening.sck /\ edge' = FALSE
    /\ UNCHANGED <<m_svr_status, m_sck, listening, taken, pending, retry, queue, worker, main, joined,
                   connections, failures>>

\* Is it the listening socket?  If not, it is one to read from, if the queue
\* has room for it.
ControlEvent ==
    /\ control = "event"
    /\ IF event = m_sck
       THEN control' = "accept" /\ retry' = 0 /\ failures' = 0 /\ UNCHANGED queue
       ELSE /\ control' = "loop"
            /\ queue' = IF Len(queue) < QueueSize THEN Append(queue, event) ELSE queue
            /\ UNCHANGED <<retry, failures>>
    /\ UNCHANGED <<m_svr_status, m_sck, listening, taken, pending, edge, event, worker, main, joined,
                   connections>>

\* accept takes its socket from m_sck anew each time.
CanAccept == m_sck = listening.sck /\ pending > 0 /\ connections < MaxConn

\* Mutant: one connection per event.
ControlAccept_Once ==
    /\ control = "accept"
    /\ IF CanAccept
       THEN pending' = pending - 1 /\ connections' = connections + 1 /\ control' = "loop" /\ UNCHANGED retry
       ELSE retry' = 0 /\ control' = "loop" /\ UNCHANGED <<pending, connections>>
    /\ UNCHANGED <<m_svr_status, m_sck, listening, taken, edge, event, queue, worker, main, joined, failures>>

\* accept fails when it can accept nothing, but also beside a waiting connection:
\* it was interrupted, or the connection was given up and is gone.
AcceptFails ==
    /\ \/ ~CanAccept /\ UNCHANGED <<pending, failures>>
       \/ CanAccept /\ pending' \in {pending, pending - 1} /\ failures' = failures + 1
    /\ UNCHANGED connections

\* The loop ends after four failures, of whatever kind.
ControlAccept ==
    /\ control = "accept"
    /\ \/ /\ CanAccept
          /\ pending' = pending - 1 /\ connections' = connections + 1
          /\ UNCHANGED <<control, retry, failures>>
       \/ /\ AcceptFails
          /\ IF retry < 3
             THEN retry' = retry + 1 /\ UNCHANGED control
             ELSE retry' = 0 /\ control' = "loop"
    /\ UNCHANGED <<m_svr_status, m_sck, listening, taken, edge, event, queue, worker, main, joined>>

-----------------------------------------------------------------------------
(***************************************************************************)
(* work_thread_run.                                                        *)
(***************************************************************************)

\* Mutant: a worker looks at the status only after a message.
WorkerPoll_Blocking(w) ==
    /\ worker[w] = Polling
    /\ queue # <<>>
    /\ worker' = [worker EXCEPT ![w] = IF m_svr_status # 1 THEN Ended ELSE Head(queue)]
    /\ queue' = IF m_svr_status # 1 THEN queue ELSE Tail(queue)
    /\ UNCHANGED <<m_svr_status, m_sck, listening, taken, pending, edge, event, control, retry, main,
                   joined, connections, failures>>

\* The test of the status, and MSGRcv, whose timeout changes nothing.
WorkerPoll(w) ==
    /\ worker[w] = Polling
    /\ \/ m_svr_status # 1 /\ worker' = [worker EXCEPT ![w] = Ended] /\ UNCHANGED queue
       \/ m_svr_status = 1 /\ queue # <<>> /\ worker' = [worker EXCEPT ![w] = Head(queue)] /\ queue' = Tail(queue)
    /\ UNCHANGED <<m_svr_status, m_sck, listening, taken, pending, edge, event, control, retry, main,
                   joined, connections, failures>>

\* recv on a listening socket fails, and so the socket is closed; that also
\* takes it out of epoll, whatever the epoll_ctl behind it answers.
WorkerRead(w) ==
    /\ worker[w] > 0
    /\ worker' = [worker EXCEPT ![w] = Polling]
    /\ IF worker[w] = listening.sck
       THEN /\ listening' = Closed
            /\ taken' = taken \ {listening.port}
            /\ pending' = 0
            /\ edge' = FALSE
       ELSE UNCHANGED <<listening, taken, pending, edge>>
    /\ UNCHANGED <<m_svr_status, m_sck, event, control, retry, queue, main, joined, connections, failures>>

\* A client connects: an edge.
Connect ==
    /\ listening # Closed
    /\ pending < Backlog
    /\ connections + pending <= MaxConn
    /\ pending' = pending + 1
    /\ edge' = TRUE
    /\ UNCHANGED <<m_svr_status, m_sck, listening, taken, event, control, retry, queue, worker, main,
                   joined, connections, failures>>

Alive == main \notin {"terminated", "thrown"}

Next ==
    /\ Alive
    /\ \/ \E port \in Ports : Start_Svr(port)
       \/ Stop_Svr \/ Joined
       \/ ControlLoop \/ ControlEvent \/ ControlAccept
       \/ \E w \in Workers : WorkerPoll(w) \/ WorkerRead(w)
       \/ Connect

\* The threads run: the waits in them are bounded by timeouts.
ControlStep == Alive /\ (ControlLoop \/ ControlEvent \/ ControlAccept)
WorkerStep(w) == Alive /\ (WorkerPoll(w) \/ WorkerRead(w))
MainStep == Alive /\ Joined
Fairness == WF_vars(ControlStep) /\ (\A w \in Workers : WF_vars(WorkerStep(w))) /\ WF_vars(MainStep)

Spec == Init /\ [][Next]_vars /\ Fairness

-----------------------------------------------------------------------------
(***************************************************************************)
(* Properties.                                                             *)
(***************************************************************************)

TypeOK ==
    /\ m_svr_status \in {0, 1} /\ m_sck \in 0 .. MaxStart /\ failures \in 0 .. 4
    /\ listening = Closed \/ listening \in [sck : 1 .. MaxStart, port : Ports]
    /\ taken \subseteq Ports /\ pending \in 0 .. Backlog /\ connections \in 0 .. MaxConn
    /\ control \in {"none", "loop", "event", "accept", "ended"} /\ retry \in 0 .. 3
    /\ Len(queue) <= QueueSize
    /\ main \in {"idle", "joining", "stopped", "thrown", "terminated"}

Serving == m_svr_status = 1 /\ Alive

\* With edge-triggered events a connection that waits while nothing is about
\* to look for it waits for ever.  While the server runs there is always an
\* event to come or the accept loop at work, unless Start_Svr was called again
\* beside it, or no descriptor is left, as accepted connections are never closed,
\* or the last round of accepts failed four times beside a waiting connection:
\* then it is the next connection that wakes the server.
WaitingIsSignalled ==
    Serving /\ pending > 0 /\ m_sck = listening.sck /\ connections < MaxConn /\ failures < 4 =>
        edge \/ control \in {"event", "accept"}

\* Stop_Svr returns, or throws because of threads of an earlier start.
StopReturns == (main = "joining") ~> (main \in {"stopped", "thrown"})
=============================================================================
