--------------------------- MODULE MSGQueueForProc ---------------------------
(***************************************************************************)
(* The class MSGQueueForProc (IPC/MSGQueueForProc.hpp): processes pass     *)
(* blocks of shared memory to each other.  A block's index is a message: it*)
(* sits in the free queue, in the occupied queue, or in the hand of the    *)
(* process between the two.  open, close and release are serialised by a   *)
(* third message queue that holds one token; send and recv are not.        *)
(*                                                                         *)
(* The kernel's message queues and shared memory are modelled by what the  *)
(* class relies on: a queue has a key, an identifier that is not used again*)
(* once it is removed, a byte limit, and FIFO messages; removing a queue   *)
(* makes every later or blocked call on its identifier fail.  A process    *)
(* step is one system call or the memory accesses up to the next one,      *)
(* except where a comment says that calls are taken together.              *)
(***************************************************************************)
EXTENDS Integers, Sequences, FiniteSets

CONSTANTS Proc,
          WordSize,   \* sizeof ( void * ): 4 or 8
          msgQueueID, \* the id given to open
          blockSize, msgNum,   \* the sizes given to open
          SysBytes,   \* msg_qbytes of a new queue (msgmnb)
          MaxOpen, MaxSend,   \* bounds on the calls
          MaxTrouble   \* bound on releases, crashes and failures, counted together

PROC_MSG_QUEUE_MANAGER_LOCK_ID == 0

ASSUME QueueAssumption ==
    /\ WordSize \in {4, 8}
    /\ msgQueueID \in Nat \ {PROC_MSG_QUEUE_MANAGER_LOCK_ID} /\ msgQueueID % 2 = 0
    /\ blockSize \in Nat /\ msgNum \in Nat /\ SysBytes \in Nat
    /\ MaxOpen \in Nat /\ MaxSend \in Nat
    /\ MaxTrouble \in Nat

\* ftok("/", id): distinct keys for distinct ids.
Lock   == PROC_MSG_QUEUE_MANAGER_LOCK_ID
Occupy == msgQueueID
Free   == msgQueueID + 1
Keys   == {Lock, Occupy, Free}

Lesser(m, n) == IF m < n THEN m ELSE n

\* The blocks the first open sets up (lines 187-192).
Blocks == Lesser(SysBytes \div WordSize, msgNum)
Index == 0 .. Blocks - 1

\* No object is created more often than open is called.
Generation == 1 .. MaxOpen

\* A message's content is the number of its send; Zero is fresh memory.
Zero == 0
Payload == 0 .. MaxSend

VARIABLES
    msq,     \* the message queue of each key: generation, existence, messages
    shm,     \* the segment of the key msgQueueID: its newest generation, and existence
    mem,     \* the memory of each generation of the segment
    obj,     \* each process's MSGQueueForProc object
    pc,      \* where each process is
    hand,    \* mtext of the message a process has received and not passed on
    data,    \* the caller's buffer of the send or recv a process is in
    ret,     \* what a process's last open returned
    meant,   \* history: what the message in each block was sent as
    count    \* the calls, crashes and failures so far; whether an open object was opened

vars == <<msq, shm, mem, obj, pc, hand, data, ret, meant, count>>

None == -1    \* no index in hand, and an identifier of -1

NewMemory == [referenceCount |-> 0, blockSize |-> 0, msgNum |-> 0,
              block |-> [i \in Index |-> Zero]]

\* The constructor (lines 37-60).  m_MsgQueueInfo is the segment that m_ShmID names.
NewObject == [m_IsOpen |-> FALSE, m_BlockSize |-> 0, m_MsgQueueInfo |-> None,
              m_OccupyMsqID |-> None, m_FreeMsqID |-> None, m_ProcLockID |-> None]

Init ==
    /\ msq = [k \in Keys |-> [gen |-> 0, live |-> FALSE, msgs |-> <<>>, qbytes |-> 0]]
    /\ shm = [gen |-> 0, live |-> FALSE]
    /\ mem = [g \in Generation |-> NewMemory]
    /\ obj = [p \in Proc |-> NewObject]
    /\ pc = [p \in Proc |-> "idle"]
    /\ hand = [p \in Proc |-> None]
    /\ data = [p \in Proc |-> Zero]
    /\ ret = [p \in Proc |-> 0]
    /\ meant = [g \in Generation |-> [i \in Index |-> Zero]]
    /\ count = [open |-> 0, send |-> 0, release |-> 0, crash |-> 0,
                fail |-> 0, lost |-> 0, again |-> FALSE]

\* One more release, crash, failed open, or lost identifier: one that open did not
\* get and went on without, or did not get of a queue it had just created.
Trouble(kind) ==
    /\ count.release + count.crash + count.fail + count.lost < MaxTrouble
    /\ count' = [count EXCEPT ![kind] = @ + 1]

Goto(p, from, to) == pc[p] = from /\ pc' = [pc EXCEPT ![p] = to]

-----------------------------------------------------------------------------
(* The kernel.                                                             *)

\* The identifier (a generation) names a queue that exists.
Valid(k, id) == msq[k].live /\ msq[k].gen = id

\* msgget of a key nobody uses.
Created(k) == [gen |-> msq[k].gen + 1, live |-> TRUE, msgs |-> <<>>, qbytes |-> SysBytes]

\* Room for one more message of WordSize bytes.
FitsIn(q) == WordSize * (Len(q.msgs) + 1) <= q.qbytes
Fits(k) == FitsIn(msq[k])

Posted(k, m) == [msq EXCEPT ![k].msgs = Append(@, m)]
Received(k) == [msq EXCEPT ![k].msgs = Tail(@)]
Removed(k) == [msq EXCEPT ![k].live = FALSE, ![k].msgs = <<>>]

-----------------------------------------------------------------------------
(* procLockCreate (lines 375-420), lock and unlock (lines 358-372).        *)

Open(p) ==
    /\ count.open < MaxOpen
    /\ Goto(p, "idle", "lock_create")
    /\ obj' = [obj EXCEPT ![p].m_BlockSize = blockSize]
    /\ count' = [count EXCEPT !.open = @ + 1]
    /\ UNCHANGED <<msq, shm, mem, hand, data, ret, meant>>

\* Without IPC_EXCL every open makes a token.
LockCreate_NoExcl(p) ==
    /\ Goto(p, "lock_create", "lock_init")
    /\ msq' = IF msq[Lock].live THEN msq ELSE [msq EXCEPT ![Lock] = Created(Lock)]
    /\ obj' = [obj EXCEPT ![p].m_ProcLockID = msq'[Lock].gen]
    /\ UNCHANGED <<shm, mem, hand, data, ret, meant, count>>

LockCreate(p) ==
    /\ \/ ~msq[Lock].live
          /\ Goto(p, "lock_create", "lock_init")
          /\ msq' = [msq EXCEPT ![Lock] = Created(Lock)]
       \/ msq[Lock].live
          /\ Goto(p, "lock_create", "open_lock")
          /\ UNCHANGED msq
    /\ obj' = [obj EXCEPT ![p].m_ProcLockID = msq'[Lock].gen]
    /\ UNCHANGED <<shm, mem, hand, data, ret, meant, count>>

\* ftok finds no key (line 377): open returns -1, and nothing else has changed.
LockFails(p) ==
    /\ Trouble("fail")
    /\ Goto(p, "lock_create", "idle")
    /\ ret' = [ret EXCEPT ![p] = -1]
    /\ UNCHANGED <<msq, shm, mem, obj, hand, data, meant>>

\* msgget fails.  When no more queues may be created, procLockCreate returns true
\* (lines 383-394) and open goes on with no lock.  Otherwise open returns -1 and
\* leaves m_IsOpen as it was; when it is the second msgget of a queue just created
\* (lines 398-401), that queue stays, with no token in it.
LockLost(p) ==
    /\ Trouble("lost")
    /\ \/ /\ ~msq[Lock].live /\ Goto(p, "lock_create", "open_lock")
          /\ UNCHANGED <<msq, ret>>
       \/ /\ Goto(p, "lock_create", "idle")
          /\ msq' = IF msq[Lock].live THEN msq ELSE [msq EXCEPT ![Lock] = Created(Lock)]
          /\ ret' = [ret EXCEPT ![p] = -1]
    /\ obj' = [obj EXCEPT ![p].m_ProcLockID = None]
    /\ UNCHANGED <<shm, mem, hand, data, meant>>

\* The limit of four bytes, and the first token: a message of WordSize bytes.
\* When it does not fit (EAGAIN), open returns -1.
LockInit(p) ==
    /\ LET limited == [msq EXCEPT ![Lock].qbytes = 4] IN
         \/ FitsIn(limited[Lock])
            /\ Goto(p, "lock_init", "open_lock")
            /\ msq' = [limited EXCEPT ![Lock].msgs = Append(@, 0)]
            /\ UNCHANGED ret
         \/ ~FitsIn(limited[Lock])
            /\ Goto(p, "lock_init", "idle")
            /\ msq' = limited
            /\ ret' = [ret EXCEPT ![p] = -1]
    /\ UNCHANGED <<shm, mem, obj, hand, data, meant, count>>

\* lock(): wait for the token; the result of msgrcv is ignored.
TakeToken(p, from, to) ==
    /\ Goto(p, from, to)
    /\ \/ ~Valid(Lock, obj[p].m_ProcLockID) /\ UNCHANGED msq
       \/ Valid(Lock, obj[p].m_ProcLockID) /\ msq[Lock].msgs # <<>> /\ msq' = Received(Lock)
    /\ UNCHANGED <<shm, mem, obj, hand, data, ret, meant, count>>

AcquireLock(p) ==
    \/ TakeToken(p, "open_lock", "open_attach")
    \/ TakeToken(p, "close_lock", "close")
    \/ TakeToken(p, "release_lock", "rm_shm")

\* unlock(): mtext = 1; not sent when the queue is full or gone.
Unlock(p) ==
    /\ Goto(p, "unlock", "idle")
    /\ msq' = IF Valid(Lock, obj[p].m_ProcLockID) /\ Fits(Lock) THEN Posted(Lock, 1) ELSE msq
    /\ UNCHANGED <<shm, mem, obj, hand, data, ret, meant, count>>

-----------------------------------------------------------------------------
(* open (lines 103-224), with the token in hand.                           *)

\* The occupied queue and the segment are opened or created.  (Taken together:
\* a crash between the two calls leaves what a crash after them leaves, as far
\* as the next open can tell.)
OpenAttach(p) ==
    /\ Goto(p, "open_attach", "open_free")
    /\ msq' = IF msq[Occupy].live THEN msq ELSE [msq EXCEPT ![Occupy] = Created(Occupy)]
    /\ shm' = IF shm.live THEN shm ELSE [gen |-> shm.gen + 1, live |-> TRUE]
    /\ obj' = [obj EXCEPT ![p].m_OccupyMsqID = msq'[Occupy].gen, ![p].m_MsgQueueInfo = shm'.gen]
    /\ UNCHANGED <<mem, hand, data, ret, meant, count>>

\* Without IPC_EXCL every open initialises.
OpenFree_NoExcl(p) ==
    /\ Goto(p, "open_free", "open_init")
    /\ msq' = IF msq[Free].live THEN msq ELSE [msq EXCEPT ![Free] = Created(Free)]
    /\ obj' = [obj EXCEPT ![p].m_FreeMsqID = msq'[Free].gen]
    /\ UNCHANGED <<shm, mem, hand, data, ret, meant, count>>

\* IPC_EXCL decides who initialises.
OpenFree(p) ==
    /\ \/ ~msq[Free].live
          /\ Goto(p, "open_free", "open_init")
          /\ msq' = [msq EXCEPT ![Free] = Created(Free)]
       \/ msq[Free].live
          /\ Goto(p, "open_free", "open_count")
          /\ UNCHANGED msq
    /\ obj' = [obj EXCEPT ![p].m_FreeMsqID = msq'[Free].gen]
    /\ UNCHANGED <<shm, mem, hand, data, ret, meant, count>>

\* The queues with limits for n blocks, and m in the free one; calls on a queue
\* that was removed have no effect.
Initialised(p, n, m) ==
    [msq EXCEPT
        ![Occupy].qbytes = IF Valid(Occupy, obj[p].m_OccupyMsqID) THEN n * WordSize ELSE @,
        ![Free] = IF Valid(Free, obj[p].m_FreeMsqID)
                  THEN [@ EXCEPT !.qbytes = Blocks * WordSize, !.msgs = m] ELSE @]

\* How many blocks open sets up: none in a free queue that was removed.
NumberSet(p) == IF Valid(Free, obj[p].m_FreeMsqID) THEN Blocks ELSE 0

\* What is in the free queue and a message for each block, as long as they fit.
WithBlocks(q) == SubSeq(q \o [n \in 1 .. Blocks |-> n - 1], 1, Blocks)

HeadSet(p) == [mem EXCEPT ![obj[p].m_MsgQueueInfo].referenceCount = 0,
                          ![obj[p].m_MsgQueueInfo].blockSize = blockSize,
                          ![obj[p].m_MsgQueueInfo].msgNum = NumberSet(p)]

\* Blocks numbered from one.
OpenInit_FromOne(p) ==
    /\ Goto(p, "open_init", "open_count")
    /\ msq' = Initialised(p, NumberSet(p), msq[Free].msgs \o [n \in 1 .. Blocks |-> n])
    /\ mem' = HeadSet(p)
    /\ UNCHANGED <<shm, obj, hand, data, ret, meant, count>>

\* A limit one message short.
OpenInit_NarrowOccupy(p) ==
    /\ Goto(p, "open_init", "open_count")
    /\ msq' = Initialised(p, NumberSet(p) - 1, WithBlocks(msq[Free].msgs))
    /\ mem' = HeadSet(p)
    /\ UNCHANGED <<shm, obj, hand, data, ret, meant, count>>

\* open gives up with these identifiers.
GivesUp(p, occupy, info, free) ==
    obj' = [obj EXCEPT ![p].m_IsOpen = FALSE, ![p].m_OccupyMsqID = occupy,
                       ![p].m_MsgQueueInfo = info, ![p].m_FreeMsqID = free]

\* A call that fails before that: open returns -1, and leaves what it has created.
\* An ftok leaves the identifier that was to follow as it was, a msgget or shmget
\* makes it -1, and shmat leaves that of the segment.
OpenFails(p) ==
    LET o == obj[p]
        occupy == IF msq[Occupy].live THEN msq ELSE [msq EXCEPT ![Occupy] = Created(Occupy)]
        segment == IF shm.live THEN shm ELSE [gen |-> shm.gen + 1, live |-> TRUE]
    IN
    /\ Trouble("fail")
    /\ \/ /\ Goto(p, "open_attach", "unlock")
          /\ \/ /\ \E id \in {o.m_OccupyMsqID, None} :
                      GivesUp(p, id, o.m_MsgQueueInfo, o.m_FreeMsqID)
                /\ UNCHANGED <<msq, shm>>
             \/ /\ \E id \in {o.m_MsgQueueInfo, None} :
                      GivesUp(p, occupy[Occupy].gen, id, o.m_FreeMsqID)
                /\ msq' = occupy /\ UNCHANGED shm
             \/ /\ GivesUp(p, occupy[Occupy].gen, segment.gen, o.m_FreeMsqID)
                /\ msq' = occupy /\ shm' = segment
       \/ /\ Goto(p, "open_free", "unlock")
          /\ \E id \in {o.m_FreeMsqID} \cup (IF msq[Free].live THEN {None} ELSE {}) :
                GivesUp(p, o.m_OccupyMsqID, o.m_MsgQueueInfo, id)
          /\ UNCHANGED <<msq, shm>>
    /\ ret' = [ret EXCEPT ![p] = -1]
    /\ UNCHANGED <<mem, hand, data, meant>>

\* No more queues may be created: the error is not EEXIST, nothing tests it
\* (lines 159-172), and open goes on to return 0 with no free queue.  Or it is the
\* second msgget of a queue just created that fails (lines 176-182): open returns
\* -1, and the queue stays, with no limits and no message for any block.
FreeLost(p) ==
    /\ Trouble("lost")
    /\ ~msq[Free].live
    /\ \/ /\ Goto(p, "open_free", "open_count")
          /\ obj' = [obj EXCEPT ![p].m_FreeMsqID = None]
          /\ UNCHANGED <<msq, ret>>
       \/ /\ Goto(p, "open_free", "unlock")
          /\ GivesUp(p, obj[p].m_OccupyMsqID, obj[p].m_MsgQueueInfo, None)
          /\ msq' = [msq EXCEPT ![Free] = Created(Free)]
          /\ ret' = [ret EXCEPT ![p] = -1]
    /\ UNCHANGED <<shm, mem, hand, data, meant>>

\* The byte limits, one message per block as long as they fit, and the head of
\* the segment.
OpenInit(p) ==
    /\ Goto(p, "open_init", "open_count")
    /\ msq' = Initialised(p, NumberSet(p), WithBlocks(msq[Free].msgs))
    /\ mem' = HeadSet(p)
    /\ UNCHANGED <<shm, obj, hand, data, ret, meant, count>>

OpenCount(p) ==
    /\ Goto(p, "open_count", "unlock")
    /\ mem' = [mem EXCEPT ![obj[p].m_MsgQueueInfo].referenceCount = @ + 1]
    /\ obj' = [obj EXCEPT ![p].m_BlockSize = mem[obj[p].m_MsgQueueInfo].blockSize,
                          ![p].m_IsOpen = TRUE]
    /\ ret' = [ret EXCEPT ![p] = 0]
    /\ count' = [count EXCEPT !.again = @ \/ obj[p].m_IsOpen]
    /\ UNCHANGED <<msq, shm, hand, data, meant>>

-----------------------------------------------------------------------------
(* send (lines 274-300).  The data is one byte or more.                    *)

\* A free block: blocked while there is none, or -1 (nonblocking, or removed).
SendTake(p) ==
    /\ pc[p] = "idle" /\ obj[p].m_IsOpen /\ obj[p].m_BlockSize > 0
    /\ count.send < MaxSend
    /\ Valid(Free, obj[p].m_FreeMsqID) /\ msq[Free].msgs # <<>>
    /\ Goto(p, "idle", "send_copy")
    /\ hand' = [hand EXCEPT ![p] = Head(msq[Free].msgs)]
    /\ msq' = Received(Free)
    /\ count' = [count EXCEPT !.send = @ + 1]
    /\ data' = [data EXCEPT ![p] = count.send + 1]
    /\ UNCHANGED <<shm, mem, obj, ret, meant>>

SendCopy(p) ==
    /\ Goto(p, "send_copy", "send_post")
    /\ mem' = [mem EXCEPT ![obj[p].m_MsgQueueInfo].block[hand[p]] = data[p]]
    /\ UNCHANGED <<msq, shm, obj, hand, data, ret, meant, count>>

\* To the occupied queue: blocks while it is full, fails when it is gone.
SendPost(p) ==
    /\ Goto(p, "send_post", "idle")
    /\ \/ Valid(Occupy, obj[p].m_OccupyMsqID) /\ Fits(Occupy)
          /\ msq' = Posted(Occupy, hand[p])
          /\ meant' = [meant EXCEPT ![obj[p].m_MsgQueueInfo][hand[p]] = data[p]]
       \/ ~Valid(Occupy, obj[p].m_OccupyMsqID) /\ UNCHANGED <<msq, meant>>
    /\ hand' = [hand EXCEPT ![p] = None]
    /\ data' = [data EXCEPT ![p] = Zero]
    /\ UNCHANGED <<shm, mem, obj, ret, count>>

-----------------------------------------------------------------------------
(* recv (lines 237-262).                                                   *)

\* The block is given back before it is copied out.
RecvTake_GiveFirst(p) ==
    /\ pc[p] = "idle" /\ obj[p].m_IsOpen
    /\ Valid(Occupy, obj[p].m_OccupyMsqID) /\ msq[Occupy].msgs # <<>>
    /\ Goto(p, "idle", "recv_copy")
    /\ hand' = [hand EXCEPT ![p] = Head(msq[Occupy].msgs)]
    /\ msq' = [Received(Occupy) EXCEPT ![Free].msgs = Append(@, hand'[p])]
    /\ UNCHANGED <<shm, mem, obj, data, ret, meant, count>>

RecvTake(p) ==
    /\ pc[p] = "idle" /\ obj[p].m_IsOpen
    /\ Valid(Occupy, obj[p].m_OccupyMsqID) /\ msq[Occupy].msgs # <<>>
    /\ Goto(p, "idle", "recv_copy")
    /\ hand' = [hand EXCEPT ![p] = Head(msq[Occupy].msgs)]
    /\ msq' = Received(Occupy)
    /\ UNCHANGED <<shm, mem, obj, data, ret, meant, count>>

RecvCopy(p) ==
    /\ Goto(p, "recv_copy", "recv_give")
    /\ data' = [data EXCEPT ![p] = mem[obj[p].m_MsgQueueInfo].block[hand[p]]]
    /\ UNCHANGED <<msq, shm, mem, obj, hand, ret, meant, count>>

\* The block is not given back.
RecvGive_Forgotten(p) ==
    /\ Goto(p, "recv_give", "idle")
    /\ hand' = [hand EXCEPT ![p] = None]
    /\ data' = [data EXCEPT ![p] = Zero]
    /\ UNCHANGED <<msq, shm, mem, obj, ret, meant, count>>

RecvGive(p) ==
    /\ Goto(p, "recv_give", "idle")
    /\ \/ Valid(Free, obj[p].m_FreeMsqID) /\ Fits(Free) /\ msq' = Posted(Free, hand[p])
       \/ ~Valid(Free, obj[p].m_FreeMsqID) /\ UNCHANGED msq
    /\ hand' = [hand EXCEPT ![p] = None]
    /\ data' = [data EXCEPT ![p] = Zero]
    /\ UNCHANGED <<shm, mem, obj, ret, meant, count>>

-----------------------------------------------------------------------------
(* close (lines 325-343) and release (lines 345-353).                      *)

\* Also the destructor's call, whether or not the object is open.
Close(p) ==
    /\ Goto(p, "idle", "close_lock")
    /\ UNCHANGED <<msq, shm, mem, obj, hand, data, ret, meant, count>>

\* The counter is compared after it has been decremented.
CloseCount_Early(p) ==
    LET info == obj[p].m_MsgQueueInfo IN
    /\ \/ ~obj[p].m_IsOpen
          /\ Goto(p, "close", "unlock") /\ UNCHANGED <<mem, obj>>
       \/ obj[p].m_IsOpen /\ mem[info].referenceCount - 1 <= 1
          /\ Goto(p, "close", "rm_shm") /\ UNCHANGED <<mem, obj>>
       \/ obj[p].m_IsOpen /\ mem[info].referenceCount - 1 > 1
          /\ Goto(p, "close", "unlock")
          /\ mem' = [mem EXCEPT ![info].referenceCount = @ - 1]
          /\ obj' = [obj EXCEPT ![p].m_IsOpen = FALSE]
    /\ UNCHANGED <<msq, shm, hand, data, ret, meant, count>>


\* The last one removes everything; the others count down.
CloseCount(p) ==
    LET info == obj[p].m_MsgQueueInfo IN
    /\ \/ ~obj[p].m_IsOpen
          /\ Goto(p, "close", "unlock") /\ UNCHANGED <<mem, obj>>
       \/ obj[p].m_IsOpen /\ mem[info].referenceCount = 1
          /\ Goto(p, "close", "rm_shm") /\ UNCHANGED <<mem, obj>>
       \/ obj[p].m_IsOpen /\ mem[info].referenceCount # 1
          /\ Goto(p, "close", "unlock")
          /\ mem' = [mem EXCEPT ![info].referenceCount = @ - 1]
          /\ obj' = [obj EXCEPT ![p].m_IsOpen = FALSE]
    /\ UNCHANGED <<msq, shm, hand, data, ret, meant, count>>

Release(p) ==
    /\ Trouble("release")
    /\ Goto(p, "idle", "release_lock")
    /\ UNCHANGED <<msq, shm, mem, obj, hand, data, ret, meant>>

\* The three IPC_RMID, each on the identifier the process holds.
RemoveShm(p) ==
    /\ Goto(p, "rm_shm", "rm_occupy")
    /\ shm' = IF shm.gen = obj[p].m_MsgQueueInfo THEN [shm EXCEPT !.live = FALSE] ELSE shm
    /\ UNCHANGED <<msq, mem, obj, hand, data, ret, meant, count>>

RemoveOccupy(p) ==
    /\ Goto(p, "rm_occupy", "rm_free")
    /\ msq' = IF Valid(Occupy, obj[p].m_OccupyMsqID) THEN Removed(Occupy) ELSE msq
    /\ UNCHANGED <<shm, mem, obj, hand, data, ret, meant, count>>

\* The free queue is forgotten.
RemoveFree_Forgotten(p) ==
    /\ Goto(p, "rm_free", "unlock")
    /\ obj' = [obj EXCEPT ![p].m_IsOpen = FALSE]
    /\ UNCHANGED <<msq, shm, mem, hand, data, ret, meant, count>>

RemoveFree(p) ==
    /\ Goto(p, "rm_free", "unlock")
    /\ msq' = IF Valid(Free, obj[p].m_FreeMsqID) THEN Removed(Free) ELSE msq
    /\ obj' = [obj EXCEPT ![p].m_IsOpen = FALSE]
    /\ UNCHANGED <<shm, mem, hand, data, ret, meant, count>>

-----------------------------------------------------------------------------

\* The process is killed, wherever it is, and started again.  Kernel objects
\* stay as they are; no destructor runs.
Crash(p) ==
    /\ Trouble("crash")
    /\ pc' = [pc EXCEPT ![p] = "idle"]
    /\ obj' = [obj EXCEPT ![p] = NewObject]
    /\ hand' = [hand EXCEPT ![p] = None]
    /\ data' = [data EXCEPT ![p] = Zero]
    /\ ret' = [ret EXCEPT ![p] = 0]
    /\ UNCHANGED <<msq, shm, mem, meant>>

\* The steps of a call already begun.
Step(p) ==
    \/ LockCreate(p) \/ LockFails(p) \/ LockLost(p) \/ LockInit(p) \/ Unlock(p)
    \/ OpenAttach(p) \/ OpenFree(p) \/ OpenFails(p) \/ FreeLost(p) \/ OpenInit(p) \/ OpenCount(p)
    \/ SendCopy(p) \/ SendPost(p) \/ RecvCopy(p) \/ RecvGive(p)
    \/ CloseCount(p) \/ RemoveShm(p) \/ RemoveOccupy(p) \/ RemoveFree(p)

\* A call begins.
Begin(p) == Open(p) \/ SendTake(p) \/ RecvTake(p) \/ Close(p) \/ Release(p)

Next == \E p \in Proc : Begin(p) \/ AcquireLock(p) \/ Step(p) \/ Crash(p)

\* A process that is not killed goes on; the kernel hands the token to waiting
\* receivers in turn.  No call need ever begin, no crash need happen.
Fairness == \A p \in Proc : WF_vars(Step(p)) /\ SF_vars(AcquireLock(p))

Spec == Init /\ [][Next]_vars
FairSpec == Spec /\ Fairness

-----------------------------------------------------------------------------
(* Properties.                                                             *)

Ids == Generation \cup {0, None}
Places == {"idle", "lock_create", "lock_init", "open_lock", "open_attach", "open_free",
           "open_init", "open_count", "unlock", "send_copy", "send_post", "recv_copy",
           "recv_give", "close_lock", "close", "release_lock", "rm_shm", "rm_occupy", "rm_free"}

Queues == [gen : Nat, live : BOOLEAN, msgs : Seq(Nat), qbytes : Nat]
Segments == [referenceCount : Int, blockSize : {0, blockSize}, msgNum : {0, Blocks},
             block : [Index -> Payload]]
Objects == [m_IsOpen : BOOLEAN, m_BlockSize : {0, blockSize}, m_MsgQueueInfo : Ids,
            m_OccupyMsqID : Ids, m_FreeMsqID : Ids, m_ProcLockID : Ids]

\* Every variable has its type: a message is a block's index, or a token.
TypeOK ==
    /\ msq \in [Keys -> Queues]
    /\ \A k \in {Occupy, Free} : \A n \in DOMAIN msq[k].msgs : msq[k].msgs[n] \in Index
    /\ shm \in [gen : Nat, live : BOOLEAN]
    /\ mem \in [Generation -> Segments]
    /\ obj \in [Proc -> Objects]
    /\ pc \in [Proc -> Places]
    /\ hand \in [Proc -> Index \cup {None}]
    /\ data \in [Proc -> Payload] /\ ret \in [Proc -> {0, -1}]
    /\ meant \in [Generation -> [Index -> Payload]]

\* No identifier was lost (so no queue was left half made), and no open failed that
\* was followed by a release.
Orderly == count.lost = 0 /\ (count.fail = 0 \/ count.release = 0)

\* The steps made with the token in hand.
Critical == {"open_attach", "open_free", "open_init", "open_count", "close",
             "rm_shm", "rm_occupy", "rm_free", "unlock"}

\* The processes inside open, close or release: those with an object that has
\* never been opened have no lock to take, and nothing to do.
Inside == {p \in Proc : pc[p] \in Critical /\ obj[p].m_ProcLockID # None}

\* The lock admits one process at a time, and its token is never doubled: an
\* open that finds the lock queue makes no second token, whatever is killed.
LockExclusive == Cardinality(Inside) + Len(msq[Lock].msgs) <= 1

\* A process that has a block in hand finds room for it in the next queue: msgsnd
\* with flag 0 never blocks it.
RoomForBlock ==
    Orderly => \A p \in Proc :
        /\ pc[p] = "send_post" /\ Valid(Occupy, obj[p].m_OccupyMsqID) => Fits(Occupy)
        /\ pc[p] = "recv_give" /\ Valid(Free, obj[p].m_FreeMsqID) => Fits(Free)

\* Where block b of the present queues is: the messages that carry it, and the
\* processes that have received it and not passed it on.
At(k, b) == {<<k, n>> : n \in {m \in DOMAIN msq[k].msgs : msq[k].msgs[m] = b}}
InHand(b) == {p \in Proc : hand[p] = b /\ Valid(Free, obj[p].m_FreeMsqID)}
Whereabouts(b) == At(Free, b) \cup At(Occupy, b) \cup InHand(b)

\* A block is in one place at most, so that no two processes write or read it
\* at once: not after a crash, a release, or a new queue with the same key.
BlockHasOneOwner == Orderly => \A b \in Index : Cardinality(Whereabouts(b)) <= 1

\* Until a process is killed no block is lost, so a full queue drains to empty
\* and all blocks are free again.  Excluded with Orderly: a free queue that an open
\* created and then failed to get, which the next open takes as it is, with no
\* block in it (lines 168 and 176-182).
NoBlockLost ==
    (/\ Orderly /\ count.crash = 0 /\ msq[Occupy].live /\ msq[Free].live
     /\ \A p \in Proc : pc[p] # "open_init")
    => \A b \in Index : Whereabouts(b) # {}

\* What a receiver copies out is what the sender of that message copied in,
\* though the block is read and written with no lock.
DataIntact ==
    Orderly =>
    /\ shm.live => \A n \in DOMAIN msq[Occupy].msgs :
           LET b == msq[Occupy].msgs[n] IN mem[shm.gen].block[b] = meant[shm.gen][b]
    /\ \A p \in Proc : pc[p] = "recv_give" => data[p] = meant[obj[p].m_MsgQueueInfo][hand[p]]

Removing(p) == pc[p] \in {"rm_shm", "rm_occupy", "rm_free"}

\* Until somebody calls release, a queue a process has opened stays there until
\* it closes it, whoever else opens, closes or is killed meanwhile.
OpenQueueStays ==
    count.lost = 0 /\ count.release = 0 =>
        \A p \in Proc : obj[p].m_IsOpen /\ ~Removing(p) =>
            /\ shm = [gen |-> obj[p].m_MsgQueueInfo, live |-> TRUE]
            /\ Valid(Occupy, obj[p].m_OccupyMsqID) /\ Valid(Free, obj[p].m_FreeMsqID)

\* The last close leaves no kernel object of the queue behind, when nobody was
\* killed, nobody opened twice or called release, and no open failed.
LastCloseRemoves ==
    (/\ count.release + count.crash + count.fail + count.lost = 0 /\ ~count.again
     /\ \A p \in Proc : pc[p] \in {"idle", "close_lock", "open_lock", "lock_create"}
                        /\ ~obj[p].m_IsOpen)
    => ~shm.live /\ ~msq[Occupy].live /\ ~msq[Free].live


\* "open message queue! if not exist will create, otherwise open it"
\* (MSGQueueForProc.hpp:68): open does not fail.
OpenSucceeds == \A p \in Proc : ret[p] = 0
=============================================================================
