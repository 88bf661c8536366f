---------------------- MODULE MSGQueueForProcInvariant ----------------------
(***************************************************************************)
(* The inductive invariant of MSGQueueForProc, in parts.  What the proofs  *)
(* need beyond the properties is, part by part: identifiers are never newer*)
(* than the object they name (TypeInv); the token is in the lock queue, in *)
(* the hand of one process, or lost with a killed one (LockInv); and two   *)
(* accounts of how the segment and its two queues stay together, one for   *)
(* runs without a release (StaysInv, with what failed opens leave behind   *)
(* in LeftoverInv) and one for runs in which no open fails (SyncInv).      *)
(* Both imply LinkedInv, all that the blocks (BlockInv) and their contents *)
(* (DataInv) depend on.                                                    *)
(***************************************************************************)
EXTENDS MSGQueueForProc

\* The processes at one of the places.
Before(places) == {p \in Proc : pc[p] \in places}

\* Where an open stands before it may create the lock, the segment and the
\* occupied queue, or the free queue.
ToLock   == {"lock_create"}
ToAttach == {"lock_create", "lock_init", "open_lock", "open_attach"}
ToFree   == ToAttach \cup {"open_free"}

\* A block is in hand.
InBlock == {"send_copy", "send_post", "recv_copy", "recv_give"}

\* The object of p is open, and p is not in open, close or release.
User(p) == obj[p].m_IsOpen /\ pc[p] \in InBlock \cup {"idle"}

-----------------------------------------------------------------------------

CountOK ==
    count \in [open : 0 .. MaxOpen, send : 0 .. MaxSend, release : Nat, crash : Nat,
               fail : Nat, lost : Nat, again : BOOLEAN]

\* Every object created, and every one that may still be, is for an open of its own.
GenerationsLast ==
    /\ IsFiniteSet(Before(ToFree))
    /\ msq[Lock].gen + Cardinality(Before(ToLock)) <= count.open
    /\ msq[Occupy].gen + Cardinality(Before(ToAttach)) <= count.open
    /\ shm.gen + Cardinality(Before(ToAttach)) <= count.open
    /\ msq[Free].gen + Cardinality(Before(ToFree)) <= count.open

IdsFit(p) ==
    /\ obj[p].m_MsgQueueInfo <= shm.gen
    /\ obj[p].m_OccupyMsqID <= msq[Occupy].gen
    /\ obj[p].m_FreeMsqID <= msq[Free].gen
    /\ obj[p].m_IsOpen \/ pc[p] \in {"open_free", "open_init", "open_count"}
           => obj[p].m_MsgQueueInfo \in Generation
    /\ pc[p] \in InBlock <=> hand[p] # None
    /\ pc[p] \in InBlock => obj[p].m_IsOpen

IdsOK == \A p \in Proc : IdsFit(p)

\* What was not created yet is new, and what was removed holds no messages.
NotUsedYet ==
    /\ \A g \in Generation : g > shm.gen => mem[g] = NewMemory /\ meant[g] = [i \in Index |-> Zero]
    /\ shm.live => shm.gen # 0
    /\ \A k \in Keys : msq[k].live => msq[k].gen # 0
EmptyWhenGone == \A k \in {Occupy, Free} : ~msq[k].live => msq[k].msgs = <<>>

TypeInv == TypeOK /\ CountOK /\ GenerationsLast /\ IdsOK /\ NotUsedYet /\ EmptyWhenGone

-----------------------------------------------------------------------------

\* p has found the lock queue, and has its token or is about to make it.
Locked(p) == obj[p].m_ProcLockID # None
Holding(p) == Locked(p) /\ pc[p] \in Critical \cup {"lock_init"}

LockInv ==
    /\ ~msq[Lock].live => msq[Lock].msgs = <<>>
    /\ Len(msq[Lock].msgs) <= 1
    /\ \A p \in Proc :
         /\ Locked(p) => Valid(Lock, obj[p].m_ProcLockID)
         /\ pc[p] = "lock_init" => Locked(p)
         /\ Holding(p) => msq[Lock].msgs = <<>>
    /\ \A p, q \in Proc : Holding(p) /\ Holding(q) => p = q

\* When no identifier was lost, only an object that was never opened has no lock.
UnlockedOK ==
    count.lost = 0 =>
        \A p \in Proc : ~Locked(p) =>
            /\ ~obj[p].m_IsOpen /\ obj[p].m_MsgQueueInfo = None
            /\ obj[p].m_OccupyMsqID = None /\ obj[p].m_FreeMsqID = None
            /\ pc[p] \notin {"open_lock", "open_attach", "open_free", "open_init", "open_count"} \cup InBlock

-----------------------------------------------------------------------------

\* The token is lost: nobody will create or remove anything any more.
Stuck ==
    /\ count.crash # 0 /\ msq[Lock].live /\ msq[Lock].msgs = <<>>
    /\ \A p \in Proc : ~Holding(p)

\* p has the token, and has not yet created or removed all three objects.
Halfway(p) == Holding(p) /\ pc[p] \in {"open_free", "open_init", "rm_occupy", "rm_free"}

OpenObjects == {p \in Proc : obj[p].m_IsOpen}

\* What a process in open or close finds, or has made sure of.
StaysAt(p) ==
    /\ pc[p] # "release_lock"
    /\ pc[p] \in {"open_free", "open_init", "open_count", "rm_shm"} =>
           shm.live /\ shm.gen = obj[p].m_MsgQueueInfo
    /\ pc[p] \in {"open_free", "open_init", "open_count", "rm_shm", "rm_occupy"} =>
           Valid(Occupy, obj[p].m_OccupyMsqID)
    /\ pc[p] \in {"open_init", "open_count"} => Valid(Free, obj[p].m_FreeMsqID)
    /\ pc[p] = "open_init" => OpenObjects = {} /\ msq[Free].msgs = <<>> /\ msq[Occupy].msgs = <<>>
    /\ Removing(p) => OpenObjects = {p} /\ Valid(Free, obj[p].m_FreeMsqID)
    /\ pc[p] = "rm_free" => ~msq[Occupy].live

\* The segment and its queues stay while an object is open, and the counter is
\* no less than the number of those.
Standing ==
    /\ \A p \in Proc : obj[p].m_IsOpen /\ ~Removing(p) =>
           /\ shm.gen = obj[p].m_MsgQueueInfo /\ shm.live
           /\ Valid(Occupy, obj[p].m_OccupyMsqID) /\ Valid(Free, obj[p].m_FreeMsqID)
    /\ IsFiniteSet(OpenObjects)
    /\ shm.gen \in Generation =>
           Cardinality(OpenObjects) <= mem[shm.gen].referenceCount
    /\ ~msq[Free].live => msq[Occupy].msgs = <<>>
    /\ \A p \in Proc : StaysAt(p)
    /\ count.crash = 0 /\ msq[Free].live /\ ~msq[Occupy].live => \E p \in Proc : pc[p] = "rm_free"

\* Nobody calls release.
StaysInv == count.lost = 0 /\ count.release = 0 => Standing

\* Messages are left without a segment only by a close that is under way, or was
\* killed with the token: nobody finds them with a new segment.
LeftoverInv ==
    count.lost = 0 /\ count.release = 0 =>
        (~Stuck /\ (\A p \in Proc : ~Halfway(p)) /\ ~shm.live => msq[Occupy].msgs = <<>>)

-----------------------------------------------------------------------------

\* The three objects are of one generation and exist together.
Whole ==
    /\ shm.gen = msq[Occupy].gen /\ shm.gen = msq[Free].gen
    /\ shm.live = msq[Occupy].live /\ shm.live = msq[Free].live

InStep ==
    /\ shm.gen = msq[Occupy].gen /\ msq[Free].gen <= shm.gen
    /\ msq[Free].live => msq[Free].gen = shm.gen
    /\ msq[Occupy].live /\ msq[Free].gen = shm.gen => msq[Free].live
    /\ ~msq[Free].live => msq[Occupy].msgs = <<>>
    /\ ~Stuck /\ (\A p \in Proc : ~Halfway(p)) => Whole

\* The identifiers p holds are of one generation, and what it finds in open and
\* close is what it makes of the objects.
InStepAt(p) ==
    /\ obj[p].m_OccupyMsqID = obj[p].m_MsgQueueInfo
    /\ pc[p] # "open_free" => obj[p].m_FreeMsqID = obj[p].m_MsgQueueInfo
    /\ pc[p] \in {"open_free", "open_init", "open_count"} =>
           shm.live /\ msq[Occupy].live /\ obj[p].m_MsgQueueInfo = shm.gen
    /\ pc[p] = "open_free" /\ ~msq[Free].live => msq[Free].gen + 1 = shm.gen
    /\ pc[p] = "open_init" => /\ msq[Free].msgs = <<>> /\ msq[Occupy].msgs = <<>>
                              /\ \A q \in Proc \ {p} : obj[q].m_FreeMsqID # msq[Free].gen
    /\ Locked(p) /\ pc[p] = "rm_occupy" =>
           /\ msq[Free].gen = shm.gen /\ msq[Free].live = msq[Occupy].live
           /\ shm.live = (msq[Occupy].live /\ obj[p].m_MsgQueueInfo # shm.gen)
    /\ Locked(p) /\ pc[p] = "rm_free" =>
           IF obj[p].m_FreeMsqID = msq[Free].gen
           THEN msq[Free].gen = shm.gen /\ ~shm.live /\ ~msq[Occupy].live
           ELSE Whole

\* No open fails: the objects are created together and removed together.
SyncInv == count.lost = 0 /\ count.fail = 0 => InStep /\ \A p \in Proc : InStepAt(p)

-----------------------------------------------------------------------------

\* What the two accounts have in common.
LinkedInv ==
    Orderly =>
    /\ ~msq[Free].live => msq[Occupy].msgs = <<>>
    /\ \A p \in Proc :
         /\ User(p) =>
              /\ Valid(Occupy, obj[p].m_OccupyMsqID) =>
                     Valid(Free, obj[p].m_FreeMsqID) /\ obj[p].m_MsgQueueInfo = shm.gen
              /\ Valid(Free, obj[p].m_FreeMsqID) /\ msq[Occupy].live =>
                     Valid(Occupy, obj[p].m_OccupyMsqID)
              /\ obj[p].m_MsgQueueInfo = shm.gen /\ msq[Occupy].msgs # <<>> =>
                     Valid(Free, obj[p].m_FreeMsqID)
              /\ \A q \in Proc : User(q) /\ obj[p].m_MsgQueueInfo = obj[q].m_MsgQueueInfo =>
                     obj[p].m_FreeMsqID = obj[q].m_FreeMsqID
         /\ pc[p] = "open_init" =>
              /\ Valid(Free, obj[p].m_FreeMsqID) /\ Valid(Occupy, obj[p].m_OccupyMsqID)
              /\ msq[Free].msgs = <<>> /\ msq[Occupy].msgs = <<>>
              /\ \A q \in Proc : User(q) => obj[q].m_FreeMsqID # msq[Free].gen
    /\ count.crash = 0 /\ msq[Free].live /\ ~msq[Occupy].live =>
           \A p \in Proc : pc[p] # "open_attach"
    /\ ~shm.live /\ (\E p \in Proc : pc[p] = "open_attach") => msq[Occupy].msgs = <<>>

\* A queue that exists has room for all blocks.
LimitsInv ==
    Orderly => \A k \in {Occupy, Free} : msq[k].live => Blocks * WordSize <= msq[k].qbytes

\* The messages of a queue carry different blocks.
Distinct(k) == \A m, n \in DOMAIN msq[k].msgs : msq[k].msgs[m] = msq[k].msgs[n] => m = n
Carries(k, b) == \E n \in DOMAIN msq[k].msgs : msq[k].msgs[n] = b

\* A block is carried by one message, or is in the hand of one process; those in
\* hands that came from the same free queue stay different when that is removed.
BlockInv ==
    Orderly =>
    /\ Distinct(Free) /\ Distinct(Occupy)
    /\ \A b \in Index : ~(Carries(Free, b) /\ Carries(Occupy, b))
    /\ \A p \in Proc : pc[p] \in InBlock /\ Valid(Free, obj[p].m_FreeMsqID) =>
           ~Carries(Free, hand[p]) /\ ~Carries(Occupy, hand[p])
    /\ \A p, q \in Proc :
           pc[p] \in InBlock /\ pc[q] \in InBlock /\ hand[p] = hand[q]
           /\ obj[p].m_FreeMsqID = obj[q].m_FreeMsqID => p = q

\* A process is killed, or every block is somewhere.
PresentInv ==
    (/\ Orderly /\ count.crash = 0 /\ msq[Occupy].live /\ msq[Free].live
     /\ \A p \in Proc : pc[p] # "open_init")
    => \A b \in Index : \/ Carries(Free, b) \/ Carries(Occupy, b)
                        \/ \E p \in Proc : pc[p] \in InBlock /\ hand[p] = b /\ Valid(Free, obj[p].m_FreeMsqID)

\* The content of a block in hand and of one that waits.
DataInv ==
    Orderly =>
    /\ \A n \in DOMAIN msq[Occupy].msgs :
         /\ shm.gen \in Generation
         /\ mem[shm.gen].block[msq[Occupy].msgs[n]] = meant[shm.gen][msq[Occupy].msgs[n]]
    /\ \A p \in Proc :
         LET g == obj[p].m_MsgQueueInfo IN
         /\ pc[p] = "send_post" => mem[g].block[hand[p]] = data[p]
         /\ pc[p] = "recv_copy" => mem[g].block[hand[p]] = meant[g][hand[p]]
         /\ pc[p] = "recv_give" => data[p] = meant[g][hand[p]]

-----------------------------------------------------------------------------

\* Without any trouble the counter is exact, and counts the objects that keep
\* the segment alive.
CloseInv ==
    count.release + count.crash + count.fail + count.lost = 0 /\ ~count.again =>
    /\ shm.live /\ msq[Free].live /\ (\A p \in Proc : pc[p] # "open_init") =>
           Cardinality(OpenObjects) = mem[shm.gen].referenceCount
    /\ shm.live /\ OpenObjects = {} =>
           \E p \in Proc : pc[p] \in {"open_free", "open_init", "open_count"}
=============================================================================
