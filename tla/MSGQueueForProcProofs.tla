------------------------ MODULE MSGQueueForProcProofs -----------------------
(***************************************************************************)
(* The inductive invariant of MSGQueueForProc, part by part, and the       *)
(* invariants that follow from it, for any set of processes, any sizes and *)
(* any number of calls.  First what each step changes, one lemma for each, *)
(* and the types (TypeInv).  Then: the lock admits one process at a time,  *)
(* the queue a process has opened stays until it closes it, and the last   *)
(* close removes it (LockInv, UnlockedOK, StaysInv, SyncInv, LeftoverInv,  *)
(* CloseInv, LinkedInv).  Each block has one owner and none is lost, there *)
(* is room for it in the queue it is posted to, and what is read from it is*)
(* what was written (LimitsInv, BlockInv, PresentInv, DataInv).            *)
(***************************************************************************)
EXTENDS MSGQueueForProcInvariant, FiniteSetTheorems, SequenceTheorems, TLAPS

\* The lock, the occupied and the free queue have different keys.
LEMMA KeysDistinct ==
    /\ Keys = {Lock, Occupy, Free}
    /\ Lock # Occupy /\ Lock # Free /\ Occupy # Free
  BY QueueAssumption DEF Keys, Lock, Occupy, Free, PROC_MSG_QUEUE_MANAGER_LOCK_ID

\* The blocks fit into a queue as the system makes it.
LEMMA BlocksFit == Blocks \in Nat /\ Index = 0 .. Blocks - 1 /\ Blocks * WordSize <= SysBytes
<1>1. /\ SysBytes \in Nat /\ msgNum \in Nat /\ (WordSize = 4 \/ WordSize = 8)
  BY QueueAssumption
<1>2. CASE WordSize = 4
  <2>1. SysBytes \div 4 \in Nat /\ (SysBytes \div 4) * 4 <= SysBytes
    BY <1>1
  <2> QED BY <1>1, <1>2, <2>1 DEF Blocks, Index, Lesser
<1>3. CASE WordSize = 8
  <2>1. SysBytes \div 8 \in Nat /\ (SysBytes \div 8) * 8 <= SysBytes
    BY <1>1
  <2> QED BY <1>1, <1>3, <2>1 DEF Blocks, Index, Lesser
<1> QED BY <1>1, <1>2, <1>3

\* The steps of a process, one by one.
Action(p) ==
    \/ Open(p) \/ SendTake(p) \/ RecvTake(p) \/ Close(p) \/ Release(p) \/ LockFails(p)
    \/ AcquireLock(p) \/ LockCreate(p) \/ LockLost(p) \/ LockInit(p) \/ Unlock(p)
    \/ OpenAttach(p) \/ OpenFree(p) \/ OpenFails(p) \/ FreeLost(p) \/ OpenInit(p) \/ OpenCount(p)
    \/ SendCopy(p) \/ SendPost(p) \/ RecvCopy(p) \/ RecvGive(p)
    \/ CloseCount(p) \/ RemoveShm(p) \/ RemoveOccupy(p) \/ RemoveFree(p) \/ Crash(p)

\* A step of the system is an action of one process.
LEMMA NextAction == Next => \E p \in Proc : Action(p)
  BY DEF Next, Begin, Step, Action

-----------------------------------------------------------------------------
(* The kernel's operations.                                                *)

\* msgget(2) with IPC_CREAT: queue k is new and empty, the others stay.
LEMMA CreatedIs ==
    ASSUME TypeOK, NEW k \in Keys
    PROVE  LET n == [msq EXCEPT ![k] = Created(k)] IN
           /\ n \in [Keys -> Queues]
           /\ n[k] = [gen |-> msq[k].gen + 1, live |-> TRUE, msgs |-> <<>>, qbytes |-> SysBytes]
           /\ \A j \in Keys \ {k} : n[j] = msq[j]
<1>1. msq \in [Keys -> Queues] /\ msq[k].gen + 1 \in Nat
  BY DEF TypeOK, Queues
<1>2. SysBytes \in Nat /\ <<>> \in Seq(Nat)
  BY QueueAssumption, EmptySeq
<1>3. Created(k) = [gen |-> msq[k].gen + 1, live |-> TRUE, msgs |-> <<>>, qbytes |-> SysBytes]
  BY DEF Created
<1>4. Created(k) \in Queues
  BY <1>1, <1>2, <1>3 DEF Queues
<1> HIDE DEF Created
<1> QED BY <1>1, <1>3, <1>4

\* The fields of a queue.
LEMMA QueueType ==
    ASSUME TypeOK, NEW k \in Keys
    PROVE  /\ msq \in [Keys -> Queues] /\ msq[k] \in Queues
           /\ msq[k].gen \in Nat /\ msq[k].live \in BOOLEAN
           /\ msq[k].msgs \in Seq(Nat) /\ msq[k].qbytes \in Nat
  BY DEF TypeOK, Queues

\* Other messages in queue k, and nothing else.
LEMMA MessagesAre ==
    ASSUME TypeOK, NEW k \in Keys, NEW s \in Seq(Nat)
    PROVE  LET n == [msq EXCEPT ![k].msgs = s] IN
           /\ n \in [Keys -> Queues]
           /\ n[k].gen = msq[k].gen /\ n[k].live = msq[k].live /\ n[k].qbytes = msq[k].qbytes
           /\ n[k].msgs = s
           /\ \A j \in Keys \ {k} : n[j] = msq[j]
  <1>1. [msq[k] EXCEPT !.msgs = s] \in Queues
    BY QueueType DEF Queues
  <1> QED BY <1>1, QueueType DEF Queues

\* msgsnd(2): one message more, the last.
LEMMA PostedIs ==
    ASSUME TypeOK, NEW k \in Keys, NEW m \in Nat
    PROVE  LET n == Posted(k, m) IN
           /\ n \in [Keys -> Queues]
           /\ n[k].gen = msq[k].gen /\ n[k].live = msq[k].live /\ n[k].qbytes = msq[k].qbytes
           /\ n[k].msgs = Append(msq[k].msgs, m)
           /\ \A j \in Keys \ {k} : n[j] = msq[j]
  <1>1. Append(msq[k].msgs, m) \in Seq(Nat)
    BY QueueType, AppendProperties
  <1> QED BY <1>1, MessagesAre DEF Posted

\* msgrcv(2): one message less, the first.
LEMMA ReceivedIs ==
    ASSUME TypeOK, NEW k \in Keys, msq[k].msgs # <<>>
    PROVE  LET n == Received(k) IN
           /\ n \in [Keys -> Queues]
           /\ n[k].gen = msq[k].gen /\ n[k].live = msq[k].live /\ n[k].qbytes = msq[k].qbytes
           /\ n[k].msgs = Tail(msq[k].msgs)
           /\ \A j \in Keys \ {k} : n[j] = msq[j]
  <1>1. Tail(msq[k].msgs) \in Seq(Nat)
    BY QueueType, HeadTailProperties
  <1> QED BY <1>1, MessagesAre DEF Received

\* msgctl(2) with IPC_RMID: queue k is gone with its messages.
LEMMA RemovedIs ==
    ASSUME TypeOK, NEW k \in Keys
    PROVE  LET n == Removed(k) IN
           /\ n \in [Keys -> Queues]
           /\ n[k].gen = msq[k].gen /\ n[k].live = FALSE /\ n[k].qbytes = msq[k].qbytes
           /\ n[k].msgs = <<>>
           /\ \A j \in Keys \ {k} : n[j] = msq[j]
  <1>1. [msq[k] EXCEPT !.live = FALSE, !.msgs = <<>>] \in Queues
    BY QueueType, EmptySeq DEF Queues
  <1> QED BY <1>1, QueueType DEF Queues, Removed

\* OpenInit leaves in the free queue what was there and the blocks that fit.
LEMMA WithBlocksIs ==
    ASSUME NEW q \in Seq(Nat), \A n \in DOMAIN q : q[n] \in Index
    PROVE  LET w == WithBlocks(q) IN
           /\ w \in Seq(Nat) /\ Len(w) = Blocks
           /\ \A n \in DOMAIN w : w[n] \in Index
           /\ q = <<>> => \A n \in 1 .. Blocks : w[n] = n - 1
<1> DEFINE b == [n \in 1 .. Blocks |-> n - 1]
           c == q \o b
<1>1. Blocks \in Nat /\ Index = 0 .. Blocks - 1 /\ Index \subseteq Nat
  BY BlocksFit
<1>2. b \in Seq(Index) /\ Len(b) = Blocks /\ \A n \in 1 .. Blocks : b[n] = n - 1
  <2>1. \A n \in 1 .. Blocks : n - 1 \in Index
    BY <1>1
  <2> QED BY <1>1, <2>1
<1>3. q \in Seq(Index)
  <2>1. Len(q) \in Nat /\ DOMAIN q = 1 .. Len(q) /\ q \in [1 .. Len(q) -> Nat]
    BY LenProperties
  <2>2. q \in [1 .. Len(q) -> Index]
    BY <2>1
  <2> QED BY <2>1, <2>2, SeqDef
<1>4. /\ c \in Seq(Index) /\ Len(c) = Len(q) + Blocks /\ Len(q) \in Nat
      /\ \A n \in 1 .. Len(q) + Blocks : c[n] = IF n <= Len(q) THEN q[n] ELSE b[n - Len(q)]
  <2>1. Len(q) \in Nat
    BY LenProperties
  <2> HIDE DEF b
  <2> QED BY <1>2, <1>3, <2>1, ConcatProperties
<1>5. \A n \in 1 .. Blocks : c[n] \in Index
  BY <1>1, <1>4, ElementOfSeq
<1>6. /\ SubSeq(c, 1, Blocks) \in Seq(Index) /\ Len(SubSeq(c, 1, Blocks)) = Blocks
      /\ \A n \in 1 .. Blocks : SubSeq(c, 1, Blocks)[n] = c[n]
  BY <1>1, <1>5, SubSeqProperties
<1>7. WithBlocks(q) = SubSeq(c, 1, Blocks)
  BY DEF WithBlocks
<1>8. q = <<>> => \A n \in 1 .. Blocks : c[n] = n - 1
  <2>1. q = <<>> => Len(q) = 0
    OBVIOUS
  <2> QED BY <1>1, <1>2, <1>4, <2>1
<1> HIDE DEF b, c
<1>9. SubSeq(c, 1, Blocks) \in Seq(Nat) /\ DOMAIN SubSeq(c, 1, Blocks) = 1 .. Blocks
  BY <1>1, <1>6, SeqMonotonic, LenProperties
<1> QED BY <1>1, <1>5, <1>6, <1>7, <1>8, <1>9

\* OpenInit on the free queue: the blocks that fit, and the limit.
LEMMA InitialisedIs ==
    ASSUME TypeOK, NEW p \in Proc, NEW n \in Nat, NEW m \in Seq(Nat)
    PROVE  LET i == Initialised(p, n, m) IN
           /\ i \in [Keys -> Queues]
           /\ i[Lock] = msq[Lock]
           /\ i[Occupy] = [msq[Occupy] EXCEPT !.qbytes =
                               IF Valid(Occupy, obj[p].m_OccupyMsqID) THEN n * WordSize ELSE @]
           /\ i[Free] = IF Valid(Free, obj[p].m_FreeMsqID)
                        THEN [msq[Free] EXCEPT !.qbytes = Blocks * WordSize, !.msgs = m]
                        ELSE msq[Free]
<1>1. WordSize = 4 \/ WordSize = 8
  BY QueueAssumption
<1>2. Blocks * WordSize \in Nat /\ n * WordSize \in Nat
  BY <1>1, BlocksFit
<1>3. Occupy \in Keys /\ Free \in Keys /\ Lock \in Keys /\ msq \in [Keys -> Queues]
  BY KeysDistinct DEF TypeOK
<1>4. /\ [msq[Occupy] EXCEPT !.qbytes = n * WordSize] \in Queues
      /\ [msq[Free] EXCEPT !.qbytes = Blocks * WordSize, !.msgs = m] \in Queues
  BY <1>2, <1>3 DEF Queues
<1>5. [msq[Occupy] EXCEPT !.qbytes = msq[Occupy].qbytes] = msq[Occupy]
  BY <1>3 DEF Queues
<1> QED BY <1>3, <1>4, <1>5, KeysDistinct DEF Initialised

-----------------------------------------------------------------------------
(* Types.                                                                  *)

\* How a step of p changes the number of processes at some places.
LEMMA Moves ==
    ASSUME TypeOK, NEW places, NEW p \in Proc, NEW to, pc' = [pc EXCEPT ![p] = to],
           IsFiniteSet(Before(places))
    PROVE  /\ IsFiniteSet(Before(places)')
           /\ Cardinality(Before(places)) \in Nat
           /\ pc[p] \in places => Cardinality(Before(places)) > 0
           /\ Cardinality(Before(places)') =
                Cardinality(Before(places)) + (IF to \in places THEN 1 ELSE 0)
                                            - (IF pc[p] \in places THEN 1 ELSE 0)
<1>1. pc \in [Proc -> Places]
  BY DEF TypeOK
<1>2. Cardinality(Before(places)) \in Nat
  BY FS_CardinalityType
<1>3. p \in Before(places) <=> pc[p] \in places
  BY DEF Before
<1>4. pc[p] \in places => Cardinality(Before(places)) > 0
  BY <1>2, <1>3, FS_EmptySet
<1>5. CASE to \in places
  <2>1. Before(places)' = Before(places) \cup {p}
    BY <1>1, <1>5 DEF Before
  <2> QED BY <1>2, <1>3, <1>4, <1>5, <2>1, FS_AddElement
<1>6. CASE to \notin places
  <2>1. Before(places)' = Before(places) \ {p}
    BY <1>1, <1>6 DEF Before
  <2> QED BY <1>2, <1>3, <1>4, <1>6, <2>1, FS_RemoveElement
<1> QED BY <1>5, <1>6

\* What the counting says of the generations.
LEMMA GenerationsInRange ==
    ASSUME TypeInv, NEW p \in Proc
    PROVE  /\ MaxOpen \in Nat
           /\ shm.gen \in 0 .. MaxOpen
           /\ \A k \in Keys : msq[k].gen \in 0 .. MaxOpen
           /\ pc[p] = "lock_create" => msq[Lock].gen < MaxOpen
           /\ pc[p] = "open_attach" => shm.gen < MaxOpen /\ msq[Occupy].gen < MaxOpen
           /\ pc[p] = "open_free" => msq[Free].gen < MaxOpen
<1>1. /\ Before(ToLock) \in SUBSET Before(ToFree)
      /\ Before(ToAttach) \in SUBSET Before(ToFree)
  BY DEF Before, ToLock, ToAttach, ToFree
<1>2. /\ IsFiniteSet(Before(ToFree)) /\ IsFiniteSet(Before(ToLock)) /\ IsFiniteSet(Before(ToAttach))
  BY <1>1, FS_Subset DEF TypeInv, GenerationsLast
<1>3. /\ Cardinality(Before(ToFree)) \in Nat /\ Cardinality(Before(ToLock)) \in Nat
      /\ Cardinality(Before(ToAttach)) \in Nat
  BY <1>2, FS_CardinalityType
<1>4. /\ pc[p] = "lock_create" => Cardinality(Before(ToLock)) > 0
      /\ pc[p] = "open_attach" => Cardinality(Before(ToAttach)) > 0
      /\ pc[p] = "open_free" => Cardinality(Before(ToFree)) > 0
  <2>1. /\ pc[p] = "lock_create" => p \in Before(ToLock)
        /\ pc[p] = "open_attach" => p \in Before(ToAttach)
        /\ pc[p] = "open_free" => p \in Before(ToFree)
    BY DEF Before, ToLock, ToAttach, ToFree
  <2> QED BY <1>2, <1>3, <2>1, FS_EmptySet
<1>5. count.open \in 0 .. MaxOpen /\ MaxOpen \in Nat
  BY QueueAssumption DEF TypeInv, CountOK
<1>6. /\ shm.gen \in Nat /\ msq[Lock].gen \in Nat /\ msq[Occupy].gen \in Nat /\ msq[Free].gen \in Nat
  BY KeysDistinct, QueueType DEF TypeInv, TypeOK
<1>7. /\ msq[Lock].gen + Cardinality(Before(ToLock)) <= count.open
      /\ msq[Occupy].gen + Cardinality(Before(ToAttach)) <= count.open
      /\ shm.gen + Cardinality(Before(ToAttach)) <= count.open
      /\ msq[Free].gen + Cardinality(Before(ToFree)) <= count.open
  BY DEF TypeInv, GenerationsLast
<1> QED BY <1>3, <1>4, <1>5, <1>6, <1>7, KeysDistinct

\* The types of the variables, one by one, for the steps that need only them.
LEMMA PcType == TypeInv => pc \in [Proc -> Places]
  BY DEF TypeInv, TypeOK
LEMMA ObjType == TypeInv => obj \in [Proc -> Objects]
  BY DEF TypeInv, TypeOK
LEMMA MemType == TypeInv => mem \in [Generation -> Segments] /\ meant \in [Generation -> [Index -> Payload]]
  BY DEF TypeInv, TypeOK
LEMMA LocalTypes == TypeInv => /\ hand \in [Proc -> Index \cup {None}] /\ data \in [Proc -> Payload]
                               /\ ret \in [Proc -> {0, -1}]
  BY DEF TypeInv, TypeOK
LEMMA IndexType ==
    TypeInv => \A k \in {Occupy, Free} : \A n \in DOMAIN msq[k].msgs : msq[k].msgs[n] \in Index
  BY DEF TypeInv, TypeOK
LEMMA CountType ==
    TypeInv => /\ count \in [open : 0 .. MaxOpen, send : 0 .. MaxSend, release : Nat, crash : Nat,
                             fail : Nat, lost : Nat, again : BOOLEAN]
               /\ MaxOpen \in Nat /\ MaxSend \in Nat
  BY QueueAssumption DEF TypeInv, CountOK
LEMMA ShmType == TypeInv => shm \in [gen : Nat, live : BOOLEAN]
  BY DEF TypeInv, TypeOK

\* Every step goes to a place of the code.
LEMMA PcStep ==
    ASSUME TypeInv, NEW p \in Proc, Action(p)
    PROVE  pc' \in [Proc -> Places]
<1>1. CASE Open(p)
  BY <1>1, PcType DEF Open, Goto, Places
<1>2. CASE SendTake(p)
  BY <1>2, PcType DEF SendTake, Goto, Places
<1>3. CASE RecvTake(p)
  BY <1>3, PcType DEF RecvTake, Goto, Places
<1>4. CASE Close(p)
  BY <1>4, PcType DEF Close, Goto, Places
<1>5. CASE Release(p)
  BY <1>5, PcType DEF Release, Goto, Places
<1>26. CASE LockFails(p)
  BY <1>26, PcType DEF LockFails, Goto, Places
<1>6. CASE AcquireLock(p)
  BY <1>6, PcType DEF AcquireLock, TakeToken, Goto, Places
<1>7. CASE LockCreate(p)
  BY <1>7, PcType DEF LockCreate, Goto, Places
<1>8. CASE LockLost(p)
  BY <1>8, PcType DEF LockLost, Goto, Places
<1>9. CASE LockInit(p)
  BY <1>9, PcType DEF LockInit, Goto, Places
<1>10. CASE Unlock(p)
  BY <1>10, PcType DEF Unlock, Goto, Places
<1>11. CASE OpenAttach(p)
  BY <1>11, PcType DEF OpenAttach, Goto, Places
<1>12. CASE OpenFree(p)
  BY <1>12, PcType DEF OpenFree, Goto, Places
<1>13. CASE OpenFails(p)
  BY <1>13, PcType DEF OpenFails, Goto, Places
<1>14. CASE FreeLost(p)
  BY <1>14, PcType DEF FreeLost, Goto, Places
<1>15. CASE OpenInit(p)
  BY <1>15, PcType DEF OpenInit, Goto, Places
<1>16. CASE OpenCount(p)
  BY <1>16, PcType DEF OpenCount, Goto, Places
<1>17. CASE SendCopy(p)
  BY <1>17, PcType DEF SendCopy, Goto, Places
<1>18. CASE SendPost(p)
  BY <1>18, PcType DEF SendPost, Goto, Places
<1>19. CASE RecvCopy(p)
  BY <1>19, PcType DEF RecvCopy, Goto, Places
<1>20. CASE RecvGive(p)
  BY <1>20, PcType DEF RecvGive, Goto, Places
<1>21. CASE CloseCount(p)
  BY <1>21, PcType DEF CloseCount, Goto, Places
<1>22. CASE RemoveShm(p)
  BY <1>22, PcType DEF RemoveShm, Goto, Places
<1>23. CASE RemoveOccupy(p)
  BY <1>23, PcType DEF RemoveOccupy, Goto, Places
<1>24. CASE RemoveFree(p)
  BY <1>24, PcType DEF RemoveFree, Goto, Places
<1>25. CASE Crash(p)
  BY <1>25, PcType DEF Crash, Goto, Places
<1> QED BY <1>1, <1>2, <1>3, <1>4, <1>5, <1>6, <1>7, <1>8, <1>9, <1>10, <1>11, <1>12, <1>13,
           <1>14, <1>15, <1>16, <1>17, <1>18, <1>19, <1>20, <1>21, <1>22, <1>23, <1>24, <1>25, <1>26
        DEF Action

\* Every step keeps the type of the segment.
LEMMA ShmStep ==
    ASSUME TypeInv, NEW p \in Proc, Action(p)
    PROVE  shm' \in [gen : Nat, live : BOOLEAN]
<1>1. CASE OpenAttach(p)
  BY <1>1, ShmType DEF OpenAttach
<1>2. CASE RemoveShm(p)
  BY <1>2, ShmType DEF RemoveShm
<1>4. CASE OpenFails(p)
  <2>1. shm' = shm \/ shm' = [gen |-> shm.gen + 1, live |-> TRUE]
    BY <1>4 DEF OpenFails
  <2>2. shm \in [gen : Nat, live : BOOLEAN] /\ shm.gen + 1 \in Nat
    BY ShmType
  <2>3. [gen |-> shm.gen + 1, live |-> TRUE] \in [gen : Nat, live : BOOLEAN]
    BY <2>2
  <2> QED BY <2>1, <2>2, <2>3
<1>3. CASE Open(p) \/ SendTake(p) \/ RecvTake(p) \/ Close(p) \/ Release(p) \/ LockFails(p) \/ AcquireLock(p)
             \/ LockCreate(p) \/ LockLost(p) \/ LockInit(p) \/ Unlock(p) \/ OpenFree(p)
             \/ FreeLost(p) \/ OpenInit(p) \/ OpenCount(p) \/ SendCopy(p)
             \/ SendPost(p) \/ RecvCopy(p) \/ RecvGive(p) \/ CloseCount(p) \/ RemoveOccupy(p)
             \/ RemoveFree(p) \/ Crash(p)
  <2>1. shm' = shm
    BY <1>3 DEF Open, SendTake, RecvTake, Close, Release, LockFails, AcquireLock, TakeToken, LockCreate,
           LockLost, LockInit, Unlock, OpenFree, FreeLost, OpenInit, OpenCount,
           SendCopy, SendPost, RecvCopy, RecvGive, CloseCount, RemoveOccupy, RemoveFree, Crash
  <2> QED BY <2>1, ShmType
<1> QED BY <1>1, <1>2, <1>3, <1>4 DEF Action

\* Small values.
LEMMA Values ==
    /\ Zero \in Payload /\ MaxSend \in Nat /\ MaxOpen \in Nat
    /\ None \in Ids /\ None \notin Index /\ Index \subseteq Nat
    /\ \A g \in 0 .. MaxOpen : g \in Ids
  BY QueueAssumption, BlocksFit DEF Zero, Payload, None, Ids, Generation

\* The first message of a queue of blocks carries one.
LEMMA HeadInIndex ==
    ASSUME TypeInv, NEW k \in {Occupy, Free}, msq[k].msgs # <<>>
    PROVE  /\ Head(msq[k].msgs) \in Index /\ Head(msq[k].msgs) = msq[k].msgs[1]
           /\ 1 \in DOMAIN msq[k].msgs
<1>1. msq[k].msgs \in Seq(Nat)
  BY KeysDistinct, QueueType DEF TypeInv
<1>2. DOMAIN msq[k].msgs = 1 .. Len(msq[k].msgs) /\ Len(msq[k].msgs) \in Nat \ {0}
  BY <1>1, EmptySeq, LenProperties
<1>3. Head(msq[k].msgs) = msq[k].msgs[1]
  OBVIOUS
<1> QED BY <1>2, <1>3, IndexType

\* Every step keeps the types of a call's local variables.
LEMMA LocalStep ==
    ASSUME TypeInv, NEW p \in Proc, Action(p)
    PROVE  /\ hand' \in [Proc -> Index \cup {None}] /\ data' \in [Proc -> Payload]
           /\ ret' \in [Proc -> {0, -1}]
<1>1. CASE SendTake(p)
  <2>1. Head(msq[Free].msgs) \in Index
    BY <1>1, HeadInIndex DEF SendTake
  <2>2. count.send + 1 \in Payload
    BY <1>1, CountType DEF SendTake, Payload
  <2> QED BY <1>1, <2>1, <2>2, LocalTypes DEF SendTake
<1>2. CASE SendPost(p)
  BY <1>2, LocalTypes, Values DEF SendPost
<1>3. CASE RecvTake(p)
  <2>1. Head(msq[Occupy].msgs) \in Index
    BY <1>3, HeadInIndex DEF RecvTake
  <2> QED BY <1>3, <2>1, LocalTypes DEF RecvTake
<1>4. CASE RecvCopy(p)
  <2>1. /\ obj[p].m_MsgQueueInfo \in Generation /\ hand[p] \in Index
    BY <1>4, LocalTypes DEF TypeInv, IdsOK, IdsFit, RecvCopy, Goto, InBlock
  <2>2. mem[obj[p].m_MsgQueueInfo].block[hand[p]] \in Payload
    BY <2>1, MemType DEF Segments
  <2> QED BY <1>4, <2>2, LocalTypes DEF RecvCopy
<1>5. CASE RecvGive(p)
  BY <1>5, LocalTypes, Values DEF RecvGive
<1>6. CASE LockLost(p)
  BY <1>6, LocalTypes DEF LockLost
<1>7. CASE LockInit(p)
  BY <1>7, LocalTypes DEF LockInit
<1>8. CASE OpenFails(p)
  BY <1>8, LocalTypes DEF OpenFails
<1>9. CASE OpenCount(p)
  BY <1>9, LocalTypes DEF OpenCount
<1>10. CASE Crash(p)
  BY <1>10, LocalTypes, Values DEF Crash
<1>12. CASE LockFails(p)
  BY <1>12, LocalTypes DEF LockFails
<1>13. CASE FreeLost(p)
  BY <1>13, LocalTypes DEF FreeLost
<1>11. CASE \/ Open(p) \/ Close(p) \/ Release(p) \/ AcquireLock(p) \/ LockCreate(p)
            \/ Unlock(p) \/ OpenAttach(p) \/ OpenFree(p) \/ OpenInit(p)
            \/ SendCopy(p) \/ CloseCount(p) \/ RemoveShm(p) \/ RemoveOccupy(p) \/ RemoveFree(p)
  <2>1. hand' = hand /\ data' = data /\ ret' = ret
    BY <1>11 DEF Open, Close, Release, AcquireLock, TakeToken, LockCreate, Unlock, OpenAttach,
           OpenFree, OpenInit, SendCopy, CloseCount, RemoveShm, RemoveOccupy, RemoveFree
  <2> QED BY <2>1, LocalTypes
<1> QED BY <1>1, <1>2, <1>3, <1>4, <1>5, <1>6, <1>7, <1>8, <1>9, <1>10, <1>11, <1>12, <1>13 DEF Action

\* Queues with blocks in them.
Good(m) ==
    /\ m \in [Keys -> Queues]
    /\ \A k \in {Occupy, Free} : \A n \in DOMAIN m[k].msgs : m[k].msgs[n] \in Index

\* Changing one queue well leaves all of them well.
LEMMA GoodChange ==
    ASSUME Good(msq), NEW k \in Keys, NEW m \in [Keys -> Queues],
           \A j \in Keys \ {k} : m[j] = msq[j],
           k = Lock \/ \A n \in DOMAIN m[k].msgs : m[k].msgs[n] \in Index
    PROVE  Good(m)
  BY KeysDistinct DEF Good

\* The queues that a step of p changes.
LEMMA MsqStep ==
    ASSUME TypeInv, NEW p \in Proc, Action(p)
    PROVE  /\ msq' \in [Keys -> Queues]
           /\ \A k \in {Occupy, Free} : \A n \in DOMAIN msq'[k].msgs : msq'[k].msgs[n] \in Index
<1> SUFFICES Good(msq')
  BY DEF Good
<1>0. TypeOK /\ Good(msq) /\ Lock \in Keys /\ Occupy \in Keys /\ Free \in Keys
  BY KeysDistinct DEF TypeInv, TypeOK, Good
<1>1. ASSUME NEW k \in Keys PROVE Good([msq EXCEPT ![k] = Created(k)])
  <2>1. \A n \in DOMAIN <<>> : FALSE
    OBVIOUS
  <2> QED BY <1>0, <2>1, CreatedIs DEF Good
<1>2. ASSUME NEW k \in Keys PROVE Good(Removed(k))
  <2>1. \A n \in DOMAIN <<>> : FALSE
    OBVIOUS
  <2>2. /\ Removed(k) \in [Keys -> Queues] /\ Removed(k)[k].msgs = <<>>
        /\ \A j \in Keys \ {k} : Removed(k)[j] = msq[j]
    BY <1>0, RemovedIs
  <2> QED BY <1>0, <2>1, <2>2, KeysDistinct DEF Good
<1>3. ASSUME NEW k \in Keys, msq[k].msgs # <<>> PROVE Good(Received(k))
  <2> DEFINE s == msq[k].msgs
             t == Tail(s)
  <2>1. s \in Seq(Nat) /\ Len(s) \in Nat /\ DOMAIN s = 1 .. Len(s) /\ s # <<>>
    BY <1>0, <1>3, QueueType, LenProperties
  <2>2. /\ t \in Seq(Nat) /\ Len(t) = Len(s) - 1 /\ DOMAIN t = 1 .. Len(t)
        /\ \A n \in 1 .. Len(t) : t[n] = s[n + 1]
    BY <2>1, HeadTailProperties, LenProperties
  <2>3. k = Lock \/ \A n \in DOMAIN s : s[n] \in Index
    BY <1>0, KeysDistinct DEF Good
  <2>4. /\ Received(k) \in [Keys -> Queues] /\ Received(k)[k].msgs = t
        /\ \A j \in Keys \ {k} : Received(k)[j] = msq[j]
    BY <1>0, <1>3, ReceivedIs, ZenonT(20)
  <2> HIDE DEF s, t
  <2>5. k = Lock \/ \A n \in DOMAIN t : t[n] \in Index
    <3>1. ASSUME k # Lock, NEW n \in DOMAIN t PROVE t[n] \in Index
      <4>1. n \in 1 .. Len(s) - 1 /\ t[n] = s[n + 1]
        BY <2>2, <3>1
      <4>2. n + 1 \in 1 .. Len(s)
        BY <2>1, <4>1
      <4> QED BY <2>1, <2>3, <3>1, <4>1, <4>2
    <3> QED BY <3>1
  <2> QED BY <1>0, <2>4, <2>5, GoodChange
<1>4. ASSUME NEW k \in Keys, NEW m \in Nat, k = Lock \/ m \in Index PROVE Good(Posted(k, m))
  <2> DEFINE s == msq[k].msgs
             t == Append(s, m)
  <2>1. s \in Seq(Nat) /\ Len(s) \in Nat /\ DOMAIN s = 1 .. Len(s)
    BY <1>0, QueueType, LenProperties
  <2>2. /\ t \in Seq(Nat) /\ Len(t) = Len(s) + 1 /\ DOMAIN t = 1 .. Len(t)
        /\ t[Len(t)] = m /\ \A n \in 1 .. Len(s) : t[n] = s[n]
    BY <2>1, AppendProperties, LenProperties
  <2>3. k = Lock \/ \A n \in DOMAIN s : s[n] \in Index
    BY <1>0, KeysDistinct DEF Good
  <2>4. /\ Posted(k, m) \in [Keys -> Queues] /\ Posted(k, m)[k].msgs = t
        /\ \A j \in Keys \ {k} : Posted(k, m)[j] = msq[j]
    BY <1>0, PostedIs
  <2> HIDE DEF s, t
  <2>5. k = Lock \/ \A n \in DOMAIN t : t[n] \in Index
    <3>1. ASSUME k # Lock, NEW n \in DOMAIN t PROVE t[n] \in Index
      <4>1. n = Len(t) \/ n \in 1 .. Len(s)
        BY <2>1, <2>2
      <4> QED BY <1>4, <2>1, <2>2, <2>3, <3>1, <4>1
    <3> QED BY <3>1
  <2> QED BY <1>0, <2>4, <2>5, GoodChange
<1>5. CASE SendTake(p)
  BY <1>0, <1>3, <1>5 DEF SendTake
<1>6. CASE RecvTake(p)
  BY <1>0, <1>3, <1>6 DEF RecvTake
<1>7. CASE AcquireLock(p)
  BY <1>0, <1>3, <1>7 DEF AcquireLock, TakeToken
<1>8. CASE LockCreate(p)
  BY <1>0, <1>1, <1>8 DEF LockCreate
<1>9. CASE LockInit(p)
  <2> DEFINE limited == [msq EXCEPT ![Lock].qbytes = 4]
  <2>1. /\ limited \in [Keys -> Queues] /\ limited[Lock].msgs = msq[Lock].msgs
        /\ \A j \in Keys \ {Lock} : limited[j] = msq[j]
    BY <1>0, QueueType DEF Queues
  <2>2. msq' = limited \/ msq' = [limited EXCEPT ![Lock].msgs = Append(msq[Lock].msgs, 0)]
    BY <1>9, <2>1 DEF LockInit
  <2>3. Append(msq[Lock].msgs, 0) \in Seq(Nat)
    BY <1>0, QueueType, AppendProperties
  <2> HIDE DEF limited
  <2>4. msq' \in [Keys -> Queues] /\ \A j \in Keys \ {Lock} : msq'[j] = msq[j]
    <3>1. [limited[Lock] EXCEPT !.msgs = Append(msq[Lock].msgs, 0)] \in Queues
      BY <1>0, <2>1, <2>3 DEF Queues
    <3> QED BY <1>0, <2>1, <2>2, <3>1
  <2> QED BY <1>0, <2>4, KeysDistinct DEF Good
<1>10. CASE Unlock(p)
  BY <1>0, <1>4, <1>10 DEF Unlock
<1>11. CASE OpenAttach(p)
  BY <1>0, <1>1, <1>11 DEF OpenAttach
<1>12. CASE OpenFree(p)
  BY <1>0, <1>1, <1>12 DEF OpenFree
<1>13. CASE OpenFails(p)
  BY <1>0, <1>1, <1>13 DEF OpenFails
<1>14. CASE OpenInit(p)
  <2> DEFINE w == WithBlocks(msq[Free].msgs)
  <2>1. w \in Seq(Nat) /\ \A n \in DOMAIN w : w[n] \in Index
    BY <1>0, QueueType, WithBlocksIs DEF Good
  <2>2. NumberSet(p) \in Nat
    BY BlocksFit DEF NumberSet
  <2>3. msq' = Initialised(p, NumberSet(p), w)
    BY <1>14 DEF OpenInit
  <2> HIDE DEF w
  <2>4. /\ msq' \in [Keys -> Queues]
        /\ msq'[Occupy].msgs = msq[Occupy].msgs
        /\ msq'[Free].msgs = w \/ msq'[Free].msgs = msq[Free].msgs
    <3>1. /\ Initialised(p, NumberSet(p), w) \in [Keys -> Queues]
          /\ Initialised(p, NumberSet(p), w)[Occupy] = [msq[Occupy] EXCEPT !.qbytes =
                 IF Valid(Occupy, obj[p].m_OccupyMsqID) THEN NumberSet(p) * WordSize ELSE @]
          /\ Initialised(p, NumberSet(p), w)[Free] = IF Valid(Free, obj[p].m_FreeMsqID)
                 THEN [msq[Free] EXCEPT !.qbytes = Blocks * WordSize, !.msgs = w] ELSE msq[Free]
      <4>1. LET i == Initialised(p, NumberSet(p), w) IN
            /\ i \in [Keys -> Queues]
            /\ i[Lock] = msq[Lock]
            /\ i[Occupy] = [msq[Occupy] EXCEPT !.qbytes =
                   IF Valid(Occupy, obj[p].m_OccupyMsqID) THEN NumberSet(p) * WordSize ELSE @]
            /\ i[Free] = IF Valid(Free, obj[p].m_FreeMsqID)
                   THEN [msq[Free] EXCEPT !.qbytes = Blocks * WordSize, !.msgs = w]
                   ELSE msq[Free]
        BY <1>0, <2>1, <2>2, InitialisedIs, ZenonT(20)
      <4> QED BY <4>1, ZenonT(20)
    <3>2. msq[Free] \in Queues /\ msq[Occupy] \in Queues
      BY <1>0, QueueType
    <3> QED BY <2>3, <3>1, <3>2 DEF Queues
  <2> QED BY <1>0, <2>1, <2>4 DEF Good
<1>15. CASE SendPost(p)
  <2>1. hand[p] \in Index /\ hand[p] \in Nat
    BY <1>15, LocalTypes, Values DEF TypeInv, IdsOK, IdsFit, SendPost, Goto, InBlock
  <2> QED BY <1>0, <1>4, <1>15, <2>1 DEF SendPost
<1>16. CASE RecvGive(p)
  <2>1. hand[p] \in Index /\ hand[p] \in Nat
    BY <1>16, LocalTypes, Values DEF TypeInv, IdsOK, IdsFit, RecvGive, Goto, InBlock
  <2> QED BY <1>0, <1>4, <1>16, <2>1 DEF RecvGive
<1>17. CASE RemoveOccupy(p)
  BY <1>0, <1>2, <1>17 DEF RemoveOccupy
<1>18. CASE RemoveFree(p)
  BY <1>0, <1>2, <1>18 DEF RemoveFree
<1>19. CASE \/ Open(p) \/ Close(p) \/ Release(p) \/ LockFails(p) \/ OpenCount(p)
            \/ SendCopy(p) \/ RecvCopy(p) \/ CloseCount(p) \/ RemoveShm(p) \/ Crash(p)
  <2>1. msq' = msq
    BY <1>19 DEF Open, Close, Release, LockFails, OpenCount, SendCopy, RecvCopy,
           CloseCount, RemoveShm, Crash
  <2> QED BY <1>0, <2>1
<1>20. CASE LockLost(p)
  BY <1>0, <1>1, <1>20 DEF LockLost
<1>21. CASE FreeLost(p)
  BY <1>0, <1>1, <1>21 DEF FreeLost
<1> QED BY <1>5, <1>6, <1>7, <1>8, <1>9, <1>10, <1>11, <1>12, <1>13, <1>14, <1>15, <1>16, <1>17,
           <1>18, <1>19, <1>20, <1>21 DEF Action

\* Every step keeps the types of memory and of the history.
LEMMA MemStep ==
    ASSUME TypeInv, NEW p \in Proc, Action(p)
    PROVE  mem' \in [Generation -> Segments] /\ meant' \in [Generation -> [Index -> Payload]]
<1> DEFINE g == obj[p].m_MsgQueueInfo
<1>1. CASE OpenInit(p)
  <2>0. g \in Generation
    BY <1>1 DEF OpenInit, Goto, TypeInv, IdsOK, IdsFit
  <2>1. [mem[g] EXCEPT !.referenceCount = 0, !.blockSize = blockSize, !.msgNum = NumberSet(p)] \in Segments
    <3>1. mem[g] \in Segments /\ NumberSet(p) \in {0, Blocks}
      BY <2>0, MemType DEF NumberSet
    <3>2. [mem[g] EXCEPT !.referenceCount = 0] \in Segments
      BY <3>1 DEF Segments
    <3>3. [[mem[g] EXCEPT !.referenceCount = 0] EXCEPT !.blockSize = blockSize, !.msgNum = NumberSet(p)]
             \in Segments
      BY <3>1, <3>2 DEF Segments
    <3> QED BY <3>1, <3>3 DEF Segments
  <2> QED BY <1>1, <2>1, MemType DEF OpenInit, HeadSet
<1>2. CASE OpenCount(p)
  <2>1. g \in Generation
    BY <1>2 DEF OpenCount, Goto, TypeInv, IdsOK, IdsFit
  <2>2. [mem[g] EXCEPT !.referenceCount = mem[g].referenceCount + 1] \in Segments
    <3>1. mem[g] \in Segments
      BY <2>1, MemType
    <3> QED BY <3>1 DEF Segments
  <2> QED BY <1>2, <2>2, MemType DEF OpenCount
<1>3. CASE SendCopy(p)
  <2>1. g \in Generation /\ hand[p] \in Index
    BY <1>3, LocalTypes DEF SendCopy, Goto, TypeInv, IdsOK, IdsFit, InBlock
  <2>2. [mem[g] EXCEPT !.block[hand[p]] = data[p]] \in Segments
    BY <2>1, MemType, LocalTypes DEF Segments
  <2> QED BY <1>3, <2>2, MemType DEF SendCopy
<1>4. CASE SendPost(p)
  <2>1. g \in Generation /\ hand[p] \in Index
    BY <1>4, LocalTypes DEF SendPost, Goto, TypeInv, IdsOK, IdsFit, InBlock
  <2>2. [meant[g] EXCEPT ![hand[p]] = data[p]] \in [Index -> Payload]
    BY <2>1, MemType, LocalTypes
  <2>3. meant' = meant \/ meant' = [meant EXCEPT ![g] = [meant[g] EXCEPT ![hand[p]] = data[p]]]
    BY <1>4 DEF SendPost
  <2>4. mem' = mem
    BY <1>4 DEF SendPost
  <2> QED BY <2>2, <2>3, <2>4, MemType
<1>5. CASE CloseCount(p)
  <2>1. ASSUME obj[p].m_IsOpen PROVE [mem[g] EXCEPT !.referenceCount = mem[g].referenceCount - 1] \in Segments
    <3>1. g \in Generation
      BY <2>1 DEF TypeInv, IdsOK, IdsFit
    <3>2. mem[g] \in Segments
      BY <3>1, MemType
    <3> QED BY <3>2 DEF Segments
  <2>2. mem' = mem \/ (obj[p].m_IsOpen
                       /\ mem' = [mem EXCEPT ![g] = [mem[g] EXCEPT !.referenceCount = mem[g].referenceCount - 1]])
    BY <1>5 DEF CloseCount
  <2>3. meant' = meant
    BY <1>5 DEF CloseCount
  <2> QED BY <2>1, <2>2, <2>3, MemType
<1>6. CASE \/ Open(p) \/ SendTake(p) \/ RecvTake(p) \/ Close(p) \/ Release(p) \/ LockFails(p) \/ AcquireLock(p)
           \/ LockCreate(p) \/ LockLost(p) \/ LockInit(p) \/ Unlock(p) \/ OpenAttach(p) \/ OpenFree(p)
           \/ OpenFails(p) \/ FreeLost(p) \/ RecvCopy(p) \/ RecvGive(p) \/ RemoveShm(p)
           \/ RemoveOccupy(p) \/ RemoveFree(p) \/ Crash(p)
  <2>1. mem' = mem /\ meant' = meant
    BY <1>6 DEF Open, SendTake, RecvTake, Close, Release, LockFails, AcquireLock, TakeToken, LockCreate, LockLost,
           LockInit, Unlock, OpenAttach, OpenFree, OpenFails, FreeLost, RecvCopy, RecvGive, RemoveShm,
           RemoveOccupy, RemoveFree, Crash
  <2> QED BY <2>1, MemType
<1> QED BY <1>1, <1>2, <1>3, <1>4, <1>5, <1>6 DEF Action

-----------------------------------------------------------------------------
(* What each step changes, field by field.                                 *)

\* Queue k is as written after the step.
Becomes(k, gen, live, msgs, qbytes) ==
    /\ msq'[k].gen = gen /\ msq'[k].live = live
    /\ msq'[k].msgs = msgs /\ msq'[k].qbytes = qbytes

Made(k) == Becomes(k, msq[k].gen + 1, TRUE, <<>>, SysBytes)
Taken(k) == Becomes(k, msq[k].gen, msq[k].live, Tail(msq[k].msgs), msq[k].qbytes)
Put(k, m) == Becomes(k, msq[k].gen, msq[k].live, Append(msq[k].msgs, m), msq[k].qbytes)
Gone(k) == Becomes(k, msq[k].gen, FALSE, <<>>, msq[k].qbytes)
OthersSame(k) == \A j \in Keys \ {k} : msq'[j] = msq[j]

\* The object of p is as written after the step.
ObjectIs(p, open, info, occupy, free, lock) ==
    /\ obj'[p].m_IsOpen = open /\ obj'[p].m_MsgQueueInfo = info
    /\ obj'[p].m_OccupyMsqID = occupy /\ obj'[p].m_FreeMsqID = free
    /\ obj'[p].m_ProcLockID = lock

\* The fields of an object.
LEMMA ObjOf ==
    ASSUME TypeInv, NEW p \in Proc
    PROVE  /\ obj[p].m_IsOpen \in BOOLEAN /\ obj[p].m_BlockSize \in {0, blockSize}
           /\ obj[p].m_MsgQueueInfo \in Ids /\ obj[p].m_OccupyMsqID \in Ids
           /\ obj[p].m_FreeMsqID \in Ids /\ obj[p].m_ProcLockID \in Ids
           /\ obj[p] \in Objects /\ pc[p] \in Places
  BY ObjType, PcType DEF Objects

\* Changing the object of one process.
LEMMA ObjectChange ==
    ASSUME TypeInv, NEW p \in Proc, NEW o \in Objects, obj' = [obj EXCEPT ![p] = o]
    PROVE  obj' \in [Proc -> Objects] /\ obj'[p] = o
  BY ObjType

\* open begins (MSGQueueForProc.hpp:78-98).
LEMMA OpenDoes ==
    ASSUME TypeInv, NEW p \in Proc, Open(p)
    PROVE  /\ pc[p] = "idle" /\ pc' = [pc EXCEPT ![p] = "lock_create"]
           /\ ObjectIs(p, obj[p].m_IsOpen, obj[p].m_MsgQueueInfo, obj[p].m_OccupyMsqID,
                       obj[p].m_FreeMsqID, obj[p].m_ProcLockID)
           /\ obj' \in [Proc -> Objects]
           /\ UNCHANGED <<msq, shm, mem, hand, data, ret, meant>>
<1>1. /\ pc[p] = "idle" /\ pc' = [pc EXCEPT ![p] = "lock_create"]
      /\ obj' = [obj EXCEPT ![p] = [obj[p] EXCEPT !.m_BlockSize = blockSize]]
      /\ UNCHANGED <<msq, shm, mem, hand, data, ret, meant>>
  BY DEF Open, Goto
<1>2. [obj[p] EXCEPT !.m_BlockSize = blockSize] \in Objects
  BY ObjOf DEF Objects
<1>3. obj' \in [Proc -> Objects] /\ obj'[p] = [obj[p] EXCEPT !.m_BlockSize = blockSize]
  BY <1>1, <1>2, ObjectChange
<1> QED BY <1>1, <1>3, ObjOf DEF ObjectIs, Objects

\* Receiving the token of the lock, or failing to for want of the queue.
LEMMA AcquireLockDoes ==
    ASSUME TypeInv, NEW p \in Proc, AcquireLock(p)
    PROVE  /\ \/ pc[p] = "open_lock" /\ pc' = [pc EXCEPT ![p] = "open_attach"]
              \/ pc[p] = "close_lock" /\ pc' = [pc EXCEPT ![p] = "close"]
              \/ pc[p] = "release_lock" /\ pc' = [pc EXCEPT ![p] = "rm_shm"]
           /\ \/ ~Valid(Lock, obj[p].m_ProcLockID) /\ UNCHANGED msq
              \/ /\ Valid(Lock, obj[p].m_ProcLockID) /\ msq[Lock].msgs # <<>>
                 /\ Taken(Lock) /\ OthersSame(Lock)
           /\ UNCHANGED <<shm, mem, obj, hand, data, ret, meant, count>>
<1>1. /\ \/ pc[p] = "open_lock" /\ pc' = [pc EXCEPT ![p] = "open_attach"]
         \/ pc[p] = "close_lock" /\ pc' = [pc EXCEPT ![p] = "close"]
         \/ pc[p] = "release_lock" /\ pc' = [pc EXCEPT ![p] = "rm_shm"]
      /\ \/ ~Valid(Lock, obj[p].m_ProcLockID) /\ UNCHANGED msq
         \/ Valid(Lock, obj[p].m_ProcLockID) /\ msq[Lock].msgs # <<>> /\ msq' = Received(Lock)
      /\ UNCHANGED <<shm, mem, obj, hand, data, ret, meant, count>>
  BY DEF AcquireLock, TakeToken, Goto
<1>2. msq[Lock].msgs # <<>> /\ msq' = Received(Lock) => Taken(Lock) /\ OthersSame(Lock)
  BY KeysDistinct, ReceivedIs DEF TypeInv, Taken, Becomes, OthersSame
<1> QED BY <1>1, <1>2

\* open of the lock: creating its queue, or finding it.
LEMMA LockCreateDoes ==
    ASSUME TypeInv, NEW p \in Proc, LockCreate(p)
    PROVE  /\ pc[p] = "lock_create"
           /\ \/ ~msq[Lock].live /\ pc' = [pc EXCEPT ![p] = "lock_init"] /\ Made(Lock) /\ OthersSame(Lock)
              \/ msq[Lock].live /\ pc' = [pc EXCEPT ![p] = "open_lock"] /\ UNCHANGED msq
           /\ ObjectIs(p, obj[p].m_IsOpen, obj[p].m_MsgQueueInfo, obj[p].m_OccupyMsqID,
                       obj[p].m_FreeMsqID, msq'[Lock].gen)
           /\ obj' \in [Proc -> Objects]
           /\ UNCHANGED <<shm, mem, hand, data, ret, meant, count>>
<1>1. /\ pc[p] = "lock_create"
      /\ \/ ~msq[Lock].live /\ pc' = [pc EXCEPT ![p] = "lock_init"] /\ msq' = [msq EXCEPT ![Lock] = Created(Lock)]
         \/ msq[Lock].live /\ pc' = [pc EXCEPT ![p] = "open_lock"] /\ UNCHANGED msq
      /\ obj' = [obj EXCEPT ![p] = [obj[p] EXCEPT !.m_ProcLockID = msq'[Lock].gen]]
      /\ UNCHANGED <<shm, mem, hand, data, ret, meant, count>>
  BY DEF LockCreate, Goto
<1>2. msq' = [msq EXCEPT ![Lock] = Created(Lock)] => Made(Lock) /\ OthersSame(Lock)
  BY KeysDistinct, CreatedIs DEF TypeInv, Made, Becomes, OthersSame
<1>3. msq'[Lock].gen \in Ids
  <2>1. msq[Lock].gen \in 0 .. MaxOpen /\ MaxOpen \in Nat /\ msq[Lock].gen < MaxOpen
    BY <1>1, GenerationsInRange, KeysDistinct
  <2>2. msq'[Lock].gen = msq[Lock].gen \/ msq'[Lock].gen = msq[Lock].gen + 1
    BY <1>1, <1>2 DEF Made, Becomes
  <2> QED BY <2>1, <2>2, Values
<1>4. [obj[p] EXCEPT !.m_ProcLockID = msq'[Lock].gen] \in Objects
  BY <1>3, ObjOf DEF Objects
<1>5. obj' \in [Proc -> Objects] /\ obj'[p] = [obj[p] EXCEPT !.m_ProcLockID = msq'[Lock].gen]
  BY <1>1, <1>4, ObjectChange
<1>6. ObjectIs(p, obj[p].m_IsOpen, obj[p].m_MsgQueueInfo, obj[p].m_OccupyMsqID,
               obj[p].m_FreeMsqID, msq'[Lock].gen)
  BY <1>5, ObjOf DEF ObjectIs, Objects
<1> QED BY <1>1, <1>2, <1>5, <1>6

\* open of the lock finds no key for it.
LEMMA LockFailsDoes ==
    ASSUME TypeInv, NEW p \in Proc, LockFails(p)
    PROVE  /\ Trouble("fail") /\ pc[p] = "lock_create" /\ pc' = [pc EXCEPT ![p] = "idle"]
           /\ UNCHANGED <<msq, shm, mem, obj, hand, data, meant>>
  BY DEF LockFails, Goto

\* open of the lock gets no identifier.
LEMMA LockLostDoes ==
    ASSUME TypeInv, NEW p \in Proc, LockLost(p)
    PROVE  /\ pc[p] = "lock_create" /\ Trouble("lost")
           /\ pc' \in {[pc EXCEPT ![p] = "open_lock"], [pc EXCEPT ![p] = "idle"]}
           /\ \/ UNCHANGED msq
              \/ ~msq[Lock].live /\ Made(Lock) /\ OthersSame(Lock)
           /\ ObjectIs(p, obj[p].m_IsOpen, obj[p].m_MsgQueueInfo, obj[p].m_OccupyMsqID,
                       obj[p].m_FreeMsqID, None)
           /\ obj' \in [Proc -> Objects]
           /\ UNCHANGED <<shm, mem, hand, data, meant>>
<1>1. /\ pc[p] = "lock_create" /\ Trouble("lost")
      /\ pc' \in {[pc EXCEPT ![p] = "open_lock"], [pc EXCEPT ![p] = "idle"]}
      /\ \/ UNCHANGED msq
         \/ ~msq[Lock].live /\ msq' = [msq EXCEPT ![Lock] = Created(Lock)]
      /\ obj' = [obj EXCEPT ![p] = [obj[p] EXCEPT !.m_ProcLockID = None]]
      /\ UNCHANGED <<shm, mem, hand, data, meant>>
  BY DEF LockLost, Goto
<1>4. msq' = [msq EXCEPT ![Lock] = Created(Lock)] => Made(Lock) /\ OthersSame(Lock)
  BY KeysDistinct, CreatedIs DEF TypeInv, Made, Becomes, OthersSame
<1>2. [obj[p] EXCEPT !.m_ProcLockID = None] \in Objects
  BY ObjOf, Values DEF Objects
<1>3. obj' \in [Proc -> Objects] /\ obj'[p] = [obj[p] EXCEPT !.m_ProcLockID = None]
  BY <1>1, <1>2, ObjectChange
<1>5. ObjectIs(p, obj[p].m_IsOpen, obj[p].m_MsgQueueInfo, obj[p].m_OccupyMsqID,
               obj[p].m_FreeMsqID, None)
  BY <1>3, ObjOf DEF ObjectIs, Objects
<1> QED BY <1>1, <1>3, <1>4, <1>5

\* The creator of the lock queue posts the token, or fails to.
LEMMA LockInitDoes ==
    ASSUME TypeInv, NEW p \in Proc, LockInit(p)
    PROVE  /\ pc[p] = "lock_init"
           /\ \/ /\ pc' = [pc EXCEPT ![p] = "open_lock"]
                 /\ Becomes(Lock, msq[Lock].gen, msq[Lock].live, Append(msq[Lock].msgs, 0), 4)
              \/ /\ pc' = [pc EXCEPT ![p] = "idle"]
                 /\ Becomes(Lock, msq[Lock].gen, msq[Lock].live, msq[Lock].msgs, 4)
           /\ OthersSame(Lock)
           /\ UNCHANGED <<shm, mem, obj, hand, data, meant, count>>
<1> DEFINE limited == [msq EXCEPT ![Lock].qbytes = 4]
<1>1. TypeOK /\ Lock \in Keys /\ msq \in [Keys -> Queues] /\ msq[Lock] \in Queues
  BY KeysDistinct, QueueType DEF TypeInv
<1>2. /\ pc[p] = "lock_init"
      /\ \/ pc' = [pc EXCEPT ![p] = "open_lock"] /\ msq' = [limited EXCEPT ![Lock].msgs = Append(@, 0)]
         \/ pc' = [pc EXCEPT ![p] = "idle"] /\ msq' = limited
      /\ UNCHANGED <<shm, mem, obj, hand, data, meant, count>>
  BY DEF LockInit, Goto
<1>3. /\ limited \in [Keys -> Queues]
      /\ limited[Lock].msgs = msq[Lock].msgs /\ limited[Lock].gen = msq[Lock].gen
      /\ limited[Lock].live = msq[Lock].live /\ limited[Lock].qbytes = 4
      /\ \A j \in Keys \ {Lock} : limited[j] = msq[j]
  BY <1>1, QueueType DEF Queues
<1> HIDE DEF limited
<1>4. CASE pc' = [pc EXCEPT ![p] = "idle"] /\ msq' = limited
  BY <1>2, <1>3, <1>4 DEF Becomes, OthersSame
<1>5. CASE pc' = [pc EXCEPT ![p] = "open_lock"] /\ msq' = [limited EXCEPT ![Lock].msgs = Append(@, 0)]
  <2>1. /\ msq'[Lock] = [limited[Lock] EXCEPT !.msgs = Append(msq[Lock].msgs, 0)]
        /\ \A j \in Keys \ {Lock} : msq'[j] = limited[j]
    BY <1>1, <1>3, <1>5
  <2>2. limited[Lock] \in Queues
    BY <1>1, <1>3
  <2>3. Becomes(Lock, msq[Lock].gen, msq[Lock].live, Append(msq[Lock].msgs, 0), 4)
    BY <1>3, <2>1, <2>2 DEF Becomes, Queues
  <2> QED BY <1>2, <1>3, <1>5, <2>1, <2>3 DEF OthersSame
<1> QED BY <1>2, <1>4, <1>5

\* Giving the token back.
LEMMA UnlockDoes ==
    ASSUME TypeInv, NEW p \in Proc, Unlock(p)
    PROVE  /\ pc[p] = "unlock" /\ pc' = [pc EXCEPT ![p] = "idle"]
           /\ \/ UNCHANGED msq
              \/ Valid(Lock, obj[p].m_ProcLockID) /\ Put(Lock, 1) /\ OthersSame(Lock)
           /\ UNCHANGED <<shm, mem, obj, hand, data, ret, meant, count>>
<1>1. /\ pc[p] = "unlock" /\ pc' = [pc EXCEPT ![p] = "idle"]
      /\ UNCHANGED msq \/ (Valid(Lock, obj[p].m_ProcLockID) /\ msq' = Posted(Lock, 1))
      /\ UNCHANGED <<shm, mem, obj, hand, data, ret, meant, count>>
  BY DEF Unlock, Goto
<1>2. msq' = Posted(Lock, 1) => Put(Lock, 1) /\ OthersSame(Lock)
  BY KeysDistinct, PostedIs DEF TypeInv, Put, Becomes, OthersSame
<1> QED BY <1>1, <1>2

\* open finds or creates the segment and the occupied queue.
LEMMA OpenAttachDoes ==
    ASSUME TypeInv, NEW p \in Proc, OpenAttach(p)
    PROVE  /\ pc[p] = "open_attach" /\ pc' = [pc EXCEPT ![p] = "open_free"]
           /\ \/ msq[Occupy].live /\ UNCHANGED msq
              \/ ~msq[Occupy].live /\ Made(Occupy) /\ OthersSame(Occupy)
           /\ \/ shm.live /\ UNCHANGED shm
              \/ ~shm.live /\ shm'.gen = shm.gen + 1 /\ shm'.live
           /\ ObjectIs(p, obj[p].m_IsOpen, shm'.gen, msq'[Occupy].gen, obj[p].m_FreeMsqID,
                       obj[p].m_ProcLockID)
           /\ obj' \in [Proc -> Objects]
           /\ shm'.gen \in Generation /\ msq'[Occupy].gen \in Ids
           /\ UNCHANGED <<mem, hand, data, ret, meant, count>>
<1> DEFINE o == [obj[p] EXCEPT !.m_OccupyMsqID = msq'[Occupy].gen, !.m_MsgQueueInfo = shm'.gen]
<1>1. /\ pc[p] = "open_attach" /\ pc' = [pc EXCEPT ![p] = "open_free"]
      /\ \/ msq[Occupy].live /\ UNCHANGED msq
         \/ ~msq[Occupy].live /\ msq' = [msq EXCEPT ![Occupy] = Created(Occupy)]
      /\ \/ shm.live /\ UNCHANGED shm
         \/ ~shm.live /\ shm' = [gen |-> shm.gen + 1, live |-> TRUE]
      /\ UNCHANGED <<mem, hand, data, ret, meant, count>>
  BY DEF OpenAttach, Goto
<1>2. obj' = [obj EXCEPT ![p] = o]
  <2>1. obj' = [obj EXCEPT ![p].m_OccupyMsqID = msq'[Occupy].gen, ![p].m_MsgQueueInfo = shm'.gen]
    BY DEF OpenAttach
  <2> QED BY <2>1, ObjType
<1>3. msq' = [msq EXCEPT ![Occupy] = Created(Occupy)] => Made(Occupy) /\ OthersSame(Occupy)
  BY KeysDistinct, CreatedIs DEF TypeInv, Made, Becomes, OthersSame
<1>4. shm'.gen \in Generation /\ msq'[Occupy].gen \in Ids
  <2>1. /\ msq[Occupy].gen \in 0 .. MaxOpen /\ shm.gen \in 0 .. MaxOpen /\ MaxOpen \in Nat
        /\ msq[Occupy].gen < MaxOpen /\ shm.gen < MaxOpen
    BY <1>1, GenerationsInRange, KeysDistinct
  <2>0. shm.live => shm.gen # 0
    BY DEF TypeInv, NotUsedYet
  <2>2. msq'[Occupy].gen = msq[Occupy].gen \/ msq'[Occupy].gen = msq[Occupy].gen + 1
    BY <1>1, <1>3 DEF Made, Becomes
  <2>3. (shm'.gen = shm.gen /\ shm.live) \/ shm'.gen = shm.gen + 1
    BY <1>1
  <2> QED BY <2>0, <2>1, <2>2, <2>3, Values DEF Generation
<1>5. o \in Objects
  <2>1. shm'.gen \in Ids
    BY <1>4 DEF Ids
  <2> QED BY <1>4, <2>1, ObjOf DEF Objects
<1>6. obj' \in [Proc -> Objects] /\ obj'[p] = o
  BY <1>2, <1>5, ObjectChange
<1>7. ObjectIs(p, obj[p].m_IsOpen, shm'.gen, msq'[Occupy].gen, obj[p].m_FreeMsqID,
               obj[p].m_ProcLockID)
  BY <1>6, ObjOf DEF ObjectIs, Objects
<1> QED BY <1>1, <1>3, <1>4, <1>6, <1>7

\* open finds or creates the free queue.
LEMMA OpenFreeDoes ==
    ASSUME TypeInv, NEW p \in Proc, OpenFree(p)
    PROVE  /\ pc[p] = "open_free"
           /\ \/ /\ ~msq[Free].live /\ pc' = [pc EXCEPT ![p] = "open_init"]
                 /\ Made(Free) /\ OthersSame(Free)
              \/ msq[Free].live /\ pc' = [pc EXCEPT ![p] = "open_count"] /\ UNCHANGED msq
           /\ ObjectIs(p, obj[p].m_IsOpen, obj[p].m_MsgQueueInfo, obj[p].m_OccupyMsqID,
                       msq'[Free].gen, obj[p].m_ProcLockID)
           /\ obj' \in [Proc -> Objects]
           /\ UNCHANGED <<shm, mem, hand, data, ret, meant, count>>
<1>1. /\ pc[p] = "open_free"
      /\ \/ /\ ~msq[Free].live /\ pc' = [pc EXCEPT ![p] = "open_init"]
            /\ msq' = [msq EXCEPT ![Free] = Created(Free)]
         \/ msq[Free].live /\ pc' = [pc EXCEPT ![p] = "open_count"] /\ UNCHANGED msq
      /\ obj' = [obj EXCEPT ![p] = [obj[p] EXCEPT !.m_FreeMsqID = msq'[Free].gen]]
      /\ UNCHANGED <<shm, mem, hand, data, ret, meant, count>>
  BY DEF OpenFree, Goto
<1>2. msq' = [msq EXCEPT ![Free] = Created(Free)] => Made(Free) /\ OthersSame(Free)
  BY KeysDistinct, CreatedIs DEF TypeInv, Made, Becomes, OthersSame
<1>3. msq'[Free].gen \in Ids
  <2>1. msq[Free].gen \in 0 .. MaxOpen /\ MaxOpen \in Nat /\ msq[Free].gen < MaxOpen
    BY <1>1, GenerationsInRange, KeysDistinct
  <2>2. msq'[Free].gen = msq[Free].gen \/ msq'[Free].gen = msq[Free].gen + 1
    BY <1>1, <1>2 DEF Made, Becomes
  <2> QED BY <2>1, <2>2, Values
<1>4. [obj[p] EXCEPT !.m_FreeMsqID = msq'[Free].gen] \in Objects
  BY <1>3, ObjOf DEF Objects
<1>5. obj' \in [Proc -> Objects] /\ obj'[p] = [obj[p] EXCEPT !.m_FreeMsqID = msq'[Free].gen]
  BY <1>1, <1>4, ObjectChange
<1>6. ObjectIs(p, obj[p].m_IsOpen, obj[p].m_MsgQueueInfo, obj[p].m_OccupyMsqID,
               msq'[Free].gen, obj[p].m_ProcLockID)
  BY <1>5, ObjOf DEF ObjectIs, Objects
<1> QED BY <1>1, <1>2, <1>5, <1>6

\* What open leaves in the object when it gives up.
LEMMA GivesUpDoes ==
    ASSUME TypeInv, NEW p \in Proc, NEW occupy \in Ids, NEW info \in Ids, NEW free \in Ids,
           GivesUp(p, occupy, info, free)
    PROVE  /\ ObjectIs(p, FALSE, info, occupy, free, obj[p].m_ProcLockID)
           /\ obj' \in [Proc -> Objects]
<1> DEFINE o == [obj[p] EXCEPT !.m_IsOpen = FALSE, !.m_OccupyMsqID = occupy,
                               !.m_MsgQueueInfo = info, !.m_FreeMsqID = free]
<1>1. obj' = [obj EXCEPT ![p] = o]
  BY ObjType DEF GivesUp
<1>2. o \in Objects
  BY ObjOf DEF Objects
<1>3. obj' \in [Proc -> Objects] /\ obj'[p] = o
  BY <1>1, <1>2, ObjectChange
<1> QED BY <1>3, ObjOf DEF ObjectIs, Objects

\* open gives up before the free queue: its object is closed.
LEMMA OpenFailsDoes ==
    ASSUME TypeInv, NEW p \in Proc, OpenFails(p)
    PROVE  /\ Trouble("fail") /\ pc' = [pc EXCEPT ![p] = "unlock"]
           /\ \/ /\ pc[p] = "open_attach"
                 /\ \/ UNCHANGED msq
                    \/ ~msq[Occupy].live /\ Made(Occupy) /\ OthersSame(Occupy)
                 /\ \/ UNCHANGED shm
                    \/ ~shm.live /\ shm'.gen = shm.gen + 1 /\ shm'.live
              \/ pc[p] = "open_free" /\ UNCHANGED <<msq, shm>>
           /\ obj'[p].m_IsOpen = FALSE /\ obj'[p].m_ProcLockID = obj[p].m_ProcLockID
           /\ obj'[p].m_MsgQueueInfo \in {obj[p].m_MsgQueueInfo, None, shm'.gen}
           /\ obj'[p].m_OccupyMsqID \in {obj[p].m_OccupyMsqID, None, msq'[Occupy].gen}
           /\ obj'[p].m_FreeMsqID \in {obj[p].m_FreeMsqID, None}
           /\ obj' \in [Proc -> Objects]
           /\ UNCHANGED <<mem, hand, data, meant>>
<1> DEFINE occupy == IF msq[Occupy].live THEN msq ELSE [msq EXCEPT ![Occupy] = Created(Occupy)]
           segment == IF shm.live THEN shm ELSE [gen |-> shm.gen + 1, live |-> TRUE]
           o == obj[p]
\* What is left in the object, case by case.
<1>1. /\ Trouble("fail") /\ pc' = [pc EXCEPT ![p] = "unlock"]
      /\ \/ /\ pc[p] = "open_attach" /\ UNCHANGED <<msq, shm>>
            /\ \E id \in {o.m_OccupyMsqID, None} : GivesUp(p, id, o.m_MsgQueueInfo, o.m_FreeMsqID)
         \/ /\ pc[p] = "open_attach" /\ msq' = occupy /\ UNCHANGED shm
            /\ \E id \in {o.m_MsgQueueInfo, None} :
                  GivesUp(p, occupy[Occupy].gen, id, o.m_FreeMsqID)
         \/ /\ pc[p] = "open_attach" /\ msq' = occupy /\ shm' = segment
            /\ GivesUp(p, occupy[Occupy].gen, segment.gen, o.m_FreeMsqID)
         \/ /\ pc[p] = "open_free" /\ UNCHANGED <<msq, shm>>
            /\ \E id \in {o.m_FreeMsqID, None} : GivesUp(p, o.m_OccupyMsqID, o.m_MsgQueueInfo, id)
      /\ UNCHANGED <<mem, hand, data, meant>>
  BY DEF OpenFails, Goto
<1>2. msq' = occupy =>
         UNCHANGED msq \/ (~msq[Occupy].live /\ Made(Occupy) /\ OthersSame(Occupy))
  BY KeysDistinct, CreatedIs DEF TypeInv, Made, Becomes, OthersSame
<1>3. shm' = segment => UNCHANGED shm \/ (~shm.live /\ shm'.gen = shm.gen + 1 /\ shm'.live)
  OBVIOUS
<1>4. pc[p] = "open_attach" /\ msq' = occupy => msq'[Occupy].gen \in Ids
  <2>1. SUFFICES ASSUME pc[p] = "open_attach", msq' = occupy PROVE msq'[Occupy].gen \in Ids
    OBVIOUS
  <2>2. msq[Occupy].gen \in 0 .. MaxOpen /\ MaxOpen \in Nat /\ msq[Occupy].gen < MaxOpen
    BY <2>1, GenerationsInRange, KeysDistinct
  <2>3. msq'[Occupy].gen = msq[Occupy].gen \/ msq'[Occupy].gen = msq[Occupy].gen + 1
    BY <1>2, <2>1 DEF Made, Becomes
  <2> QED BY <2>2, <2>3, Values
<1>5. pc[p] = "open_attach" /\ shm' = segment => shm'.gen \in Ids
  <2>1. SUFFICES ASSUME pc[p] = "open_attach", shm' = segment PROVE shm'.gen \in Ids
    OBVIOUS
  <2>2. shm.gen \in 0 .. MaxOpen /\ MaxOpen \in Nat /\ shm.gen < MaxOpen
    BY <2>1, GenerationsInRange, KeysDistinct
  <2>3. shm'.gen = shm.gen \/ shm'.gen = shm.gen + 1
    BY <1>3, <2>1
  <2> QED BY <2>2, <2>3, Values
<1>6. /\ o.m_MsgQueueInfo \in Ids /\ o.m_OccupyMsqID \in Ids /\ o.m_FreeMsqID \in Ids /\ None \in Ids
  BY ObjOf, Values
<1> HIDE DEF occupy, segment, o
<1>7. CASE /\ pc[p] = "open_attach" /\ UNCHANGED <<msq, shm>>
           /\ \E id \in {o.m_OccupyMsqID, None} : GivesUp(p, id, o.m_MsgQueueInfo, o.m_FreeMsqID)
  <2>1. PICK id \in {o.m_OccupyMsqID, None} : GivesUp(p, id, o.m_MsgQueueInfo, o.m_FreeMsqID)
    BY <1>7
  <2>2. /\ ObjectIs(p, FALSE, o.m_MsgQueueInfo, id, o.m_FreeMsqID, obj[p].m_ProcLockID)
        /\ obj' \in [Proc -> Objects]
    BY <1>6, <2>1, GivesUpDoes
  <2> QED BY <1>1, <1>7, <2>1, <2>2 DEF ObjectIs, o
<1>8. CASE /\ pc[p] = "open_attach" /\ msq' = occupy /\ UNCHANGED shm
           /\ \E id \in {o.m_MsgQueueInfo, None} :
                 GivesUp(p, occupy[Occupy].gen, id, o.m_FreeMsqID)
  <2>1. PICK id \in {o.m_MsgQueueInfo, None} : GivesUp(p, msq'[Occupy].gen, id, o.m_FreeMsqID)
    BY <1>8
  <2>2. /\ ObjectIs(p, FALSE, id, msq'[Occupy].gen, o.m_FreeMsqID, obj[p].m_ProcLockID)
        /\ obj' \in [Proc -> Objects]
    BY <1>4, <1>6, <1>8, <2>1, GivesUpDoes
  <2> QED BY <1>1, <1>2, <1>8, <2>1, <2>2 DEF ObjectIs, o
<1>9. CASE /\ pc[p] = "open_attach" /\ msq' = occupy /\ shm' = segment
           /\ GivesUp(p, occupy[Occupy].gen, segment.gen, o.m_FreeMsqID)
  <2>1. /\ ObjectIs(p, FALSE, shm'.gen, msq'[Occupy].gen, o.m_FreeMsqID, obj[p].m_ProcLockID)
        /\ obj' \in [Proc -> Objects]
    BY <1>4, <1>5, <1>6, <1>9, GivesUpDoes
  <2> QED BY <1>1, <1>2, <1>3, <1>9, <2>1 DEF ObjectIs, o
<1>10. CASE /\ pc[p] = "open_free" /\ UNCHANGED <<msq, shm>>
            /\ \E id \in {o.m_FreeMsqID, None} : GivesUp(p, o.m_OccupyMsqID, o.m_MsgQueueInfo, id)
  <2>1. PICK id \in {o.m_FreeMsqID, None} : GivesUp(p, o.m_OccupyMsqID, o.m_MsgQueueInfo, id)
    BY <1>10
  <2>2. /\ ObjectIs(p, FALSE, o.m_MsgQueueInfo, o.m_OccupyMsqID, id, obj[p].m_ProcLockID)
        /\ obj' \in [Proc -> Objects]
    BY <1>6, <2>1, GivesUpDoes
  <2> QED BY <1>1, <1>10, <2>1, <2>2 DEF ObjectIs, o
<1> QED BY <1>1, <1>7, <1>8, <1>9, <1>10

\* open gets no identifier of the free queue: it goes on, or gives up and leaves
\* the queue it has created.
LEMMA FreeLostDoes ==
    ASSUME TypeInv, NEW p \in Proc, FreeLost(p)
    PROVE  /\ Trouble("lost") /\ ~msq[Free].live /\ pc[p] = "open_free"
           /\ \/ /\ pc' = [pc EXCEPT ![p] = "open_count"] /\ UNCHANGED msq
                 /\ ObjectIs(p, obj[p].m_IsOpen, obj[p].m_MsgQueueInfo, obj[p].m_OccupyMsqID, None,
                             obj[p].m_ProcLockID)
              \/ /\ pc' = [pc EXCEPT ![p] = "unlock"] /\ Made(Free) /\ OthersSame(Free)
                 /\ ObjectIs(p, FALSE, obj[p].m_MsgQueueInfo, obj[p].m_OccupyMsqID, None,
                             obj[p].m_ProcLockID)
           /\ obj' \in [Proc -> Objects]
           /\ UNCHANGED <<shm, mem, hand, data, meant>>
<1>1. /\ Trouble("lost") /\ ~msq[Free].live /\ pc[p] = "open_free"
      /\ \/ /\ pc' = [pc EXCEPT ![p] = "open_count"] /\ UNCHANGED msq
            /\ obj' = [obj EXCEPT ![p] = [obj[p] EXCEPT !.m_FreeMsqID = None]]
         \/ /\ pc' = [pc EXCEPT ![p] = "unlock"] /\ msq' = [msq EXCEPT ![Free] = Created(Free)]
            /\ GivesUp(p, obj[p].m_OccupyMsqID, obj[p].m_MsgQueueInfo, None)
      /\ UNCHANGED <<shm, mem, hand, data, meant>>
  BY DEF FreeLost, Goto
<1>2. CASE /\ pc' = [pc EXCEPT ![p] = "open_count"] /\ UNCHANGED msq
           /\ obj' = [obj EXCEPT ![p] = [obj[p] EXCEPT !.m_FreeMsqID = None]]
  <2>1. [obj[p] EXCEPT !.m_FreeMsqID = None] \in Objects
    BY ObjOf, Values DEF Objects
  <2>2. obj' \in [Proc -> Objects] /\ obj'[p] = [obj[p] EXCEPT !.m_FreeMsqID = None]
    BY <1>2, <2>1, ObjectChange
  <2>3. ObjectIs(p, obj[p].m_IsOpen, obj[p].m_MsgQueueInfo, obj[p].m_OccupyMsqID, None,
                 obj[p].m_ProcLockID)
    BY <2>2, ObjOf DEF ObjectIs, Objects
  <2> QED BY <1>1, <1>2, <2>2, <2>3
<1>3. CASE /\ pc' = [pc EXCEPT ![p] = "unlock"] /\ msq' = [msq EXCEPT ![Free] = Created(Free)]
           /\ GivesUp(p, obj[p].m_OccupyMsqID, obj[p].m_MsgQueueInfo, None)
  <2>1. Made(Free) /\ OthersSame(Free)
    BY <1>3, KeysDistinct, CreatedIs DEF TypeInv, Made, Becomes, OthersSame
  <2>2. /\ ObjectIs(p, FALSE, obj[p].m_MsgQueueInfo, obj[p].m_OccupyMsqID, None, obj[p].m_ProcLockID)
        /\ obj' \in [Proc -> Objects]
    BY <1>3, ObjOf, Values, GivesUpDoes
  <2> QED BY <1>1, <1>3, <2>1, <2>2
<1> QED BY <1>1, <1>2, <1>3

\* open fills the free queue with the blocks and sets the limits.
LEMMA OpenInitDoes ==
    ASSUME TypeInv, NEW p \in Proc, OpenInit(p)
    PROVE  LET g == obj[p].m_MsgQueueInfo IN
           /\ pc[p] = "open_init" /\ pc' = [pc EXCEPT ![p] = "open_count"]
           /\ msq'[Lock] = msq[Lock]
           /\ Becomes(Occupy, msq[Occupy].gen, msq[Occupy].live, msq[Occupy].msgs,
                      IF Valid(Occupy, obj[p].m_OccupyMsqID) THEN NumberSet(p) * WordSize
                      ELSE msq[Occupy].qbytes)
           /\ \/ Valid(Free, obj[p].m_FreeMsqID)
                 /\ Becomes(Free, msq[Free].gen, msq[Free].live, WithBlocks(msq[Free].msgs), Blocks * WordSize)
              \/ ~Valid(Free, obj[p].m_FreeMsqID) /\ msq'[Free] = msq[Free]
           /\ g \in Generation /\ mem'[g].referenceCount = 0 /\ mem'[g].block = mem[g].block
           /\ \A h \in Generation \ {g} : mem'[h] = mem[h]
           /\ UNCHANGED <<shm, obj, hand, data, ret, meant, count>>
<1> DEFINE g == obj[p].m_MsgQueueInfo
           w == WithBlocks(msq[Free].msgs)
<1>1. /\ pc[p] = "open_init" /\ pc' = [pc EXCEPT ![p] = "open_count"]
      /\ msq' = Initialised(p, NumberSet(p), w) /\ mem' = HeadSet(p)
      /\ UNCHANGED <<shm, obj, hand, data, ret, meant, count>>
  BY DEF OpenInit, Goto
<1>2. TypeOK /\ w \in Seq(Nat) /\ NumberSet(p) \in Nat
  <2>1. TypeOK /\ msq[Free].msgs \in Seq(Nat)
    BY KeysDistinct, QueueType DEF TypeInv
  <2> QED BY <2>1, IndexType, WithBlocksIs, BlocksFit DEF NumberSet
<1> HIDE DEF w
<1>3. /\ msq'[Lock] = msq[Lock]
      /\ msq'[Occupy] = [msq[Occupy] EXCEPT !.qbytes =
             IF Valid(Occupy, obj[p].m_OccupyMsqID) THEN NumberSet(p) * WordSize ELSE @]
      /\ msq'[Free] = IF Valid(Free, obj[p].m_FreeMsqID)
             THEN [msq[Free] EXCEPT !.qbytes = Blocks * WordSize, !.msgs = w] ELSE msq[Free]
  <2>1. LET i == Initialised(p, NumberSet(p), w) IN
        /\ i \in [Keys -> Queues]
        /\ i[Lock] = msq[Lock]
        /\ i[Occupy] = [msq[Occupy] EXCEPT !.qbytes =
               IF Valid(Occupy, obj[p].m_OccupyMsqID) THEN NumberSet(p) * WordSize ELSE @]
        /\ i[Free] = IF Valid(Free, obj[p].m_FreeMsqID)
               THEN [msq[Free] EXCEPT !.qbytes = Blocks * WordSize, !.msgs = w]
               ELSE msq[Free]
    BY <1>2, InitialisedIs, ZenonT(20)
  <2> QED BY <1>1, <2>1, ZenonT(20)
<1>4. msq[Free] \in Queues /\ msq[Occupy] \in Queues
  BY <1>2, QueueType, KeysDistinct
<1>5. Becomes(Occupy, msq[Occupy].gen, msq[Occupy].live, msq[Occupy].msgs,
              IF Valid(Occupy, obj[p].m_OccupyMsqID) THEN NumberSet(p) * WordSize
              ELSE msq[Occupy].qbytes)
  BY <1>3, <1>4 DEF Becomes, Queues
<1>6. \/ Valid(Free, obj[p].m_FreeMsqID)
         /\ Becomes(Free, msq[Free].gen, msq[Free].live, w, Blocks * WordSize)
      \/ ~Valid(Free, obj[p].m_FreeMsqID) /\ msq'[Free] = msq[Free]
  BY <1>3, <1>4 DEF Becomes, Queues
<1>7. g \in Generation
  BY <1>1 DEF TypeInv, IdsOK, IdsFit
<1>8. /\ mem'[g].referenceCount = 0 /\ mem'[g].block = mem[g].block
      /\ \A h \in Generation \ {g} : mem'[h] = mem[h]
  <2>1. mem' = [mem EXCEPT ![g].referenceCount = 0, ![g].blockSize = blockSize,
                           ![g].msgNum = NumberSet(p)]
    BY <1>1 DEF HeadSet
  <2> QED BY <2>1, <1>7, MemType DEF Segments
<1> QED BY <1>1, <1>3, <1>5, <1>6, <1>7, <1>8 DEF w

\* open counts the object in.
LEMMA OpenCountDoes ==
    ASSUME TypeInv, NEW p \in Proc, OpenCount(p)
    PROVE  LET g == obj[p].m_MsgQueueInfo IN
           /\ pc[p] = "open_count" /\ pc' = [pc EXCEPT ![p] = "unlock"]
           /\ g \in Generation /\ mem[g].referenceCount \in Int
           /\ mem'[g].referenceCount = mem[g].referenceCount + 1 /\ mem'[g].block = mem[g].block
           /\ \A h \in Generation \ {g} : mem'[h] = mem[h]
           /\ ObjectIs(p, TRUE, g, obj[p].m_OccupyMsqID, obj[p].m_FreeMsqID, obj[p].m_ProcLockID)
           /\ obj' \in [Proc -> Objects]
           /\ count' = [count EXCEPT !.again = @ \/ obj[p].m_IsOpen]
           /\ UNCHANGED <<msq, shm, hand, data, meant>>
<1> DEFINE g == obj[p].m_MsgQueueInfo
           o == [obj[p] EXCEPT !.m_BlockSize = mem[g].blockSize, !.m_IsOpen = TRUE]
<1>1. /\ pc[p] = "open_count" /\ pc' = [pc EXCEPT ![p] = "unlock"]
      /\ mem' = [mem EXCEPT ![g] = [mem[g] EXCEPT !.referenceCount = mem[g].referenceCount + 1]]
      /\ count' = [count EXCEPT !.again = @ \/ obj[p].m_IsOpen]
      /\ UNCHANGED <<msq, shm, hand, data, meant>>
  BY DEF OpenCount, Goto
<1>2. obj' = [obj EXCEPT ![p] = o]
  <2>1. obj' = [obj EXCEPT ![p].m_BlockSize = mem[g].blockSize, ![p].m_IsOpen = TRUE]
    BY DEF OpenCount
  <2> QED BY <2>1, ObjType
<1>3. g \in Generation /\ mem[g] \in Segments
  BY <1>1, MemType DEF TypeInv, IdsOK, IdsFit
<1>4. /\ mem[g].referenceCount \in Int
      /\ mem'[g].referenceCount = mem[g].referenceCount + 1 /\ mem'[g].block = mem[g].block
      /\ \A h \in Generation \ {g} : mem'[h] = mem[h]
  BY <1>1, <1>3, MemType DEF Segments
<1>5. o \in Objects
  BY <1>3, ObjOf DEF Objects, Segments
<1>6. obj' \in [Proc -> Objects] /\ obj'[p] = o
  BY <1>2, <1>5, ObjectChange
<1>7. ObjectIs(p, TRUE, g, obj[p].m_OccupyMsqID, obj[p].m_FreeMsqID, obj[p].m_ProcLockID)
  BY <1>6, ObjOf DEF ObjectIs, Objects
<1> QED BY <1>1, <1>3, <1>4, <1>6, <1>7

\* A process with a block in hand.
LEMMA InBlockHas ==
    ASSUME TypeInv, NEW p \in Proc, pc[p] \in InBlock
    PROVE  /\ obj[p].m_IsOpen /\ obj[p].m_MsgQueueInfo \in Generation
           /\ hand[p] \in Index /\ hand[p] \in Nat /\ data[p] \in Payload
<1>1. obj[p].m_IsOpen /\ hand[p] # None
  BY DEF TypeInv, IdsOK, IdsFit
<1>2. obj[p].m_MsgQueueInfo \in Generation
  BY <1>1 DEF TypeInv, IdsOK, IdsFit
<1> QED BY <1>1, <1>2, LocalTypes, Values

\* send receives the index of a free block,
LEMMA SendTakeDoes ==
    ASSUME TypeInv, NEW p \in Proc, SendTake(p)
    PROVE  /\ pc[p] = "idle" /\ pc' = [pc EXCEPT ![p] = "send_copy"]
           /\ obj[p].m_IsOpen /\ Valid(Free, obj[p].m_FreeMsqID) /\ msq[Free].msgs # <<>>
           /\ hand'[p] = Head(msq[Free].msgs) /\ hand' = [hand EXCEPT ![p] = hand'[p]]
           /\ Taken(Free) /\ OthersSame(Free)
           /\ count.send < MaxSend /\ count' = [count EXCEPT !.send = @ + 1]
           /\ UNCHANGED <<shm, mem, obj, ret, meant>>
<1>1. /\ pc[p] = "idle" /\ pc' = [pc EXCEPT ![p] = "send_copy"]
      /\ obj[p].m_IsOpen /\ Valid(Free, obj[p].m_FreeMsqID) /\ msq[Free].msgs # <<>>
      /\ hand' = [hand EXCEPT ![p] = Head(msq[Free].msgs)] /\ msq' = Received(Free)
      /\ count.send < MaxSend /\ count' = [count EXCEPT !.send = @ + 1]
      /\ UNCHANGED <<shm, mem, obj, ret, meant>>
  BY DEF SendTake, Goto
<1>2. Taken(Free) /\ OthersSame(Free)
  BY <1>1, KeysDistinct, ReceivedIs DEF TypeInv, Taken, Becomes, OthersSame
<1>3. hand'[p] = Head(msq[Free].msgs)
  BY <1>1, LocalTypes
<1> QED BY <1>1, <1>2, <1>3

\* recv receives the index of an occupied block,
LEMMA RecvTakeDoes ==
    ASSUME TypeInv, NEW p \in Proc, RecvTake(p)
    PROVE  /\ pc[p] = "idle" /\ pc' = [pc EXCEPT ![p] = "recv_copy"]
           /\ obj[p].m_IsOpen /\ Valid(Occupy, obj[p].m_OccupyMsqID) /\ msq[Occupy].msgs # <<>>
           /\ hand'[p] = Head(msq[Occupy].msgs) /\ hand' = [hand EXCEPT ![p] = hand'[p]]
           /\ Taken(Occupy) /\ OthersSame(Occupy)
           /\ UNCHANGED <<shm, mem, obj, data, ret, meant, count>>
<1>1. /\ pc[p] = "idle" /\ pc' = [pc EXCEPT ![p] = "recv_copy"]
      /\ obj[p].m_IsOpen /\ Valid(Occupy, obj[p].m_OccupyMsqID) /\ msq[Occupy].msgs # <<>>
      /\ hand' = [hand EXCEPT ![p] = Head(msq[Occupy].msgs)] /\ msq' = Received(Occupy)
      /\ UNCHANGED <<shm, mem, obj, data, ret, meant, count>>
  BY DEF RecvTake, Goto
<1>2. Taken(Occupy) /\ OthersSame(Occupy)
  BY <1>1, KeysDistinct, ReceivedIs DEF TypeInv, Taken, Becomes, OthersSame
<1>3. hand'[p] = Head(msq[Occupy].msgs)
  BY <1>1, LocalTypes
<1> QED BY <1>1, <1>2, <1>3

\* copies the message into it,
LEMMA SendCopyDoes ==
    ASSUME TypeInv, NEW p \in Proc, SendCopy(p)
    PROVE  LET g == obj[p].m_MsgQueueInfo IN
           /\ pc[p] = "send_copy" /\ pc' = [pc EXCEPT ![p] = "send_post"]
           /\ g \in Generation /\ hand[p] \in Index
           /\ mem'[g].referenceCount = mem[g].referenceCount
           /\ mem'[g].block[hand[p]] = data[p]
           /\ \A i \in Index \ {hand[p]} : mem'[g].block[i] = mem[g].block[i]
           /\ \A h \in Generation \ {g} : mem'[h] = mem[h]
           /\ UNCHANGED <<msq, shm, obj, hand, data, ret, meant, count>>
<1> DEFINE g == obj[p].m_MsgQueueInfo
<1>1. /\ pc[p] = "send_copy" /\ pc' = [pc EXCEPT ![p] = "send_post"]
      /\ mem' = [mem EXCEPT ![g] = [mem[g] EXCEPT !.block = [mem[g].block EXCEPT ![hand[p]] = data[p]]]]
      /\ UNCHANGED <<msq, shm, obj, hand, data, ret, meant, count>>
  BY DEF SendCopy, Goto
<1>2. g \in Generation /\ hand[p] \in Index
  BY <1>1, InBlockHas DEF InBlock
<1>3. mem[g] \in Segments /\ mem[g].block \in [Index -> Payload]
  BY <1>2, MemType DEF Segments
<1>4. /\ mem'[g] = [mem[g] EXCEPT !.block = [mem[g].block EXCEPT ![hand[p]] = data[p]]]
      /\ \A h \in Generation \ {g} : mem'[h] = mem[h]
  BY <1>1, <1>2, MemType
<1>5. mem'[g].referenceCount = mem[g].referenceCount
  BY <1>3, <1>4 DEF Segments
<1>6. mem'[g].block = [mem[g].block EXCEPT ![hand[p]] = data[p]]
  BY <1>3, <1>4 DEF Segments
<1>7. /\ mem'[g].block[hand[p]] = data[p]
      /\ \A i \in Index \ {hand[p]} : mem'[g].block[i] = mem[g].block[i]
  BY <1>2, <1>3, <1>6
<1> HIDE DEF g
<1> QED BY <1>1, <1>2, <1>4, <1>5, <1>7 DEF g

\* and posts the index to the occupied queue.
LEMMA SendPostDoes ==
    ASSUME TypeInv, NEW p \in Proc, SendPost(p)
    PROVE  LET g == obj[p].m_MsgQueueInfo IN
           /\ pc[p] = "send_post" /\ pc' = [pc EXCEPT ![p] = "idle"]
           /\ g \in Generation /\ hand[p] \in Index
           /\ \/ /\ Valid(Occupy, obj[p].m_OccupyMsqID) /\ Fits(Occupy)
                 /\ Put(Occupy, hand[p]) /\ OthersSame(Occupy)
                 /\ meant'[g][hand[p]] = data[p]
                 /\ \A i \in Index \ {hand[p]} : meant'[g][i] = meant[g][i]
                 /\ \A h \in Generation \ {g} : meant'[h] = meant[h]
              \/ ~Valid(Occupy, obj[p].m_OccupyMsqID) /\ UNCHANGED <<msq, meant>>
           /\ hand' = [hand EXCEPT ![p] = None]
           /\ UNCHANGED <<shm, mem, obj, ret, count>>
<1> DEFINE g == obj[p].m_MsgQueueInfo
<1>1. /\ pc[p] = "send_post" /\ pc' = [pc EXCEPT ![p] = "idle"]
      /\ \/ /\ Valid(Occupy, obj[p].m_OccupyMsqID) /\ Fits(Occupy) /\ msq' = Posted(Occupy, hand[p])
            /\ meant' = [meant EXCEPT ![g] = [meant[g] EXCEPT ![hand[p]] = data[p]]]
         \/ ~Valid(Occupy, obj[p].m_OccupyMsqID) /\ UNCHANGED <<msq, meant>>
      /\ hand' = [hand EXCEPT ![p] = None]
      /\ UNCHANGED <<shm, mem, obj, ret, count>>
  BY DEF SendPost, Goto
<1>2. g \in Generation /\ hand[p] \in Index /\ hand[p] \in Nat
  BY <1>1, InBlockHas DEF InBlock
<1>3. msq' = Posted(Occupy, hand[p]) => Put(Occupy, hand[p]) /\ OthersSame(Occupy)
  BY <1>2, KeysDistinct, PostedIs DEF TypeInv, Put, Becomes, OthersSame
<1>4. meant' = [meant EXCEPT ![g] = [meant[g] EXCEPT ![hand[p]] = data[p]]] =>
          /\ meant'[g][hand[p]] = data[p]
          /\ \A i \in Index \ {hand[p]} : meant'[g][i] = meant[g][i]
          /\ \A h \in Generation \ {g} : meant'[h] = meant[h]
  BY <1>2, MemType
<1> QED BY <1>1, <1>2, <1>3, <1>4

\* copies the message out,
LEMMA RecvCopyDoes ==
    ASSUME TypeInv, NEW p \in Proc, RecvCopy(p)
    PROVE  LET g == obj[p].m_MsgQueueInfo IN
           /\ pc[p] = "recv_copy" /\ pc' = [pc EXCEPT ![p] = "recv_give"]
           /\ g \in Generation /\ hand[p] \in Index
           /\ data' = [data EXCEPT ![p] = mem[g].block[hand[p]]]
           /\ data'[p] = mem[g].block[hand[p]]
           /\ UNCHANGED <<msq, shm, mem, obj, hand, ret, meant, count>>
<1>1. pc[p] = "recv_copy" /\ pc' = [pc EXCEPT ![p] = "recv_give"]
  BY DEF RecvCopy, Goto
<1>2. obj[p].m_MsgQueueInfo \in Generation /\ hand[p] \in Index
  BY <1>1, InBlockHas DEF InBlock
<1> QED BY <1>1, <1>2, LocalTypes DEF RecvCopy

\* and gives the block back to the free queue.
LEMMA RecvGiveDoes ==
    ASSUME TypeInv, NEW p \in Proc, RecvGive(p)
    PROVE  /\ pc[p] = "recv_give" /\ pc' = [pc EXCEPT ![p] = "idle"]
           /\ hand[p] \in Index
           /\ \/ /\ Valid(Free, obj[p].m_FreeMsqID) /\ Fits(Free)
                 /\ Put(Free, hand[p]) /\ OthersSame(Free)
              \/ ~Valid(Free, obj[p].m_FreeMsqID) /\ UNCHANGED msq
           /\ hand' = [hand EXCEPT ![p] = None]
           /\ UNCHANGED <<shm, mem, obj, ret, meant, count>>
<1>1. /\ pc[p] = "recv_give" /\ pc' = [pc EXCEPT ![p] = "idle"]
      /\ \/ Valid(Free, obj[p].m_FreeMsqID) /\ Fits(Free) /\ msq' = Posted(Free, hand[p])
         \/ ~Valid(Free, obj[p].m_FreeMsqID) /\ UNCHANGED msq
      /\ hand' = [hand EXCEPT ![p] = None]
      /\ UNCHANGED <<shm, mem, obj, ret, meant, count>>
  BY DEF RecvGive, Goto
<1>2. hand[p] \in Index /\ hand[p] \in Nat
  BY <1>1, InBlockHas DEF InBlock
<1>3. msq' = Posted(Free, hand[p]) => Put(Free, hand[p]) /\ OthersSame(Free)
  BY <1>2, KeysDistinct, PostedIs DEF TypeInv, Put, Becomes, OthersSame
<1> QED BY <1>1, <1>2, <1>3

\* close counts the object out, or begins to remove the queue.
LEMMA CloseCountDoes ==
    ASSUME TypeInv, NEW p \in Proc, CloseCount(p)
    PROVE  LET g == obj[p].m_MsgQueueInfo IN
           /\ pc[p] = "close"
           /\ \/ ~obj[p].m_IsOpen /\ pc' = [pc EXCEPT ![p] = "unlock"] /\ UNCHANGED <<mem, obj>>
              \/ /\ obj[p].m_IsOpen /\ g \in Generation /\ mem[g].referenceCount = 1
                 /\ pc' = [pc EXCEPT ![p] = "rm_shm"] /\ UNCHANGED <<mem, obj>>
              \/ /\ obj[p].m_IsOpen /\ pc' = [pc EXCEPT ![p] = "unlock"]
                 /\ g \in Generation /\ mem[g].referenceCount \in Int \ {1}
                 /\ mem'[g].referenceCount = mem[g].referenceCount - 1
                 /\ mem'[g].block = mem[g].block
                 /\ \A h \in Generation \ {g} : mem'[h] = mem[h]
                 /\ ObjectIs(p, FALSE, g, obj[p].m_OccupyMsqID, obj[p].m_FreeMsqID,
                             obj[p].m_ProcLockID)
           /\ obj' \in [Proc -> Objects]
           /\ UNCHANGED <<msq, shm, hand, data, ret, meant, count>>
<1> DEFINE g == obj[p].m_MsgQueueInfo
<1>1. /\ pc[p] = "close"
      /\ \/ ~obj[p].m_IsOpen /\ pc' = [pc EXCEPT ![p] = "unlock"] /\ UNCHANGED <<mem, obj>>
         \/ /\ obj[p].m_IsOpen /\ mem[g].referenceCount = 1
            /\ pc' = [pc EXCEPT ![p] = "rm_shm"] /\ UNCHANGED <<mem, obj>>
         \/ /\ obj[p].m_IsOpen /\ pc' = [pc EXCEPT ![p] = "unlock"]
            /\ mem[g].referenceCount # 1
            /\ mem' = [mem EXCEPT ![g] = [mem[g] EXCEPT !.referenceCount = mem[g].referenceCount - 1]]
            /\ obj' = [obj EXCEPT ![p] = [obj[p] EXCEPT !.m_IsOpen = FALSE]]
      /\ UNCHANGED <<msq, shm, hand, data, ret, meant, count>>
  BY DEF CloseCount, Goto
<1>2. obj[p].m_IsOpen => g \in Generation /\ mem[g] \in Segments /\ mem[g].referenceCount \in Int
  BY MemType DEF TypeInv, IdsOK, IdsFit, Segments
<1>3. g \in Generation /\ mem' = [mem EXCEPT ![g] = [mem[g] EXCEPT !.referenceCount = mem[g].referenceCount - 1]]
      => /\ mem'[g].referenceCount = mem[g].referenceCount - 1
         /\ mem'[g].block = mem[g].block
         /\ \A h \in Generation \ {g} : mem'[h] = mem[h]
  BY MemType DEF Segments
<1>4. [obj[p] EXCEPT !.m_IsOpen = FALSE] \in Objects
  BY ObjOf DEF Objects
<1>5. obj' = [obj EXCEPT ![p] = [obj[p] EXCEPT !.m_IsOpen = FALSE]]
      => /\ ObjectIs(p, FALSE, g, obj[p].m_OccupyMsqID, obj[p].m_FreeMsqID, obj[p].m_ProcLockID)
         /\ obj' \in [Proc -> Objects]
  <2>1. ASSUME obj' = [obj EXCEPT ![p] = [obj[p] EXCEPT !.m_IsOpen = FALSE]]
        PROVE  obj' \in [Proc -> Objects] /\ obj'[p] = [obj[p] EXCEPT !.m_IsOpen = FALSE]
    BY <1>4, <2>1, ObjectChange
  <2> QED BY <2>1, ObjOf DEF ObjectIs, Objects
<1> QED BY <1>1, <1>2, <1>3, <1>5, ObjType

\* The segment is removed,
LEMMA RemoveShmDoes ==
    ASSUME TypeInv, NEW p \in Proc, RemoveShm(p)
    PROVE  /\ pc[p] = "rm_shm" /\ pc' = [pc EXCEPT ![p] = "rm_occupy"]
           /\ shm'.gen = shm.gen /\ shm' \in [gen : Nat, live : BOOLEAN]
           /\ shm'.live = (shm.live /\ shm.gen # obj[p].m_MsgQueueInfo)
           /\ UNCHANGED <<msq, mem, obj, hand, data, ret, meant, count>>
  BY ShmType DEF RemoveShm, Goto

\* the occupied queue,
LEMMA RemoveOccupyDoes ==
    ASSUME TypeInv, NEW p \in Proc, RemoveOccupy(p)
    PROVE  /\ pc[p] = "rm_occupy" /\ pc' = [pc EXCEPT ![p] = "rm_free"]
           /\ \/ Valid(Occupy, obj[p].m_OccupyMsqID) /\ Gone(Occupy) /\ OthersSame(Occupy)
              \/ ~Valid(Occupy, obj[p].m_OccupyMsqID) /\ UNCHANGED msq
           /\ UNCHANGED <<shm, mem, obj, hand, data, ret, meant, count>>
<1>1. /\ pc[p] = "rm_occupy" /\ pc' = [pc EXCEPT ![p] = "rm_free"]
      /\ \/ Valid(Occupy, obj[p].m_OccupyMsqID) /\ msq' = Removed(Occupy)
         \/ ~Valid(Occupy, obj[p].m_OccupyMsqID) /\ UNCHANGED msq
      /\ UNCHANGED <<shm, mem, obj, hand, data, ret, meant, count>>
  BY DEF RemoveOccupy, Goto
<1>2. msq' = Removed(Occupy) => Gone(Occupy) /\ OthersSame(Occupy)
  BY KeysDistinct, RemovedIs DEF TypeInv, Gone, Becomes, OthersSame
<1> QED BY <1>1, <1>2

\* and the free queue, the last.
LEMMA RemoveFreeDoes ==
    ASSUME TypeInv, NEW p \in Proc, RemoveFree(p)
    PROVE  /\ pc[p] = "rm_free" /\ pc' = [pc EXCEPT ![p] = "unlock"]
           /\ \/ Valid(Free, obj[p].m_FreeMsqID) /\ Gone(Free) /\ OthersSame(Free)
              \/ ~Valid(Free, obj[p].m_FreeMsqID) /\ UNCHANGED msq
           /\ ObjectIs(p, FALSE, obj[p].m_MsgQueueInfo, obj[p].m_OccupyMsqID, obj[p].m_FreeMsqID,
                       obj[p].m_ProcLockID)
           /\ obj' \in [Proc -> Objects]
           /\ UNCHANGED <<shm, mem, hand, data, ret, meant, count>>
<1>1. /\ pc[p] = "rm_free" /\ pc' = [pc EXCEPT ![p] = "unlock"]
      /\ \/ Valid(Free, obj[p].m_FreeMsqID) /\ msq' = Removed(Free)
         \/ ~Valid(Free, obj[p].m_FreeMsqID) /\ UNCHANGED msq
      /\ obj' = [obj EXCEPT ![p] = [obj[p] EXCEPT !.m_IsOpen = FALSE]]
      /\ UNCHANGED <<shm, mem, hand, data, ret, meant, count>>
  BY DEF RemoveFree, Goto
<1>2. msq' = Removed(Free) => Gone(Free) /\ OthersSame(Free)
  BY KeysDistinct, RemovedIs DEF TypeInv, Gone, Becomes, OthersSame
<1>3. [obj[p] EXCEPT !.m_IsOpen = FALSE] \in Objects
  BY ObjOf DEF Objects
<1>4. obj' \in [Proc -> Objects] /\ obj'[p] = [obj[p] EXCEPT !.m_IsOpen = FALSE]
  BY <1>1, <1>3, ObjectChange
<1> QED BY <1>1, <1>2, <1>4, ObjOf DEF ObjectIs, Objects

\* A killed process keeps nothing.
LEMMA CrashDoes ==
    ASSUME TypeInv, NEW p \in Proc, Crash(p)
    PROVE  /\ Trouble("crash") /\ pc' = [pc EXCEPT ![p] = "idle"]
           /\ ObjectIs(p, FALSE, None, None, None, None)
           /\ obj' \in [Proc -> Objects]
           /\ hand' = [hand EXCEPT ![p] = None]
           /\ UNCHANGED <<msq, shm, mem, meant>>
<1>1. /\ Trouble("crash") /\ pc' = [pc EXCEPT ![p] = "idle"]
      /\ obj' = [obj EXCEPT ![p] = NewObject] /\ hand' = [hand EXCEPT ![p] = None]
      /\ UNCHANGED <<msq, shm, mem, meant>>
  BY DEF Crash
<1>2. NewObject \in Objects
  BY Values DEF NewObject, Objects
<1>3. obj' \in [Proc -> Objects] /\ obj'[p] = NewObject
  BY <1>1, <1>2, ObjectChange
<1> QED BY <1>1, <1>3 DEF ObjectIs, NewObject

\* A step of p leaves the other processes where they are.
LEMMA Frame ==
    ASSUME TypeInv, NEW p \in Proc, Action(p), NEW q \in Proc, q # p
    PROVE  pc'[q] = pc[q] /\ obj'[q] = obj[q] /\ hand'[q] = hand[q] /\ data'[q] = data[q]
<1>1. pc'[q] = pc[q]
  BY PcType DEF Action, Open, SendTake, RecvTake, Close, Release, LockFails, AcquireLock, TakeToken, LockCreate,
     LockLost, LockInit, Unlock, OpenAttach, OpenFree, OpenFails, FreeLost, OpenInit, OpenCount, SendCopy,
     SendPost, RecvCopy, RecvGive, CloseCount, RemoveShm, RemoveOccupy, RemoveFree, Crash, Goto
<1>2. obj'[q] = obj[q]
  BY ObjType DEF Action, Open, SendTake, RecvTake, Close, Release, LockFails, AcquireLock, TakeToken, LockCreate,
     LockLost, LockInit, Unlock, OpenAttach, OpenFree, OpenFails, FreeLost, OpenInit, OpenCount, SendCopy,
     SendPost, RecvCopy, RecvGive, CloseCount, RemoveShm, RemoveOccupy, RemoveFree, Crash, GivesUp
<1>3. hand'[q] = hand[q]
  BY LocalTypes DEF Action, Open, SendTake, RecvTake, Close, Release, LockFails, AcquireLock, TakeToken, LockCreate,
     LockLost, LockInit, Unlock, OpenAttach, OpenFree, OpenFails, FreeLost, OpenInit, OpenCount, SendCopy,
     SendPost, RecvCopy, RecvGive, CloseCount, RemoveShm, RemoveOccupy, RemoveFree, Crash
<1>4. data'[q] = data[q]
  BY LocalTypes DEF Action, Open, SendTake, RecvTake, Close, Release, LockFails, AcquireLock, TakeToken, LockCreate,
     LockLost, LockInit, Unlock, OpenAttach, OpenFree, OpenFails, FreeLost, OpenInit, OpenCount, SendCopy,
     SendPost, RecvCopy, RecvGive, CloseCount, RemoveShm, RemoveOccupy, RemoveFree, Crash
<1> QED BY <1>1, <1>2, <1>3, <1>4

\* What send takes is a block.
LEMMA SendTakeHand ==
    ASSUME TypeInv, NEW p \in Proc, SendTake(p) PROVE hand'[p] \in Index
<1>1. msq[Free].msgs # <<>> /\ hand'[p] = Head(msq[Free].msgs)
  BY SendTakeDoes
<1> QED BY <1>1, HeadInIndex

\* What recv takes is a block.
LEMMA RecvTakeHand ==
    ASSUME TypeInv, NEW p \in Proc, RecvTake(p) PROVE hand'[p] \in Index
<1>1. msq[Occupy].msgs # <<>> /\ hand'[p] = Head(msq[Occupy].msgs)
  BY RecvTakeDoes
<1> QED BY <1>1, HeadInIndex

\* close begins.
LEMMA CloseDoes ==
    ASSUME TypeInv, NEW p \in Proc, Close(p)
    PROVE  /\ pc[p] = "idle" /\ pc' = [pc EXCEPT ![p] = "close_lock"]
           /\ UNCHANGED <<msq, shm, mem, obj, hand, data, ret, meant, count>>
  BY DEF Close, Goto

\* release begins.
LEMMA ReleaseDoes ==
    ASSUME TypeInv, NEW p \in Proc, Release(p)
    PROVE  /\ pc[p] = "idle" /\ pc' = [pc EXCEPT ![p] = "release_lock"] /\ Trouble("release")
           /\ UNCHANGED <<msq, shm, mem, obj, hand, data, ret, meant>>
  BY DEF Release, Goto

\* The object of p after its step.
LEMMA ObjStep ==
    ASSUME TypeInv, NEW p \in Proc, Action(p)
    PROVE  obj' \in [Proc -> Objects]
<1>1. CASE \/ Open(p) \/ LockCreate(p) \/ LockLost(p) \/ OpenAttach(p) \/ OpenFree(p) \/ OpenFails(p)
           \/ FreeLost(p) \/ OpenCount(p) \/ CloseCount(p) \/ RemoveFree(p) \/ Crash(p)
  BY <1>1, OpenDoes, LockCreateDoes, LockLostDoes, OpenAttachDoes, OpenFreeDoes, OpenFailsDoes,
     FreeLostDoes, OpenCountDoes, CloseCountDoes, RemoveFreeDoes, CrashDoes
<1>2. CASE \/ SendTake(p) \/ RecvTake(p) \/ Close(p) \/ Release(p) \/ LockFails(p) \/ AcquireLock(p) \/ LockInit(p)
           \/ Unlock(p) \/ OpenInit(p) \/ SendCopy(p) \/ SendPost(p) \/ RecvCopy(p) \/ RecvGive(p)
           \/ RemoveShm(p) \/ RemoveOccupy(p)
  <2>1. obj' = obj
    BY <1>2 DEF SendTake, RecvTake, Close, Release, LockFails, AcquireLock, TakeToken, LockInit, Unlock, OpenInit,
       SendCopy, SendPost, RecvCopy, RecvGive, RemoveShm, RemoveOccupy
  <2> QED BY <2>1, ObjType
<1> QED BY <1>1, <1>2 DEF Action

\* Every step keeps the types of the counters.
LEMMA CountStep ==
    ASSUME TypeInv, NEW p \in Proc, Action(p)
    PROVE  CountOK'
<1>1. CASE Open(p)
  BY <1>1, CountType DEF Open, CountOK
<1>2. CASE SendTake(p)
  BY <1>2, CountType DEF SendTake, CountOK
<1>3. CASE Release(p) \/ LockFails(p) \/ LockLost(p) \/ OpenFails(p) \/ FreeLost(p) \/ Crash(p)
  <2>1. Trouble("release") \/ Trouble("lost") \/ Trouble("fail") \/ Trouble("crash")
    BY <1>3 DEF Release, LockFails, LockLost, OpenFails, FreeLost, Crash
  <2> QED BY <2>1, CountType DEF Trouble, CountOK
<1>4. CASE OpenCount(p)
  <2>1. count' = [count EXCEPT !.again = @ \/ obj[p].m_IsOpen] /\ obj[p].m_IsOpen \in BOOLEAN
    BY <1>4, OpenCountDoes, ObjOf
  <2> QED BY <2>1, CountType DEF CountOK
<1>5. CASE \/ RecvTake(p) \/ Close(p) \/ AcquireLock(p) \/ LockCreate(p) \/ LockInit(p) \/ Unlock(p)
           \/ OpenAttach(p) \/ OpenFree(p) \/ OpenInit(p) \/ SendCopy(p) \/ SendPost(p) \/ RecvCopy(p)
           \/ RecvGive(p) \/ CloseCount(p) \/ RemoveShm(p) \/ RemoveOccupy(p) \/ RemoveFree(p)
  <2>1. count' = count
    BY <1>5 DEF RecvTake, Close, AcquireLock, TakeToken, LockCreate, LockInit, Unlock, OpenAttach, OpenFree,
       OpenInit, SendCopy, SendPost, RecvCopy, RecvGive, CloseCount, RemoveShm, RemoveOccupy, RemoveFree
  <2> QED BY <2>1, CountType DEF CountOK
<1> QED BY <1>1, <1>2, <1>3, <1>4, <1>5 DEF Action

\* How the counted sets change.
LEMMA MovesCounted ==
    ASSUME TypeInv, NEW p \in Proc, NEW to, pc' = [pc EXCEPT ![p] = to]
    PROVE  /\ IsFiniteSet(Before(ToFree)')
           /\ Cardinality(Before(ToLock)) \in Nat /\ Cardinality(Before(ToAttach)) \in Nat
           /\ Cardinality(Before(ToFree)) \in Nat
           /\ Cardinality(Before(ToLock)') = Cardinality(Before(ToLock))
                + (IF to \in ToLock THEN 1 ELSE 0) - (IF pc[p] \in ToLock THEN 1 ELSE 0)
           /\ Cardinality(Before(ToAttach)') = Cardinality(Before(ToAttach))
                + (IF to \in ToAttach THEN 1 ELSE 0) - (IF pc[p] \in ToAttach THEN 1 ELSE 0)
           /\ Cardinality(Before(ToFree)') = Cardinality(Before(ToFree))
                + (IF to \in ToFree THEN 1 ELSE 0) - (IF pc[p] \in ToFree THEN 1 ELSE 0)
<1>1. /\ Before(ToLock) \in SUBSET Before(ToFree)
      /\ Before(ToAttach) \in SUBSET Before(ToFree)
  BY DEF Before, ToLock, ToAttach, ToFree
<1>2. /\ IsFiniteSet(Before(ToFree)) /\ IsFiniteSet(Before(ToLock)) /\ IsFiniteSet(Before(ToAttach))
  BY <1>1, FS_Subset DEF TypeInv, GenerationsLast
<1>3. TypeOK
  BY DEF TypeInv
<1>4. /\ IsFiniteSet(Before(ToFree)') /\ Cardinality(Before(ToFree)) \in Nat
      /\ Cardinality(Before(ToFree)') = Cardinality(Before(ToFree))
                + (IF to \in ToFree THEN 1 ELSE 0) - (IF pc[p] \in ToFree THEN 1 ELSE 0)
  BY <1>2, <1>3, Moves
<1>5. /\ Cardinality(Before(ToAttach)) \in Nat
      /\ Cardinality(Before(ToAttach)') = Cardinality(Before(ToAttach))
                + (IF to \in ToAttach THEN 1 ELSE 0) - (IF pc[p] \in ToAttach THEN 1 ELSE 0)
  BY <1>2, <1>3, Moves
<1>6. /\ Cardinality(Before(ToLock)) \in Nat
      /\ Cardinality(Before(ToLock)') = Cardinality(Before(ToLock))
                + (IF to \in ToLock THEN 1 ELSE 0) - (IF pc[p] \in ToLock THEN 1 ELSE 0)
  BY <1>2, <1>3, Moves
<1> QED BY <1>4, <1>5, <1>6

\* Numbers of the counting.
LEMMA GenerationsAre ==
    ASSUME TypeInv
    PROVE  /\ shm.gen \in Nat /\ \A k \in Keys : msq[k].gen \in Nat
           /\ count.open \in Nat
           /\ msq[Lock].gen + Cardinality(Before(ToLock)) <= count.open
           /\ msq[Occupy].gen + Cardinality(Before(ToAttach)) <= count.open
           /\ shm.gen + Cardinality(Before(ToAttach)) <= count.open
           /\ msq[Free].gen + Cardinality(Before(ToFree)) <= count.open
<1>1. shm.gen \in Nat /\ \A k \in Keys : msq[k].gen \in Nat
  BY QueueType, ShmType DEF TypeInv
<1>2. count.open \in Nat
  BY CountType
<1> QED BY <1>1, <1>2 DEF TypeInv, GenerationsLast

\* Generations that a step may leave, with the calls of open.
LEMMA GensStep ==
    ASSUME TypeInv, NEW p \in Proc, Action(p)
    PROVE  LET to == pc'[p] IN
           /\ pc' = [pc EXCEPT ![p] = to]
           /\ \/ count'.open = count.open + 1 /\ pc[p] = "idle" /\ to = "lock_create"
              \/ count'.open = count.open /\ to # "lock_create"
                 /\ (pc[p] \in ToAttach \/ to \notin ToAttach)
                 /\ (pc[p] \in ToFree \/ to \notin ToFree)
           /\ \/ msq'[Lock].gen = msq[Lock].gen
              \/ msq'[Lock].gen = msq[Lock].gen + 1 /\ pc[p] = "lock_create" /\ to # "lock_create"
           /\ \/ msq'[Occupy].gen = msq[Occupy].gen
              \/ msq'[Occupy].gen = msq[Occupy].gen + 1 /\ pc[p] = "open_attach" /\ to \notin ToAttach
           /\ \/ shm'.gen = shm.gen
              \/ shm'.gen = shm.gen + 1 /\ pc[p] = "open_attach" /\ to \notin ToAttach
           /\ \/ msq'[Free].gen = msq[Free].gen
              \/ msq'[Free].gen = msq[Free].gen + 1 /\ pc[p] = "open_free" /\ to \notin ToFree
<1> USE KeysDistinct DEF ToLock, ToAttach, ToFree
<1>0. pc \in [Proc -> Places]
  BY PcType
<1>1. CASE Open(p)
  <2>1. count'.open = count.open + 1
    BY <1>1, CountType DEF Open
  <2> QED BY <1>0, <1>1, <2>1, OpenDoes
<1>2. CASE SendTake(p)
  <2>1. count'.open = count.open
    BY <1>2, CountType DEF SendTake
  <2> QED BY <1>0, <1>2, <2>1, SendTakeDoes DEF Taken, Becomes, OthersSame
<1>3. CASE RecvTake(p)
  BY <1>0, <1>3, RecvTakeDoes DEF Taken, Becomes, OthersSame
<1>4. CASE Close(p)
  BY <1>0, <1>4, CloseDoes
<1>5. CASE Release(p)
  <2>1. count'.open = count.open
    BY <1>5, CountType DEF Release, Trouble
  <2> QED BY <1>0, <1>5, <2>1, ReleaseDoes
<1>26. CASE LockFails(p)
  <2>1. count'.open = count.open
    BY <1>26, CountType DEF LockFails, Trouble
  <2> QED BY <1>0, <1>26, <2>1, LockFailsDoes
<1>6. CASE AcquireLock(p)
  <2>1. count'.open = count.open /\ \A k \in Keys : msq'[k].gen = msq[k].gen
    BY <1>0, <1>6, AcquireLockDoes DEF Taken, Becomes, OthersSame
  <2> QED BY <1>0, <1>6, <2>1, AcquireLockDoes
<1>7. CASE LockCreate(p)
  BY <1>0, <1>7, LockCreateDoes DEF Made, Becomes, OthersSame
<1>8. CASE LockLost(p)
  <2>1. count'.open = count.open
    BY <1>8, CountType DEF LockLost, Trouble
  <2>2. /\ shm'.gen = shm.gen /\ msq'[Occupy].gen = msq[Occupy].gen
        /\ msq'[Free].gen = msq[Free].gen
        /\ msq'[Lock].gen = msq[Lock].gen \/ msq'[Lock].gen = msq[Lock].gen + 1
    BY <1>0, <1>8, LockLostDoes DEF Made, Becomes, OthersSame
  <2>3. pc[p] = "lock_create" /\ pc'[p] \in {"open_lock", "idle"} /\ pc' = [pc EXCEPT ![p] = pc'[p]]
    BY <1>0, <1>8, LockLostDoes
  <2> QED BY <2>1, <2>2, <2>3
<1>9. CASE LockInit(p)
  <2>1. count'.open = count.open /\ \A k \in Keys : msq'[k].gen = msq[k].gen
    BY <1>0, <1>9, LockInitDoes DEF Becomes, OthersSame
  <2> QED BY <1>0, <1>9, <2>1, LockInitDoes
<1>10. CASE Unlock(p)
  BY <1>0, <1>10, UnlockDoes DEF Put, Becomes, OthersSame
<1>11. CASE OpenAttach(p)
  BY <1>0, <1>11, OpenAttachDoes DEF Made, Becomes, OthersSame
<1>12. CASE OpenFree(p)
  <2>1. /\ count'.open = count.open /\ shm'.gen = shm.gen
        /\ msq'[Lock].gen = msq[Lock].gen /\ msq'[Occupy].gen = msq[Occupy].gen
        /\ msq'[Free].gen = msq[Free].gen \/ msq'[Free].gen = msq[Free].gen + 1
    BY <1>0, <1>12, OpenFreeDoes DEF Made, Becomes, OthersSame
  <2> QED BY <1>0, <1>12, <2>1, OpenFreeDoes
<1>13. CASE OpenFails(p)
  <2>1. count'.open = count.open
    BY <1>13, CountType DEF OpenFails, Trouble
  <2>2. /\ msq'[Lock].gen = msq[Lock].gen /\ msq'[Free].gen = msq[Free].gen
        /\ \/ msq'[Occupy].gen = msq[Occupy].gen
           \/ msq'[Occupy].gen = msq[Occupy].gen + 1 /\ pc[p] = "open_attach"
        /\ \/ shm'.gen = shm.gen
           \/ shm'.gen = shm.gen + 1 /\ pc[p] = "open_attach"
    BY <1>0, <1>13, OpenFailsDoes DEF Made, Becomes, OthersSame
  <2>3. /\ pc[p] \in {"open_attach", "open_free"} /\ pc'[p] = "unlock"
        /\ pc' = [pc EXCEPT ![p] = pc'[p]]
    BY <1>0, <1>13, OpenFailsDoes
  <2> QED BY <2>1, <2>2, <2>3
<1>14. CASE FreeLost(p)
  <2>1. count'.open = count.open
    BY <1>14, CountType DEF FreeLost, Trouble
  <2>2. /\ shm'.gen = shm.gen /\ msq'[Occupy].gen = msq[Occupy].gen
        /\ msq'[Lock].gen = msq[Lock].gen
        /\ msq'[Free].gen = msq[Free].gen \/ msq'[Free].gen = msq[Free].gen + 1
    BY <1>0, <1>14, FreeLostDoes DEF Made, Becomes, OthersSame
  <2>3. pc[p] = "open_free" /\ pc'[p] \in {"open_count", "unlock"} /\ pc' = [pc EXCEPT ![p] = pc'[p]]
    BY <1>0, <1>14, FreeLostDoes
  <2> QED BY <2>1, <2>2, <2>3
<1>15. CASE OpenInit(p)
  BY <1>0, <1>15, OpenInitDoes DEF Becomes
<1>16. CASE OpenCount(p)
  <2>1. count'.open = count.open
    BY <1>16, CountType, OpenCountDoes
  <2> QED BY <1>0, <1>16, <2>1, OpenCountDoes
<1>17. CASE SendCopy(p)
  BY <1>0, <1>17, SendCopyDoes
<1>18. CASE SendPost(p)
  BY <1>0, <1>18, SendPostDoes DEF Put, Becomes, OthersSame
<1>19. CASE RecvCopy(p)
  BY <1>0, <1>19, RecvCopyDoes
<1>20. CASE RecvGive(p)
  BY <1>0, <1>20, RecvGiveDoes DEF Put, Becomes, OthersSame
<1>21. CASE CloseCount(p)
  BY <1>0, <1>21, CloseCountDoes
<1>22. CASE RemoveShm(p)
  BY <1>0, <1>22, RemoveShmDoes
<1>23. CASE RemoveOccupy(p)
  <2>1. count'.open = count.open /\ \A k \in Keys : msq'[k].gen = msq[k].gen
    BY <1>0, <1>23, RemoveOccupyDoes DEF Gone, Becomes, OthersSame
  <2> QED BY <1>0, <1>23, <2>1, RemoveOccupyDoes
<1>24. CASE RemoveFree(p)
  BY <1>0, <1>24, RemoveFreeDoes DEF Gone, Becomes, OthersSame
<1>25. CASE Crash(p)
  <2>1. count'.open = count.open
    BY <1>25, CountType DEF Crash, Trouble
  <2> QED BY <1>0, <1>25, <2>1, CrashDoes
<1> QED BY <1>1, <1>2, <1>3, <1>4, <1>5, <1>6, <1>7, <1>8, <1>9, <1>10, <1>11, <1>12, <1>13,
           <1>14, <1>15, <1>16, <1>17, <1>18, <1>19, <1>20, <1>21, <1>22, <1>23, <1>24, <1>25, <1>26
        DEF Action

\* Every step has an open for each object it creates.
LEMMA GenerationsStep ==
    ASSUME TypeInv, NEW p \in Proc, Action(p)
    PROVE  GenerationsLast'
<1> DEFINE to == pc'[p]
<1>1. /\ pc' = [pc EXCEPT ![p] = to]
      /\ \/ count'.open = count.open + 1 /\ pc[p] = "idle" /\ to = "lock_create"
         \/ count'.open = count.open /\ to # "lock_create"
            /\ (pc[p] \in ToAttach \/ to \notin ToAttach)
            /\ (pc[p] \in ToFree \/ to \notin ToFree)
      /\ \/ msq'[Lock].gen = msq[Lock].gen
         \/ msq'[Lock].gen = msq[Lock].gen + 1 /\ pc[p] = "lock_create" /\ to # "lock_create"
      /\ \/ msq'[Occupy].gen = msq[Occupy].gen
         \/ msq'[Occupy].gen = msq[Occupy].gen + 1 /\ pc[p] = "open_attach" /\ to \notin ToAttach
      /\ \/ shm'.gen = shm.gen
         \/ shm'.gen = shm.gen + 1 /\ pc[p] = "open_attach" /\ to \notin ToAttach
      /\ \/ msq'[Free].gen = msq[Free].gen
         \/ msq'[Free].gen = msq[Free].gen + 1 /\ pc[p] = "open_free" /\ to \notin ToFree
  BY GensStep
<1> DEFINE cL == Cardinality(Before(ToLock))
           cA == Cardinality(Before(ToAttach))
           cF == Cardinality(Before(ToFree))
           dL == Cardinality(Before(ToLock)')
           dA == Cardinality(Before(ToAttach)')
           dF == Cardinality(Before(ToFree)')
<1>2. /\ IsFiniteSet(Before(ToFree)')
      /\ cL \in Nat /\ cA \in Nat /\ cF \in Nat
      /\ dL = cL + (IF to \in ToLock THEN 1 ELSE 0) - (IF pc[p] \in ToLock THEN 1 ELSE 0)
      /\ dA = cA + (IF to \in ToAttach THEN 1 ELSE 0) - (IF pc[p] \in ToAttach THEN 1 ELSE 0)
      /\ dF = cF + (IF to \in ToFree THEN 1 ELSE 0) - (IF pc[p] \in ToFree THEN 1 ELSE 0)
  <2> HIDE DEF to
  <2> QED BY <1>1, MovesCounted
<1>3. /\ shm.gen \in Nat /\ msq[Lock].gen \in Nat /\ msq[Occupy].gen \in Nat /\ msq[Free].gen \in Nat
      /\ count.open \in Nat
      /\ msq[Lock].gen + cL <= count.open /\ msq[Occupy].gen + cA <= count.open
      /\ shm.gen + cA <= count.open /\ msq[Free].gen + cF <= count.open
  BY GenerationsAre, KeysDistinct
<1> HIDE DEF cL, cA, cF, dL, dA, dF, to
<1>4. /\ msq'[Lock].gen + dL <= count'.open /\ msq'[Occupy].gen + dA <= count'.open
      /\ shm'.gen + dA <= count'.open /\ msq'[Free].gen + dF <= count'.open
  BY <1>1, <1>2, <1>3 DEF ToLock, ToAttach, ToFree
<1> QED BY <1>2, <1>4 DEF GenerationsLast, dL, dA, dF

\* Every step leaves a removed queue empty.
LEMMA EmptyStep ==
    ASSUME TypeInv, NEW p \in Proc, Action(p)
    PROVE  EmptyWhenGone'
<1> USE KeysDistinct
<1>0. \A k \in {Occupy, Free} : ~msq[k].live => msq[k].msgs = <<>>
  BY DEF TypeInv, EmptyWhenGone
<1> SUFFICES \A k \in {Occupy, Free} : ~msq'[k].live => msq'[k].msgs = <<>>
  BY DEF EmptyWhenGone
<1>1. CASE SendTake(p)
  BY <1>0, <1>1, SendTakeDoes DEF Taken, Becomes, OthersSame, Valid
<1>2. CASE RecvTake(p)
  BY <1>0, <1>2, RecvTakeDoes DEF Taken, Becomes, OthersSame, Valid
<1>3. CASE AcquireLock(p)
  BY <1>0, <1>3, AcquireLockDoes DEF OthersSame
<1>4. CASE LockCreate(p)
  BY <1>0, <1>4, LockCreateDoes DEF OthersSame
<1>5. CASE LockInit(p)
  BY <1>0, <1>5, LockInitDoes DEF OthersSame
<1>6. CASE Unlock(p)
  BY <1>0, <1>6, UnlockDoes DEF OthersSame
<1>7. CASE OpenAttach(p)
  BY <1>0, <1>7, OpenAttachDoes DEF Made, Becomes, OthersSame
<1>8. CASE OpenFree(p)
  BY <1>0, <1>8, OpenFreeDoes DEF Made, Becomes, OthersSame
<1>9. CASE OpenFails(p)
  <2>1. msq' = msq \/ (Made(Occupy) /\ OthersSame(Occupy))
    BY <1>9, OpenFailsDoes
  <2> QED BY <1>0, <2>1 DEF Made, Becomes, OthersSame
<1>10. CASE OpenInit(p)
  BY <1>0, <1>10, OpenInitDoes DEF Becomes, Valid
<1>11. CASE SendPost(p)
  <2>1. \/ Valid(Occupy, obj[p].m_OccupyMsqID) /\ Put(Occupy, hand[p]) /\ OthersSame(Occupy)
        \/ msq' = msq
    BY <1>0, <1>11, SendPostDoes
  <2> QED BY <1>0, <2>1 DEF Put, Becomes, OthersSame, Valid
<1>12. CASE RecvGive(p)
  <2>1. \/ Valid(Free, obj[p].m_FreeMsqID) /\ Put(Free, hand[p]) /\ OthersSame(Free)
        \/ msq' = msq
    BY <1>0, <1>12, RecvGiveDoes
  <2> QED BY <1>0, <2>1 DEF Put, Becomes, OthersSame, Valid
<1>13. CASE RemoveOccupy(p)
  <2>1. (Gone(Occupy) /\ OthersSame(Occupy)) \/ msq' = msq
    BY <1>13, RemoveOccupyDoes
  <2> QED BY <1>0, <2>1 DEF Gone, Becomes, OthersSame
<1>14. CASE RemoveFree(p)
  <2>1. (Gone(Free) /\ OthersSame(Free)) \/ msq' = msq
    BY <1>14, RemoveFreeDoes
  <2> QED BY <1>0, <2>1 DEF Gone, Becomes, OthersSame
<1>15. CASE \/ Open(p) \/ Close(p) \/ Release(p) \/ LockFails(p) \/ OpenCount(p)
            \/ SendCopy(p) \/ RecvCopy(p) \/ CloseCount(p) \/ RemoveShm(p) \/ Crash(p)
  <2>1. msq' = msq
    BY <1>15 DEF Open, Close, Release, LockFails, OpenCount, SendCopy, RecvCopy,
           CloseCount, RemoveShm, Crash
  <2> QED BY <1>0, <2>1
<1>16. CASE LockLost(p) \/ FreeLost(p)
  <2>1. msq' = msq \/ \E k \in {Lock, Free} : Made(k) /\ OthersSame(k)
    BY <1>16, LockLostDoes, FreeLostDoes
  <2> QED BY <1>0, <2>1 DEF Made, Becomes, OthersSame
<1> QED BY <1>1, <1>2, <1>3, <1>4, <1>5, <1>6, <1>7, <1>8, <1>9, <1>10, <1>11, <1>12, <1>13,
           <1>14, <1>15, <1>16 DEF Action

\* Every step leaves the generations to come as they are.
LEMMA NotUsedYetStep ==
    ASSUME TypeInv, NEW p \in Proc, Action(p)
    PROVE  NotUsedYet'
<1> DEFINE g == obj[p].m_MsgQueueInfo
<1>1. /\ \A h \in Generation : h > shm.gen => mem[h] = NewMemory /\ meant[h] = [i \in Index |-> Zero]
      /\ shm.live => shm.gen # 0
      /\ \A k \in Keys : msq[k].live => msq[k].gen # 0
  BY DEF TypeInv, NotUsedYet
<1>2. shm.gen \in Nat /\ \A k \in Keys : msq[k].gen \in Nat
  BY GenerationsAre
<1>3. shm'.gen = shm.gen \/ shm'.gen = shm.gen + 1
  BY GensStep
<1>4. /\ g \in Generation => g <= shm.gen
  BY DEF TypeInv, IdsOK, IdsFit
<1>5. mem' = mem \/ (g \in Generation /\ \A h \in Generation \ {g} : mem'[h] = mem[h])
  <2>1. CASE OpenInit(p) \/ OpenCount(p) \/ SendCopy(p) \/ CloseCount(p)
    BY <2>1, OpenInitDoes, OpenCountDoes, SendCopyDoes, CloseCountDoes
  <2>2. CASE ~(OpenInit(p) \/ OpenCount(p) \/ SendCopy(p) \/ CloseCount(p))
    BY <2>2 DEF Action, Open, SendTake, RecvTake, Close, Release, LockFails, AcquireLock, TakeToken, LockCreate, LockLost,
           LockInit, Unlock, OpenAttach, OpenFree, OpenFails, FreeLost, SendPost, RecvCopy, RecvGive, RemoveShm,
           RemoveOccupy, RemoveFree, Crash
  <2> QED BY <2>1, <2>2
<1>6. meant' = meant \/ (g \in Generation /\ \A h \in Generation \ {g} : meant'[h] = meant[h])
  <2>1. CASE SendPost(p)
    BY <2>1, SendPostDoes
  <2>2. CASE ~SendPost(p)
    BY <2>2 DEF Action, Open, SendTake, RecvTake, Close, Release, LockFails, AcquireLock, TakeToken, LockCreate, LockLost,
           LockInit, Unlock, OpenAttach, OpenFree, OpenFails, FreeLost, RecvCopy, RecvGive, RemoveShm,
           RemoveOccupy, RemoveFree, Crash, OpenInit, OpenCount, SendCopy, CloseCount
  <2> QED BY <2>1, <2>2
<1>7. \A h \in Generation : h > shm'.gen => mem'[h] = NewMemory /\ meant'[h] = [i \in Index |-> Zero]
  <2>1. SUFFICES ASSUME NEW h \in Generation, h > shm'.gen
                 PROVE  mem'[h] = NewMemory /\ meant'[h] = [i \in Index |-> Zero]
    OBVIOUS
  <2>2. h > shm.gen /\ h # g
    BY <1>2, <1>3, <1>4, <2>1 DEF Generation
  <2> QED BY <1>1, <1>5, <1>6, <2>2
<1>8. shm'.live => shm'.gen # 0
  <2>1. CASE OpenAttach(p)
    BY <1>1, <1>2, <2>1, OpenAttachDoes
  <2>2. CASE RemoveShm(p)
    BY <1>1, <2>2, RemoveShmDoes
  <2>4. CASE OpenFails(p)
    <3>1. shm' = shm \/ shm'.gen = shm.gen + 1
      BY <2>4, OpenFailsDoes
    <3> QED BY <1>1, <1>2, <3>1
  <2>3. CASE ~OpenAttach(p) /\ ~RemoveShm(p) /\ ~OpenFails(p)
    <3>1. shm' = shm
      BY <2>3 DEF Action, Open, SendTake, RecvTake, Close, Release, LockFails, AcquireLock, TakeToken, LockCreate, LockLost,
             LockInit, Unlock, OpenFree, FreeLost, SendPost, RecvCopy, RecvGive,
             RemoveOccupy, RemoveFree, Crash, OpenInit, OpenCount, SendCopy, CloseCount
    <3> QED BY <1>1, <3>1
  <2> QED BY <2>1, <2>2, <2>3, <2>4
<1>9. \A k \in Keys : msq'[k].live => msq'[k].gen # 0
  <2> USE KeysDistinct
  <2>1. CASE SendTake(p) \/ RecvTake(p) \/ AcquireLock(p) \/ Unlock(p) \/ LockInit(p)
    BY <1>1, <2>1, SendTakeDoes, RecvTakeDoes, AcquireLockDoes, UnlockDoes, LockInitDoes
       DEF Taken, Put, Becomes, OthersSame
  <2>2. CASE LockCreate(p) \/ LockLost(p) \/ OpenAttach(p) \/ OpenFree(p) \/ OpenFails(p) \/ FreeLost(p)
    <3>1. UNCHANGED msq \/ \E k \in Keys : Made(k) /\ OthersSame(k)
      BY <2>2, LockCreateDoes, LockLostDoes, OpenAttachDoes, OpenFreeDoes, OpenFailsDoes, FreeLostDoes
    <3> QED BY <1>1, <1>2, <3>1 DEF Made, Becomes, OthersSame
  <2>3. CASE OpenInit(p)
    BY <1>1, <2>3, OpenInitDoes DEF Becomes
  <2>4. CASE SendPost(p) \/ RecvGive(p) \/ RemoveOccupy(p) \/ RemoveFree(p)
    <3>1. \/ UNCHANGED msq
          \/ \E k \in Keys : Gone(k) /\ OthersSame(k)
          \/ \E k \in Keys : Put(k, hand[p]) /\ OthersSame(k)
      BY <2>4, SendPostDoes, RecvGiveDoes, RemoveOccupyDoes, RemoveFreeDoes
    <3> QED BY <1>1, <3>1 DEF Put, Gone, Becomes, OthersSame
  <2>5. CASE \/ Open(p) \/ Close(p) \/ Release(p) \/ LockFails(p) \/ OpenCount(p)
             \/ SendCopy(p) \/ RecvCopy(p) \/ CloseCount(p) \/ RemoveShm(p) \/ Crash(p)
    <3>1. msq' = msq
      BY <2>5 DEF Open, Close, Release, LockFails, OpenCount, SendCopy, RecvCopy,
             CloseCount, RemoveShm, Crash
    <3> QED BY <1>1, <3>1
  <2> QED BY <2>1, <2>2, <2>3, <2>4, <2>5 DEF Action
<1> QED BY <1>7, <1>8, <1>9 DEF NotUsedYet

\* No identifier is newer than the object it names.
LEMMA IdsStep ==
    ASSUME TypeInv, NEW p \in Proc, Action(p)
    PROVE  IdsOK'
<1> USE KeysDistinct DEF InBlock
<1>0. /\ pc \in [Proc -> Places] /\ hand \in [Proc -> Index \cup {None}]
      /\ None \notin Index /\ Index \subseteq Nat /\ None = -1
  BY PcType, LocalTypes, Values DEF None
<1>1. /\ shm.gen \in Nat /\ \A k \in Keys : msq[k].gen \in Nat
      /\ shm'.gen \in Nat /\ shm'.gen >= shm.gen
      /\ \A k \in Keys : msq'[k].gen \in Nat /\ msq'[k].gen >= msq[k].gen
  <2>1. shm.gen \in Nat /\ msq[Lock].gen \in Nat /\ msq[Occupy].gen \in Nat /\ msq[Free].gen \in Nat
    BY GenerationsAre
  <2> QED BY <2>1, GensStep
<1>2. \A q \in Proc : IdsFit(q)
  BY DEF TypeInv, IdsOK
<1>3. /\ obj[p].m_MsgQueueInfo \in Int /\ obj[p].m_OccupyMsqID \in Int /\ obj[p].m_FreeMsqID \in Int
      /\ \A q \in Proc : /\ obj[q].m_MsgQueueInfo \in Int /\ obj[q].m_OccupyMsqID \in Int
                         /\ obj[q].m_FreeMsqID \in Int
  BY ObjOf DEF Ids, Generation, None
<1>4. ASSUME NEW q \in Proc, q # p PROVE IdsFit(q)'
  <2>1. pc'[q] = pc[q] /\ obj'[q] = obj[q] /\ hand'[q] = hand[q]
    BY <1>4, Frame
  <2>2. IdsFit(q)
    BY <1>2
  <2> QED BY <1>1, <1>3, <2>1, <2>2 DEF IdsFit
<1>5. IdsFit(p)
  BY <1>2
<1> SUFFICES IdsFit(p)'
  BY <1>4 DEF IdsOK
<1>6. CASE Open(p)
  BY <1>0, <1>1, <1>3, <1>5, <1>6, OpenDoes DEF IdsFit, ObjectIs
<1>7. CASE SendTake(p)
  <2>1. /\ hand'[p] \in Index /\ pc'[p] = "send_copy" /\ obj[p].m_IsOpen
        /\ shm' = shm /\ obj' = obj
    BY <1>0, <1>7, SendTakeHand, SendTakeDoes
  <2> QED BY <1>0, <1>1, <1>3, <1>5, <2>1 DEF IdsFit
<1>8. CASE RecvTake(p)
  <2>1. /\ hand'[p] \in Index /\ pc'[p] = "recv_copy" /\ obj[p].m_IsOpen
        /\ shm' = shm /\ obj' = obj
    BY <1>0, <1>8, RecvTakeHand, RecvTakeDoes
  <2> QED BY <1>0, <1>1, <1>3, <1>5, <2>1 DEF IdsFit
<1>9. CASE Close(p)
  BY <1>0, <1>5, <1>9, CloseDoes DEF IdsFit
<1>10. CASE Release(p) \/ LockFails(p)
  BY <1>0, <1>5, <1>10, ReleaseDoes, LockFailsDoes DEF IdsFit
<1>11. CASE AcquireLock(p)
  <2>1. /\ pc'[p] \in {"open_attach", "close", "rm_shm"} /\ pc[p] \in {"open_lock", "close_lock", "release_lock"}
        /\ shm' = shm /\ obj' = obj /\ hand' = hand
    BY <1>0, <1>11, AcquireLockDoes
  <2> QED BY <1>0, <1>1, <1>3, <1>5, <2>1 DEF IdsFit
<1>12. CASE LockCreate(p)
  BY <1>0, <1>1, <1>3, <1>5, <1>12, LockCreateDoes DEF IdsFit, ObjectIs
<1>13. CASE LockLost(p)
  BY <1>0, <1>1, <1>3, <1>5, <1>13, LockLostDoes DEF IdsFit, ObjectIs
<1>14. CASE LockInit(p)
  BY <1>0, <1>1, <1>3, <1>5, <1>14, LockInitDoes DEF IdsFit
<1>15. CASE Unlock(p)
  BY <1>0, <1>1, <1>3, <1>5, <1>15, UnlockDoes DEF IdsFit
<1>16. CASE OpenAttach(p)
  BY <1>0, <1>1, <1>3, <1>5, <1>16, OpenAttachDoes DEF IdsFit, ObjectIs
<1>17. CASE OpenFree(p)
  BY <1>0, <1>1, <1>3, <1>5, <1>17, OpenFreeDoes DEF IdsFit, ObjectIs
<1>18. CASE OpenFails(p)
  <2>1. /\ pc'[p] = "unlock" /\ pc[p] \in {"open_attach", "open_free"} /\ hand' = hand
        /\ ~obj'[p].m_IsOpen
        /\ obj'[p].m_MsgQueueInfo \in {obj[p].m_MsgQueueInfo, None, shm'.gen}
        /\ obj'[p].m_OccupyMsqID \in {obj[p].m_OccupyMsqID, None, msq'[Occupy].gen}
        /\ obj'[p].m_FreeMsqID \in {obj[p].m_FreeMsqID, None}
    BY <1>0, <1>18, OpenFailsDoes DEF ObjectIs
  <2> QED BY <1>0, <1>1, <1>3, <1>5, <2>1 DEF IdsFit
<1>19. CASE FreeLost(p)
  <2>1. /\ pc'[p] \in {"open_count", "unlock"} /\ pc[p] = "open_free"
        /\ hand' = hand /\ shm' = shm
        /\ obj'[p].m_IsOpen => obj[p].m_IsOpen
        /\ obj'[p].m_MsgQueueInfo = obj[p].m_MsgQueueInfo
        /\ obj'[p].m_OccupyMsqID = obj[p].m_OccupyMsqID /\ obj'[p].m_FreeMsqID = None
    BY <1>0, <1>19, FreeLostDoes DEF ObjectIs
  <2> QED BY <1>0, <1>1, <1>3, <1>5, <2>1 DEF IdsFit
<1>20. CASE OpenInit(p)
  <2>1. /\ pc'[p] = "open_count" /\ pc[p] = "open_init" /\ shm' = shm /\ obj' = obj /\ hand' = hand
    <3>1. /\ pc[p] = "open_init" /\ pc' = [pc EXCEPT ![p] = "open_count"]
          /\ UNCHANGED <<shm, obj, hand>>
      BY <1>20 DEF OpenInit, Goto
    <3> QED BY <1>0, <1>1, <3>1
  <2> QED BY <1>0, <1>1, <1>3, <1>5, <2>1 DEF IdsFit
<1>21. CASE OpenCount(p)
  <2>1. /\ pc[p] = "open_count" /\ pc' = [pc EXCEPT ![p] = "unlock"] /\ shm' = shm /\ hand' = hand
        /\ obj[p].m_MsgQueueInfo \in Generation
    BY <1>21, OpenCountDoes
  <2>2. /\ obj'[p].m_MsgQueueInfo = obj[p].m_MsgQueueInfo
        /\ obj'[p].m_OccupyMsqID = obj[p].m_OccupyMsqID /\ obj'[p].m_FreeMsqID = obj[p].m_FreeMsqID
    BY <1>21, OpenCountDoes DEF ObjectIs
  <2>3. pc'[p] = "unlock"
    BY <1>0, <1>1, <2>1
  <2> QED BY <1>0, <1>1, <1>3, <1>5, <2>1, <2>2, <2>3 DEF IdsFit
<1>22. CASE SendCopy(p)
  BY <1>0, <1>5, <1>22, SendCopyDoes DEF IdsFit
<1>23. CASE SendPost(p)
  <2>1. /\ pc'[p] = "idle" /\ pc[p] = "send_post" /\ shm' = shm /\ obj' = obj /\ hand'[p] = None
    BY <1>0, <1>1, <1>5, <1>23, SendPostDoes
  <2> QED BY <1>0, <1>1, <1>3, <1>5, <2>1 DEF IdsFit
<1>24. CASE RecvCopy(p)
  BY <1>0, <1>5, <1>24, RecvCopyDoes DEF IdsFit
<1>25. CASE RecvGive(p)
  <2>1. /\ pc'[p] = "idle" /\ pc[p] = "recv_give" /\ shm' = shm /\ obj' = obj /\ hand'[p] = None
    BY <1>0, <1>1, <1>5, <1>25, RecvGiveDoes
  <2> QED BY <1>0, <1>1, <1>3, <1>5, <2>1 DEF IdsFit
<1>26. CASE CloseCount(p)
  <2>1. /\ pc[p] = "close" /\ pc'[p] \in {"unlock", "rm_shm"} /\ shm' = shm /\ hand' = hand
    BY <1>0, <1>1, <1>26, CloseCountDoes
  <2>2. /\ obj'[p].m_MsgQueueInfo = obj[p].m_MsgQueueInfo
        /\ obj'[p].m_OccupyMsqID = obj[p].m_OccupyMsqID /\ obj'[p].m_FreeMsqID = obj[p].m_FreeMsqID
        /\ obj'[p].m_IsOpen => obj[p].m_IsOpen
    BY <1>26, CloseCountDoes DEF ObjectIs
  <2> QED BY <1>0, <1>1, <1>3, <1>5, <2>1, <2>2 DEF IdsFit
<1>27. CASE RemoveShm(p)
  BY <1>0, <1>1, <1>3, <1>5, <1>27, RemoveShmDoes DEF IdsFit
<1>28. CASE RemoveOccupy(p)
  BY <1>0, <1>1, <1>3, <1>5, <1>28, RemoveOccupyDoes DEF IdsFit
<1>29. CASE RemoveFree(p)
  <2>1. /\ pc'[p] = "unlock" /\ pc[p] = "rm_free" /\ hand' = hand /\ ~obj'[p].m_IsOpen /\ shm' = shm
        /\ obj'[p].m_MsgQueueInfo = obj[p].m_MsgQueueInfo
        /\ obj'[p].m_OccupyMsqID = obj[p].m_OccupyMsqID /\ obj'[p].m_FreeMsqID = obj[p].m_FreeMsqID
    BY <1>0, <1>29, RemoveFreeDoes DEF ObjectIs
  <2> QED BY <1>0, <1>1, <1>3, <1>5, <2>1 DEF IdsFit
<1>30. CASE Crash(p)
  <2>1. /\ pc'[p] = "idle" /\ hand'[p] = None /\ ~obj'[p].m_IsOpen
        /\ obj'[p].m_MsgQueueInfo = None /\ obj'[p].m_OccupyMsqID = None /\ obj'[p].m_FreeMsqID = None
    BY <1>0, <1>30, CrashDoes DEF ObjectIs
  <2> QED BY <1>0, <1>1, <2>1 DEF IdsFit
<1> QED BY <1>6, <1>7, <1>8, <1>9, <1>10, <1>11, <1>12, <1>13, <1>14, <1>15, <1>16, <1>17, <1>18,
           <1>19, <1>20, <1>21, <1>22, <1>23, <1>24, <1>25, <1>26, <1>27, <1>28, <1>29, <1>30
        DEF Action

\* The initial states satisfy TypeInv,
LEMMA TypeInvInit == Init => TypeInv
<1> SUFFICES ASSUME Init PROVE TypeInv
  OBVIOUS
<1> USE KeysDistinct, BlocksFit, Values
<1>1. msq \in [Keys -> Queues] /\ \A k \in Keys : msq[k].gen = 0 /\ msq[k].live = FALSE /\ msq[k].msgs = <<>>
  BY EmptySeq DEF Init, Queues
<1>2. \A k \in {Occupy, Free} : \A n \in DOMAIN msq[k].msgs : msq[k].msgs[n] \in Index
  <2>1. \A n \in DOMAIN <<>> : FALSE
    OBVIOUS
  <2> QED BY <1>1, <2>1
<1>3. shm \in [gen : Nat, live : BOOLEAN] /\ shm.gen = 0 /\ shm.live = FALSE
  BY DEF Init
<1>4. mem \in [Generation -> Segments] /\ meant \in [Generation -> [Index -> Payload]]
  BY DEF Init, NewMemory, Segments
<1>5. obj \in [Proc -> Objects]
  BY DEF Init, NewObject, Objects
<1>6. /\ pc \in [Proc -> Places] /\ hand \in [Proc -> Index \cup {None}]
      /\ data \in [Proc -> Payload] /\ ret \in [Proc -> {0, -1}]
  BY DEF Init, Places
<1>7. TypeOK
  BY <1>1, <1>2, <1>3, <1>4, <1>5, <1>6 DEF TypeOK
<1>8. CountOK /\ count.open = 0
  BY DEF Init, CountOK
<1>9. GenerationsLast
  <2>1. Before(ToFree) = {} /\ Before(ToLock) = {} /\ Before(ToAttach) = {}
    BY DEF Init, Before, ToFree, ToLock, ToAttach
  <2> QED BY <1>1, <1>3, <1>8, <2>1, FS_EmptySet DEF GenerationsLast
<1>10. IdsOK
  BY <1>1, <1>3 DEF Init, IdsOK, IdsFit, NewObject, InBlock, None
<1>11. NotUsedYet
  BY <1>1, <1>3 DEF Init, NotUsedYet
<1>12. EmptyWhenGone
  BY <1>1 DEF EmptyWhenGone
<1> QED BY <1>7, <1>8, <1>9, <1>10, <1>11, <1>12 DEF TypeInv

\* every action keeps it,
LEMMA TypeInvAction ==
    ASSUME TypeInv, NEW p \in Proc, Action(p) PROVE TypeInv'
<1>1. TypeOK'
  BY MsqStep, ShmStep, MemStep, ObjStep, PcStep, LocalStep DEF TypeOK
<1> QED BY <1>1, CountStep, GenerationsStep, IdsStep, NotUsedYetStep, EmptyStep DEF TypeInv

\* and so does every step.
LEMMA TypeInvStep == TypeInv /\ [Next]_vars => TypeInv'
<1>1. ASSUME TypeInv, UNCHANGED vars PROVE TypeInv'
  BY <1>1 DEF vars, TypeInv, TypeOK, CountOK, GenerationsLast, IdsOK, IdsFit, NotUsedYet, EmptyWhenGone, Before
<1> QED BY <1>1, TypeInvAction, NextAction

\* The first part of the inductive invariant: the types, an open for every object
\* that was created, no identifier newer than its object, and nothing in a
\* generation that is yet to come.  Counting the calls of open is what bounds the
\* generations: [mem] has a place for each segment that is ever created.
THEOREM TypeInvHolds == Spec => []TypeInv
  BY TypeInvInit, TypeInvStep, PTL DEF Spec

\* Every variable keeps its type: a message in either queue is the index of a
\* block, whatever the order in which the kernel's objects are created, removed
\* and used through identifiers that are out of date.
THEOREM Typed == Spec => []TypeOK
<1>1. TypeInv => TypeOK
  BY DEF TypeInv
<1> QED BY <1>1, TypeInvHolds, PTL

-----------------------------------------------------------------------------

\* What a step does to the lock: nothing that gives p the lock; taking the token;
\* giving it back; making the queue; or opening it.
LEMMA LockMoves ==
    ASSUME TypeInv, NEW p \in Proc, Action(p)
    PROVE  \/ /\ msq'[Lock].gen = msq[Lock].gen /\ msq'[Lock].live = msq[Lock].live
              /\ msq'[Lock].msgs = msq[Lock].msgs
              /\ obj'[p].m_ProcLockID = obj[p].m_ProcLockID
              /\ Holding(p)' => Holding(p) \/ ~Valid(Lock, obj[p].m_ProcLockID)
              /\ pc'[p] # "lock_init"
           \/ /\ Valid(Lock, obj[p].m_ProcLockID) /\ msq[Lock].msgs # <<>>
              /\ Taken(Lock) /\ obj'[p].m_ProcLockID = obj[p].m_ProcLockID
              /\ pc'[p] # "lock_init"
           \/ /\ pc[p] = "lock_init" \/ (pc[p] = "unlock" /\ Locked(p))
              /\ ~Holding(p)' /\ pc'[p] # "lock_init"
              /\ msq'[Lock].gen = msq[Lock].gen /\ msq'[Lock].live = msq[Lock].live
              /\ \E m \in {0, 1} : msq'[Lock].msgs = Append(msq[Lock].msgs, m)
              /\ obj'[p].m_ProcLockID = obj[p].m_ProcLockID
           \/ /\ ~msq[Lock].live /\ Made(Lock)
              /\ obj'[p].m_ProcLockID = msq'[Lock].gen
           \/ /\ msq[Lock].live /\ msq' = msq /\ obj'[p].m_ProcLockID = msq[Lock].gen
              /\ ~Holding(p)' /\ pc'[p] # "lock_init"
           \/ /\ msq' = msq \/ (~msq[Lock].live /\ Made(Lock))
              /\ obj'[p].m_ProcLockID = None /\ pc'[p] # "lock_init"
<1> USE KeysDistinct DEF Holding, Locked, Critical
<1>0. pc \in [Proc -> Places]
  BY PcType
<1>1. CASE Open(p)
  BY <1>0, <1>1, OpenDoes DEF ObjectIs
<1>2. CASE SendTake(p)
  <2>1. pc'[p] = "send_copy" /\ obj' = obj /\ msq'[Lock] = msq[Lock]
    BY <1>0, <1>2, SendTakeDoes DEF OthersSame
  <2> QED BY <2>1
<1>3. CASE RecvTake(p)
  <2>1. pc'[p] = "recv_copy" /\ obj' = obj /\ msq'[Lock] = msq[Lock]
    BY <1>0, <1>3, RecvTakeDoes DEF OthersSame
  <2> QED BY <2>1
<1>4. CASE Close(p) \/ Release(p) \/ LockFails(p)
  <2>1. pc'[p] \in {"close_lock", "release_lock", "idle"} /\ obj' = obj /\ msq' = msq
    BY <1>0, <1>4, CloseDoes, ReleaseDoes, LockFailsDoes
  <2> QED BY <2>1
<1>5. CASE AcquireLock(p)
  <2>1. pc'[p] \in {"open_attach", "close", "rm_shm"} /\ obj' = obj
    BY <1>0, <1>5, AcquireLockDoes
  <2>2. \/ ~Valid(Lock, obj[p].m_ProcLockID) /\ UNCHANGED msq
        \/ Valid(Lock, obj[p].m_ProcLockID) /\ msq[Lock].msgs # <<>> /\ Taken(Lock)
    BY <1>5, AcquireLockDoes
  <2> QED BY <2>1, <2>2
<1>6. CASE LockCreate(p)
  <2>1. \/ ~msq[Lock].live /\ Made(Lock)
        \/ msq[Lock].live /\ pc'[p] = "open_lock" /\ UNCHANGED msq
    BY <1>0, <1>6, LockCreateDoes
  <2>2. obj'[p].m_ProcLockID = msq'[Lock].gen
    BY <1>6, LockCreateDoes DEF ObjectIs
  <2> QED BY <2>1, <2>2
<1>7. CASE LockLost(p) \/ Crash(p)
  <2>1. /\ msq' = msq \/ (~msq[Lock].live /\ Made(Lock))
        /\ obj'[p].m_ProcLockID = None /\ pc'[p] \in {"open_lock", "idle"}
    BY <1>0, <1>7, LockLostDoes, CrashDoes DEF ObjectIs
  <2> QED BY <2>1
<1>8. CASE LockInit(p)
  <2>1. pc[p] = "lock_init" /\ pc'[p] \in {"open_lock", "idle"} /\ obj' = obj
    BY <1>0, <1>8, LockInitDoes
  <2>2. /\ msq'[Lock].gen = msq[Lock].gen /\ msq'[Lock].live = msq[Lock].live
        /\ msq'[Lock].msgs = msq[Lock].msgs \/ msq'[Lock].msgs = Append(msq[Lock].msgs, 0)
    BY <1>8, LockInitDoes DEF Becomes
  <2> QED BY <2>1, <2>2
<1>9. CASE Unlock(p)
  <2>1. pc[p] = "unlock" /\ pc'[p] = "idle" /\ obj' = obj
    BY <1>0, <1>9, UnlockDoes
  <2>2. \/ UNCHANGED msq
        \/ Valid(Lock, obj[p].m_ProcLockID) /\ Put(Lock, 1)
    BY <1>9, UnlockDoes
  <2>3. Valid(Lock, obj[p].m_ProcLockID) => obj[p].m_ProcLockID # None
    <3>1. msq[Lock].gen \in Nat
      BY GenerationsAre
    <3> QED BY <3>1 DEF Valid, None
  <2> QED BY <2>1, <2>2, <2>3 DEF Put, Becomes
<1>10. CASE OpenAttach(p) \/ OpenFree(p) \/ OpenFails(p)
  <2>1. /\ pc[p] \in {"open_attach", "open_free"}
        /\ pc'[p] \in {"open_free", "open_init", "open_count", "unlock"}
    BY <1>0, <1>10, OpenAttachDoes, OpenFreeDoes, OpenFailsDoes
  <2>2. obj'[p].m_ProcLockID = obj[p].m_ProcLockID
    BY <1>10, OpenAttachDoes, OpenFreeDoes, OpenFailsDoes DEF ObjectIs
  <2>3. msq'[Lock] = msq[Lock]
    BY <1>10, OpenAttachDoes, OpenFreeDoes, OpenFailsDoes DEF OthersSame
  <2> QED BY <2>1, <2>2, <2>3
<1>11. CASE FreeLost(p) \/ OpenInit(p) \/ OpenCount(p) \/ CloseCount(p)
  <2>1. /\ pc[p] \in {"open_free", "open_init", "open_count", "close"}
        /\ pc'[p] \in {"open_count", "unlock", "rm_shm"}
    BY <1>0, <1>11 DEF FreeLost, OpenInit, OpenCount, CloseCount, Goto
  <2>2. obj'[p].m_ProcLockID = obj[p].m_ProcLockID
    BY <1>11, FreeLostDoes, OpenInitDoes, OpenCountDoes, CloseCountDoes DEF ObjectIs
  <2>3. msq'[Lock] = msq[Lock]
    BY <1>11, FreeLostDoes, OpenInitDoes DEF OpenCount, CloseCount, OthersSame
  <2> QED BY <2>1, <2>2, <2>3
<1>12. CASE SendCopy(p) \/ SendPost(p) \/ RecvCopy(p) \/ RecvGive(p)
  <2>1. pc'[p] \in {"send_post", "recv_give", "idle"} /\ obj' = obj
    BY <1>0, <1>12, SendCopyDoes, SendPostDoes, RecvCopyDoes, RecvGiveDoes
  <2>2. msq'[Lock] = msq[Lock]
    BY <1>12, SendCopyDoes, SendPostDoes, RecvCopyDoes, RecvGiveDoes DEF OthersSame
  <2> QED BY <2>1, <2>2
<1>13. CASE RemoveShm(p) \/ RemoveOccupy(p) \/ RemoveFree(p)
  <2>1. /\ pc[p] \in {"rm_shm", "rm_occupy", "rm_free"}
        /\ pc'[p] \in {"rm_occupy", "rm_free", "unlock"}
    BY <1>0, <1>13, RemoveShmDoes, RemoveOccupyDoes, RemoveFreeDoes
  <2>2. obj'[p].m_ProcLockID = obj[p].m_ProcLockID
    BY <1>13, RemoveShmDoes, RemoveOccupyDoes, RemoveFreeDoes DEF ObjectIs
  <2>3. msq'[Lock] = msq[Lock]
    BY <1>13, RemoveShmDoes, RemoveOccupyDoes, RemoveFreeDoes DEF OthersSame
  <2> QED BY <2>1, <2>2, <2>3
<1> QED BY <1>1, <1>2, <1>3, <1>4, <1>5, <1>6, <1>7, <1>8, <1>9, <1>10, <1>11, <1>12, <1>13 DEF Action

\* Every action keeps the lock.
LEMMA LockInvStep ==
    ASSUME TypeInv, LockInv, NEW p \in Proc, Action(p)
    PROVE  LockInv'
<1> DEFINE s == msq[Lock].msgs
           gen == msq[Lock].gen
           live == msq[Lock].live
<1>1. s \in Seq(Nat) /\ Len(s) \in Nat /\ gen \in Nat /\ live \in BOOLEAN /\ None = -1
  BY KeysDistinct, QueueType, LenProperties DEF TypeInv, None
<1>2. /\ ~live => s = <<>>
      /\ Len(s) <= 1
      /\ \A q \in Proc :
            /\ Locked(q) => live /\ gen = obj[q].m_ProcLockID
            /\ pc[q] = "lock_init" => Locked(q)
            /\ Holding(q) => s = <<>>
      /\ \A q, r \in Proc : Holding(q) /\ Holding(r) => q = r
  BY DEF LockInv, Valid
<1>3. ASSUME NEW q \in Proc, q # p
      PROVE  (Locked(q)' <=> Locked(q)) /\ (Holding(q)' <=> Holding(q)) /\ pc'[q] = pc[q]
             /\ obj'[q].m_ProcLockID = obj[q].m_ProcLockID
  BY <1>3, Frame DEF Locked, Holding
<1>4. Holding(p) => Locked(p)
  BY DEF Holding
<1>5. Holding(p)' => Locked(p)'
  BY DEF Holding
<1>6. Locked(p)' <=> obj'[p].m_ProcLockID # None
  BY DEF Locked
<1>7. Locked(p) <=> obj[p].m_ProcLockID # None
  BY DEF Locked
<1>8. SUFFICES
      /\ ~msq'[Lock].live => msq'[Lock].msgs = <<>>
      /\ Len(msq'[Lock].msgs) <= 1
      /\ \A q \in Proc :
            /\ Locked(q)' => msq'[Lock].live /\ msq'[Lock].gen = obj'[q].m_ProcLockID
            /\ pc'[q] = "lock_init" => Locked(q)'
            /\ Holding(q)' => msq'[Lock].msgs = <<>>
      /\ \A q, r \in Proc : Holding(q)' /\ Holding(r)' => q = r
  BY DEF LockInv, Valid
<1> HIDE DEF s, gen, live
<1>9. CASE /\ msq'[Lock].gen = msq[Lock].gen /\ msq'[Lock].live = msq[Lock].live
           /\ msq'[Lock].msgs = msq[Lock].msgs
           /\ obj'[p].m_ProcLockID = obj[p].m_ProcLockID
           /\ Holding(p)' => Holding(p) \/ ~Valid(Lock, obj[p].m_ProcLockID)
           /\ pc'[p] # "lock_init"
  <2>1. Holding(p)' => Holding(p)
    BY <1>2, <1>5, <1>6, <1>7, <1>9 DEF Valid, live, gen
  <2> QED BY <1>1, <1>2, <1>3, <1>6, <1>7, <1>9, <2>1 DEF s, gen, live
<1>10. CASE /\ Valid(Lock, obj[p].m_ProcLockID) /\ msq[Lock].msgs # <<>>
            /\ Taken(Lock) /\ obj'[p].m_ProcLockID = obj[p].m_ProcLockID
            /\ pc'[p] # "lock_init"
  <2>1. Len(s) = 1 /\ Tail(s) = <<>> /\ Len(Tail(s)) = 0
    <3>1. s # <<>> /\ Len(s) # 0
      BY <1>1, <1>10, EmptySeq DEF s
    <3>2. Tail(s) \in Seq(Nat) /\ Len(Tail(s)) = Len(s) - 1
      BY <1>1, <3>1, HeadTailProperties
    <3>3. Len(Tail(s)) = 0
      BY <1>1, <1>2, <3>1, <3>2
    <3> QED BY <1>1, <1>2, <3>1, <3>2, <3>3, EmptySeq
  <2>2. \A q \in Proc : ~Holding(q)
    BY <1>2, <1>10 DEF s
  <2>3. msq'[Lock].msgs = Tail(s) /\ msq'[Lock].gen = gen /\ msq'[Lock].live = live
    BY <1>10 DEF Taken, Becomes, s, gen, live
  <2> QED BY <1>1, <1>2, <1>3, <1>6, <1>7, <1>10, <2>1, <2>2, <2>3
<1>11. CASE /\ pc[p] = "lock_init" \/ (pc[p] = "unlock" /\ Locked(p))
            /\ ~Holding(p)' /\ pc'[p] # "lock_init"
            /\ msq'[Lock].gen = msq[Lock].gen /\ msq'[Lock].live = msq[Lock].live
            /\ \E m \in {0, 1} : msq'[Lock].msgs = Append(msq[Lock].msgs, m)
            /\ obj'[p].m_ProcLockID = obj[p].m_ProcLockID
  <2>1. Holding(p) /\ Locked(p)
    BY <1>2, <1>11 DEF Holding, Critical
  <2>2. s = <<>> /\ live
    BY <1>2, <2>1
  <2>3. \A m \in {0, 1} : Len(Append(s, m)) = 1
    BY <1>1, <2>2, AppendProperties
  <2>4. \A q \in Proc : ~Holding(q)'
    BY <1>2, <1>3, <1>11, <2>1
  <2> QED BY <1>1, <1>2, <1>3, <1>6, <1>7, <1>11, <2>2, <2>3, <2>4 DEF s, gen, live
<1>12. CASE /\ ~msq[Lock].live /\ Made(Lock)
            /\ obj'[p].m_ProcLockID = msq'[Lock].gen
  <2>1. \A q \in Proc : ~Locked(q) /\ ~Holding(q)
    BY <1>2, <1>12 DEF live, Holding
  <2>2. msq'[Lock].live /\ msq'[Lock].msgs = <<>> /\ msq'[Lock].gen = gen + 1
    BY <1>12 DEF Made, Becomes, gen
  <2>3. Len(<<>>) = 0
    OBVIOUS
  <2> QED BY <1>1, <1>2, <1>3, <1>6, <1>12, <2>1, <2>2, <2>3
<1>13. CASE /\ msq[Lock].live /\ msq' = msq /\ obj'[p].m_ProcLockID = msq[Lock].gen
            /\ ~Holding(p)' /\ pc'[p] # "lock_init"
  BY <1>1, <1>2, <1>3, <1>6, <1>13 DEF s, gen, live
<1>14. CASE msq' = msq /\ obj'[p].m_ProcLockID = None /\ pc'[p] # "lock_init"
  BY <1>1, <1>2, <1>3, <1>5, <1>6, <1>14 DEF s, gen, live
<1>15. CASE /\ ~msq[Lock].live /\ Made(Lock)
            /\ obj'[p].m_ProcLockID = None /\ pc'[p] # "lock_init"
  <2>1. \A q \in Proc : ~Locked(q) /\ ~Holding(q)
    BY <1>2, <1>15 DEF live, Holding
  <2>2. msq'[Lock].live /\ msq'[Lock].msgs = <<>> /\ msq'[Lock].gen = gen + 1
    BY <1>15 DEF Made, Becomes, gen
  <2>3. Len(<<>>) = 0
    OBVIOUS
  <2> QED BY <1>1, <1>2, <1>3, <1>5, <1>6, <1>15, <2>1, <2>2, <2>3
<1> QED BY <1>9, <1>10, <1>11, <1>12, <1>13, <1>14, <1>15, LockMoves

\* Nobody has the lock initially.
LEMMA LockInvInit == Init => LockInv
<1> SUFFICES ASSUME Init PROVE LockInv
  OBVIOUS
<1>1. msq[Lock].live = FALSE /\ msq[Lock].msgs = <<>>
  BY KeysDistinct DEF Init
<1>2. \A p \in Proc : ~Locked(p) /\ ~Holding(p) /\ pc[p] = "idle"
  BY DEF Init, Locked, Holding, NewObject
<1>3. Len(<<>>) = 0
  OBVIOUS
<1> QED BY <1>1, <1>2, <1>3 DEF LockInv

\* Every step keeps the lock.
LEMMA LockInvNext == TypeInv /\ LockInv /\ [Next]_vars => LockInv'
<1>1. ASSUME TypeInv, LockInv, UNCHANGED vars PROVE LockInv'
  BY <1>1 DEF vars, LockInv, Valid, Locked, Holding
<1> QED BY <1>1, LockInvStep, NextAction

\* The lock queue holds at most one token, and none while a process that found the
\* queue is between taking it and giving it back.
THEOREM LockInvHolds == Spec => []LockInv
  BY LockInvInit, LockInvNext, TypeInvHolds, PTL DEF Spec

\* One process at a time is between acquire and release of the lock (open, close
\* and release of MSGQueueForProc, which begin and end with a message on the lock
\* queue), for processes that got an identifier of it, kills included.
THEOREM LockAdmitsOne == Spec => []LockExclusive
<1>1. ASSUME TypeInv, LockInv PROVE LockExclusive
  <2>1. Len(msq[Lock].msgs) \in Nat /\ Len(msq[Lock].msgs) <= 1
    BY <1>1, KeysDistinct, QueueType, LenProperties DEF TypeInv, LockInv
  <2>2. Inside \subseteq {p \in Proc : Holding(p)}
    BY DEF Inside, Holding, Locked
  <2>3. CASE Inside = {}
    BY <2>1, <2>3, FS_EmptySet DEF LockExclusive
  <2>4. CASE Inside # {}
    <3>1. PICK p \in Proc : p \in Inside /\ Holding(p)
      BY <2>2, <2>4
    <3>2. Inside = {p} /\ msq[Lock].msgs = <<>>
      BY <1>1, <2>2, <3>1 DEF LockInv
    <3>3. Cardinality({p}) = 1 /\ Len(<<>>) = 0
      BY FS_Singleton
    <3> QED BY <3>2, <3>3 DEF LockExclusive
  <2> QED BY <2>3, <2>4
<1> QED BY <1>1, TypeInvHolds, LockInvHolds, PTL

-----------------------------------------------------------------------------
(* What the parts below have in common.                                    *)

\* Troubles are counted and not forgotten.
LEMMA TroubleIs ==
    ASSUME TypeInv, NEW kind \in {"release", "crash", "fail", "lost"}, Trouble(kind)
    PROVE  /\ count'.release = count.release + (IF kind = "release" THEN 1 ELSE 0)
           /\ count'.crash = count.crash + (IF kind = "crash" THEN 1 ELSE 0)
           /\ count'.fail = count.fail + (IF kind = "fail" THEN 1 ELSE 0)
           /\ count'.lost = count.lost + (IF kind = "lost" THEN 1 ELSE 0)
           /\ count'.again = count.again
  BY CountType DEF Trouble

\* The good runs come from good runs only.
LEMMA TroubleMoves ==
    ASSUME TypeInv, NEW p \in Proc, Action(p)
    PROVE  /\ count'.lost = 0 => count.lost = 0 /\ ~LockLost(p) /\ ~FreeLost(p)
           /\ count'.fail = 0 => count.fail = 0 /\ ~OpenFails(p) /\ ~LockFails(p)
           /\ count'.release = 0 => count.release = 0 /\ ~Release(p)
           /\ count'.crash = 0 => count.crash = 0 /\ ~Crash(p)
           /\ Orderly' => Orderly /\ ~LockLost(p) /\ ~FreeLost(p)
           /\ ~count'.again => ~count.again /\ (OpenCount(p) => ~obj[p].m_IsOpen)
<1>1. /\ count.release \in Nat /\ count.crash \in Nat /\ count.fail \in Nat /\ count.lost \in Nat
      /\ count.again \in BOOLEAN /\ obj[p].m_IsOpen \in BOOLEAN
      /\ count'.release \in Nat /\ count'.crash \in Nat /\ count'.fail \in Nat /\ count'.lost \in Nat
  BY CountType, ObjOf, CountStep DEF CountOK
<1> DEFINE Counted(release, crash, fail, lost) ==
               /\ count'.release = count.release + release /\ count'.crash = count.crash + crash
               /\ count'.fail = count.fail + fail /\ count'.lost = count.lost + lost
<1>2. Release(p) => Counted(1, 0, 0, 0) /\ count'.again = count.again
  BY <1>1, TroubleIs DEF Release
<1>3. Crash(p) => Counted(0, 1, 0, 0) /\ count'.again = count.again
  BY <1>1, TroubleIs DEF Crash
<1>4. OpenFails(p) \/ LockFails(p) => Counted(0, 0, 1, 0) /\ count'.again = count.again
  <2>1. OpenFails(p) \/ LockFails(p) => Trouble("fail")
    BY DEF OpenFails, LockFails
  <2> QED BY <1>1, <2>1, TroubleIs
<1>5. LockLost(p) \/ FreeLost(p) => Counted(0, 0, 0, 1) /\ count'.again = count.again
  <2>1. LockLost(p) \/ FreeLost(p) => Trouble("lost")
    BY DEF LockLost, FreeLost
  <2> QED BY <1>1, <2>1, TroubleIs
<1>6. OpenCount(p) => Counted(0, 0, 0, 0) /\ count'.again = (count.again \/ obj[p].m_IsOpen)
  BY <1>1, CountType DEF OpenCount
<1>7. Open(p) \/ SendTake(p) => Counted(0, 0, 0, 0) /\ count'.again = count.again
  <2>1. Open(p) => count' = [count EXCEPT !.open = @ + 1]
    BY DEF Open
  <2>2. SendTake(p) => count' = [count EXCEPT !.send = @ + 1]
    BY DEF SendTake
  <2>3. CASE Open(p)
    BY <1>1, <2>1, <2>3, CountType
  <2>4. CASE SendTake(p)
    BY <1>1, <2>2, <2>4, CountType
  <2> QED BY <2>3, <2>4
<1>8. \/ RecvTake(p) \/ Close(p) \/ AcquireLock(p) \/ LockCreate(p) \/ LockInit(p) \/ Unlock(p)
      \/ OpenAttach(p) \/ OpenFree(p) \/ OpenInit(p) \/ SendCopy(p) \/ SendPost(p) \/ RecvCopy(p)
      \/ RecvGive(p) \/ CloseCount(p) \/ RemoveShm(p) \/ RemoveOccupy(p) \/ RemoveFree(p)
      => Counted(0, 0, 0, 0) /\ count'.again = count.again
  <2>1. \/ RecvTake(p) \/ Close(p) \/ AcquireLock(p) \/ LockCreate(p) \/ LockInit(p) \/ Unlock(p)
        \/ OpenAttach(p) \/ OpenFree(p)
        => count' = count
    BY DEF RecvTake, Close, AcquireLock, TakeToken, LockCreate, LockInit, Unlock, OpenAttach, OpenFree
  <2>2. \/ OpenInit(p) \/ SendCopy(p) \/ SendPost(p) \/ RecvCopy(p) \/ RecvGive(p) \/ CloseCount(p)
        \/ RemoveShm(p) \/ RemoveOccupy(p) \/ RemoveFree(p)
        => count' = count
    BY DEF OpenInit, SendCopy, SendPost, RecvCopy, RecvGive, CloseCount, RemoveShm, RemoveOccupy, RemoveFree
  <2>3. count' = count => Counted(0, 0, 0, 0) /\ count'.again = count.again
    BY <1>1
  <2> HIDE DEF Counted
  <2> QED BY <2>1, <2>2, <2>3
<1>9. \/ Release(p) \/ Crash(p) \/ LockFails(p) \/ OpenFails(p) \/ LockLost(p) \/ FreeLost(p) \/ OpenCount(p)
      \/ (Counted(0, 0, 0, 0) /\ count'.again = count.again)
  BY <1>7, <1>8 DEF Action
<1>10. /\ count'.release >= count.release /\ count'.crash >= count.crash /\ count'.fail >= count.fail
       /\ count'.lost >= count.lost
  BY <1>1, <1>2, <1>3, <1>4, <1>5, <1>6, <1>9
<1>11. /\ count'.lost = 0 => count.lost = 0 /\ ~LockLost(p) /\ ~FreeLost(p)
       /\ count'.fail = 0 => count.fail = 0 /\ ~OpenFails(p) /\ ~LockFails(p)
       /\ count'.release = 0 => count.release = 0 /\ ~Release(p)
       /\ count'.crash = 0 => count.crash = 0 /\ ~Crash(p)
  BY <1>1, <1>2, <1>3, <1>4, <1>5, <1>10
<1>12. ~count'.again => ~count.again /\ (OpenCount(p) => ~obj[p].m_IsOpen)
  BY <1>1, <1>2, <1>3, <1>4, <1>5, <1>6, <1>9
<1> QED BY <1>11, <1>12 DEF Orderly

\* The steps that create, remove and count nothing.
Quiet(p) ==
    \/ Open(p) \/ Close(p) \/ Release(p) \/ LockFails(p) \/ AcquireLock(p) \/ LockCreate(p) \/ LockInit(p) \/ Unlock(p)
    \/ SendTake(p) \/ SendCopy(p) \/ SendPost(p) \/ RecvTake(p) \/ RecvCopy(p) \/ RecvGive(p)

\* The fields of its object that a process keeps.
Keeps(p) ==
    /\ obj'[p].m_IsOpen = obj[p].m_IsOpen /\ obj'[p].m_MsgQueueInfo = obj[p].m_MsgQueueInfo
    /\ obj'[p].m_OccupyMsqID = obj[p].m_OccupyMsqID /\ obj'[p].m_FreeMsqID = obj[p].m_FreeMsqID

\* Queue k is the same, its messages apart.
SameQueue(k) ==
    msq'[k].gen = msq[k].gen /\ msq'[k].live = msq[k].live /\ msq'[k].qbytes = msq[k].qbytes

OpenPlaces == {"open_free", "open_init", "open_count"}
RemovePlaces == {"rm_shm", "rm_occupy", "rm_free"}

\* What those steps leave alone.
LEMMA QuietDoes ==
    ASSUME TypeInv, NEW p \in Proc, Quiet(p)
    PROVE  /\ shm' = shm /\ SameQueue(Occupy) /\ SameQueue(Free) /\ Keeps(p)
           /\ \A g \in Generation : mem'[g].referenceCount = mem[g].referenceCount
           /\ pc[p] \notin OpenPlaces \cup RemovePlaces
           /\ pc'[p] \notin OpenPlaces \cup {"rm_occupy", "rm_free"}
           /\ pc'[p] = "rm_shm" => pc[p] = "release_lock"
           /\ pc'[p] = "release_lock" => Release(p)
           /\ \/ msq'[Occupy].msgs = msq[Occupy].msgs /\ msq'[Free].msgs = msq[Free].msgs
              \/ User(p)
<1> USE KeysDistinct DEF OpenPlaces, RemovePlaces
<1>0. pc \in [Proc -> Places]
  BY PcType
<1>1. CASE Open(p) \/ Close(p) \/ Release(p) \/ LockFails(p) \/ AcquireLock(p) \/ LockCreate(p) \/ LockInit(p) \/ Unlock(p)
  <2>1. shm' = shm /\ mem' = mem
    BY <1>1 DEF Open, Close, Release, LockFails, AcquireLock, TakeToken, LockCreate, LockInit, Unlock
  <2>2. msq'[Occupy] = msq[Occupy] /\ msq'[Free] = msq[Free]
    BY <1>1, OpenDoes, CloseDoes, ReleaseDoes, LockFailsDoes, AcquireLockDoes, LockCreateDoes, LockInitDoes, UnlockDoes
       DEF OthersSame
  <2>3. Keeps(p)
    BY <1>1, OpenDoes, CloseDoes, ReleaseDoes, LockFailsDoes, AcquireLockDoes, LockCreateDoes, LockInitDoes, UnlockDoes
       DEF ObjectIs, Keeps
  <2>4. /\ pc[p] \in {"idle", "open_lock", "close_lock", "release_lock", "lock_create", "lock_init", "unlock"}
        /\ pc'[p] \in {"lock_create", "close_lock", "release_lock", "open_attach", "close", "rm_shm",
                       "lock_init", "open_lock", "idle"}
        /\ pc'[p] = "rm_shm" => pc[p] = "release_lock"
        /\ pc'[p] = "release_lock" => Release(p)
    BY <1>0, <1>1, OpenDoes, CloseDoes, ReleaseDoes, LockFailsDoes, AcquireLockDoes, LockCreateDoes, LockInitDoes, UnlockDoes
  <2> QED BY <2>1, <2>2, <2>3, <2>4 DEF SameQueue
<1>2. CASE SendTake(p) \/ SendCopy(p) \/ SendPost(p) \/ RecvTake(p) \/ RecvCopy(p) \/ RecvGive(p)
  <2>1. shm' = shm /\ obj' = obj
    BY <1>2 DEF SendTake, SendCopy, SendPost, RecvTake, RecvCopy, RecvGive
  <2>2. SameQueue(Occupy) /\ SameQueue(Free)
    BY <1>2, SendTakeDoes, SendCopyDoes, SendPostDoes, RecvTakeDoes, RecvCopyDoes, RecvGiveDoes
       DEF OthersSame, Taken, Put, Becomes, SameQueue
  <2>3. \A g \in Generation : mem'[g].referenceCount = mem[g].referenceCount
    <3>1. CASE SendCopy(p)
      BY <3>1, SendCopyDoes
    <3>2. CASE ~SendCopy(p)
      <4>1. mem' = mem
        BY <1>2, <3>2 DEF SendTake, SendPost, RecvTake, RecvCopy, RecvGive
      <4> QED BY <4>1
    <3> QED BY <3>1, <3>2
  <2>4. /\ pc[p] \in InBlock \cup {"idle"} /\ pc'[p] \in InBlock \cup {"idle"}
        /\ pc[p] = "idle" => obj[p].m_IsOpen
    BY <1>0, <1>2 DEF SendTake, SendCopy, SendPost, RecvTake, RecvCopy, RecvGive, Goto, InBlock
  <2>5. pc[p] \in InBlock => obj[p].m_IsOpen
    BY InBlockHas
  <2> QED BY <2>1, <2>2, <2>3, <2>4, <2>5 DEF Keeps, User, InBlock
<1> QED BY <1>1, <1>2 DEF Quiet

\* Who holds the token is alone in open, close and release, but for processes
\* with no lock and nothing open.
LEMMA Alone ==
    ASSUME LockInv, UnlockedOK, count.lost = 0, NEW p \in Proc, Locked(p), pc[p] \in Critical,
           NEW q \in Proc, q # p
    PROVE  /\ pc[q] \notin OpenPlaces \cup {"open_attach"}
           /\ pc[q] \in Critical => ~Locked(q) /\ ~obj[q].m_IsOpen
<1>1. ~Locked(q) \/ pc[q] \notin Critical
  BY DEF LockInv, Holding
<1>2. ~Locked(q) => pc[q] \notin OpenPlaces \cup {"open_attach"} /\ ~obj[q].m_IsOpen
  BY DEF UnlockedOK, OpenPlaces
<1> QED BY <1>1, <1>2 DEF OpenPlaces, Critical

\* While no identifier is lost, nobody goes on without the lock.
LEMMA UnlockedStep ==
    ASSUME TypeInv, LockInv, UnlockedOK, NEW p \in Proc, Action(p)
    PROVE  UnlockedOK'
<1> DEFINE Safe(q) == /\ ~obj[q].m_IsOpen /\ obj[q].m_MsgQueueInfo = None
                      /\ obj[q].m_OccupyMsqID = None /\ obj[q].m_FreeMsqID = None
                      /\ pc[q] \notin {"open_lock", "open_attach"} \cup OpenPlaces \cup InBlock
<1> USE DEF OpenPlaces
<1>0. pc \in [Proc -> Places]
  BY PcType
<1> SUFFICES ASSUME count'.lost = 0, NEW q \in Proc, ~Locked(q)' PROVE Safe(q)'
  BY DEF UnlockedOK
<1>1. count.lost = 0 /\ ~LockLost(p) /\ ~FreeLost(p)
  BY TroubleMoves
<1>2. \A r \in Proc : ~Locked(r) => Safe(r)
  BY <1>1 DEF UnlockedOK
<1>3. CASE q # p
  <2>1. pc'[q] = pc[q] /\ obj'[q] = obj[q]
    BY <1>3, Frame
  <2> QED BY <1>2, <2>1 DEF Locked
<1>4. CASE q = p
  <2>0. obj'[p].m_ProcLockID = None
    BY <1>4 DEF Locked
  <2>1. CASE Crash(p)
    BY <1>0, <1>4, <2>1, CrashDoes DEF ObjectIs, InBlock
  <2>2. CASE LockCreate(p)
    <3>1. obj'[p].m_ProcLockID = msq'[Lock].gen /\ msq'[Lock].gen \in Nat
      BY <2>2, LockCreateDoes, MsqStep, KeysDistinct DEF ObjectIs, Queues
    <3> QED BY <2>0, <3>1 DEF None
  <2>3. CASE ~Crash(p) /\ ~LockCreate(p)
    <3>1. obj'[p].m_ProcLockID = obj[p].m_ProcLockID
      <4>1. CASE Quiet(p)
        <5>1. CASE Open(p)
          BY <5>1, OpenDoes DEF ObjectIs
        <5>2. CASE ~Open(p)
          <6>1. obj' = obj
            BY <2>3, <4>1, <5>2 DEF Quiet, Close, Release, LockFails, AcquireLock, TakeToken,
               LockInit, Unlock, SendTake, SendCopy, SendPost, RecvTake, RecvCopy, RecvGive
          <6> QED BY <6>1
        <5> QED BY <5>1, <5>2
      <4>2. CASE ~Quiet(p)
        <5>1. CASE OpenAttach(p)
          BY <5>1, OpenAttachDoes DEF ObjectIs
        <5>2. CASE OpenFree(p)
          BY <5>2, OpenFreeDoes DEF ObjectIs
        <5>3. CASE OpenFails(p)
          BY <5>3, OpenFailsDoes
        <5>4. CASE OpenCount(p)
          BY <5>4, OpenCountDoes DEF ObjectIs
        <5>5. CASE CloseCount(p)
          BY <5>5, CloseCountDoes DEF ObjectIs
        <5>6. CASE RemoveFree(p)
          BY <5>6, RemoveFreeDoes DEF ObjectIs
        <5>7. CASE OpenInit(p) \/ RemoveShm(p) \/ RemoveOccupy(p)
          BY <5>7 DEF OpenInit, RemoveShm, RemoveOccupy
        <5> QED BY <1>1, <2>3, <4>2, <5>1, <5>2, <5>3, <5>4, <5>5, <5>6, <5>7 DEF Action, Quiet
      <4> QED BY <4>1, <4>2
    <3>2. ~Locked(p) /\ Safe(p)
      BY <1>2, <2>0, <3>1 DEF Locked
    <3>3. pc[p] # "lock_init"
      BY <3>2 DEF LockInv
    <3>4. CASE Quiet(p)
      <4>1. Keeps(p)
        BY <3>4, QuietDoes
      <4>2. pc'[p] \notin {"open_lock", "open_attach"} \cup OpenPlaces \cup InBlock
        BY <1>0, <2>3, <3>2, <3>3, <3>4 DEF Quiet, Open, Close, Release, LockFails, AcquireLock, TakeToken,
           LockInit, Unlock, SendTake, SendCopy, SendPost, RecvTake, RecvCopy, RecvGive, Goto, InBlock
      <4> QED BY <1>4, <3>2, <4>1, <4>2 DEF Keeps
    <3>5. CASE CloseCount(p)
      BY <1>0, <1>4, <3>2, <3>5, CloseCountDoes DEF InBlock
    <3>6. CASE RemoveShm(p) \/ RemoveOccupy(p)
      BY <1>0, <1>4, <3>2, <3>6, RemoveShmDoes, RemoveOccupyDoes DEF InBlock
    <3>7. CASE RemoveFree(p)
      BY <1>0, <1>4, <3>2, <3>7, RemoveFreeDoes DEF ObjectIs, InBlock
    <3>8. CASE OpenAttach(p) \/ OpenFree(p) \/ OpenFails(p) \/ OpenInit(p) \/ OpenCount(p)
      BY <3>2, <3>8 DEF OpenAttach, OpenFree, OpenFails, OpenInit, OpenCount, Goto
    <3> QED BY <1>1, <2>3, <3>4, <3>5, <3>6, <3>7, <3>8 DEF Action, Quiet
  <2> QED BY <2>1, <2>2, <2>3
<1> QED BY <1>3, <1>4

-----------------------------------------------------------------------------
(* The queue stays while it is open.                                       *)

\* How a step changes the set of open objects.
LEMMA OpenObjectsAre ==
    ASSUME TypeInv, NEW p \in Proc, Action(p), IsFiniteSet(OpenObjects)
    PROVE  /\ IsFiniteSet(OpenObjects') /\ Cardinality(OpenObjects) \in Nat
           /\ obj'[p].m_IsOpen = obj[p].m_IsOpen => OpenObjects' = OpenObjects
           /\ obj'[p].m_IsOpen =>
                  /\ OpenObjects' = OpenObjects \cup {p}
                  /\ Cardinality(OpenObjects') =
                         IF obj[p].m_IsOpen THEN Cardinality(OpenObjects) ELSE Cardinality(OpenObjects) + 1
           /\ ~obj'[p].m_IsOpen =>
                  /\ OpenObjects' = OpenObjects \ {p}
                  /\ Cardinality(OpenObjects') =
                         IF obj[p].m_IsOpen THEN Cardinality(OpenObjects) - 1 ELSE Cardinality(OpenObjects)
           /\ obj[p].m_IsOpen =>
                  Cardinality(OpenObjects) >= 1 /\ (Cardinality(OpenObjects) = 1 => OpenObjects = {p})
<1>1. \A q \in Proc : q # p => obj'[q].m_IsOpen = obj[q].m_IsOpen
  BY Frame
<1>2. (p \in OpenObjects <=> obj[p].m_IsOpen) /\ Cardinality(OpenObjects) \in Nat
  BY FS_CardinalityType DEF OpenObjects
<1>3. obj[p].m_IsOpen \in BOOLEAN /\ obj'[p].m_IsOpen \in BOOLEAN
  BY ObjOf, ObjStep DEF Objects
<1>4. ASSUME obj[p].m_IsOpen
      PROVE  Cardinality(OpenObjects) >= 1 /\ (Cardinality(OpenObjects) = 1 => OpenObjects = {p})
  <2>1. {p} \in SUBSET OpenObjects /\ Cardinality({p}) = 1
    BY <1>2, <1>4, FS_Singleton
  <2> QED BY <2>1, <1>2, FS_Subset
<1>5. obj'[p].m_IsOpen = obj[p].m_IsOpen => OpenObjects' = OpenObjects
  BY <1>1 DEF OpenObjects
<1>6. CASE obj'[p].m_IsOpen
  <2>1. OpenObjects' = OpenObjects \cup {p}
    BY <1>1, <1>6 DEF OpenObjects
  <2> QED BY <1>2, <1>4, <1>5, <1>6, <2>1, FS_AddElement
<1>7. CASE ~obj'[p].m_IsOpen
  <2>1. OpenObjects' = OpenObjects \ {p}
    BY <1>1, <1>7 DEF OpenObjects
  <2> QED BY <1>2, <1>4, <1>5, <1>7, <2>1, FS_RemoveElement
<1> QED BY <1>6, <1>7

\* Every step of a run without a release keeps an open queue standing.
LEMMA StandingStep ==
    ASSUME TypeInv, LockInv, UnlockedOK, Standing, NEW p \in Proc, Action(p),
           count'.lost = 0, count'.release = 0
    PROVE  Standing'
<1> USE DEF OpenPlaces, Removing
<1>0. pc \in [Proc -> Places]
  BY PcType
<1>1. /\ count.lost = 0 /\ ~LockLost(p) /\ ~FreeLost(p) /\ ~Release(p)
      /\ count'.crash = 0 => count.crash = 0 /\ ~Crash(p)
  BY TroubleMoves
<1>2. \A q \in Proc : q # p => pc'[q] = pc[q] /\ obj'[q] = obj[q]
  BY Frame
<1>3. /\ \A q \in Proc : obj[q].m_IsOpen /\ ~Removing(q) =>
             /\ shm.gen = obj[q].m_MsgQueueInfo /\ shm.live
             /\ msq[Occupy].live /\ msq[Occupy].gen = obj[q].m_OccupyMsqID
             /\ msq[Free].live /\ msq[Free].gen = obj[q].m_FreeMsqID
      /\ IsFiniteSet(OpenObjects)
      /\ shm.gen \in Generation => Cardinality(OpenObjects) <= mem[shm.gen].referenceCount
      /\ ~msq[Free].live => msq[Occupy].msgs = <<>>
      /\ \A q \in Proc : StaysAt(q)
      /\ count.crash = 0 /\ msq[Free].live /\ ~msq[Occupy].live => \E q \in Proc : pc[q] = "rm_free"
  BY DEF Standing, Valid
<1>4. SUFFICES
      /\ \A q \in Proc : obj'[q].m_IsOpen /\ pc'[q] \notin {"rm_shm", "rm_occupy", "rm_free"} =>
             /\ shm'.gen = obj'[q].m_MsgQueueInfo /\ shm'.live
             /\ msq'[Occupy].live /\ msq'[Occupy].gen = obj'[q].m_OccupyMsqID
             /\ msq'[Free].live /\ msq'[Free].gen = obj'[q].m_FreeMsqID
      /\ shm'.gen \in Generation => Cardinality(OpenObjects') <= mem'[shm'.gen].referenceCount
      /\ ~msq'[Free].live => msq'[Occupy].msgs = <<>>
      /\ \A q \in Proc : StaysAt(q)'
      /\ count'.crash = 0 /\ msq'[Free].live /\ ~msq'[Occupy].live => \E q \in Proc : pc'[q] = "rm_free"
  BY <1>3, OpenObjectsAre DEF Standing, Valid
<1>5. /\ shm.gen \in Nat /\ shm.live \in BOOLEAN
      /\ msq[Occupy].gen \in Nat /\ msq[Free].gen \in Nat
      /\ msq[Occupy].live \in BOOLEAN /\ msq[Free].live \in BOOLEAN
      /\ \A g \in Generation : mem[g].referenceCount \in Int
  BY ShmType, QueueType, KeysDistinct, MemType DEF TypeInv, Segments
<1>6. StaysAt(p)
  BY <1>3
<1>7. Locked(p) /\ pc[p] \in Critical =>
          \A q \in Proc : q # p => pc[q] \notin OpenPlaces /\ (pc[q] \in Critical => ~obj[q].m_IsOpen)
  BY <1>1, Alone
\* Nobody else is removing while p, with the token, is in open or close.
<1>8. Locked(p) /\ pc[p] \in Critical => \A q \in Proc : q # p => ~Removing(q)
  <2>1. \A q \in Proc : Removing(q) => obj[q].m_IsOpen /\ pc[q] \in Critical
    BY <1>3 DEF StaysAt, OpenObjects, Critical
  <2> QED BY <1>7, <2>1
<1>9. obj[p].m_IsOpen \/ pc[p] \in OpenPlaces \cup {"open_attach"} => Locked(p)
  BY <1>1 DEF UnlockedOK
\* So it finds them as they were, whatever it does.
<1>a. Locked(p) /\ pc[p] \in Critical => \A q \in Proc : q # p => StaysAt(q)' /\ ~Removing(q)'
  BY <1>2, <1>3, <1>7, <1>8 DEF StaysAt
<1>10. CASE Quiet(p)
  <2>1. /\ shm' = shm /\ SameQueue(Occupy) /\ SameQueue(Free) /\ Keeps(p)
        /\ \A g \in Generation : mem'[g].referenceCount = mem[g].referenceCount
        /\ pc[p] \notin OpenPlaces \cup RemovePlaces
        /\ pc'[p] \notin OpenPlaces \cup RemovePlaces \cup {"release_lock"}
        /\ \/ msq'[Occupy].msgs = msq[Occupy].msgs /\ msq'[Free].msgs = msq[Free].msgs
           \/ User(p)
    BY <1>1, <1>6, <1>10, QuietDoes DEF StaysAt, RemovePlaces
  <2>2. OpenObjects' = OpenObjects
    BY <1>2, <2>1 DEF Keeps, OpenObjects
  <2>3. User(p) => msq[Free].live /\ OpenObjects # {}
    BY <1>3 DEF User, InBlock, OpenObjects
  <2>4. ASSUME NEW q \in Proc PROVE StaysAt(q)'
    <3>1. CASE q = p
      BY <2>1, <3>1 DEF StaysAt, RemovePlaces
    <3>2. CASE q # p
      BY <1>2, <1>3, <2>1, <2>2, <2>3, <3>2 DEF StaysAt, SameQueue, Valid
    <3> QED BY <3>1, <3>2
  <2>5. ASSUME NEW q \in Proc, obj'[q].m_IsOpen, ~Removing(q)'
        PROVE  /\ shm'.gen = obj'[q].m_MsgQueueInfo /\ shm'.live
               /\ msq'[Occupy].live /\ msq'[Occupy].gen = obj'[q].m_OccupyMsqID
               /\ msq'[Free].live /\ msq'[Free].gen = obj'[q].m_FreeMsqID
    BY <1>2, <1>3, <2>1, <2>5 DEF SameQueue, Keeps, RemovePlaces
  <2>6. \A q \in Proc : pc[q] = "rm_free" => pc'[q] = "rm_free"
    BY <1>2, <2>1 DEF RemovePlaces
  <2> QED BY <1>1, <1>3, <2>1, <2>2, <2>3, <2>4, <2>5, <2>6 DEF SameQueue
<1>11. CASE OpenAttach(p)
  <2>1. /\ pc[p] = "open_attach" /\ pc'[p] = "open_free"
        /\ \/ msq[Occupy].live /\ msq' = msq
           \/ ~msq[Occupy].live /\ Made(Occupy) /\ OthersSame(Occupy)
        /\ \/ shm.live /\ shm' = shm
           \/ ~shm.live /\ shm'.gen = shm.gen + 1 /\ shm'.live
        /\ obj'[p].m_IsOpen = obj[p].m_IsOpen /\ obj'[p].m_MsgQueueInfo = shm'.gen
        /\ obj'[p].m_OccupyMsqID = msq'[Occupy].gen /\ obj'[p].m_FreeMsqID = obj[p].m_FreeMsqID
        /\ mem' = mem /\ shm'.gen \in Generation
    BY <1>0, <1>11, OpenAttachDoes DEF ObjectIs
  <2>2. /\ msq'[Free] = msq[Free] /\ msq'[Occupy].live
        /\ msq'[Occupy].msgs = msq[Occupy].msgs \/ msq'[Occupy].msgs = <<>>
        /\ msq[Occupy].live => msq' = msq
    BY <2>1, KeysDistinct DEF Made, Becomes, OthersSame
  <2>3. Locked(p) /\ pc[p] \in Critical
    BY <1>9, <2>1 DEF Critical
  <2>4. \A q \in Proc : ~Removing(q) /\ pc[q] \notin OpenPlaces
    BY <1>7, <1>8, <2>1, <2>3
  <2>5. OpenObjects' = OpenObjects
    BY <1>2, <2>1 DEF OpenObjects
  <2>6. OpenObjects # {} => shm' = shm /\ msq' = msq /\ shm.live
    BY <1>3, <2>1, <2>2, <2>4 DEF OpenObjects
  <2>7. Cardinality(OpenObjects') <= mem'[shm'.gen].referenceCount
    <3>1. CASE shm' = shm
      BY <1>3, <2>1, <2>5, <3>1
    <3>2. CASE shm'.gen = shm.gen + 1 /\ OpenObjects = {}
      <4>1. mem[shm'.gen] = NewMemory
        BY <1>5, <2>1, <3>2 DEF TypeInv, NotUsedYet
      <4> QED BY <2>1, <2>5, <3>2, <4>1, FS_EmptySet DEF NewMemory
    <3> QED BY <2>1, <2>6, <3>1, <3>2
  <2>8. ASSUME NEW q \in Proc PROVE StaysAt(q)'
    <3>1. CASE q = p
      <4>1. shm'.live /\ Valid(Occupy, obj[p].m_OccupyMsqID)'
        BY <2>1, <2>2 DEF Valid
      <4> QED BY <2>1, <2>2, <3>1 DEF StaysAt, Valid
    <3>2. CASE q # p
      BY <1>2, <1>3, <2>4, <3>2 DEF StaysAt
    <3> QED BY <3>1, <3>2
  <2>9. ASSUME NEW q \in Proc, obj'[q].m_IsOpen
        PROVE  /\ shm'.gen = obj'[q].m_MsgQueueInfo /\ shm'.live
               /\ msq'[Occupy].live /\ msq'[Occupy].gen = obj'[q].m_OccupyMsqID
               /\ msq'[Free].live /\ msq'[Free].gen = obj'[q].m_FreeMsqID
    <3>1. obj[q].m_IsOpen /\ shm' = shm /\ msq' = msq
      BY <1>2, <2>1, <2>6, <2>9 DEF OpenObjects
    <3> QED BY <1>2, <1>3, <2>1, <2>4, <3>1
  <2> QED BY <1>3, <2>2, <2>7, <2>8, <2>9
<1>12. CASE OpenFree(p)
  <2>1. /\ pc[p] = "open_free"
        /\ \/ ~msq[Free].live /\ pc'[p] = "open_init" /\ Made(Free) /\ OthersSame(Free)
           \/ msq[Free].live /\ pc'[p] = "open_count" /\ msq' = msq
        /\ obj'[p].m_IsOpen = obj[p].m_IsOpen /\ obj'[p].m_MsgQueueInfo = obj[p].m_MsgQueueInfo
        /\ obj'[p].m_OccupyMsqID = obj[p].m_OccupyMsqID /\ obj'[p].m_FreeMsqID = msq'[Free].gen
        /\ mem' = mem /\ shm' = shm
    BY <1>0, <1>12, OpenFreeDoes DEF ObjectIs
  <2>2. /\ msq'[Occupy] = msq[Occupy] /\ msq'[Free].live
        /\ msq[Free].live => msq' = msq /\ pc'[p] = "open_count"
        /\ ~msq[Free].live => msq'[Free].msgs = <<>>
        /\ pc'[p] \in {"open_init", "open_count"}
    BY <2>1, KeysDistinct DEF Made, Becomes, OthersSame
  <2>3. Locked(p) /\ pc[p] \in Critical
    BY <1>9, <2>1 DEF Critical
  <2>4. \A q \in Proc : ~Removing(q) /\ (q # p => pc[q] \notin OpenPlaces)
    BY <1>7, <1>8, <2>1, <2>3
  <2>5. OpenObjects' = OpenObjects
    BY <1>2, <2>1 DEF OpenObjects
  <2>6. OpenObjects # {} => msq' = msq /\ msq[Free].live
    BY <1>3, <2>2, <2>4 DEF OpenObjects
  <2>7. ASSUME NEW q \in Proc PROVE StaysAt(q)'
    <3>1. CASE q = p
      BY <1>3, <1>6, <2>1, <2>2, <2>5, <2>6, <3>1 DEF StaysAt, Valid
    <3>2. CASE q # p
      BY <1>2, <1>3, <2>4, <3>2 DEF StaysAt
    <3> QED BY <3>1, <3>2
  <2>8. ASSUME NEW q \in Proc, obj'[q].m_IsOpen
        PROVE  /\ shm'.gen = obj'[q].m_MsgQueueInfo /\ shm'.live
               /\ msq'[Occupy].live /\ msq'[Occupy].gen = obj'[q].m_OccupyMsqID
               /\ msq'[Free].live /\ msq'[Free].gen = obj'[q].m_FreeMsqID
    <3>1. obj[q].m_IsOpen /\ msq' = msq
      BY <1>2, <2>1, <2>6, <2>8 DEF OpenObjects
    <3> QED BY <1>2, <1>3, <2>1, <2>4, <3>1
  <2>9. msq'[Occupy].live
    BY <1>6, <2>1, <2>2 DEF StaysAt, Valid
  <2> QED BY <1>3, <2>1, <2>2, <2>5, <2>7, <2>8, <2>9
<1>13. CASE OpenFails(p)
  <2>1. /\ pc[p] \in {"open_attach", "open_free"} /\ pc'[p] = "unlock"
        /\ ~obj'[p].m_IsOpen /\ mem' = mem
        /\ shm' = shm \/ (~shm.live /\ shm'.gen = shm.gen + 1)
    BY <1>0, <1>13, OpenFailsDoes
  <2>2. msq' = msq \/ (~msq[Occupy].live /\ Made(Occupy) /\ OthersSame(Occupy))
    BY <1>13, OpenFailsDoes
  <2>3. /\ msq'[Free] = msq[Free]
        /\ msq[Occupy].live => msq' = msq
        /\ msq' = msq \/ (msq'[Occupy].live /\ msq'[Occupy].msgs = <<>>)
    BY <2>2, KeysDistinct DEF Made, Becomes, OthersSame
  <2>4. Locked(p) /\ pc[p] \in Critical
    BY <1>9, <2>1 DEF Critical
  <2>5. \A q \in Proc : StaysAt(q)'
    <3>1. StaysAt(p)'
      BY <2>1 DEF StaysAt
    <3> QED BY <1>a, <2>4, <3>1
  <2>6. ASSUME NEW q \in Proc, obj'[q].m_IsOpen
        PROVE  /\ shm'.gen = obj'[q].m_MsgQueueInfo /\ shm'.live
               /\ msq'[Occupy].live /\ msq'[Occupy].gen = obj'[q].m_OccupyMsqID
               /\ msq'[Free].live /\ msq'[Free].gen = obj'[q].m_FreeMsqID
    <3>1. q # p /\ obj[q].m_IsOpen /\ obj'[q] = obj[q] /\ ~Removing(q)
      BY <1>2, <1>8, <2>1, <2>4, <2>6
    <3>2. msq' = msq /\ shm' = shm
      BY <1>3, <2>1, <2>3, <3>1
    <3> QED BY <1>3, <2>1, <3>1, <3>2
  <2>7. IsFiniteSet(OpenObjects) /\ obj[p].m_IsOpen \in BOOLEAN
    BY <1>3, ObjOf
  <2>8. Cardinality(OpenObjects') <= Cardinality(OpenObjects) /\ Cardinality(OpenObjects') \in Int
        /\ Cardinality(OpenObjects) \in Int
    BY <2>1, <2>7, OpenObjectsAre
  <2>9. \A q \in Proc : pc[q] = "rm_free" => pc'[q] = "rm_free"
    BY <1>2, <2>1
\* A new segment means that nobody has one open: the counter of the new one is 0.
  <2>10. shm'.gen \in Generation => Cardinality(OpenObjects') <= mem'[shm'.gen].referenceCount
    <3>1. CASE shm' = shm
      BY <1>3, <1>5, <2>1, <2>8, <3>1
    <3>2. CASE shm' # shm /\ shm'.gen \in Generation
      <4>1. mem[shm'.gen] = NewMemory
        BY <1>5, <2>1, <3>2 DEF TypeInv, NotUsedYet
      <4>2. OpenObjects' = {}
        <5>1. \A q \in Proc : q # p => ~obj[q].m_IsOpen
          BY <1>3, <1>8, <2>1, <2>4, <3>2
        <5> QED BY <1>2, <2>1, <5>1 DEF OpenObjects
      <4> QED BY <2>1, <4>1, <4>2, FS_EmptySet DEF NewMemory
    <3> QED BY <3>1, <3>2
  <2> QED BY <1>1, <1>3, <1>5, <2>1, <2>3, <2>5, <2>6, <2>9, <2>10
<1>14. CASE OpenInit(p)
  <2> DEFINE g == obj[p].m_MsgQueueInfo
  <2>1. /\ pc[p] = "open_init" /\ pc'[p] = "open_count" /\ obj' = obj /\ shm' = shm
        /\ g \in Generation /\ mem'[g].referenceCount = 0
    BY <1>0, <1>14, OpenInitDoes
  <2>2. /\ msq'[Occupy].gen = msq[Occupy].gen /\ msq'[Occupy].live = msq[Occupy].live
        /\ msq'[Free].gen = msq[Free].gen /\ msq'[Free].live = msq[Free].live
        /\ msq'[Occupy].msgs = msq[Occupy].msgs
    BY <1>14, OpenInitDoes DEF Becomes
  <2>3. Locked(p) /\ pc[p] \in Critical
    BY <1>9, <2>1 DEF Critical
  <2>4. /\ shm.live /\ shm.gen = g /\ Valid(Occupy, obj[p].m_OccupyMsqID)
        /\ Valid(Free, obj[p].m_FreeMsqID) /\ OpenObjects = {}
    BY <1>6, <2>1 DEF StaysAt
  <2>5. OpenObjects' = {} /\ Cardinality(OpenObjects') = 0
    BY <2>1, <2>4, FS_EmptySet DEF OpenObjects
  <2>6. \A q \in Proc : StaysAt(q)'
    <3>1. StaysAt(p)'
      BY <2>1, <2>2, <2>4 DEF StaysAt, Valid
    <3> QED BY <1>a, <2>3, <3>1
  <2>7. \A q \in Proc : ~obj'[q].m_IsOpen
    BY <2>5 DEF OpenObjects
  <2> QED BY <2>1, <2>2, <2>4, <2>5, <2>6, <2>7 DEF Valid
<1>15. CASE OpenCount(p)
  <2> DEFINE g == obj[p].m_MsgQueueInfo
  <2>1. /\ pc[p] = "open_count" /\ pc'[p] = "unlock" /\ shm' = shm /\ msq' = msq
        /\ g \in Generation /\ mem'[g].referenceCount = mem[g].referenceCount + 1
    BY <1>0, <1>15, OpenCountDoes
  <2>2. /\ obj'[p].m_IsOpen /\ obj'[p].m_MsgQueueInfo = g
        /\ obj'[p].m_OccupyMsqID = obj[p].m_OccupyMsqID /\ obj'[p].m_FreeMsqID = obj[p].m_FreeMsqID
    BY <1>15, OpenCountDoes DEF ObjectIs
  <2>3. Locked(p) /\ pc[p] \in Critical
    BY <1>9, <2>1 DEF Critical
  <2>4. /\ shm.live /\ shm.gen = g /\ Valid(Occupy, obj[p].m_OccupyMsqID)
        /\ Valid(Free, obj[p].m_FreeMsqID)
    BY <1>6, <2>1 DEF StaysAt
  <2>5. \A q \in Proc : StaysAt(q)'
    <3>1. StaysAt(p)'
      BY <2>1 DEF StaysAt
    <3> QED BY <1>a, <2>3, <3>1
  <2>6. ASSUME NEW q \in Proc, obj'[q].m_IsOpen
        PROVE  /\ shm'.gen = obj'[q].m_MsgQueueInfo /\ shm'.live
               /\ msq'[Occupy].live /\ msq'[Occupy].gen = obj'[q].m_OccupyMsqID
               /\ msq'[Free].live /\ msq'[Free].gen = obj'[q].m_FreeMsqID
    <3>1. CASE q = p
      BY <2>1, <2>2, <2>4, <3>1 DEF Valid
    <3>2. CASE q # p
      BY <1>2, <1>3, <1>8, <2>1, <2>3, <2>6, <3>2
    <3> QED BY <3>1, <3>2
  <2>7. IsFiniteSet(OpenObjects) /\ obj[p].m_IsOpen \in BOOLEAN
    BY <1>3, ObjOf
  <2>8. Cardinality(OpenObjects') <= Cardinality(OpenObjects) + 1 /\ Cardinality(OpenObjects') \in Int
        /\ Cardinality(OpenObjects) \in Int
    BY <2>2, <2>7, OpenObjectsAre
  <2>9. Cardinality(OpenObjects') <= mem'[shm'.gen].referenceCount
    BY <1>3, <1>5, <2>1, <2>4, <2>8
  <2> QED BY <1>3, <2>1, <2>4, <2>5, <2>6, <2>9 DEF Valid
<1>16. CASE CloseCount(p)
  <2> DEFINE g == obj[p].m_MsgQueueInfo
  <2>0. pc[p] = "close" /\ shm' = shm /\ msq' = msq
    BY <1>16, CloseCountDoes
  <2>1. CASE ~obj[p].m_IsOpen /\ pc'[p] = "unlock" /\ mem' = mem /\ obj' = obj
    <3>1. OpenObjects' = OpenObjects
      BY <2>1 DEF OpenObjects
    <3>2. ASSUME NEW q \in Proc PROVE StaysAt(q)'
      <4>1. CASE q = p
        BY <2>1, <4>1 DEF StaysAt
      <4>2. CASE q # p
        BY <1>2, <1>3, <2>0, <3>1, <4>2 DEF StaysAt, Valid
      <4> QED BY <4>1, <4>2
    <3>3. \A q \in Proc : pc[q] = "rm_free" => pc'[q] = "rm_free"
      BY <1>2, <2>0
    <3>4. \A q \in Proc : obj'[q].m_IsOpen => obj[q].m_IsOpen /\ pc'[q] = pc[q]
      BY <1>2, <2>1
    <3> QED BY <1>1, <1>3, <2>0, <2>1, <3>1, <3>2, <3>3, <3>4
  <2>2. CASE /\ obj[p].m_IsOpen /\ g \in Generation /\ mem[g].referenceCount = 1
             /\ pc'[p] = "rm_shm" /\ mem' = mem /\ obj' = obj
    <3>1. Locked(p) /\ pc[p] \in Critical
      BY <1>9, <2>0, <2>2 DEF Critical
    <3>2. /\ shm.gen = g /\ shm.live /\ Valid(Occupy, obj[p].m_OccupyMsqID)
          /\ Valid(Free, obj[p].m_FreeMsqID)
      BY <1>3, <2>0, <2>2 DEF Valid
    <3>3. OpenObjects' = OpenObjects
      BY <2>2 DEF OpenObjects
    <3>4. OpenObjects = {p}
      BY <1>3, <2>2, <3>2, OpenObjectsAre
    <3>5. StaysAt(p)'
      BY <2>0, <2>2, <3>2, <3>3, <3>4 DEF StaysAt, Valid
    <3>6. \A q \in Proc : StaysAt(q)'
      BY <1>a, <3>1, <3>5
    <3>7. \A q \in Proc : q # p => ~obj'[q].m_IsOpen
      BY <2>2, <3>4 DEF OpenObjects
    <3> QED BY <1>3, <2>0, <2>2, <3>2, <3>3, <3>6, <3>7 DEF Valid
  <2>3. CASE /\ obj[p].m_IsOpen /\ pc'[p] = "unlock"
             /\ g \in Generation /\ mem[g].referenceCount \in Int \ {1}
             /\ mem'[g].referenceCount = mem[g].referenceCount - 1
             /\ ~obj'[p].m_IsOpen
    <3>1. Locked(p) /\ pc[p] \in Critical
      BY <1>9, <2>0, <2>3 DEF Critical
    <3>2. /\ shm.gen = g /\ msq[Occupy].live
      BY <1>3, <2>0, <2>3
    <3>3. \A q \in Proc : StaysAt(q)'
      <4>1. StaysAt(p)'
        BY <2>3 DEF StaysAt
      <4> QED BY <1>a, <3>1, <4>1
    <3>4. Cardinality(OpenObjects') = Cardinality(OpenObjects) - 1 /\ Cardinality(OpenObjects) \in Nat
      BY <1>3, <2>3, OpenObjectsAre
    <3>5. Cardinality(OpenObjects') <= mem'[shm'.gen].referenceCount
      BY <1>3, <2>0, <2>3, <3>2, <3>4
    <3>6. ASSUME NEW q \in Proc, obj'[q].m_IsOpen
          PROVE  /\ shm'.gen = obj'[q].m_MsgQueueInfo /\ shm'.live
                 /\ msq'[Occupy].live /\ msq'[Occupy].gen = obj'[q].m_OccupyMsqID
                 /\ msq'[Free].live /\ msq'[Free].gen = obj'[q].m_FreeMsqID
      <4>1. q # p
        BY <2>3, <3>6
      <4>2. obj'[q] = obj[q] /\ ~Removing(q)
        BY <1>2, <1>8, <3>1, <4>1
      <4>3. shm' = shm /\ msq' = msq
        BY <2>0
      <4> QED BY <1>3, <3>6, <4>2, <4>3
    <3> QED BY <1>3, <2>0, <3>2, <3>3, <3>5, <3>6
  <2>4. \/ ~obj[p].m_IsOpen /\ pc' = [pc EXCEPT ![p] = "unlock"] /\ UNCHANGED <<mem, obj>>
        \/ /\ obj[p].m_IsOpen /\ g \in Generation /\ mem[g].referenceCount = 1
           /\ pc' = [pc EXCEPT ![p] = "rm_shm"] /\ UNCHANGED <<mem, obj>>
        \/ /\ obj[p].m_IsOpen /\ pc' = [pc EXCEPT ![p] = "unlock"]
           /\ g \in Generation /\ mem[g].referenceCount \in Int \ {1}
           /\ mem'[g].referenceCount = mem[g].referenceCount - 1
           /\ ~obj'[p].m_IsOpen
    BY <1>16, CloseCountDoes DEF ObjectIs
  <2> HIDE DEF g
  <2> QED BY <1>0, <2>1, <2>2, <2>3, <2>4
<1>17. CASE RemoveShm(p)
  <2>1. /\ pc[p] = "rm_shm" /\ pc'[p] = "rm_occupy" /\ msq' = msq /\ mem' = mem /\ obj' = obj
        /\ shm'.gen = shm.gen
    BY <1>0, <1>17, RemoveShmDoes
  <2>2. OpenObjects = {p} /\ OpenObjects' = OpenObjects /\ obj[p].m_IsOpen
    BY <1>6, <2>1 DEF StaysAt, OpenObjects
  <2>3. StaysAt(p)'
    BY <1>6, <2>1, <2>2 DEF StaysAt, Valid
  <2>4. Locked(p) /\ pc[p] \in Critical
    BY <1>9, <2>1, <2>2 DEF Critical
  <2>5. \A q \in Proc : StaysAt(q)'
    BY <1>a, <2>3, <2>4
  <2>6. \A q \in Proc : q # p => ~obj'[q].m_IsOpen
    BY <2>1, <2>2 DEF OpenObjects
  <2>7. msq[Occupy].live
    BY <1>6, <2>1 DEF StaysAt, Valid
  <2> QED BY <1>3, <2>1, <2>2, <2>5, <2>6, <2>7
<1>18. CASE RemoveOccupy(p)
  <2>1. pc[p] = "rm_occupy" /\ pc'[p] = "rm_free" /\ shm' = shm /\ mem' = mem /\ obj' = obj
    BY <1>0, <1>18, RemoveOccupyDoes
  <2>2. OpenObjects = {p} /\ OpenObjects' = OpenObjects /\ obj[p].m_IsOpen
    BY <1>6, <2>1 DEF StaysAt, OpenObjects
  <2>3. Gone(Occupy) /\ OthersSame(Occupy)
    BY <1>6, <1>18, <2>1, RemoveOccupyDoes DEF StaysAt
  <2>4. ~msq'[Occupy].live /\ msq'[Occupy].msgs = <<>> /\ msq'[Free] = msq[Free]
    BY <2>3, KeysDistinct DEF Gone, Becomes, OthersSame
  <2>5. StaysAt(p)'
    BY <1>6, <2>1, <2>2, <2>4 DEF StaysAt, Valid
  <2>6. Locked(p) /\ pc[p] \in Critical
    BY <1>9, <2>1, <2>2 DEF Critical
  <2>7. \A q \in Proc : StaysAt(q)'
    BY <1>a, <2>5, <2>6
  <2>8. \A q \in Proc : q # p => ~obj'[q].m_IsOpen
    BY <2>1, <2>2 DEF OpenObjects
  <2> QED BY <1>3, <2>1, <2>2, <2>4, <2>7, <2>8
<1>19. CASE RemoveFree(p)
  <2>1. /\ pc[p] = "rm_free" /\ pc'[p] = "unlock" /\ shm' = shm /\ mem' = mem
        /\ ~obj'[p].m_IsOpen
    BY <1>0, <1>19, RemoveFreeDoes DEF ObjectIs
  <2>2. OpenObjects = {p} /\ obj[p].m_IsOpen /\ ~msq[Occupy].live
    BY <1>6, <2>1 DEF StaysAt, OpenObjects
  <2>3. Gone(Free) /\ OthersSame(Free)
    BY <1>6, <1>19, <2>1, RemoveFreeDoes DEF StaysAt
  <2>4. ~msq'[Free].live /\ msq'[Occupy] = msq[Occupy]
    BY <2>3, KeysDistinct DEF Gone, Becomes, OthersSame
  <2>5. msq[Occupy].msgs = <<>>
    BY <2>2 DEF TypeInv, EmptyWhenGone
  <2>6. StaysAt(p)'
    BY <2>1 DEF StaysAt
  <2>7. Locked(p) /\ pc[p] \in Critical
    BY <1>9, <2>1, <2>2 DEF Critical
  <2>8. \A q \in Proc : StaysAt(q)'
    BY <1>a, <2>6, <2>7
  <2>9. \A q \in Proc : ~obj'[q].m_IsOpen
    BY <1>2, <2>1, <2>2 DEF OpenObjects
  <2>10. OpenObjects' = {} /\ Cardinality(OpenObjects') = 0
    BY <2>9, FS_EmptySet DEF OpenObjects
  <2>11. Cardinality(OpenObjects) = 1
    BY <2>2, FS_Singleton
  <2>12. shm'.gen \in Generation => Cardinality(OpenObjects') <= mem'[shm'.gen].referenceCount
    BY <1>3, <1>5, <2>1, <2>10, <2>11
  <2> QED BY <2>4, <2>5, <2>8, <2>9, <2>12
<1>20. CASE Crash(p)
  <2>1. /\ pc'[p] = "idle" /\ ~obj'[p].m_IsOpen /\ msq' = msq /\ shm' = shm /\ mem' = mem
        /\ Trouble("crash")
    BY <1>0, <1>20, CrashDoes DEF ObjectIs
  <2>2. count'.crash # 0
    <3>1. count'.crash = count.crash + 1 /\ count.crash \in Nat
      BY <2>1, TroubleIs, CountType
    <3> QED BY <3>1
  <2>3. OpenObjects' = OpenObjects \ {p}
    BY <1>2, <2>1 DEF OpenObjects
  <2>4. ASSUME NEW q \in Proc PROVE StaysAt(q)'
    <3>1. CASE q = p
      BY <2>1, <3>1 DEF StaysAt
    <3>2. CASE q # p
      <4>1. StaysAt(q) /\ pc'[q] = pc[q] /\ obj'[q] = obj[q]
        BY <1>2, <1>3, <3>2
      <4>2. (OpenObjects = {} => OpenObjects' = {}) /\ (OpenObjects = {q} => OpenObjects' = {q})
        BY <2>3, <3>2
      <4> QED BY <2>1, <4>1, <4>2 DEF StaysAt, Valid
    <3> QED BY <3>1, <3>2
  <2>5. ASSUME NEW q \in Proc, obj'[q].m_IsOpen, ~Removing(q)'
        PROVE  /\ shm'.gen = obj'[q].m_MsgQueueInfo /\ shm'.live
               /\ msq'[Occupy].live /\ msq'[Occupy].gen = obj'[q].m_OccupyMsqID
               /\ msq'[Free].live /\ msq'[Free].gen = obj'[q].m_FreeMsqID
    <3>1. q # p /\ pc'[q] = pc[q] /\ obj'[q] = obj[q]
      BY <1>2, <2>1, <2>5
    <3> QED BY <1>3, <2>1, <2>5, <3>1
  <2>6. IsFiniteSet(OpenObjects) /\ obj[p].m_IsOpen \in BOOLEAN
    BY <1>3, ObjOf
  <2>7. Cardinality(OpenObjects') <= Cardinality(OpenObjects) /\ Cardinality(OpenObjects') \in Int
        /\ Cardinality(OpenObjects) \in Int
    BY <2>1, <2>6, OpenObjectsAre
  <2> QED BY <1>3, <1>5, <2>1, <2>2, <2>4, <2>5, <2>7
<1> QED BY <1>1, <1>10, <1>11, <1>12, <1>13, <1>14, <1>15, <1>16, <1>17, <1>18, <1>19, <1>20
        DEF Action, Quiet

\* Nothing is open initially.
LEMMA StaysInit == Init => StaysInv
<1> SUFFICES ASSUME Init PROVE StaysInv
  OBVIOUS
<1>1. \A p \in Proc : obj[p] = NewObject /\ pc[p] = "idle"
  BY DEF Init
<1>2. OpenObjects = {} /\ IsFiniteSet(OpenObjects)
  BY <1>1, FS_EmptySet DEF OpenObjects, NewObject
<1>3. shm.gen = 0 /\ ~msq[Free].live /\ msq[Occupy].msgs = <<>>
  BY KeysDistinct DEF Init
<1>4. 0 \notin Generation
  BY DEF Generation
<1> QED BY <1>1, <1>2, <1>3, <1>4 DEF StaysInv, Standing, StaysAt, Removing, NewObject

\* Every step keeps StaysInv.
LEMMA StaysNext == TypeInv /\ LockInv /\ UnlockedOK /\ StaysInv /\ [Next]_vars => StaysInv'
<1>1. ASSUME StaysInv, UNCHANGED vars PROVE StaysInv'
  BY <1>1 DEF vars, StaysInv, Standing, OpenObjects, StaysAt, Removing, Valid
<1>2. ASSUME TypeInv, LockInv, UnlockedOK, StaysInv, NEW p \in Proc, Action(p) PROVE StaysInv'
  <2>1. ASSUME count'.lost = 0, count'.release = 0 PROVE Standing'
    <3>1. count.lost = 0 /\ count.release = 0
      BY <1>2, <2>1, TroubleMoves
    <3>2. Standing
      BY <1>2, <3>1 DEF StaysInv
    <3> QED BY <1>2, <2>1, <3>2, StandingStep
  <2> QED BY <2>1 DEF StaysInv
<1> QED BY <1>1, <1>2, NextAction

\* Nobody has begun initially.
LEMMA UnlockedInit == Init => UnlockedOK
<1> SUFFICES ASSUME Init PROVE UnlockedOK
  OBVIOUS
<1>1. \A p \in Proc : obj[p] = NewObject /\ pc[p] = "idle"
  BY DEF Init
<1> QED BY <1>1 DEF UnlockedOK, NewObject, InBlock

\* Every step keeps UnlockedOK.
LEMMA UnlockedNext == TypeInv /\ LockInv /\ UnlockedOK /\ [Next]_vars => UnlockedOK'
<1>1. ASSUME UnlockedOK, UNCHANGED vars PROVE UnlockedOK'
  BY <1>1 DEF vars, UnlockedOK, Locked
<1> QED BY <1>1, UnlockedStep, NextAction

\* When no identifier is lost, only an object that was never opened has no lock.
THEOREM UnlockedHolds == Spec => []UnlockedOK
  BY UnlockedInit, UnlockedNext, TypeInvHolds, LockInvHolds, PTL DEF Spec

\* In a run without a release the segment and its queues stay while an object is
\* open, and the counter in the segment is at least the number of open objects:
\* that is why no close but the last one removes them.
THEOREM StaysHolds == Spec => []StaysInv
  BY StaysInit, StaysNext, TypeInvHolds, LockInvHolds, UnlockedHolds, PTL DEF Spec

\* What a process has opened stays until it closes it itself, whoever else opens,
\* closes or is killed meanwhile (open counts in, close removes at one, and a
\* killed process is never counted out).
THEOREM QueueStays == Spec => []OpenQueueStays
<1>1. ASSUME TypeInv, NEW g
      PROVE  shm = [gen |-> g, live |-> TRUE] <=> shm.gen = g /\ shm.live
  BY <1>1, ShmType
<1>2. TypeInv /\ StaysInv => OpenQueueStays
  BY <1>1 DEF StaysInv, Standing, OpenQueueStays
<1> QED BY <1>2, TypeInvHolds, StaysHolds, PTL

-----------------------------------------------------------------------------
(* The segment and its queues are created and removed together.            *)

\* The kernel's numbers, and what an identifier can be.
LEMMA NumbersAre ==
    ASSUME TypeInv
    PROVE  /\ shm.gen \in Nat /\ shm.live \in BOOLEAN
           /\ msq[Occupy].gen \in Nat /\ msq[Free].gen \in Nat
           /\ msq[Occupy].live \in BOOLEAN /\ msq[Free].live \in BOOLEAN
           /\ \A q \in Proc : /\ obj[q].m_MsgQueueInfo \in Int /\ obj[q].m_OccupyMsqID \in Int
                              /\ obj[q].m_FreeMsqID \in Int
                              /\ obj[q].m_MsgQueueInfo <= shm.gen
                              /\ obj[q].m_OccupyMsqID <= msq[Occupy].gen
                              /\ obj[q].m_FreeMsqID <= msq[Free].gen
           /\ None = -1
<1>1. /\ shm.gen \in Nat /\ shm.live \in BOOLEAN
      /\ msq[Occupy].gen \in Nat /\ msq[Free].gen \in Nat
      /\ msq[Occupy].live \in BOOLEAN /\ msq[Free].live \in BOOLEAN
  BY ShmType, QueueType, KeysDistinct DEF TypeInv
<1>2. Ids \subseteq Int /\ None = -1
  BY DEF Ids, Generation, None
<1> QED BY <1>1, <1>2, ObjOf DEF TypeInv, IdsOK, IdsFit

\* An open object whose occupied queue is the present one has the present free queue.
LEMMA OccupyHasFree ==
    ASSUME TypeInv, InStep, NEW p \in Proc, InStepAt(p), pc[p] # "open_free",
           Valid(Occupy, obj[p].m_OccupyMsqID)
    PROVE  /\ Valid(Free, obj[p].m_FreeMsqID) /\ msq[Free].gen = shm.gen
           /\ obj[p].m_MsgQueueInfo = shm.gen
  BY NumbersAre DEF InStep, InStepAt, Valid

\* What a step of a process without the token, or one that ends with it, needs.
LEMMA StuckStays ==
    ASSUME TypeInv, LockInv, NEW p \in Proc, Action(p), ~Holding(p), Stuck
    PROVE  Stuck'
<1> USE DEF Holding, Locked
<1>0. pc \in [Proc -> Places]
  BY PcType
<1>1. /\ count.crash # 0 /\ msq[Lock].live /\ msq[Lock].msgs = <<>>
      /\ \A q \in Proc : ~Holding(q)
  BY DEF Stuck
<1>2. count'.crash # 0
  BY <1>1, TroubleMoves
<1>3. \A q \in Proc : q # p => ~Holding(q)'
  BY <1>1, Frame
<1>4. /\ msq'[Lock].live /\ msq'[Lock].msgs = <<>> /\ ~Holding(p)'
  <2>1. ~(pc[p] = "lock_init" \/ (pc[p] = "unlock" /\ Locked(p)))
    BY <1>1 DEF LockInv, Critical
  <2>2. Valid(Lock, obj[p].m_ProcLockID) <=> Locked(p)
    <3>1. msq[Lock].gen \in Nat
      BY GenerationsAre, KeysDistinct
    <3> QED BY <3>1 DEF LockInv, Valid, None
  <2> QED BY <1>1, <2>1, <2>2, LockMoves
<1> QED BY <1>2, <1>3, <1>4 DEF Stuck

\* Every step of a run in which no open fails keeps the objects in step.
LEMMA SyncStep ==
    ASSUME TypeInv, LockInv, UnlockedOK, InStep, \A q \in Proc : InStepAt(q), NEW p \in Proc, Action(p),
           count'.lost = 0, count'.fail = 0
    PROVE  InStep' /\ \A q \in Proc : InStepAt(q)'
<1> USE DEF OpenPlaces
<1>0. pc \in [Proc -> Places]
  BY PcType
<1>1. /\ count.lost = 0 /\ ~LockLost(p) /\ ~FreeLost(p) /\ ~OpenFails(p)
      /\ count'.crash = 0 => count.crash = 0 /\ ~Crash(p)
  BY TroubleMoves
<1>2. \A q \in Proc : q # p => pc'[q] = pc[q] /\ obj'[q] = obj[q]
  BY Frame
<1>3. /\ shm.gen = msq[Occupy].gen /\ msq[Free].gen <= shm.gen
      /\ msq[Free].live => msq[Free].gen = shm.gen
      /\ msq[Occupy].live /\ msq[Free].gen = shm.gen => msq[Free].live
      /\ ~msq[Free].live => msq[Occupy].msgs = <<>>
      /\ ~Stuck /\ (\A q \in Proc : ~Halfway(q)) => Whole
  BY DEF InStep
<1>4. InStepAt(p)
  OBVIOUS
\* With the token p is alone, and unless it is half way through finds all three.
<1>5. Locked(p) /\ pc[p] \in Critical =>
          \A q \in Proc : q # p => /\ pc[q] \notin OpenPlaces \cup {"open_attach"}
                                   /\ pc[q] \in Critical => ~Locked(q)
  BY <1>1, Alone
<1>6. Holding(p) =>
          /\ \A q \in Proc : q # p => ~Holding(q) /\ ~Halfway(q)
          /\ ~Stuck
  BY DEF LockInv, Halfway, Stuck
<1>7. Holding(p) /\ pc[p] \notin {"open_free", "open_init", "rm_occupy", "rm_free"} => Whole
  BY <1>3, <1>6 DEF Halfway
<1>8. \A q \in Proc : q # p => (Holding(q)' <=> Holding(q)) /\ (Halfway(q)' <=> Halfway(q))
  BY <1>2 DEF Holding, Halfway, Locked
<1>9. pc[p] \in OpenPlaces \cup {"open_attach"} => Locked(p)
  BY <1>1 DEF UnlockedOK
\* A step without the token that changes no object, or with it that finds them together.
<1>10. ASSUME shm' = shm, SameQueue(Occupy), SameQueue(Free),
              ~Stuck', \A q \in Proc : ~Halfway(q)',
              Holding(p) => ~Halfway(p)
       PROVE  Whole'
  <2>1. CASE Holding(p)
    <3>1. Whole
      BY <1>7, <1>10, <2>1 DEF Halfway
    <3> QED BY <1>10, <3>1 DEF Whole, SameQueue
  <2>2. CASE ~Holding(p)
    <3>1. ~Stuck
      BY <1>10, <2>2, StuckStays
    <3>2. \A q \in Proc : ~Halfway(q)
      BY <1>8, <1>10, <2>2 DEF Halfway
    <3>3. Whole
      BY <1>3, <3>1, <3>2
    <3> QED BY <1>10, <3>3 DEF Whole, SameQueue
  <2> QED BY <2>1, <2>2
<1>11. CASE Quiet(p)
  <2>1. /\ shm' = shm /\ SameQueue(Occupy) /\ SameQueue(Free) /\ Keeps(p)
        /\ pc[p] \notin OpenPlaces \cup RemovePlaces
        /\ pc'[p] \notin OpenPlaces \cup {"rm_occupy", "rm_free"}
        /\ \/ msq'[Occupy].msgs = msq[Occupy].msgs /\ msq'[Free].msgs = msq[Free].msgs
           \/ User(p)
    BY <1>11, QuietDoes
  <2>2. ~Stuck' /\ (\A q \in Proc : ~Halfway(q)') => Whole'
    BY <1>10, <2>1 DEF Halfway, RemovePlaces
  <2>3. \/ SendTake(p) \/ SendCopy(p) \/ SendPost(p) \/ RecvTake(p) \/ RecvCopy(p) \/ RecvGive(p)
        \/ msq'[Occupy].msgs = msq[Occupy].msgs /\ msq'[Free].msgs = msq[Free].msgs
    <3>1. CASE Open(p) \/ Close(p) \/ Release(p) \/ LockFails(p) \/ AcquireLock(p) \/ LockCreate(p) \/ LockInit(p) \/ Unlock(p)
      <4>1. msq'[Occupy] = msq[Occupy] /\ msq'[Free] = msq[Free]
        BY <3>1, OpenDoes, CloseDoes, ReleaseDoes, LockFailsDoes, AcquireLockDoes, LockCreateDoes, LockInitDoes, UnlockDoes,
           KeysDistinct DEF OthersSame
      <4> QED BY <4>1
    <3> QED BY <1>11, <3>1 DEF Quiet
  <2>4. \/ msq'[Occupy].msgs = msq[Occupy].msgs \/ msq[Occupy].msgs # <<>>
        \/ Valid(Occupy, obj[p].m_OccupyMsqID) /\ pc[p] # "open_free"
    <3>1. SendPost(p) => Valid(Occupy, obj[p].m_OccupyMsqID) \/ msq'[Occupy].msgs = msq[Occupy].msgs
      BY SendPostDoes
    <3>2. RecvTake(p) => msq[Occupy].msgs # <<>>
      BY RecvTakeDoes
    <3>3. SendTake(p) \/ SendCopy(p) \/ RecvCopy(p) \/ RecvGive(p) => msq'[Occupy].msgs = msq[Occupy].msgs
      BY KeysDistinct, SendTakeDoes, SendCopyDoes, RecvCopyDoes, RecvGiveDoes DEF OthersSame
    <3> QED BY <2>1, <2>3, <3>1, <3>2, <3>3
  <2>5. \/ msq'[Free].msgs = msq[Free].msgs \/ msq[Free].msgs # <<>>
        \/ Valid(Free, obj[p].m_FreeMsqID)
    <3>1. RecvGive(p) => Valid(Free, obj[p].m_FreeMsqID) \/ msq'[Free].msgs = msq[Free].msgs
      BY RecvGiveDoes
    <3>2. SendTake(p) => msq[Free].msgs # <<>>
      BY SendTakeDoes
    <3>3. SendPost(p) \/ SendCopy(p) \/ RecvCopy(p) \/ RecvTake(p) => msq'[Free].msgs = msq[Free].msgs
      BY KeysDistinct, SendPostDoes, SendCopyDoes, RecvCopyDoes, RecvTakeDoes DEF OthersSame
    <3> QED BY <2>3, <3>1, <3>2, <3>3
  <2>6. ~msq'[Free].live => msq'[Occupy].msgs = <<>>
    BY <1>3, <1>4, <2>1, <2>4, OccupyHasFree DEF SameQueue, Valid
  <2>7. ASSUME NEW q \in Proc PROVE InStepAt(q)'
    <3>1. CASE q = p
      BY <1>4, <2>1, <3>1 DEF InStepAt, SameQueue, Keeps, RemovePlaces
    <3>2. CASE q # p
      <4>1. InStepAt(q) /\ pc'[q] = pc[q] /\ obj'[q] = obj[q]
        BY <1>2, <3>2
      <4>2. \A r \in Proc : obj'[r].m_FreeMsqID = obj[r].m_FreeMsqID
        BY <1>2, <2>1 DEF Keeps
      <4>3. ASSUME pc[q] = "open_init"
            PROVE  msq'[Free].msgs = <<>> /\ msq'[Occupy].msgs = <<>>
        <5>1. msq[Free].msgs = <<>> /\ msq[Occupy].msgs = <<>> /\ obj[p].m_FreeMsqID # msq[Free].gen
          BY <3>2, <4>1, <4>3 DEF InStepAt
        <5>2. ~Valid(Free, obj[p].m_FreeMsqID)
          BY <5>1 DEF Valid
        <5>3. ~(Valid(Occupy, obj[p].m_OccupyMsqID) /\ pc[p] # "open_free")
          BY <1>4, <5>2, OccupyHasFree
        <5> QED BY <2>4, <2>5, <5>1, <5>2, <5>3
      <4> QED BY <2>1, <4>1, <4>2, <4>3 DEF InStepAt, SameQueue, Locked, Whole
    <3> QED BY <3>1, <3>2
  <2> QED BY <1>3, <2>1, <2>2, <2>6, <2>7 DEF InStep, SameQueue
\* Nobody else is in a place that depends on what p does with the token.
<1>12. Locked(p) /\ pc[p] \in Critical => \A q \in Proc : q # p => InStepAt(q)'
  <2>1. ASSUME Locked(p), pc[p] \in Critical, NEW q \in Proc, q # p PROVE InStepAt(q)'
    <3>1. /\ InStepAt(q) /\ pc'[q] = pc[q] /\ obj'[q] = obj[q]
          /\ pc[q] \notin OpenPlaces /\ (pc[q] \in Critical => ~Locked(q))
      BY <1>2, <1>5, <2>1
    <3> QED BY <3>1 DEF InStepAt, Locked, Critical
  <2> QED BY <2>1
\* Without it, nothing happens to the three objects.
<1>13. ASSUME shm' = shm, msq' = msq, obj'[p].m_FreeMsqID \in {obj[p].m_FreeMsqID, None}
       PROVE  \A q \in Proc : q # p => InStepAt(q)'
  <2>1. ASSUME NEW q \in Proc, q # p PROVE InStepAt(q)'
    <3>1. InStepAt(q) /\ pc'[q] = pc[q] /\ obj'[q] = obj[q]
      BY <1>2, <2>1
    <3>2. \A r \in Proc : obj'[r].m_FreeMsqID \in {obj[r].m_FreeMsqID, None}
      BY <1>2, <1>13
    <3>3. None # msq[Free].gen
      BY NumbersAre
    <3> QED BY <1>13, <3>1, <3>2, <3>3 DEF InStepAt, Locked, Whole
  <2> QED BY <2>1
<1>14. ASSUME shm' = shm, msq' = msq, Holding(p) => ~Halfway(p) PROVE InStep'
  <2>1. ~Stuck' /\ (\A q \in Proc : ~Halfway(q)') => Whole'
    BY <1>10, <1>14 DEF SameQueue
  <2> QED BY <1>3, <1>14, <2>1 DEF InStep
<1>15. ~Locked(p) => /\ ~obj[p].m_IsOpen /\ obj[p].m_MsgQueueInfo = None
                     /\ obj[p].m_OccupyMsqID = None /\ obj[p].m_FreeMsqID = None
  BY <1>1 DEF UnlockedOK
<1>16. /\ shm.gen \in Nat /\ shm.live \in BOOLEAN
       /\ msq[Occupy].gen \in Nat /\ msq[Free].gen \in Nat
       /\ msq[Occupy].live \in BOOLEAN /\ msq[Free].live \in BOOLEAN
       /\ obj[p].m_FreeMsqID <= msq[Free].gen /\ obj[p].m_FreeMsqID \in Int
       /\ None = -1
  BY NumbersAre
<1>17. CASE OpenAttach(p)
  <2>1. /\ pc[p] = "open_attach" /\ pc'[p] = "open_free"
        /\ \/ msq[Occupy].live /\ msq' = msq
           \/ ~msq[Occupy].live /\ Made(Occupy) /\ OthersSame(Occupy)
        /\ \/ shm.live /\ shm' = shm
           \/ ~shm.live /\ shm'.gen = shm.gen + 1 /\ shm'.live
        /\ obj'[p].m_MsgQueueInfo = shm'.gen /\ obj'[p].m_OccupyMsqID = msq'[Occupy].gen
        /\ obj'[p].m_ProcLockID = obj[p].m_ProcLockID
    BY <1>0, <1>17, OpenAttachDoes DEF ObjectIs
  <2>2. Locked(p) /\ pc[p] \in Critical /\ Holding(p)
    BY <1>9, <2>1 DEF Critical, Holding
  <2>3. Whole
    BY <1>7, <2>1, <2>2
  <2>4. /\ msq'[Free] = msq[Free] /\ msq'[Occupy].live /\ shm'.live
        /\ \/ shm.live /\ shm' = shm /\ msq' = msq
           \/ /\ ~shm.live /\ shm'.gen = shm.gen + 1 /\ msq'[Occupy].gen = msq[Occupy].gen + 1
              /\ msq'[Occupy].msgs = <<>>
    BY <2>1, <2>3, KeysDistinct DEF Made, Becomes, OthersSame, Whole
  <2>5. Halfway(p)'
    BY <2>1, <2>2 DEF Halfway, Holding, Locked, Critical
  <2>6. /\ shm.gen = msq[Occupy].gen /\ shm.gen = msq[Free].gen
        /\ shm.live = msq[Occupy].live /\ shm.live = msq[Free].live
    BY <2>3 DEF Whole
  <2>7. InStep'
    <3>1. CASE shm.live /\ shm' = shm /\ msq' = msq
      BY <1>3, <2>5, <3>1 DEF InStep
    <3>2. CASE /\ ~shm.live /\ shm'.gen = shm.gen + 1 /\ msq'[Occupy].gen = msq[Occupy].gen + 1
               /\ msq'[Occupy].msgs = <<>>
      BY <1>16, <2>4, <2>5, <2>6, <3>2 DEF InStep
    <3> QED BY <2>4, <3>1, <3>2
  <2>8. InStepAt(p)'
    <3>1. shm'.gen = msq'[Occupy].gen
      BY <2>4, <2>6
    <3>2. ~msq'[Free].live => msq'[Free].gen + 1 = shm'.gen
      BY <2>4, <2>6
    <3> QED BY <2>1, <2>4, <3>1, <3>2 DEF InStepAt
  <2> QED BY <1>12, <2>2, <2>7, <2>8
<1>18. CASE OpenFree(p)
  <2>1. /\ pc[p] = "open_free"
        /\ \/ ~msq[Free].live /\ pc'[p] = "open_init" /\ Made(Free) /\ OthersSame(Free)
           \/ msq[Free].live /\ pc'[p] = "open_count" /\ msq' = msq
        /\ obj'[p].m_MsgQueueInfo = obj[p].m_MsgQueueInfo
        /\ obj'[p].m_OccupyMsqID = obj[p].m_OccupyMsqID /\ obj'[p].m_FreeMsqID = msq'[Free].gen
        /\ obj'[p].m_ProcLockID = obj[p].m_ProcLockID /\ shm' = shm
    BY <1>0, <1>18, OpenFreeDoes DEF ObjectIs
  <2>2. Locked(p) /\ pc[p] \in Critical /\ Holding(p)
    BY <1>9, <2>1 DEF Critical, Holding
  <2>3. /\ shm.live /\ msq[Occupy].live /\ obj[p].m_MsgQueueInfo = shm.gen
        /\ obj[p].m_OccupyMsqID = shm.gen
        /\ ~msq[Free].live => msq[Free].gen + 1 = shm.gen
    BY <1>4, <2>1 DEF InStepAt
  <2>4. CASE ~msq[Free].live /\ pc'[p] = "open_init" /\ Made(Free) /\ OthersSame(Free)
    <3>1. /\ msq'[Occupy] = msq[Occupy] /\ msq'[Free].live /\ msq'[Free].gen = shm.gen
          /\ msq'[Free].gen = msq[Free].gen + 1 /\ msq'[Free].msgs = <<>>
      BY <2>3, <2>4, KeysDistinct DEF Made, Becomes, OthersSame
    <3>2. Halfway(p)'
      BY <2>1, <2>2, <2>4 DEF Halfway, Holding, Locked, Critical
    <3>3. InStep'
      BY <1>3, <1>16, <2>1, <2>3, <3>1, <3>2 DEF InStep
    <3>4. \A q \in Proc \ {p} : obj'[q].m_FreeMsqID # msq'[Free].gen
      <4>1. ASSUME NEW q \in Proc, q # p PROVE obj'[q].m_FreeMsqID # msq'[Free].gen
        <5>1. obj'[q] = obj[q] /\ obj[q].m_FreeMsqID \in Int /\ obj[q].m_FreeMsqID <= msq[Free].gen
          BY <1>2, <4>1, NumbersAre
        <5> QED BY <1>16, <3>1, <5>1
      <4> QED BY <4>1
    <3>5. InStepAt(p)'
      BY <1>3, <2>1, <2>3, <2>4, <3>1, <3>4 DEF InStepAt
    <3> QED BY <1>12, <2>2, <3>3, <3>5
  <2>5. CASE msq[Free].live /\ pc'[p] = "open_count" /\ msq' = msq
    <3>1. InStep'
      BY <1>3, <2>1, <2>3, <2>5 DEF InStep, Whole
    <3>2. InStepAt(p)'
      BY <1>3, <2>1, <2>3, <2>5 DEF InStepAt
    <3> QED BY <1>12, <2>2, <3>1, <3>2
  <2> QED BY <2>1, <2>4, <2>5
<1>19. CASE OpenInit(p)
  <2>1. /\ pc[p] = "open_init" /\ pc'[p] = "open_count" /\ obj' = obj /\ shm' = shm
    BY <1>0, <1>19, OpenInitDoes
  <2>2. /\ msq'[Occupy].gen = msq[Occupy].gen /\ msq'[Occupy].live = msq[Occupy].live
        /\ msq'[Free].gen = msq[Free].gen /\ msq'[Free].live = msq[Free].live
        /\ msq'[Occupy].msgs = msq[Occupy].msgs
    BY <1>19, OpenInitDoes DEF Becomes
  <2>3. Locked(p) /\ pc[p] \in Critical
    BY <1>9, <2>1 DEF Critical
  <2>4. /\ shm.live /\ msq[Occupy].live /\ obj[p].m_MsgQueueInfo = shm.gen
        /\ obj[p].m_OccupyMsqID = shm.gen /\ obj[p].m_FreeMsqID = shm.gen
    BY <1>4, <2>1 DEF InStepAt
  <2>5. msq[Free].gen = shm.gen /\ msq[Free].live
    BY <1>3, <1>16, <2>4
  <2>6. InStep'
    BY <1>3, <2>1, <2>2, <2>4, <2>5 DEF InStep, Whole
  <2>7. InStepAt(p)'
    BY <2>1, <2>2, <2>4 DEF InStepAt
  <2> QED BY <1>12, <2>3, <2>6, <2>7
<1>20. CASE OpenCount(p)
  <2>1. /\ pc[p] = "open_count" /\ pc'[p] = "unlock" /\ shm' = shm /\ msq' = msq
        /\ obj'[p].m_MsgQueueInfo = obj[p].m_MsgQueueInfo
        /\ obj'[p].m_OccupyMsqID = obj[p].m_OccupyMsqID /\ obj'[p].m_FreeMsqID = obj[p].m_FreeMsqID
    <3>1. /\ pc[p] = "open_count" /\ pc' = [pc EXCEPT ![p] = "unlock"] /\ shm' = shm /\ msq' = msq
      BY <1>20 DEF OpenCount, Goto
    <3>2. /\ obj'[p].m_MsgQueueInfo = obj[p].m_MsgQueueInfo
          /\ obj'[p].m_OccupyMsqID = obj[p].m_OccupyMsqID /\ obj'[p].m_FreeMsqID = obj[p].m_FreeMsqID
      BY <1>20, OpenCountDoes DEF ObjectIs
    <3> QED BY <1>0, <3>1, <3>2
  <2>2. InStep'
    BY <1>14, <2>1 DEF Halfway
  <2>3. InStepAt(p)'
    BY <1>4, <2>1 DEF InStepAt
  <2> QED BY <1>13, <2>1, <2>2, <2>3
<1>21. CASE CloseCount(p)
  <2>1. /\ pc[p] = "close" /\ pc'[p] \in {"unlock", "rm_shm"} /\ shm' = shm /\ msq' = msq
        /\ obj'[p].m_MsgQueueInfo = obj[p].m_MsgQueueInfo
        /\ obj'[p].m_OccupyMsqID = obj[p].m_OccupyMsqID /\ obj'[p].m_FreeMsqID = obj[p].m_FreeMsqID
    BY <1>0, <1>21, CloseCountDoes DEF ObjectIs
  <2>2. InStep'
    BY <1>14, <2>1 DEF Halfway
  <2>3. InStepAt(p)'
    BY <1>4, <2>1 DEF InStepAt
  <2> QED BY <1>13, <2>1, <2>2, <2>3
<1>22. CASE RemoveShm(p)
  <2>1. /\ pc[p] = "rm_shm" /\ pc'[p] = "rm_occupy" /\ msq' = msq /\ obj' = obj
        /\ shm'.gen = shm.gen /\ shm'.live = (shm.live /\ shm.gen # obj[p].m_MsgQueueInfo)
        /\ shm' \in [gen : Nat, live : BOOLEAN]
    BY <1>0, <1>22, RemoveShmDoes
  <2>2. CASE Locked(p)
    <3>1. pc[p] \in Critical /\ Holding(p) /\ Halfway(p)'
      BY <2>1, <2>2 DEF Critical, Holding, Halfway, Locked
    <3>2. Whole
      BY <1>7, <2>1, <3>1
    <3>3. InStep'
      BY <1>3, <2>1, <3>1 DEF InStep
    <3>4. InStepAt(p)'
      BY <1>4, <1>16, <2>1, <3>2 DEF InStepAt, Whole
    <3> QED BY <1>12, <2>2, <3>1, <3>3, <3>4
  <2>3. CASE ~Locked(p)
    <3>1. shm' = shm
      BY <1>15, <1>16, <2>1, <2>3, ShmType
    <3>2. InStep'
      BY <1>14, <2>1, <3>1 DEF Halfway
    <3>3. InStepAt(p)'
      BY <1>4, <2>1, <2>3, <3>1 DEF InStepAt, Locked
    <3> QED BY <1>13, <2>1, <3>1, <3>2, <3>3
  <2> QED BY <2>2, <2>3
<1>23. CASE RemoveOccupy(p)
  <2>1. /\ pc[p] = "rm_occupy" /\ pc'[p] = "rm_free" /\ shm' = shm /\ obj' = obj
    BY <1>0, <1>23, RemoveOccupyDoes
  <2>2. /\ \/ Valid(Occupy, obj[p].m_OccupyMsqID) /\ Gone(Occupy) /\ OthersSame(Occupy)
           \/ ~Valid(Occupy, obj[p].m_OccupyMsqID) /\ msq' = msq
    BY <1>23, RemoveOccupyDoes
  <2>3. CASE Locked(p)
    <3>1. pc[p] \in Critical /\ Holding(p) /\ Halfway(p)'
      BY <2>1, <2>3 DEF Critical, Holding, Halfway, Locked
    <3>2. /\ msq[Free].gen = shm.gen /\ msq[Free].live = msq[Occupy].live
          /\ shm.live = (msq[Occupy].live /\ obj[p].m_MsgQueueInfo # shm.gen)
          /\ obj[p].m_OccupyMsqID = obj[p].m_MsgQueueInfo /\ obj[p].m_FreeMsqID = obj[p].m_MsgQueueInfo
      BY <1>4, <2>1, <2>3 DEF InStepAt
    <3>3. CASE Valid(Occupy, obj[p].m_OccupyMsqID)
      <4>1. /\ msq'[Occupy].gen = msq[Occupy].gen /\ msq'[Occupy].live = FALSE /\ msq'[Occupy].msgs = <<>>
            /\ msq'[Free] = msq[Free]
        <5>1. Gone(Occupy) /\ OthersSame(Occupy)
          BY <2>2, <3>3
        <5>2. msq'[Free] = msq[Free]
          BY <5>1, KeysDistinct DEF OthersSame
        <5> QED BY <5>1, <5>2 DEF Gone, Becomes
      <4>2. InStep'
        BY <1>3, <2>1, <3>1, <4>1 DEF InStep
      <4>3. InStepAt(p)'
        BY <1>3, <2>1, <3>2, <3>3, <4>1 DEF InStepAt, Valid
      <4> QED BY <1>12, <2>3, <3>1, <4>2, <4>3
    <3>4. CASE ~Valid(Occupy, obj[p].m_OccupyMsqID)
      <4>1. msq' = msq
        BY <2>2, <3>4
      <4>2. InStep'
        BY <1>3, <2>1, <3>1, <4>1 DEF InStep
      <4>3. InStepAt(p)'
        BY <1>3, <1>16, <2>1, <3>2, <3>4, <4>1 DEF InStepAt, Valid, Whole
      <4> QED BY <1>12, <2>3, <3>1, <4>2, <4>3
    <3> QED BY <3>3, <3>4
  <2>4. CASE ~Locked(p)
    <3>1. msq' = msq
      BY <1>15, <1>16, <2>2, <2>4 DEF Valid
    <3>2. InStep'
      BY <1>14, <2>1, <2>4, <3>1 DEF Halfway, Holding
    <3>3. InStepAt(p)'
      BY <1>4, <2>1, <2>4, <3>1 DEF InStepAt, Locked
    <3> QED BY <1>13, <2>1, <3>1, <3>2, <3>3
  <2> QED BY <2>3, <2>4
<1>24. CASE RemoveFree(p)
  <2>1. /\ pc[p] = "rm_free" /\ pc'[p] = "unlock" /\ shm' = shm
        /\ obj'[p].m_MsgQueueInfo = obj[p].m_MsgQueueInfo
        /\ obj'[p].m_OccupyMsqID = obj[p].m_OccupyMsqID /\ obj'[p].m_FreeMsqID = obj[p].m_FreeMsqID
    BY <1>0, <1>24, RemoveFreeDoes DEF ObjectIs
  <2>2. /\ \/ Valid(Free, obj[p].m_FreeMsqID) /\ Gone(Free) /\ OthersSame(Free)
           \/ ~Valid(Free, obj[p].m_FreeMsqID) /\ msq' = msq
    BY <1>24, RemoveFreeDoes
  <2>3. InStepAt(p)'
    BY <1>4, <2>1 DEF InStepAt
  <2>4. CASE Locked(p)
    <3>1. pc[p] \in Critical
      BY <2>1 DEF Critical
    <3>2. IF obj[p].m_FreeMsqID = msq[Free].gen
          THEN msq[Free].gen = shm.gen /\ ~shm.live /\ ~msq[Occupy].live
          ELSE Whole
      BY <1>4, <2>1, <2>4 DEF InStepAt
    <3>3. msq'[Occupy] = msq[Occupy] /\ msq'[Free].gen = msq[Free].gen
      BY <2>2, KeysDistinct DEF Gone, Becomes, OthersSame
    <3>4. ~msq[Occupy].live => msq[Occupy].msgs = <<>>
      BY DEF TypeInv, EmptyWhenGone
    <3>5. CASE obj[p].m_FreeMsqID = msq[Free].gen
      <4>1. msq'[Free].live = FALSE
        BY <1>16, <2>2, <3>5 DEF Gone, Becomes, Valid
      <4> QED BY <1>3, <1>12, <1>16, <2>1, <2>3, <2>4, <3>1, <3>2, <3>3, <3>4, <3>5, <4>1 DEF InStep, Whole
    <3>6. CASE obj[p].m_FreeMsqID # msq[Free].gen
      <4>1. msq' = msq
        BY <2>2, <3>6 DEF Valid
      <4> QED BY <1>3, <1>12, <2>1, <2>3, <2>4, <3>1, <3>2, <3>6, <4>1 DEF InStep, Whole
    <3> QED BY <3>5, <3>6
  <2>5. CASE ~Locked(p)
    <3>1. msq' = msq
      BY <1>15, <1>16, <2>2, <2>5 DEF Valid
    <3>2. InStep'
      BY <1>14, <2>1, <2>5, <3>1 DEF Halfway, Holding
    <3> QED BY <1>13, <2>1, <2>3, <3>1, <3>2
  <2> QED BY <2>4, <2>5
<1>25. CASE Crash(p)
  <2>1. /\ pc'[p] = "idle" /\ msq' = msq /\ shm' = shm /\ Trouble("crash")
        /\ obj'[p].m_MsgQueueInfo = None /\ obj'[p].m_OccupyMsqID = None /\ obj'[p].m_FreeMsqID = None
        /\ obj'[p].m_ProcLockID = None
    BY <1>0, <1>25, CrashDoes DEF ObjectIs
  <2>2. CASE Holding(p)
    <3>1. count'.crash # 0
      <4>1. count'.crash = count.crash + 1 /\ count.crash \in Nat
        BY <2>1, TroubleIs, CountType
      <4> QED BY <4>1
    <3>2. msq[Lock].live /\ msq[Lock].msgs = <<>>
      BY <2>2 DEF LockInv, Holding, Valid
    <3>3. \A q \in Proc : ~Holding(q)'
      BY <1>6, <1>8, <2>1, <2>2 DEF Holding, Locked
    <3>4. Stuck'
      BY <2>1, <3>1, <3>2, <3>3 DEF Stuck
    <3> QED BY <1>3, <1>13, <2>1, <3>4 DEF InStep, InStepAt
  <2>3. CASE ~Holding(p)
    <3>1. InStep'
      BY <1>14, <2>1, <2>3
    <3> QED BY <1>13, <2>1, <3>1 DEF InStepAt
  <2> QED BY <2>2, <2>3
<1> QED BY <1>1, <1>11, <1>17, <1>18, <1>19, <1>20, <1>21, <1>22, <1>23, <1>24, <1>25
        DEF Action, Quiet

\* Nothing exists initially.
LEMMA SyncInit == Init => SyncInv
<1> SUFFICES ASSUME Init PROVE SyncInv
  OBVIOUS
<1>1. \A p \in Proc : obj[p] = NewObject /\ pc[p] = "idle"
  BY DEF Init
<1>2. /\ shm.gen = 0 /\ shm.live = FALSE
      /\ msq[Occupy].gen = 0 /\ msq[Occupy].live = FALSE /\ msq[Occupy].msgs = <<>>
      /\ msq[Free].gen = 0 /\ msq[Free].live = FALSE
  BY KeysDistinct DEF Init
<1>3. /\ ~msq[Occupy].live /\ ~msq[Free].live /\ msq[Free].gen <= shm.gen
      /\ Whole
  <2>1. ~msq[Occupy].live /\ ~msq[Free].live /\ 0 <= 0
    BY <1>2
  <2>2. msq[Free].gen <= shm.gen
    BY <1>2, <2>1
  <2>3. Whole
    BY <1>2, Zenon DEF Whole
  <2> QED BY <2>1, <2>2, <2>3
<1>4. InStep
  BY <1>2, <1>3 DEF InStep
<1>5. \A p \in Proc : InStepAt(p)
  BY <1>1 DEF InStepAt, NewObject
<1> QED BY <1>4, <1>5 DEF SyncInv

\* Every step keeps SyncInv.
LEMMA SyncNext == TypeInv /\ LockInv /\ UnlockedOK /\ SyncInv /\ [Next]_vars => SyncInv'
<1>1. ASSUME SyncInv, UNCHANGED vars PROVE SyncInv'
  BY <1>1 DEF vars, SyncInv, InStep, InStepAt, Whole, Stuck, Halfway, Holding, Locked
<1>2. ASSUME TypeInv, LockInv, UnlockedOK, SyncInv, NEW p \in Proc, Action(p) PROVE SyncInv'
  <2>1. ASSUME count'.lost = 0, count'.fail = 0 PROVE InStep' /\ \A q \in Proc : InStepAt(q)'
    <3>1. count.lost = 0 /\ count.fail = 0
      BY <1>2, <2>1, TroubleMoves
    <3>2. InStep /\ \A q \in Proc : InStepAt(q)
      BY <1>2, <3>1 DEF SyncInv
    <3> QED BY <1>2, <2>1, <3>2, SyncStep
  <2> QED BY <2>1 DEF SyncInv
<1> QED BY <1>1, <1>2, NextAction

\* In a run in which no open fails the segment and its queues are of the same
\* generation, created together and removed together, except by the process that
\* has the token or was killed with it; and so are the identifiers of an object.
THEOREM SyncHolds == Spec => []SyncInv
  BY SyncInit, SyncNext, TypeInvHolds, LockInvHolds, UnlockedHolds, PTL DEF Spec

-----------------------------------------------------------------------------
(* The last close removes the queue.                                       *)

\* No release, crash, failure or lost identifier.
NoTrouble == count.release + count.crash + count.fail + count.lost = 0

\* A sum of counters is zero when each one is.
LEMMA NoTroubleIs ==
    ASSUME TypeInv
    PROVE  NoTrouble <=> count.release = 0 /\ count.crash = 0 /\ count.fail = 0 /\ count.lost = 0
  BY CountType DEF NoTrouble

\* A run without trouble had none before.
LEMMA NoTroubleMoves ==
    ASSUME TypeInv, NEW p \in Proc, Action(p), NoTrouble'
    PROVE  NoTrouble /\ ~LockLost(p) /\ ~FreeLost(p) /\ ~OpenFails(p) /\ ~Release(p) /\ ~Crash(p)
<1>1. /\ count'.release \in Nat /\ count'.crash \in Nat /\ count'.fail \in Nat /\ count'.lost \in Nat
  BY CountStep DEF CountOK
<1>2. \A a, b, c, d \in Nat : a + b + c + d = 0 => a = 0 /\ b = 0 /\ c = 0 /\ d = 0
  OBVIOUS
<1>3. count'.release + count'.crash + count'.fail + count'.lost = 0
  BY DEF NoTrouble
<1>4. /\ count'.release = 0 /\ count'.crash = 0 /\ count'.fail = 0 /\ count'.lost = 0
  BY <1>1, <1>2, <1>3
<1> QED BY <1>4, TroubleMoves, NoTroubleIs

\* What CloseInv says of a state with no trouble.
Counted ==
    /\ shm.live /\ msq[Free].live /\ (\A q \in Proc : pc[q] # "open_init") =>
           Cardinality(OpenObjects) = mem[shm.gen].referenceCount
    /\ shm.live /\ OpenObjects = {} =>
           \E q \in Proc : pc[q] \in {"open_free", "open_init", "open_count"}

\* Every step of a run without trouble keeps the counter exact.
LEMMA CountedStep ==
    ASSUME TypeInv, LockInv, UnlockedOK, Standing, InStep, \A q \in Proc : InStepAt(q), Counted,
           NEW p \in Proc, Action(p), NoTrouble', ~count'.again
    PROVE  Counted'
<1> USE DEF OpenPlaces
<1>0. pc \in [Proc -> Places]
  BY PcType
<1>1. /\ count.lost = 0 /\ ~LockLost(p) /\ ~FreeLost(p) /\ ~OpenFails(p) /\ ~Release(p) /\ ~Crash(p)
      /\ OpenCount(p) => ~obj[p].m_IsOpen
  BY NoTroubleMoves, TroubleMoves, NoTroubleIs
<1>2. \A q \in Proc : q # p => pc'[q] = pc[q] /\ obj'[q] = obj[q]
  BY Frame
<1>3. /\ \A q \in Proc : obj[q].m_IsOpen /\ ~Removing(q) =>
             /\ shm.gen = obj[q].m_MsgQueueInfo /\ shm.live /\ msq[Free].live
      /\ IsFiniteSet(OpenObjects)
      /\ StaysAt(p)
  BY DEF Standing, Valid
<1>4. InStepAt(p)
  OBVIOUS
<1>5. /\ shm.live /\ msq[Free].live /\ (\A q \in Proc : pc[q] # "open_init") =>
             Cardinality(OpenObjects) = mem[shm.gen].referenceCount
      /\ shm.live /\ OpenObjects = {} => \E q \in Proc : pc[q] \in OpenPlaces
  BY DEF Counted
<1>6. Locked(p) /\ pc[p] \in Critical => \A q \in Proc : q # p => pc[q] \notin OpenPlaces
  BY <1>1, Alone
<1>7. obj[p].m_IsOpen \/ pc[p] \in OpenPlaces \cup {"open_attach"} => Locked(p)
  BY <1>1 DEF UnlockedOK
<1>8. SUFFICES
      /\ shm'.live /\ msq'[Free].live /\ (\A q \in Proc : pc'[q] # "open_init") =>
             Cardinality(OpenObjects') = mem'[shm'.gen].referenceCount
      /\ shm'.live /\ OpenObjects' = {} => \E q \in Proc : pc'[q] \in OpenPlaces
  BY DEF Counted
<1>9. shm.live => shm.gen \in Generation
  BY ShmType, GenerationsInRange DEF TypeInv, NotUsedYet, Generation
<1>10. CASE Quiet(p)
  <2>1. /\ shm' = shm /\ SameQueue(Free) /\ Keeps(p)
        /\ \A g \in Generation : mem'[g].referenceCount = mem[g].referenceCount
        /\ pc[p] \notin OpenPlaces /\ pc'[p] \notin OpenPlaces
    BY <1>10, QuietDoes
  <2>2. OpenObjects' = OpenObjects
    BY <1>2, <2>1 DEF Keeps, OpenObjects
  <2>3. \A q \in Proc : pc[q] \in OpenPlaces => pc'[q] = pc[q]
    BY <1>2, <2>1
  <2>4. (\A q \in Proc : pc'[q] # "open_init") => \A q \in Proc : pc[q] # "open_init"
    BY <2>3
  <2>5. ASSUME shm'.live, msq'[Free].live, \A q \in Proc : pc'[q] # "open_init"
        PROVE  Cardinality(OpenObjects') = mem'[shm'.gen].referenceCount
    <3>1. shm.live /\ msq[Free].live /\ shm.gen \in Generation
      BY <1>9, <2>1, <2>5 DEF SameQueue
    <3>2. Cardinality(OpenObjects) = mem[shm.gen].referenceCount
      BY <1>5, <2>4, <2>5, <3>1
    <3> QED BY <2>1, <2>2, <3>1, <3>2
  <2>6. ASSUME shm'.live, OpenObjects' = {} PROVE \E q \in Proc : pc'[q] \in OpenPlaces
    BY <1>5, <2>1, <2>2, <2>3, <2>6
  <2> QED BY <2>5, <2>6
<1>11. CASE OpenAttach(p) \/ OpenFree(p)
  <2>1. /\ pc[p] \in {"open_attach", "open_free"} /\ pc'[p] \in OpenPlaces /\ mem' = mem
        /\ obj'[p].m_IsOpen = obj[p].m_IsOpen
    BY <1>0, <1>11, OpenAttachDoes, OpenFreeDoes DEF ObjectIs
  <2>2. OpenObjects' = OpenObjects
    BY <1>2, <2>1 DEF OpenObjects
  <2>3. Locked(p) /\ pc[p] \in Critical
    BY <1>7, <2>1 DEF Critical
  <2>4. \A q \in Proc : pc[q] # "open_init"
    BY <1>6, <2>1, <2>3
  <2>5. shm'.live /\ msq'[Free].live /\ pc'[p] # "open_init" => shm' = shm /\ shm.live /\ msq[Free].live
    <3>1. CASE OpenAttach(p)
      <4>1. Whole
        <5>1. Holding(p) /\ pc[p] = "open_attach"
          BY <2>3, <3>1, OpenAttachDoes DEF Holding
        <5>2. ~Stuck /\ \A q \in Proc : ~Halfway(q)
          BY <5>1 DEF LockInv, Stuck, Halfway
        <5> QED BY <5>2 DEF InStep
      <4>2. shm' = shm \/ ~shm.live
        BY <3>1, OpenAttachDoes
      <4>3. msq'[Free] = msq[Free]
        BY <3>1, OpenAttachDoes, KeysDistinct DEF OthersSame
      <4> QED BY <4>1, <4>2, <4>3 DEF Whole
    <3>2. CASE OpenFree(p)
      <4>1. shm' = shm /\ (pc'[p] # "open_init" => msq[Free].live)
        BY <1>0, <3>2, OpenFreeDoes
      <4> QED BY <4>1
    <3> QED BY <1>11, <3>1, <3>2
  <2> QED BY <1>5, <2>1, <2>2, <2>4, <2>5
<1>12. CASE OpenInit(p)
  <2> DEFINE g == obj[p].m_MsgQueueInfo
  <2>1. /\ pc[p] = "open_init" /\ pc'[p] = "open_count" /\ obj' = obj /\ shm' = shm
        /\ mem'[g].referenceCount = 0
    BY <1>0, <1>12, OpenInitDoes
  <2>2. shm.gen = g /\ OpenObjects = {}
    BY <1>3, <2>1 DEF StaysAt
  <2>3. Cardinality(OpenObjects') = 0
    BY <2>1, <2>2, FS_EmptySet DEF OpenObjects
  <2> QED BY <2>1, <2>2, <2>3
<1>13. CASE OpenCount(p)
  <2> DEFINE g == obj[p].m_MsgQueueInfo
  <2>1. /\ pc[p] = "open_count" /\ pc'[p] = "unlock" /\ shm' = shm /\ msq' = msq
        /\ mem[g].referenceCount \in Int /\ mem'[g].referenceCount = mem[g].referenceCount + 1
    BY <1>0, <1>13, OpenCountDoes
  <2>2. obj'[p].m_IsOpen
    BY <1>13, OpenCountDoes DEF ObjectIs
  <2>3. shm.live /\ shm.gen = g /\ msq[Free].live
    BY <1>3, <2>1 DEF StaysAt, Valid
  <2>4. Locked(p) /\ pc[p] \in Critical
    BY <1>7, <2>1 DEF Critical
  <2>5. \A q \in Proc : pc[q] # "open_init"
    BY <1>6, <2>1, <2>4
  <2>6. Cardinality(OpenObjects') = Cardinality(OpenObjects) + 1 /\ p \in OpenObjects'
    BY <1>1, <1>3, <1>13, <2>2, OpenObjectsAre
  <2>7. Cardinality(OpenObjects) = mem[g].referenceCount
    BY <1>5, <2>3, <2>5
  <2> QED BY <2>1, <2>3, <2>6, <2>7
<1>14. CASE CloseCount(p)
  <2> DEFINE g == obj[p].m_MsgQueueInfo
  <2>0. pc[p] = "close" /\ shm' = shm /\ msq' = msq
    BY <1>14, CloseCountDoes
  <2>1. CASE pc'[p] \in {"unlock", "rm_shm"} /\ mem' = mem /\ obj' = obj
    <3>1. OpenObjects' = OpenObjects
      BY <2>1 DEF OpenObjects
    <3>2. \A q \in Proc : pc[q] \in OpenPlaces => pc'[q] = pc[q]
      BY <1>2, <2>0
    <3>3. (\A q \in Proc : pc'[q] # "open_init") => \A q \in Proc : pc[q] # "open_init"
      BY <3>2
    <3> QED BY <1>5, <2>0, <2>1, <3>1, <3>2, <3>3
  <2>2. CASE /\ obj[p].m_IsOpen /\ mem[g].referenceCount \in Int \ {1}
             /\ mem'[g].referenceCount = mem[g].referenceCount - 1
             /\ ~obj'[p].m_IsOpen
    <3>1. shm.gen = g /\ shm.live /\ msq[Free].live
      BY <1>3, <2>0, <2>2 DEF Removing
    <3>2. Locked(p) /\ pc[p] \in Critical
      BY <1>7, <2>0, <2>2 DEF Critical
    <3>3. \A q \in Proc : pc[q] # "open_init"
      BY <1>6, <2>0, <3>2
    <3>4. Cardinality(OpenObjects) = mem[g].referenceCount
      BY <1>5, <3>1, <3>3
    <3>5. /\ Cardinality(OpenObjects') = Cardinality(OpenObjects) - 1
          /\ Cardinality(OpenObjects) >= 1 /\ Cardinality(OpenObjects) \in Nat
      BY <1>3, <2>2, OpenObjectsAre
    <3>6. OpenObjects' # {}
      <4>1. Cardinality({}) = 0
        BY FS_EmptySet
      <4>2. Cardinality(OpenObjects') # 0
        BY <2>2, <3>4, <3>5
      <4> QED BY <4>1, <4>2
    <3> QED BY <2>0, <2>2, <3>1, <3>4, <3>5, <3>6
  <2> QED BY <1>0, <1>14, <2>1, <2>2, CloseCountDoes DEF ObjectIs
<1>15. CASE RemoveShm(p) \/ RemoveOccupy(p) \/ RemoveFree(p)
  <2>1. pc[p] \in {"rm_shm", "rm_occupy", "rm_free"}
    BY <1>15, RemoveShmDoes, RemoveOccupyDoes, RemoveFreeDoes
  <2>2. Locked(p) /\ Valid(Free, obj[p].m_FreeMsqID)
    BY <1>3, <1>7, <2>1 DEF StaysAt, Removing, OpenObjects
  <2>3. ~shm'.live
    <3>1. CASE RemoveShm(p)
      <4>1. shm'.live = (shm.live /\ shm.gen # obj[p].m_MsgQueueInfo) /\ pc[p] = "rm_shm"
        BY <3>1, RemoveShmDoes
      <4>2. shm.gen = obj[p].m_MsgQueueInfo
        BY <1>3, <4>1 DEF StaysAt
      <4> QED BY <4>1, <4>2
    <3>2. CASE RemoveOccupy(p)
      <4>1. shm' = shm /\ pc[p] = "rm_occupy"
        BY <3>2, RemoveOccupyDoes
      <4>2. /\ shm.live = (msq[Occupy].live /\ obj[p].m_MsgQueueInfo # shm.gen)
            /\ obj[p].m_OccupyMsqID = obj[p].m_MsgQueueInfo
        BY <1>4, <2>2, <4>1 DEF InStepAt
      <4>3. obj[p].m_OccupyMsqID = msq[Occupy].gen /\ msq[Occupy].gen = shm.gen
        BY <1>3, <4>1 DEF StaysAt, Valid, InStep
      <4> QED BY <4>1, <4>2, <4>3
    <3>3. CASE RemoveFree(p)
      <4>1. shm' = shm /\ pc[p] = "rm_free"
        BY <3>3, RemoveFreeDoes
      <4> QED BY <1>4, <2>2, <4>1 DEF InStepAt, Valid
    <3> QED BY <1>15, <3>1, <3>2, <3>3
  <2> QED BY <2>3
<1> QED BY <1>1, <1>10, <1>11, <1>12, <1>13, <1>14, <1>15 DEF Action, Quiet

\* CloseInv in those words.
LEMMA CloseInvIs == CloseInv <=> (NoTrouble /\ ~count.again => Counted)
  BY DEF CloseInv, NoTrouble, Counted

\* Nothing is open initially.
LEMMA CloseInit == Init => CloseInv
<1> SUFFICES ASSUME Init PROVE CloseInv
  OBVIOUS
<1>1. ~shm.live
  BY DEF Init
<1> QED BY <1>1 DEF CloseInv

\* Every step keeps CloseInv.
LEMMA CloseNext ==
    TypeInv /\ LockInv /\ UnlockedOK /\ StaysInv /\ SyncInv /\ CloseInv /\ [Next]_vars => CloseInv'
<1>1. ASSUME CloseInv, UNCHANGED vars PROVE CloseInv'
  BY <1>1 DEF vars, CloseInv, OpenObjects
<1>2. ASSUME TypeInv, LockInv, UnlockedOK, StaysInv, SyncInv, CloseInv, NEW p \in Proc, Action(p)
      PROVE  CloseInv'
  <2>1. ASSUME NoTrouble', ~count'.again PROVE Counted'
    <3>1. NoTrouble /\ ~count.again
      BY <1>2, <2>1, NoTroubleMoves, TroubleMoves
    <3>2. count.release = 0 /\ count.crash = 0 /\ count.fail = 0 /\ count.lost = 0
      BY <1>2, <3>1, NoTroubleIs
    <3>3. Standing /\ InStep /\ (\A q \in Proc : InStepAt(q)) /\ Counted
      BY <1>2, <3>1, <3>2, CloseInvIs DEF StaysInv, SyncInv
    <3> QED BY <1>2, <2>1, <3>3, CountedStep
  <2> QED BY <2>1 DEF CloseInv, NoTrouble, Counted
<1> QED BY <1>1, <1>2, NextAction

\* Without trouble the counter in the segment is the number of open objects, and
\* there is a segment only while one is open or an open is under way.
THEOREM CloseHolds == Spec => []CloseInv
  BY CloseInit, CloseNext, TypeInvHolds, LockInvHolds, UnlockedHolds, StaysHolds, SyncHolds, PTL DEF Spec

\* The last close leaves no kernel object behind, when nobody was killed, nobody
\* opened twice or called release, and no open failed (CloseCount's test of the
\* counter against one, then the three removals).
THEOREM LastCloses == Spec => []LastCloseRemoves
<1>1. ASSUME TypeInv, SyncInv, CloseInv PROVE LastCloseRemoves
  <2> SUFFICES ASSUME NoTrouble, ~count.again,
                      \A p \in Proc : /\ pc[p] \in {"idle", "close_lock", "open_lock", "lock_create"}
                                      /\ ~obj[p].m_IsOpen
               PROVE  ~shm.live /\ ~msq[Occupy].live /\ ~msq[Free].live
    BY DEF LastCloseRemoves, NoTrouble
  <2>1. count.crash = 0 /\ count.fail = 0 /\ count.lost = 0
    BY <1>1, NoTroubleIs
  <2>2. OpenObjects = {}
    BY DEF OpenObjects
  <2>3. ~shm.live
    BY <1>1, <2>2, CloseInvIs DEF Counted
  <2>4. ~Stuck /\ \A p \in Proc : ~Halfway(p)
    BY <2>1 DEF Stuck, Halfway
  <2>5. Whole
    BY <1>1, <2>1, <2>4 DEF SyncInv, InStep
  <2> QED BY <2>3, <2>5 DEF Whole
<1> QED BY <1>1, TypeInvHolds, SyncHolds, CloseHolds, PTL

-----------------------------------------------------------------------------
(* Messages left without a segment.                                        *)

\* Every step of a run without a release leaves no messages to a new segment.
LEMMA LeftoverStep ==
    ASSUME TypeInv, LockInv, UnlockedOK, Standing, LeftoverInv, NEW p \in Proc, Action(p),
           count'.lost = 0, count'.release = 0
    PROVE  LeftoverInv'
<1> USE DEF OpenPlaces
<1>0. pc \in [Proc -> Places]
  BY PcType
<1>1. /\ count.lost = 0 /\ count.release = 0 /\ ~LockLost(p) /\ ~FreeLost(p) /\ ~Release(p)
  BY TroubleMoves
<1>2. \A q \in Proc : q # p => (Holding(q)' <=> Holding(q)) /\ (Halfway(q)' <=> Halfway(q))
  BY Frame DEF Holding, Halfway, Locked
<1>3. ~Stuck /\ (\A q \in Proc : ~Halfway(q)) /\ ~shm.live => msq[Occupy].msgs = <<>>
  BY <1>1 DEF LeftoverInv
<1>4. Holding(p) => ~Stuck /\ \A q \in Proc : q # p => ~Holding(q) /\ ~Halfway(q)
  BY DEF LockInv, Halfway, Stuck
<1>5. StaysAt(p)
  BY DEF Standing
<1>6. obj[p].m_IsOpen \/ pc[p] \in OpenPlaces \cup {"open_attach"} => Locked(p)
  BY <1>1 DEF UnlockedOK
<1>7. ~msq[Occupy].live => msq[Occupy].msgs = <<>>
  BY DEF TypeInv, EmptyWhenGone
<1> SUFFICES ASSUME ~Stuck', \A q \in Proc : ~Halfway(q)', ~shm'.live PROVE msq'[Occupy].msgs = <<>>
  BY DEF LeftoverInv
\* Before a step of a process that is not half way through, things were as after it.
<1>8. ASSUME ~Halfway(p), ~shm.live PROVE msq[Occupy].msgs = <<>>
  <2>1. CASE Holding(p)
    BY <1>3, <1>4, <1>8, <2>1
  <2>2. CASE ~Holding(p)
    <3>1. ~Stuck
      BY <2>2, StuckStays
    <3>2. \A q \in Proc : ~Halfway(q)
      BY <1>2, <1>8
    <3> QED BY <1>3, <1>8, <3>1, <3>2
  <2> QED BY <2>1, <2>2
<1>9. CASE Quiet(p)
  <2>1. shm' = shm /\ pc[p] \notin OpenPlaces \cup RemovePlaces
    BY <1>9, QuietDoes
  <2>2. ~Halfway(p)
    BY <2>1 DEF Halfway, RemovePlaces
  <2>3. msq[Occupy].msgs = <<>>
    BY <1>8, <2>1, <2>2
  <2>4. \/ msq'[Occupy].msgs = msq[Occupy].msgs \/ User(p)
    BY <1>9, QuietDoes
  <2>5. ~User(p)
    <3>1. User(p) => obj[p].m_IsOpen /\ ~Removing(p)
      BY DEF User, Removing, InBlock
    <3> QED BY <2>1, <3>1 DEF Standing
  <2> QED BY <2>3, <2>4, <2>5
<1>10. CASE OpenAttach(p)
  <2>1. shm'.live
    BY <1>10, OpenAttachDoes
  <2> QED BY <2>1
<1>11. CASE OpenFree(p) \/ OpenInit(p) \/ OpenCount(p)
  <2>1. pc[p] \in OpenPlaces /\ shm' = shm
    BY <1>11, OpenFreeDoes, OpenInitDoes, OpenCountDoes
  <2>2. shm.live
    BY <1>5, <2>1 DEF StaysAt
  <2> QED BY <2>1, <2>2
<1>12. CASE OpenFails(p)
  <2>1. /\ shm' = shm \/ (~shm.live /\ shm'.gen = shm.gen + 1 /\ shm'.live)
        /\ pc[p] \in {"open_attach", "open_free"}
    BY <1>12, OpenFailsDoes
  <2>2. msq'[Occupy].msgs \in {msq[Occupy].msgs, <<>>}
    BY <1>12, OpenFailsDoes DEF Made, Becomes
  <2>3. pc[p] = "open_free" => shm.live
    BY <1>5 DEF StaysAt
  <2>4. ~Halfway(p)
    BY <2>1, <2>3 DEF Halfway
  <2> QED BY <1>8, <2>1, <2>2, <2>4
<1>13. CASE CloseCount(p)
  <2>1. pc[p] = "close" /\ shm' = shm /\ msq' = msq
    BY <1>13, CloseCountDoes
  <2>2. ~Halfway(p)
    BY <2>1 DEF Halfway
  <2> QED BY <1>8, <2>1, <2>2
<1>14. CASE RemoveShm(p)
  <2>1. pc[p] = "rm_shm" /\ pc'[p] = "rm_occupy" /\ obj' = obj
    BY <1>0, <1>14, RemoveShmDoes
  <2>2. Locked(p)
    BY <1>5, <1>6, <2>1 DEF StaysAt, Removing, OpenObjects
  <2>3. Halfway(p)'
    BY <2>1, <2>2 DEF Halfway, Holding, Locked, Critical
  <2> QED BY <2>3
<1>15. CASE RemoveOccupy(p)
  <2>1. Gone(Occupy)
    BY <1>5, <1>15, RemoveOccupyDoes DEF StaysAt
  <2> QED BY <2>1 DEF Gone, Becomes
<1>16. CASE RemoveFree(p)
  <2>1. ~msq[Occupy].live
    BY <1>5, <1>16, RemoveFreeDoes DEF StaysAt
  <2>2. msq'[Occupy] = msq[Occupy]
    BY <1>16, RemoveFreeDoes, KeysDistinct DEF OthersSame
  <2> QED BY <1>7, <2>1, <2>2
<1>17. CASE Crash(p)
  <2>1. /\ msq' = msq /\ shm' = shm /\ Trouble("crash") /\ obj'[p].m_ProcLockID = None
    BY <1>17, CrashDoes DEF ObjectIs
  <2>2. CASE Holding(p)
    <3>1. count'.crash # 0
      <4>1. count'.crash = count.crash + 1 /\ count.crash \in Nat
        BY <2>1, TroubleIs, CountType
      <4> QED BY <4>1
    <3>2. msq[Lock].live /\ msq[Lock].msgs = <<>>
      BY <2>2 DEF LockInv, Holding, Valid
    <3>3. \A q \in Proc : ~Holding(q)'
      BY <1>2, <1>4, <2>1, <2>2 DEF Holding, Locked
    <3>4. Stuck'
      BY <2>1, <3>1, <3>2, <3>3 DEF Stuck
    <3> QED BY <3>4
  <2>3. CASE ~Holding(p)
    BY <1>8, <2>1, <2>3 DEF Halfway
  <2> QED BY <2>2, <2>3
<1> QED BY <1>1, <1>9, <1>10, <1>11, <1>12, <1>13, <1>14, <1>15, <1>16, <1>17 DEF Action, Quiet

\* Every step keeps LeftoverInv.
LEMMA LeftoverNext ==
    TypeInv /\ LockInv /\ UnlockedOK /\ StaysInv /\ LeftoverInv /\ [Next]_vars => LeftoverInv'
<1>1. ASSUME LeftoverInv, UNCHANGED vars PROVE LeftoverInv'
  BY <1>1 DEF vars, LeftoverInv, Stuck, Halfway, Holding, Locked
<1>2. ASSUME TypeInv, LockInv, UnlockedOK, StaysInv, LeftoverInv, NEW p \in Proc, Action(p)
      PROVE  LeftoverInv'
  <2>1. CASE count'.lost = 0 /\ count'.release = 0
    <3>1. Standing
      BY <1>2, <2>1, TroubleMoves DEF StaysInv
    <3> QED BY <1>2, <2>1, <3>1, LeftoverStep
  <2>2. CASE ~(count'.lost = 0 /\ count'.release = 0)
    BY <2>2 DEF LeftoverInv
  <2> QED BY <2>1, <2>2
<1> QED BY <1>1, <1>2, NextAction

\* Messages of the occupied queue are left without a segment only while the process
\* that removes them is at it, or was killed there: then nobody opens any more.
THEOREM LeftoverHolds == Spec => []LeftoverInv
<1>1. Init => LeftoverInv
  BY KeysDistinct DEF Init, LeftoverInv
<1> QED BY <1>1, LeftoverNext, TypeInvHolds, LockInvHolds, UnlockedHolds, StaysHolds, PTL DEF Spec

-----------------------------------------------------------------------------
(* What both accounts give.                                                *)

\* A user is at no place of open or close.
LEMMA UserIs ==
    ASSUME NEW p \in Proc, User(p)
    PROVE  obj[p].m_IsOpen /\ ~Removing(p) /\ pc[p] \notin {"open_free", "open_init", "open_count", "open_attach"}
  BY DEF User, Removing, InBlock

\* Both accounts give what the blocks depend on.
LEMMA Linked ==
    TypeInv /\ LockInv /\ UnlockedOK /\ StaysInv /\ LeftoverInv /\ SyncInv => LinkedInv
<1> SUFFICES ASSUME TypeInv, LockInv, UnlockedOK, StaysInv, LeftoverInv, SyncInv, Orderly PROVE LinkedInv
  BY DEF LinkedInv
<1>1. count.lost = 0 /\ (count.fail = 0 \/ count.release = 0)
  BY DEF Orderly
<1>2. \A p \in Proc : pc[p] = "open_attach" =>
          Holding(p) /\ ~Stuck /\ \A q \in Proc : ~Halfway(q) /\ (Holding(q) => q = p)
  <2>1. ASSUME NEW p \in Proc, pc[p] = "open_attach" PROVE Holding(p)
    BY <1>1, <2>1 DEF UnlockedOK, Holding, Critical
  <2> QED BY <2>1 DEF LockInv, Stuck, Halfway
<1>3. CASE count.release = 0
  <2>1. Standing
    BY <1>1, <1>3 DEF StaysInv
  <2>2. ~msq[Free].live => msq[Occupy].msgs = <<>>
    BY <2>1 DEF Standing
  <2>3. \A q \in Proc : User(q) =>
            /\ Valid(Occupy, obj[q].m_OccupyMsqID) /\ Valid(Free, obj[q].m_FreeMsqID)
            /\ obj[q].m_MsgQueueInfo = shm.gen
    BY <2>1, UserIs DEF Standing
  <2>4. \A p \in Proc : pc[p] = "open_init" =>
              /\ Valid(Free, obj[p].m_FreeMsqID) /\ Valid(Occupy, obj[p].m_OccupyMsqID)
              /\ msq[Free].msgs = <<>> /\ msq[Occupy].msgs = <<>>
              /\ \A q \in Proc : ~User(q)
    BY <2>1, UserIs DEF Standing, StaysAt, OpenObjects
  <2>5. ASSUME count.crash = 0, msq[Free].live, ~msq[Occupy].live, NEW p \in Proc
        PROVE  pc[p] # "open_attach"
    <3>1. PICK q \in Proc : pc[q] = "rm_free"
      BY <2>1, <2>5 DEF Standing
    <3>2. obj[q].m_IsOpen
      BY <2>1, <3>1 DEF Standing, StaysAt, Removing, OpenObjects
    <3>3. Holding(q)
      BY <1>1, <3>1, <3>2 DEF UnlockedOK, Holding, Critical
    <3> QED BY <1>2, <3>1, <3>3
  <2>6. ~shm.live /\ (\E p \in Proc : pc[p] = "open_attach") => msq[Occupy].msgs = <<>>
    BY <1>1, <1>2, <1>3 DEF LeftoverInv
  <2> QED BY <2>2, <2>3, <2>4, <2>5, <2>6 DEF LinkedInv, Valid
<1>4. CASE count.fail = 0
  <2>1. InStep /\ \A q \in Proc : InStepAt(q)
    BY <1>1, <1>4 DEF SyncInv
  <2>2. /\ shm.gen = msq[Occupy].gen /\ msq[Free].gen <= shm.gen
        /\ msq[Free].live => msq[Free].gen = shm.gen
        /\ msq[Occupy].live /\ msq[Free].gen = shm.gen => msq[Free].live
        /\ ~msq[Free].live => msq[Occupy].msgs = <<>>
        /\ ~Stuck /\ (\A q \in Proc : ~Halfway(q)) => Whole
    BY <2>1 DEF InStep
  <2>3. \A q \in Proc : pc[q] # "open_free" =>
            /\ obj[q].m_OccupyMsqID = obj[q].m_MsgQueueInfo /\ obj[q].m_FreeMsqID = obj[q].m_MsgQueueInfo
    BY <2>1 DEF InStepAt
  <2>4. ASSUME NEW p \in Proc, User(p)
        PROVE  /\ Valid(Occupy, obj[p].m_OccupyMsqID) =>
                      Valid(Free, obj[p].m_FreeMsqID) /\ obj[p].m_MsgQueueInfo = shm.gen
               /\ Valid(Free, obj[p].m_FreeMsqID) /\ msq[Occupy].live =>
                      Valid(Occupy, obj[p].m_OccupyMsqID)
               /\ obj[p].m_MsgQueueInfo = shm.gen /\ msq[Occupy].msgs # <<>> =>
                      Valid(Free, obj[p].m_FreeMsqID)
               /\ \A q \in Proc : User(q) /\ obj[p].m_MsgQueueInfo = obj[q].m_MsgQueueInfo =>
                      obj[p].m_FreeMsqID = obj[q].m_FreeMsqID
    <3>1. pc[p] # "open_free"
      BY <2>4, UserIs
    <3>2. Valid(Occupy, obj[p].m_OccupyMsqID) =>
              Valid(Free, obj[p].m_FreeMsqID) /\ obj[p].m_MsgQueueInfo = shm.gen
      BY <2>1, <3>1, OccupyHasFree
    <3>3. Valid(Free, obj[p].m_FreeMsqID) /\ msq[Occupy].live => Valid(Occupy, obj[p].m_OccupyMsqID)
      BY <2>2, <2>3, <3>1 DEF Valid
    <3>4. obj[p].m_MsgQueueInfo = shm.gen /\ msq[Occupy].msgs # <<>> => Valid(Free, obj[p].m_FreeMsqID)
      BY <2>2, <2>3, <3>1 DEF Valid
    <3>5. \A q \in Proc : User(q) => pc[q] # "open_free"
      BY UserIs
    <3> QED BY <2>3, <3>1, <3>2, <3>3, <3>4, <3>5
  <2>5. ASSUME NEW p \in Proc, pc[p] = "open_init"
        PROVE  /\ Valid(Free, obj[p].m_FreeMsqID) /\ Valid(Occupy, obj[p].m_OccupyMsqID)
               /\ msq[Free].msgs = <<>> /\ msq[Occupy].msgs = <<>>
               /\ \A q \in Proc : User(q) => obj[q].m_FreeMsqID # msq[Free].gen
    <3>1. /\ msq[Occupy].live /\ obj[p].m_MsgQueueInfo = shm.gen
          /\ msq[Free].msgs = <<>> /\ msq[Occupy].msgs = <<>>
          /\ \A q \in Proc \ {p} : obj[q].m_FreeMsqID # msq[Free].gen
          /\ obj[p].m_OccupyMsqID = shm.gen /\ obj[p].m_FreeMsqID = shm.gen
      BY <2>1, <2>5 DEF InStepAt
    <3>2. Valid(Occupy, obj[p].m_OccupyMsqID)
      BY <2>2, <3>1 DEF Valid
    <3>3. Valid(Free, obj[p].m_FreeMsqID)
      BY <2>1, <2>5, <3>2, OccupyHasFree
    <3>4. ~User(p)
      BY <2>5, UserIs
    <3> QED BY <3>1, <3>2, <3>3, <3>4
  <2>6. ASSUME NEW p \in Proc, pc[p] = "open_attach" PROVE Whole
    BY <1>2, <2>2, <2>6
  <2>7. ASSUME count.crash = 0, msq[Free].live, ~msq[Occupy].live, NEW p \in Proc
        PROVE  pc[p] # "open_attach"
    BY <2>6, <2>7 DEF Whole
  <2>8. ~shm.live /\ (\E p \in Proc : pc[p] = "open_attach") => msq[Occupy].msgs = <<>>
    BY <2>6 DEF Whole, TypeInv, EmptyWhenGone
  <2> QED BY <2>2, <2>4, <2>5, <2>7, <2>8 DEF LinkedInv
<1> QED BY <1>1, <1>3, <1>4

\* Through an object that is open a process finds a free queue and a segment that
\* belong to the occupied queue it finds, in every run in which no open fails or
\* nobody calls release.
THEOREM LinkedHolds == Spec => []LinkedInv
  BY Linked, TypeInvHolds, LockInvHolds, UnlockedHolds, StaysHolds, LeftoverHolds, SyncHolds, PTL

-----------------------------------------------------------------------------
(* Messages, and the blocks they carry.                                    *)

\* Queue k will carry block b.
WillCarry(k, b) == \E n \in DOMAIN msq'[k].msgs : msq'[k].msgs[n] = b

\* Receiving takes one block away and leaves the others.
LEMMA TakenCarries ==
    ASSUME TypeInv, NEW k \in {Occupy, Free}, msq[k].msgs # <<>>, Taken(k), Distinct(k)
    PROVE  /\ Head(msq[k].msgs) \in Index /\ Carries(k, Head(msq[k].msgs))
           /\ Distinct(k)'
           /\ \A b : WillCarry(k, b) <=> Carries(k, b) /\ b # Head(msq[k].msgs)
<1> DEFINE s == msq[k].msgs
           t == msq'[k].msgs
<1>1. s \in Seq(Nat) /\ s # <<>> /\ t = Tail(s)
  BY KeysDistinct, QueueType DEF TypeInv, Taken, Becomes
<1>2. Head(s) \in Index /\ Head(s) = s[1] /\ 1 \in DOMAIN s
  BY HeadInIndex
<1>3. Len(s) \in Nat /\ DOMAIN s = 1 .. Len(s) /\ DOMAIN t = 1 .. Len(t)
      /\ Len(t) = Len(s) - 1 /\ \A i \in 1 .. Len(t) : t[i] = s[i + 1]
  BY <1>1, HeadTailProperties, LenProperties
<1>4. \A m, n \in DOMAIN s : s[m] = s[n] => m = n
  BY DEF Distinct
<1> HIDE DEF s, t
<1>5. \A m, n \in DOMAIN t : t[m] = t[n] => m = n
  BY <1>3, <1>4
<1>6. ASSUME NEW b, NEW n \in DOMAIN t, t[n] = b
      PROVE  (\E m \in DOMAIN s : s[m] = b) /\ b # s[1]
  <2>1. n + 1 \in DOMAIN s /\ s[n + 1] = b /\ n + 1 # 1
    BY <1>3, <1>6
  <2> QED BY <1>2, <1>4, <2>1
<1>7. ASSUME NEW b, NEW n \in DOMAIN s, s[n] = b, b # s[1]
      PROVE  \E m \in DOMAIN t : t[m] = b
  <2>1. n - 1 \in DOMAIN t /\ t[n - 1] = s[n]
    BY <1>3, <1>7
  <2> QED BY <1>7, <2>1
<1>8. \A b : (\E n \in DOMAIN t : t[n] = b) <=> (\E n \in DOMAIN s : s[n] = b) /\ b # s[1]
  BY <1>6, <1>7
<1> QED BY <1>2, <1>5, <1>8 DEF s, t, Carries, WillCarry, Distinct

\* Posting a block that is not there leaves the blocks different.
LEMMA PutCarries ==
    ASSUME TypeInv, NEW k \in {Occupy, Free}, NEW m \in Index, Put(k, m), Distinct(k), ~Carries(k, m)
    PROVE  /\ Distinct(k)'
           /\ \A b : WillCarry(k, b) <=> Carries(k, b) \/ b = m
<1> DEFINE s == msq[k].msgs
           t == msq'[k].msgs
<1>1. s \in Seq(Nat) /\ m \in Nat /\ t = Append(s, m)
  BY KeysDistinct, QueueType, Values DEF TypeInv, Put, Becomes
<1>2. /\ Len(s) \in Nat /\ DOMAIN s = 1 .. Len(s) /\ DOMAIN t = 1 .. Len(s) + 1
      /\ (\A i \in 1 .. Len(s) : t[i] = s[i]) /\ t[Len(s) + 1] = m
  BY <1>1, AppendProperties, LenProperties
<1>3. /\ \A i, j \in DOMAIN s : s[i] = s[j] => i = j
      /\ \A i \in DOMAIN s : s[i] # m
  BY DEF Distinct, Carries
<1> HIDE DEF s, t
<1>4. \A i, j \in DOMAIN t : t[i] = t[j] => i = j
  BY <1>2, <1>3
<1>5. \A b : (\E n \in DOMAIN t : t[n] = b) <=> (\E n \in DOMAIN s : s[n] = b) \/ b = m
  BY <1>2
<1> QED BY <1>4, <1>5 DEF s, t, Carries, WillCarry, Distinct

\* An empty queue carries nothing.
LEMMA EmptyCarries ==
    ASSUME NEW k, msq[k].msgs = <<>> PROVE Distinct(k) /\ \A b : ~Carries(k, b)
<1>1. DOMAIN <<>> = {}
  OBVIOUS
<1> QED BY <1>1 DEF Distinct, Carries

\* A queue of different blocks, none of them b, is no longer than the other blocks.
LEMMA RoomLeft ==
    ASSUME TypeInv, NEW k \in {Occupy, Free}, Distinct(k), NEW b \in Index, ~Carries(k, b)
    PROVE  Len(msq[k].msgs) + 1 <= Blocks
<1> DEFINE s == msq[k].msgs
           T == Index \ {b}
<1>1. s \in Seq(Nat) /\ Len(s) \in Nat /\ DOMAIN s = 1 .. Len(s)
  BY KeysDistinct, QueueType, LenProperties DEF TypeInv
<1>2. /\ \A n \in DOMAIN s : s[n] \in T
      /\ \A m, n \in DOMAIN s : s[m] = s[n] => m = n
  BY IndexType DEF Distinct, Carries
<1>3. Blocks \in Nat /\ Index = 0 .. Blocks - 1
  BY BlocksFit
<1>4. IsFiniteSet(Index) /\ Cardinality(Index) = Blocks
  <2>1. 0 \in Int /\ Blocks - 1 \in Int
    BY <1>3
  <2>2. IsFiniteSet(0 .. Blocks - 1) /\ Cardinality(0 .. Blocks - 1) = IF 0 > Blocks - 1 THEN 0 ELSE Blocks - 1 - 0 + 1
    BY <2>1, FS_Interval
  <2> QED BY <1>3, <2>2
<1>5. IsFiniteSet(T) /\ Cardinality(T) = Blocks - 1
  BY <1>4, FS_RemoveElement
<1>6. s \in Injection(1 .. Len(s), T)
  <2>1. s \in [1 .. Len(s) -> T]
    BY <1>1, <1>2
  <2>2. \A m, n \in 1 .. Len(s) : s[m] = s[n] => m = n
    BY <1>1, <1>2
  <2>3. DOMAIN s = 1 .. Len(s)
    BY <1>1
  <2> HIDE DEF T
  <2> QED BY <2>1, <2>2, <2>3 DEF Injection, IsInjective
<1>7. Cardinality(1 .. Len(s)) <= Cardinality(T)
  BY <1>5, <1>6, FS_Injection
<1>8. Cardinality(1 .. Len(s)) = Len(s)
  <2>1. Cardinality(1 .. Len(s)) = IF 1 > Len(s) THEN 0 ELSE Len(s) - 1 + 1
    <3>1. 1 \in Int /\ Len(s) \in Int
      BY <1>1
    <3> QED BY <3>1, FS_Interval
  <2> QED BY <1>1, <2>1
<1> QED BY <1>1, <1>3, <1>5, <1>7, <1>8

-----------------------------------------------------------------------------
(* The limits.                                                             *)

\* Every step keeps the limits.
LEMMA LimitsStep ==
    ASSUME TypeInv, LinkedInv, LimitsInv, NEW p \in Proc, Action(p)
    PROVE  LimitsInv'
<1> SUFFICES ASSUME Orderly', NEW k \in {Occupy, Free}, msq'[k].live
             PROVE  Blocks * WordSize <= msq'[k].qbytes
  BY DEF LimitsInv
<1>1. Orderly /\ ~LockLost(p) /\ ~FreeLost(p)
  BY TroubleMoves
<1>2. msq[k].live => Blocks * WordSize <= msq[k].qbytes
  BY <1>1 DEF LimitsInv
<1>3. CASE msq'[k].live = msq[k].live /\ msq'[k].qbytes = msq[k].qbytes
  BY <1>2, <1>3
<1>4. CASE Made(k)
  BY <1>4, BlocksFit DEF Made, Becomes
<1>5. CASE OpenInit(p)
  <2>1. Valid(Free, obj[p].m_FreeMsqID) /\ Valid(Occupy, obj[p].m_OccupyMsqID)
    BY <1>1, <1>5, OpenInitDoes DEF LinkedInv
  <2>2. msq'[Occupy].qbytes = NumberSet(p) * WordSize /\ msq'[Free].qbytes = Blocks * WordSize
    BY <1>5, <2>1, OpenInitDoes DEF Becomes
  <2>3. NumberSet(p) = Blocks
    BY <2>1 DEF NumberSet
  <2>4. Blocks * WordSize <= Blocks * WordSize
    <3>1. Blocks * WordSize \in Int
      BY BlocksFit, QueueAssumption
    <3> QED BY <3>1
  <2> QED BY <2>2, <2>3, <2>4
<1>6. CASE Gone(k)
  BY <1>6 DEF Gone, Becomes
<1>7. CASE Quiet(p)
  BY <1>3, <1>7, QuietDoes DEF SameQueue
<1>8. CASE OpenAttach(p) \/ OpenFree(p) \/ OpenFails(p) \/ OpenCount(p) \/ CloseCount(p)
           \/ RemoveShm(p) \/ RemoveOccupy(p) \/ RemoveFree(p) \/ Crash(p)
  <2>1. msq'[k] = msq[k] \/ Made(k) \/ Gone(k)
    BY <1>8, KeysDistinct, OpenAttachDoes, OpenFreeDoes, OpenFailsDoes, OpenCountDoes, CloseCountDoes,
       RemoveShmDoes, RemoveOccupyDoes, RemoveFreeDoes, CrashDoes DEF OthersSame
  <2> QED BY <1>3, <1>4, <1>6, <2>1
<1> QED BY <1>1, <1>5, <1>7, <1>8 DEF Action, Quiet

\* A queue that exists has room for all the blocks: the limit is what the system
\* gives or what open sets, never less.
THEOREM LimitsHold == Spec => []LimitsInv
<1>1. Init => LimitsInv
  BY KeysDistinct DEF Init, LimitsInv
<1>2. TypeInv /\ LinkedInv /\ LimitsInv /\ [Next]_vars => LimitsInv'
  <2>1. ASSUME LimitsInv, UNCHANGED vars PROVE LimitsInv'
    BY <2>1 DEF vars, LimitsInv, Orderly
  <2> QED BY <2>1, LimitsStep, NextAction
<1> QED BY <1>1, <1>2, TypeInvHolds, LinkedHolds, PTL DEF Spec

-----------------------------------------------------------------------------
(* Where the blocks are.                                                   *)

HasFree(p) == Valid(Free, obj[p].m_FreeMsqID)

\* p receives a block from queue k,
Takes(p, k) ==
    /\ msq[k].msgs # <<>> /\ Taken(k) /\ OthersSame(k)
    /\ obj' = obj /\ HasFree(p)
    /\ pc[p] = "idle" /\ pc'[p] \in InBlock /\ hand'[p] = Head(msq[k].msgs)

\* passes it on,
Puts(p, k) ==
    /\ Put(k, hand[p]) /\ OthersSame(k)
    /\ obj' = obj /\ HasFree(p) /\ hand[p] \in Index
    /\ pc[p] \in InBlock /\ pc'[p] = "idle"

\* makes all of them,
Fills(p) ==
    /\ pc[p] = "open_init" /\ pc'[p] = "open_count" /\ obj' = obj
    /\ HasFree(p) /\ \A q \in Proc : User(q) => obj[q].m_FreeMsqID # msq[Free].gen
    /\ msq[Free].msgs = <<>> /\ msq'[Free].msgs = WithBlocks(<<>>)
    /\ msq'[Free].gen = msq[Free].gen
    /\ msq'[Occupy].msgs = <<>>

\* or leaves them where they are, unless the queues are new, or are gone.
Leaves(p) ==
    /\ \A k \in {Occupy, Free} : msq'[k].msgs = msq[k].msgs \/ msq'[k].msgs = <<>>
    /\ \A q \in Proc : pc'[q] \in InBlock /\ HasFree(q)' => HasFree(q)
    /\ \A q \in Proc : pc'[q] \in InBlock =>
           pc[q] \in InBlock /\ hand'[q] = hand[q] /\ obj'[q].m_FreeMsqID = obj[q].m_FreeMsqID
    /\ count'.crash = 0 /\ msq'[Occupy].live /\ msq'[Free].live /\ pc'[p] # "open_init" =>
           /\ msq[Occupy].live /\ msq[Free].live /\ pc[p] # "open_init"
           /\ msq'[Occupy].msgs = msq[Occupy].msgs /\ msq'[Free].msgs = msq[Free].msgs
           /\ \A q \in Proc : pc[q] \in InBlock /\ HasFree(q) => pc'[q] \in InBlock /\ HasFree(q)'

\* Every step moves the blocks in one of these ways.
LEMMA BlockMoves ==
    ASSUME TypeInv, LinkedInv, Orderly', NEW p \in Proc, Action(p)
    PROVE  Leaves(p) \/ Fills(p) \/ \E k \in {Occupy, Free} : Takes(p, k) \/ Puts(p, k)
<1> USE DEF InBlock
<1>0. pc \in [Proc -> Places] /\ hand \in [Proc -> Index \cup {None}]
  BY PcType, LocalTypes
<1>1. Orderly /\ ~LockLost(p) /\ ~FreeLost(p)
  BY TroubleMoves
<1>2. \A q \in Proc : q # p => pc'[q] = pc[q] /\ obj'[q] = obj[q] /\ hand'[q] = hand[q]
  BY Frame
<1>3. /\ msq[Occupy].gen \in Nat /\ msq[Free].gen \in Nat
      /\ \A q \in Proc : obj[q].m_FreeMsqID \in Int /\ obj[q].m_FreeMsqID <= msq[Free].gen
  BY NumbersAre
<1>4. \A k \in {Occupy, Free} : ~msq[k].live => msq[k].msgs = <<>>
  BY DEF TypeInv, EmptyWhenGone
<1>5. \A q \in Proc : User(q) =>
          /\ Valid(Occupy, obj[q].m_OccupyMsqID) => HasFree(q)
          /\ HasFree(q) /\ msq[Occupy].live => Valid(Occupy, obj[q].m_OccupyMsqID)
  BY <1>1 DEF LinkedInv, HasFree
<1>6. pc[p] \in InBlock => User(p)
  BY InBlockHas DEF User
\* A step with no block in hand before or after that changes no queue but the lock.
<1>7. ASSUME msq'[Occupy] = msq[Occupy], msq'[Free] = msq[Free], pc'[p] \notin InBlock,
             pc[p] \notin InBlock \/ count'.crash # 0, pc[p] # "open_init" \/ count'.crash # 0
      PROVE  Leaves(p)
  <2>1. \A q \in Proc : q # p => (HasFree(q)' <=> HasFree(q))
    BY <1>2, <1>7 DEF HasFree, Valid
  <2> QED BY <1>2, <1>7, <2>1 DEF Leaves
<1>8. CASE SendTake(p)
  <2>1. /\ pc[p] = "idle" /\ pc'[p] = "send_copy" /\ obj' = obj /\ HasFree(p)
        /\ msq[Free].msgs # <<>> /\ hand'[p] = Head(msq[Free].msgs)
    BY <1>0, <1>8, SendTakeDoes DEF HasFree
  <2>2. Taken(Free) /\ OthersSame(Free)
    BY <1>8, SendTakeDoes
  <2> QED BY <2>1, <2>2 DEF Takes
<1>9. CASE RecvTake(p)
  <2>1. /\ pc[p] = "idle" /\ pc'[p] = "recv_copy" /\ obj' = obj /\ obj[p].m_IsOpen
        /\ Valid(Occupy, obj[p].m_OccupyMsqID)
        /\ msq[Occupy].msgs # <<>> /\ hand'[p] = Head(msq[Occupy].msgs)
    BY <1>0, <1>9, RecvTakeDoes
  <2>2. Taken(Occupy) /\ OthersSame(Occupy)
    BY <1>9, RecvTakeDoes
  <2>3. HasFree(p)
    BY <1>5, <2>1 DEF User
  <2> QED BY <2>1, <2>2, <2>3 DEF Takes
<1>10. CASE SendCopy(p) \/ RecvCopy(p)
  <2>1. /\ pc[p] \in {"send_copy", "recv_copy"} /\ pc'[p] \in {"send_post", "recv_give"}
        /\ msq' = msq /\ obj' = obj /\ hand' = hand
    BY <1>0, <1>10, SendCopyDoes, RecvCopyDoes
  <2>2. \A q \in Proc : HasFree(q)' <=> HasFree(q)
    BY <2>1 DEF HasFree, Valid
  <2> QED BY <1>2, <2>1, <2>2 DEF Leaves
<1>11. CASE SendPost(p) \/ RecvGive(p)
  <2>1. /\ pc[p] \in {"send_post", "recv_give"} /\ pc'[p] = "idle" /\ obj' = obj /\ hand[p] \in Index
    BY <1>0, <1>11, SendPostDoes, RecvGiveDoes
  <2>2. CASE SendPost(p) /\ Valid(Occupy, obj[p].m_OccupyMsqID)
    <3>1. Put(Occupy, hand[p]) /\ OthersSame(Occupy)
      BY <2>2, SendPostDoes
    <3>2. HasFree(p)
      BY <1>5, <1>6, <2>1, <2>2
    <3> QED BY <2>1, <3>1, <3>2 DEF Puts
  <2>3. CASE RecvGive(p) /\ HasFree(p)
    <3>1. Put(Free, hand[p]) /\ OthersSame(Free)
      BY <2>3, RecvGiveDoes DEF HasFree
    <3> QED BY <2>1, <2>3, <3>1 DEF Puts
  <2>4. CASE /\ SendPost(p) => ~Valid(Occupy, obj[p].m_OccupyMsqID)
             /\ RecvGive(p) => ~HasFree(p)
    <3>1. msq' = msq
      BY <1>11, <2>4, SendPostDoes, RecvGiveDoes DEF HasFree
    <3>2. ~(HasFree(p) /\ msq[Occupy].live)
      BY <1>5, <1>6, <1>11, <2>1, <2>4
    <3>3. \A q \in Proc : HasFree(q)' <=> HasFree(q)
      BY <2>1, <3>1 DEF HasFree, Valid
    <3> QED BY <1>2, <2>1, <3>1, <3>2, <3>3 DEF Leaves
  <2> QED BY <1>11, <2>2, <2>3, <2>4
<1>12. CASE OpenInit(p)
  <2>1. /\ pc[p] = "open_init" /\ pc'[p] = "open_count" /\ obj' = obj
    BY <1>0, <1>12, OpenInitDoes
  <2>2. /\ Valid(Free, obj[p].m_FreeMsqID)
        /\ msq[Free].msgs = <<>> /\ msq[Occupy].msgs = <<>>
        /\ \A q \in Proc : User(q) => obj[q].m_FreeMsqID # msq[Free].gen
    BY <1>1, <2>1 DEF LinkedInv
  <2>3. /\ msq'[Free].msgs = WithBlocks(<<>>) /\ msq'[Free].gen = msq[Free].gen
        /\ msq'[Occupy].msgs = <<>>
    BY <1>12, <2>2, OpenInitDoes DEF Becomes
  <2> QED BY <2>1, <2>2, <2>3 DEF Fills, HasFree
<1>13. CASE OpenAttach(p) \/ OpenFails(p)
  <2>1. /\ pc[p] \in {"open_attach", "open_free"} /\ pc'[p] \in {"open_free", "unlock"}
        /\ msq' = msq \/ (pc[p] = "open_attach" /\ ~msq[Occupy].live /\ Made(Occupy) /\ OthersSame(Occupy))
    BY <1>0, <1>13, OpenAttachDoes, OpenFailsDoes
  <2>2. CASE msq' = msq
    BY <1>7, <2>1, <2>2
  <2>3. CASE pc[p] = "open_attach" /\ ~msq[Occupy].live /\ Made(Occupy) /\ OthersSame(Occupy)
    <3>1. msq'[Occupy].msgs = <<>> /\ msq'[Free] = msq[Free]
      BY <2>3, KeysDistinct DEF Made, Becomes, OthersSame
    <3>2. count'.crash = 0 => ~msq[Free].live
      BY <1>1, <2>3, TroubleMoves DEF LinkedInv
    <3>3. \A q \in Proc : q # p => (HasFree(q)' <=> HasFree(q))
      BY <1>2, <3>1 DEF HasFree, Valid
    <3> QED BY <1>2, <2>1, <3>1, <3>2, <3>3 DEF Leaves
  <2> QED BY <2>1, <2>2, <2>3
<1>14. CASE OpenFree(p)
  <2>1. /\ pc[p] = "open_free" /\ pc'[p] \in {"open_init", "open_count"}
        /\ \/ msq' = msq
           \/ ~msq[Free].live /\ pc'[p] = "open_init" /\ Made(Free) /\ OthersSame(Free)
    BY <1>0, <1>14, OpenFreeDoes
  <2>2. CASE msq' = msq
    BY <1>7, <2>1, <2>2
  <2>3. CASE ~msq[Free].live /\ pc'[p] = "open_init" /\ Made(Free) /\ OthersSame(Free)
    <3>1. msq'[Free].msgs = <<>> /\ msq'[Free].gen = msq[Free].gen + 1 /\ msq'[Occupy] = msq[Occupy]
      BY <2>3, KeysDistinct DEF Made, Becomes, OthersSame
    <3>2. \A q \in Proc : q # p => ~HasFree(q)'
      BY <1>2, <1>3, <3>1 DEF HasFree, Valid
    <3> QED BY <1>2, <2>1, <2>3, <3>1, <3>2 DEF Leaves
  <2> QED BY <2>1, <2>2, <2>3
<1>15. CASE RemoveOccupy(p) \/ RemoveFree(p)
  <2>1. /\ pc[p] \in {"rm_occupy", "rm_free"} /\ pc'[p] \in {"rm_free", "unlock"}
        /\ msq' = msq \/ \E k \in {Occupy, Free} : Gone(k) /\ OthersSame(k)
    BY <1>0, <1>15, RemoveOccupyDoes, RemoveFreeDoes
  <2>2. CASE msq' = msq
    BY <1>7, <2>1, <2>2
  <2>3. ASSUME NEW k \in {Occupy, Free}, Gone(k), OthersSame(k) PROVE Leaves(p)
    <3>1. /\ msq'[k].msgs = <<>> /\ ~msq'[k].live /\ msq'[k].gen = msq[k].gen
          /\ \A j \in {Occupy, Free} : j # k => msq'[j] = msq[j]
      BY <2>3, KeysDistinct DEF Gone, Becomes, OthersSame
    <3>2. \A q \in Proc : q # p => (HasFree(q)' => HasFree(q))
      BY <1>2, <3>1 DEF HasFree, Valid
    <3> QED BY <1>2, <2>1, <3>1, <3>2 DEF Leaves
  <2> QED BY <2>1, <2>2, <2>3
<1>16. CASE Crash(p)
  <2>1. msq' = msq /\ pc'[p] = "idle" /\ Trouble("crash")
    BY <1>0, <1>16, CrashDoes
  <2>2. count'.crash # 0
    <3>1. count'.crash = count.crash + 1 /\ count.crash \in Nat
      BY <2>1, TroubleIs, CountType
    <3> QED BY <3>1
  <2> QED BY <1>7, <2>1, <2>2
<1>17. CASE Open(p) \/ Close(p) \/ Release(p) \/ LockFails(p) \/ AcquireLock(p) \/ LockCreate(p) \/ LockInit(p) \/ Unlock(p)
            \/ OpenCount(p) \/ CloseCount(p) \/ RemoveShm(p)
  <2>1. msq'[Occupy] = msq[Occupy] /\ msq'[Free] = msq[Free]
    <3>1. CASE Open(p) \/ Close(p) \/ Release(p) \/ LockFails(p) \/ OpenCount(p) \/ CloseCount(p) \/ RemoveShm(p)
      <4>1. msq' = msq
        BY <3>1 DEF Open, Close, Release, LockFails, OpenCount, CloseCount, RemoveShm
      <4> QED BY <4>1
    <3>2. CASE AcquireLock(p)
      BY <3>2, KeysDistinct, AcquireLockDoes DEF OthersSame
    <3>3. CASE LockCreate(p)
      BY <3>3, KeysDistinct, LockCreateDoes DEF OthersSame
    <3>4. CASE LockInit(p)
      BY <3>4, KeysDistinct, LockInitDoes DEF OthersSame
    <3>5. CASE Unlock(p)
      BY <3>5, KeysDistinct, UnlockDoes DEF OthersSame
    <3> QED BY <1>17, <3>1, <3>2, <3>3, <3>4, <3>5
  <2>2. pc[p] \notin InBlock \cup {"open_init"} /\ pc'[p] \notin InBlock
    <3>1. CASE Open(p)
      BY <1>0, <3>1, OpenDoes DEF InBlock
    <3>2. CASE Close(p)
      BY <1>0, <3>2, CloseDoes DEF InBlock
    <3>3. CASE Release(p)
      BY <1>0, <3>3, ReleaseDoes DEF InBlock
    <3>4. CASE AcquireLock(p)
      BY <1>0, <3>4, AcquireLockDoes DEF InBlock
    <3>5. CASE LockCreate(p)
      BY <1>0, <3>5, LockCreateDoes DEF InBlock
    <3>6. CASE LockInit(p)
      BY <1>0, <3>6, LockInitDoes DEF InBlock
    <3>7. CASE Unlock(p)
      BY <1>0, <3>7, UnlockDoes DEF InBlock
    <3>8. CASE OpenCount(p)
      BY <1>0, <3>8, OpenCountDoes DEF InBlock
    <3>9. CASE CloseCount(p)
      BY <1>0, <3>9, CloseCountDoes DEF InBlock
    <3>10. CASE RemoveShm(p)
      BY <1>0, <3>10, RemoveShmDoes DEF InBlock
    <3>11. CASE LockFails(p)
      BY <1>0, <3>11, LockFailsDoes DEF InBlock
    <3> QED BY <1>17, <3>1, <3>2, <3>3, <3>4, <3>5, <3>6, <3>7, <3>8, <3>9, <3>10, <3>11
  <2> QED BY <1>7, <2>1, <2>2
<1> QED BY <1>1, <1>8, <1>9, <1>10, <1>11, <1>12, <1>13, <1>14, <1>15, <1>16, <1>17 DEF Action

\* What BlockInv says of the next state.
BlocksNext ==
    /\ Distinct(Free)' /\ Distinct(Occupy)'
    /\ \A b \in Index : ~(WillCarry(Free, b) /\ WillCarry(Occupy, b))
    /\ \A q \in Proc : pc'[q] \in InBlock /\ HasFree(q)' =>
           ~WillCarry(Free, hand'[q]) /\ ~WillCarry(Occupy, hand'[q])
    /\ \A q, r \in Proc : pc'[q] \in InBlock /\ pc'[r] \in InBlock /\ hand'[q] = hand'[r]
                          /\ obj'[q].m_FreeMsqID = obj'[r].m_FreeMsqID => q = r

\* Every step keeps the blocks apart.
LEMMA BlockStep ==
    ASSUME TypeInv, LinkedInv, BlockInv, NEW p \in Proc, Action(p)
    PROVE  BlockInv'
<1> SUFFICES ASSUME Orderly' PROVE BlockInv'
  BY DEF BlockInv
<1>0. Orderly
  BY TroubleMoves
<1>1. /\ Distinct(Free) /\ Distinct(Occupy)
      /\ \A b \in Index : ~(Carries(Free, b) /\ Carries(Occupy, b))
      /\ \A q \in Proc : pc[q] \in InBlock /\ HasFree(q) =>
             ~Carries(Free, hand[q]) /\ ~Carries(Occupy, hand[q])
      /\ \A q, r \in Proc : pc[q] \in InBlock /\ pc[r] \in InBlock /\ hand[q] = hand[r]
                            /\ obj[q].m_FreeMsqID = obj[r].m_FreeMsqID => q = r
  BY <1>0 DEF BlockInv, HasFree
<1>2. SUFFICES BlocksNext
  BY DEF BlocksNext, BlockInv, HasFree, Carries, WillCarry, Valid
<1>3. \A q \in Proc : q # p => pc'[q] = pc[q] /\ obj'[q] = obj[q] /\ hand'[q] = hand[q]
  BY Frame
<1>4. \A q, r \in Proc : obj[q].m_FreeMsqID = obj[r].m_FreeMsqID => (HasFree(q) <=> HasFree(r))
  BY DEF HasFree, Valid
<1>5. \A q, r \in Proc : HasFree(q) /\ HasFree(r) => obj[q].m_FreeMsqID = obj[r].m_FreeMsqID
  BY DEF HasFree, Valid
<1>6. CASE Leaves(p)
  <2>1. ASSUME NEW k \in {Occupy, Free}
        PROVE  Distinct(k)' /\ \A b : WillCarry(k, b) => Carries(k, b)
    <3>1. Distinct(k)
      BY <1>1
    <3>2. CASE msq'[k].msgs = msq[k].msgs
      BY <3>1, <3>2 DEF Distinct, Carries, WillCarry
    <3>3. CASE msq'[k].msgs = <<>>
      <4>1. DOMAIN msq'[k].msgs = {}
        BY <3>3
      <4> QED BY <4>1 DEF Distinct, Carries, WillCarry
    <3> QED BY <1>6, <3>2, <3>3 DEF Leaves
  <2>2. \A q \in Proc : pc'[q] \in InBlock =>
            /\ pc[q] \in InBlock /\ hand'[q] = hand[q] /\ obj'[q].m_FreeMsqID = obj[q].m_FreeMsqID
            /\ HasFree(q)' => HasFree(q)
    BY <1>6 DEF Leaves
  <2>3. /\ \A b : WillCarry(Free, b) => Carries(Free, b)
        /\ \A b : WillCarry(Occupy, b) => Carries(Occupy, b)
        /\ Distinct(Free)' /\ Distinct(Occupy)'
    BY <2>1
  <2> QED BY <1>1, <2>2, <2>3 DEF BlocksNext
<1>7. CASE Fills(p)
  <2>1. /\ pc[p] = "open_init" /\ pc'[p] = "open_count" /\ obj' = obj
        /\ \A q \in Proc : User(q) => obj[q].m_FreeMsqID # msq[Free].gen
        /\ msq'[Free].msgs = WithBlocks(<<>>) /\ msq'[Occupy].msgs = <<>>
        /\ msq'[Free].gen = msq[Free].gen
    BY <1>7 DEF Fills
  <2>2. /\ DOMAIN WithBlocks(<<>>) = 1 .. Blocks
        /\ \A n \in 1 .. Blocks : WithBlocks(<<>>)[n] = n - 1
    <3>1. <<>> \in Seq(Nat) /\ \A n \in DOMAIN <<>> : <<>>[n] \in Index
      OBVIOUS
    <3>2. /\ WithBlocks(<<>>) \in Seq(Nat) /\ Len(WithBlocks(<<>>)) = Blocks
          /\ \A n \in 1 .. Blocks : WithBlocks(<<>>)[n] = n - 1
      BY <3>1, WithBlocksIs
    <3>3. DOMAIN WithBlocks(<<>>) = 1 .. Len(WithBlocks(<<>>))
      BY <3>2, LenProperties
    <3> QED BY <3>2, <3>3
  <2>3. Distinct(Free)'
    <3>1. \A m, n \in 1 .. Blocks : m - 1 = n - 1 => m = n
      BY BlocksFit
    <3>2. DOMAIN msq'[Free].msgs = 1 .. Blocks /\ \A n \in 1 .. Blocks : msq'[Free].msgs[n] = n - 1
      BY <2>1, <2>2
    <3> QED BY <3>1, <3>2 DEF Distinct
  <2>4. DOMAIN msq'[Occupy].msgs = {}
    BY <2>1
  <2>5. Distinct(Occupy)' /\ \A b : ~WillCarry(Occupy, b)
    BY <2>4 DEF Distinct, Carries, WillCarry
  <2>6. pc'[p] \notin InBlock
    BY <2>1 DEF InBlock
  <2>7. ASSUME NEW q \in Proc, pc'[q] \in InBlock PROVE ~HasFree(q)'
    <3>1. q # p /\ pc[q] \in InBlock
      BY <1>3, <2>6, <2>7
    <3>2. User(q)
      BY <3>1, InBlockHas DEF User
    <3> QED BY <2>1, <3>2 DEF HasFree, Valid
  <2> QED BY <1>1, <1>3, <2>1, <2>3, <2>5, <2>6, <2>7 DEF BlocksNext
<1>8. ASSUME NEW k \in {Occupy, Free}, Takes(p, k) PROVE BlocksNext
  <2> DEFINE h == Head(msq[k].msgs)
  <2>1. PICK j \in {Occupy, Free} : j # k /\ {Occupy, Free} = {j, k}
    BY KeysDistinct
  <2>2. /\ msq[k].msgs # <<>> /\ Taken(k) /\ msq'[j] = msq[j] /\ obj' = obj /\ HasFree(p)
        /\ pc[p] = "idle" /\ pc'[p] \in InBlock /\ hand'[p] = h
    BY <1>8, <2>1, KeysDistinct DEF Takes, OthersSame
  <2>3. /\ h \in Index /\ Carries(k, h) /\ Distinct(k)'
        /\ \A b : WillCarry(k, b) <=> Carries(k, b) /\ b # h
    BY <1>1, <2>2, TakenCarries
  <2>4. Distinct(j)' /\ \A b : WillCarry(j, b) <=> Carries(j, b)
    BY <1>1, <2>2 DEF Distinct, Carries, WillCarry
  <2>5. ~Carries(j, h)
    BY <1>1, <2>1, <2>3
  <2>6. \A q \in Proc : HasFree(q)' <=> HasFree(q)
    <3>1. msq'[Free].gen = msq[Free].gen /\ msq'[Free].live = msq[Free].live
      BY <2>1, <2>2 DEF Taken, Becomes
    <3> QED BY <2>2, <3>1 DEF HasFree, Valid
  <2>7. \A q \in Proc : pc[q] \in InBlock /\ HasFree(q) => hand[q] # h
    BY <1>1, <2>1, <2>3
  <2>8. Distinct(Free)' /\ Distinct(Occupy)'
    BY <2>1, <2>3, <2>4
  <2>9. \A b \in Index : ~(WillCarry(k, b) /\ WillCarry(j, b))
    BY <1>1, <2>1, <2>3, <2>4
  <2>10. ASSUME NEW q \in Proc, pc'[q] \in InBlock, HasFree(q)'
         PROVE  ~WillCarry(k, hand'[q]) /\ ~WillCarry(j, hand'[q])
    <3>1. CASE q = p
      BY <2>2, <2>3, <2>4, <2>5, <3>1
    <3>2. CASE q # p
      <4>1. ~Carries(k, hand[q]) /\ ~Carries(j, hand[q]) /\ hand'[q] = hand[q]
        BY <1>1, <1>3, <2>1, <2>6, <2>10, <3>2
      <4> QED BY <2>3, <2>4, <4>1
    <3> QED BY <3>1, <3>2
  <2>11. ASSUME NEW q \in Proc, NEW r \in Proc, pc'[q] \in InBlock, pc'[r] \in InBlock,
                hand'[q] = hand'[r], obj'[q].m_FreeMsqID = obj'[r].m_FreeMsqID, q # r
         PROVE  FALSE
    <3>1. CASE q # p /\ r # p
      BY <1>1, <1>3, <2>11, <3>1
    <3>2. ASSUME NEW s \in Proc, s # p, pc'[s] \in InBlock, hand'[s] = hand'[p],
                 obj'[s].m_FreeMsqID = obj'[p].m_FreeMsqID
          PROVE  FALSE
      <4>1. pc[s] \in InBlock /\ hand[s] = h /\ HasFree(s)
        BY <1>3, <1>4, <2>2, <3>2
      <4> QED BY <2>7, <4>1
    <3> QED BY <2>11, <3>1, <3>2
  <2> QED BY <2>1, <2>8, <2>9, <2>10, <2>11 DEF BlocksNext
<1>9. ASSUME NEW k \in {Occupy, Free}, Puts(p, k) PROVE BlocksNext
  <2> DEFINE h == hand[p]
  <2>1. PICK j \in {Occupy, Free} : j # k /\ {Occupy, Free} = {j, k}
    BY KeysDistinct
  <2>2. /\ Put(k, h) /\ msq'[j] = msq[j] /\ obj' = obj /\ HasFree(p) /\ h \in Index
        /\ pc[p] \in InBlock /\ pc'[p] = "idle"
    BY <1>9, <2>1, KeysDistinct DEF Puts, OthersSame
  <2>3. ~Carries(k, h) /\ ~Carries(j, h)
    BY <1>1, <2>1, <2>2
  <2>4. Distinct(k)' /\ \A b : WillCarry(k, b) <=> Carries(k, b) \/ b = h
    BY <1>1, <2>2, <2>3, PutCarries
  <2>5. Distinct(j)' /\ \A b : WillCarry(j, b) <=> Carries(j, b)
    BY <1>1, <2>2 DEF Distinct, Carries, WillCarry
  <2>6. \A q \in Proc : HasFree(q)' <=> HasFree(q)
    <3>1. msq'[Free].gen = msq[Free].gen /\ msq'[Free].live = msq[Free].live
      BY <2>1, <2>2 DEF Put, Becomes
    <3> QED BY <2>2, <3>1 DEF HasFree, Valid
  <2>7. Distinct(Free)' /\ Distinct(Occupy)'
    BY <2>1, <2>4, <2>5
  <2>8. \A b \in Index : ~(WillCarry(k, b) /\ WillCarry(j, b))
    BY <1>1, <2>1, <2>3, <2>4, <2>5
  <2>9. pc'[p] \notin InBlock
    BY <2>2 DEF InBlock
  <2>10. ASSUME NEW q \in Proc, pc'[q] \in InBlock, HasFree(q)'
         PROVE  ~WillCarry(k, hand'[q]) /\ ~WillCarry(j, hand'[q])
    <3>1. q # p /\ pc[q] \in InBlock /\ hand'[q] = hand[q] /\ HasFree(q)
      BY <1>3, <2>6, <2>9, <2>10
    <3>2. hand[q] # h
      BY <1>1, <1>5, <2>2, <3>1
    <3> QED BY <1>1, <2>1, <2>4, <2>5, <3>1, <3>2
  <2>11. ASSUME NEW q \in Proc, NEW r \in Proc, pc'[q] \in InBlock, pc'[r] \in InBlock,
                hand'[q] = hand'[r], obj'[q].m_FreeMsqID = obj'[r].m_FreeMsqID
         PROVE  q = r
    BY <1>1, <1>3, <2>9, <2>11
  <2> QED BY <2>1, <2>7, <2>8, <2>10, <2>11 DEF BlocksNext
<1> QED BY <1>6, <1>7, <1>8, <1>9, BlockMoves

\* A block is carried by one message or is in one hand.
THEOREM BlocksHold == Spec => []BlockInv
<1>1. Init => BlockInv
  <2> SUFFICES ASSUME Init PROVE BlockInv
    OBVIOUS
  <2>1. msq[Free].msgs = <<>> /\ msq[Occupy].msgs = <<>>
    BY KeysDistinct DEF Init
  <2>2. \A p \in Proc : pc[p] \notin InBlock
    BY DEF Init, InBlock
  <2> QED BY <2>1, <2>2, EmptyCarries DEF BlockInv
<1>2. TypeInv /\ LinkedInv /\ BlockInv /\ [Next]_vars => BlockInv'
  <2>1. ASSUME BlockInv, UNCHANGED vars PROVE BlockInv'
    BY <2>1 DEF vars, BlockInv, Orderly, Distinct, Carries, Valid
  <2> QED BY <2>1, BlockStep, NextAction
<1> QED BY <1>1, <1>2, TypeInvHolds, LinkedHolds, PTL DEF Spec

\* Every step keeps the blocks there.
LEMMA PresentStep ==
    ASSUME TypeInv, LinkedInv, BlockInv, PresentInv, NEW p \in Proc, Action(p)
    PROVE  PresentInv'
<1> SUFFICES ASSUME Orderly', count'.crash = 0, msq'[Occupy].live, msq'[Free].live,
                    \A q \in Proc : pc'[q] # "open_init", NEW b \in Index
             PROVE  \/ WillCarry(Free, b) \/ WillCarry(Occupy, b)
                    \/ \E q \in Proc : pc'[q] \in InBlock /\ hand'[q] = b /\ HasFree(q)'
  BY DEF PresentInv, HasFree, Carries, WillCarry
<1>0. Orderly /\ count.crash = 0
  BY TroubleMoves
<1>1. msq[Occupy].live /\ msq[Free].live /\ (\A q \in Proc : pc[q] # "open_init") =>
          \/ Carries(Free, b) \/ Carries(Occupy, b)
          \/ \E q \in Proc : pc[q] \in InBlock /\ hand[q] = b /\ HasFree(q)
  BY <1>0 DEF PresentInv, HasFree
<1>2. \A q \in Proc : q # p => pc'[q] = pc[q] /\ obj'[q] = obj[q] /\ hand'[q] = hand[q]
  BY Frame
<1>3. Distinct(Free) /\ Distinct(Occupy)
      /\ \A q \in Proc : pc[q] \in InBlock /\ HasFree(q) =>
             ~Carries(Free, hand[q]) /\ ~Carries(Occupy, hand[q])
  BY <1>0 DEF BlockInv, HasFree
<1>4. CASE Leaves(p)
  <2>1. /\ msq[Occupy].live /\ msq[Free].live /\ pc[p] # "open_init"
        /\ msq'[Occupy].msgs = msq[Occupy].msgs /\ msq'[Free].msgs = msq[Free].msgs
        /\ \A q \in Proc : pc[q] \in InBlock /\ HasFree(q) => pc'[q] \in InBlock /\ HasFree(q)'
        /\ \A q \in Proc : pc'[q] \in InBlock => hand'[q] = hand[q]
    BY <1>4 DEF Leaves
  <2>2. \A q \in Proc : pc[q] # "open_init"
    BY <1>2, <2>1
  <2> QED BY <1>1, <2>1, <2>2 DEF Carries, WillCarry
<1>5. CASE Fills(p)
  <2>1. /\ WithBlocks(<<>>) \in Seq(Nat) /\ Len(WithBlocks(<<>>)) = Blocks
        /\ \A n \in 1 .. Blocks : WithBlocks(<<>>)[n] = n - 1
    <3>1. <<>> \in Seq(Nat) /\ \A n \in DOMAIN <<>> : <<>>[n] \in Index
      OBVIOUS
    <3> QED BY <3>1, WithBlocksIs
  <2>2. DOMAIN WithBlocks(<<>>) = 1 .. Blocks
    BY <2>1, LenProperties
  <2>3. b + 1 \in 1 .. Blocks /\ (b + 1) - 1 = b
    BY BlocksFit
  <2>4. msq'[Free].msgs = WithBlocks(<<>>)
    BY <1>5 DEF Fills
  <2>5. b + 1 \in DOMAIN msq'[Free].msgs /\ msq'[Free].msgs[b + 1] = b
    <3>1. DOMAIN msq'[Free].msgs = 1 .. Blocks /\ \A n \in 1 .. Blocks : msq'[Free].msgs[n] = n - 1
      BY <2>1, <2>2, <2>4
    <3>2. PICK n \in 1 .. Blocks : n = b + 1 /\ n - 1 = b
      <4>1. b + 1 \in 1 .. Blocks
        BY <2>3
      <4> WITNESS b + 1 \in 1 .. Blocks
      <4> QED BY <2>3
    <3>3. n \in DOMAIN msq'[Free].msgs /\ msq'[Free].msgs[n] = b
      BY <3>1, <3>2
    <3> QED BY <3>2, <3>3
  <2>6. WillCarry(Free, b)
    BY <2>5 DEF WillCarry
  <2> QED BY <2>6
<1>6. ASSUME NEW k \in {Occupy, Free}, NEW j \in {Occupy, Free}, j # k, {Occupy, Free} = {j, k},
             Takes(p, k) \/ Puts(p, k)
      PROVE  \/ WillCarry(Free, b) \/ WillCarry(Occupy, b)
             \/ \E q \in Proc : pc'[q] \in InBlock /\ hand'[q] = b /\ HasFree(q)'
  <2>1. /\ msq'[j] = msq[j] /\ obj' = obj /\ HasFree(p)
        /\ msq'[k].gen = msq[k].gen /\ msq'[k].live = msq[k].live
        /\ pc[p] \in InBlock \cup {"idle"}
    BY <1>6, KeysDistinct DEF Takes, Puts, OthersSame, Taken, Put, Becomes
  <2>2. msq[Occupy].live /\ msq[Free].live /\ msq'[Free].gen = msq[Free].gen
    BY <1>6, <2>1
  <2>3. \A q \in Proc : HasFree(q)' <=> HasFree(q)
    BY <2>1, <2>2 DEF HasFree, Valid
  <2>4. \A q \in Proc : pc[q] # "open_init"
    BY <1>2, <2>1 DEF InBlock
  <2>5. \A c : WillCarry(j, c) <=> Carries(j, c)
    BY <2>1 DEF Carries, WillCarry
  <2>6. \/ Carries(k, b) \/ Carries(j, b)
        \/ \E q \in Proc : pc[q] \in InBlock /\ hand[q] = b /\ HasFree(q)
    BY <1>1, <1>6, <2>2, <2>4
  <2>7. SUFFICES \/ WillCarry(k, b) \/ WillCarry(j, b)
                 \/ \E q \in Proc : pc'[q] \in InBlock /\ hand'[q] = b /\ HasFree(q)'
    BY <1>6
  <2>8. CASE Takes(p, k)
    <3>1. /\ pc[p] = "idle" /\ pc'[p] \in InBlock /\ hand'[p] = Head(msq[k].msgs)
          /\ \A c : WillCarry(k, c) <=> Carries(k, c) /\ c # Head(msq[k].msgs)
      BY <1>3, <2>8, TakenCarries DEF Takes
    <3>2. \A q \in Proc : pc[q] \in InBlock => pc'[q] \in InBlock /\ hand'[q] = hand[q]
      BY <1>2, <3>1 DEF InBlock
    <3> QED BY <2>1, <2>3, <2>5, <2>6, <3>1, <3>2
  <2>9. CASE Puts(p, k)
    <3>1. Put(k, hand[p]) /\ hand[p] \in Index /\ pc[p] \in InBlock
      BY <2>9 DEF Puts
    <3>2. \A c : WillCarry(k, c) <=> Carries(k, c) \/ c = hand[p]
      BY <1>3, <2>1, <3>1, PutCarries
    <3> QED BY <1>2, <2>3, <2>5, <2>6, <3>2
  <2> QED BY <1>6, <2>8, <2>9
<1>7. ASSUME NEW k \in {Occupy, Free}, Takes(p, k) \/ Puts(p, k)
      PROVE  \/ WillCarry(Free, b) \/ WillCarry(Occupy, b)
             \/ \E q \in Proc : pc'[q] \in InBlock /\ hand'[q] = b /\ HasFree(q)'
  <2>1. PICK j \in {Occupy, Free} : j # k /\ {Occupy, Free} = {j, k}
    BY KeysDistinct
  <2> QED BY <1>6, <1>7, <2>1
<1> QED BY <1>4, <1>5, <1>7, BlockMoves

\* Every block is carried by a message or is in a hand, while nobody is killed.
THEOREM PresentHolds == Spec => []PresentInv
<1>1. Init => PresentInv
  BY KeysDistinct DEF Init, PresentInv
<1>2. TypeInv /\ LinkedInv /\ BlockInv /\ PresentInv /\ [Next]_vars => PresentInv'
  <2>1. ASSUME PresentInv, UNCHANGED vars PROVE PresentInv'
    BY <2>1 DEF vars, PresentInv, Orderly, Carries, Valid
  <2> QED BY <2>1, PresentStep, NextAction
<1> QED BY <1>1, <1>2, TypeInvHolds, LinkedHolds, BlocksHold, PTL DEF Spec

-----------------------------------------------------------------------------

\* A process that has a block in its hand never waits for room in the queue it
\* posts it to (the blocking msgsnd of send and of recv), so nobody waits for
\* everybody with all the blocks taken.
THEOREM RoomHolds == Spec => []RoomForBlock
<1>1. ASSUME TypeInv, LinkedInv, LimitsInv, BlockInv PROVE RoomForBlock
  <2> SUFFICES ASSUME Orderly, NEW p \in Proc, NEW k \in {Occupy, Free}, pc[p] \in InBlock,
                      msq[k].live, HasFree(p)
               PROVE  Fits(k)
    <3>1. ASSUME Orderly, NEW p \in Proc, pc[p] = "send_post", Valid(Occupy, obj[p].m_OccupyMsqID)
          PROVE  pc[p] \in InBlock /\ msq[Occupy].live /\ HasFree(p)
      <4>1. pc[p] \in InBlock /\ User(p)
        BY <1>1, <3>1, InBlockHas DEF User, InBlock
      <4> QED BY <1>1, <3>1, <4>1 DEF LinkedInv, HasFree, Valid
    <3>2. ASSUME Orderly, NEW p \in Proc, pc[p] = "recv_give", Valid(Free, obj[p].m_FreeMsqID)
          PROVE  pc[p] \in InBlock /\ msq[Free].live /\ HasFree(p)
      BY <3>2 DEF InBlock, HasFree, Valid
    <3> QED BY <3>1, <3>2 DEF RoomForBlock
  <2>1. /\ Distinct(k) /\ ~Carries(k, hand[p])
        /\ Blocks * WordSize <= msq[k].qbytes
    BY <1>1 DEF BlockInv, LimitsInv, HasFree
  <2>2. hand[p] \in Index
    BY <1>1, InBlockHas
  <2>3. Len(msq[k].msgs) + 1 <= Blocks
    BY <1>1, <2>1, <2>2, RoomLeft
  <2>4. /\ Len(msq[k].msgs) \in Nat /\ Blocks \in Nat /\ WordSize \in {4, 8} /\ msq[k].qbytes \in Nat
    <3>1. TypeOK /\ k \in Keys
      BY <1>1, KeysDistinct DEF TypeInv
    <3>2. msq[k].msgs \in Seq(Nat) /\ msq[k].qbytes \in Nat
      BY <3>1, QueueType
    <3>3. Len(msq[k].msgs) \in Nat
      BY <3>2, LenProperties
    <3>4. Blocks \in Nat /\ WordSize \in {4, 8}
      BY BlocksFit, QueueAssumption
    <3> QED BY <3>2, <3>3, <3>4
  <2>5. WordSize * (Len(msq[k].msgs) + 1) <= msq[k].qbytes
    <3> DEFINE n == Len(msq[k].msgs)
    <3>1. n + 1 <= Blocks /\ n \in Nat /\ Blocks \in Nat
      BY <2>3, <2>4
    <3> HIDE DEF n
    <3>2. CASE WordSize = 4
      <4>1. 4 * (n + 1) <= Blocks * 4
        BY <3>1
      <4> QED BY <2>1, <2>4, <3>1, <3>2, <4>1 DEF n
    <3>3. CASE WordSize = 8
      <4>1. 8 * (n + 1) <= Blocks * 8
        BY <3>1
      <4> QED BY <2>1, <2>4, <3>1, <3>3, <4>1 DEF n
    <3> QED BY <2>4, <3>2, <3>3
  <2> QED BY <2>5 DEF Fits, FitsIn
<1> QED BY <1>1, TypeInvHolds, LinkedHolds, LimitsHold, BlocksHold, PTL

\* A block is never twice in the queues or hands of those who send and receive: no
\* two processes copy into one block, and no message is overwritten before it is
\* read.
THEOREM OneOwner == Spec => []BlockHasOneOwner
<1>1. ASSUME TypeInv, BlockInv PROVE BlockHasOneOwner
  <2> SUFFICES ASSUME Orderly, NEW b \in Index PROVE Cardinality(Whereabouts(b)) <= 1
    BY DEF BlockHasOneOwner
  <2>1. /\ Distinct(Free) /\ Distinct(Occupy)
        /\ ~(Carries(Free, b) /\ Carries(Occupy, b))
        /\ \A q \in Proc : pc[q] \in InBlock /\ HasFree(q) =>
               ~Carries(Free, hand[q]) /\ ~Carries(Occupy, hand[q])
        /\ \A q, r \in Proc : pc[q] \in InBlock /\ pc[r] \in InBlock /\ hand[q] = hand[r]
                              /\ obj[q].m_FreeMsqID = obj[r].m_FreeMsqID => q = r
    BY <1>1 DEF BlockInv, HasFree
  <2>2. \A q \in InHand(b) : /\ q \in Proc /\ pc[q] \in InBlock /\ HasFree(q) /\ hand[q] = b
                             /\ obj[q].m_FreeMsqID = msq[Free].gen
    <3>1. b # None
      BY Values
    <3> QED BY <1>1, <3>1 DEF InHand, TypeInv, IdsOK, IdsFit, HasFree, Valid
  <2>3. ASSUME NEW k \in {Occupy, Free}, NEW x \in At(k, b)
        PROVE  Carries(k, b) /\ \A y \in At(k, b) : x = y
    <3>1. \A y \in At(k, b) : \E n \in DOMAIN msq[k].msgs : msq[k].msgs[n] = b /\ y = <<k, n>>
      BY DEF At
    <3>2. PICK n \in DOMAIN msq[k].msgs : msq[k].msgs[n] = b /\ x = <<k, n>>
      BY <3>1
    <3>3. Distinct(k)
      BY <2>1
    <3> QED BY <3>1, <3>2, <3>3 DEF Carries, Distinct
  <2>4. ASSUME NEW x \in Whereabouts(b), NEW y \in Whereabouts(b) PROVE x = y
    <3>1. CASE x \in At(Free, b)
      BY <2>1, <2>2, <2>3, <2>4, <3>1 DEF Whereabouts
    <3>2. CASE x \in At(Occupy, b)
      BY <2>1, <2>2, <2>3, <2>4, <3>2 DEF Whereabouts
    <3>3. CASE x \in InHand(b)
      BY <2>1, <2>2, <2>3, <2>4, <3>3 DEF Whereabouts
    <3> QED BY <3>1, <3>2, <3>3 DEF Whereabouts
  <2>5. CASE Whereabouts(b) = {}
    BY <2>5, FS_EmptySet
  <2>6. CASE Whereabouts(b) # {}
    <3>1. PICK x : Whereabouts(b) = {x}
      BY <2>4, <2>6
    <3>2. Cardinality({x}) = 1
      BY FS_Singleton
    <3> QED BY <3>1, <3>2
  <2> QED BY <2>5, <2>6
<1> QED BY <1>1, TypeInvHolds, BlocksHold, PTL

\* While the queue exists and nobody is killed no block is lost, whatever send and
\* recv return early with: its capacity stays what open gave it.
THEOREM NoneLost == Spec => []NoBlockLost
<1>1. ASSUME PresentInv PROVE NoBlockLost
  <2> SUFFICES ASSUME Orderly, count.crash = 0, msq[Occupy].live, msq[Free].live,
                      \A p \in Proc : pc[p] # "open_init", NEW b \in Index
               PROVE  Whereabouts(b) # {}
    BY DEF NoBlockLost
  <2>1. \/ Carries(Free, b) \/ Carries(Occupy, b)
        \/ \E p \in Proc : pc[p] \in InBlock /\ hand[p] = b /\ Valid(Free, obj[p].m_FreeMsqID)
    BY <1>1 DEF PresentInv
  <2>2. \A k : Carries(k, b) => At(k, b) # {}
    BY DEF Carries, At
  <2> QED BY <2>1, <2>2 DEF Whereabouts, InHand
<1> QED BY <1>1, PresentHolds, PTL

\* What DataInv says of the next state.
DataNext ==
    /\ \A b : WillCarry(Occupy, b) =>
           shm'.gen \in Generation /\ mem'[shm'.gen].block[b] = meant'[shm'.gen][b]
    /\ \A q \in Proc :
         LET g == obj'[q].m_MsgQueueInfo IN
         /\ pc'[q] = "send_post" => mem'[g].block[hand'[q]] = data'[q]
         /\ pc'[q] = "recv_copy" => mem'[g].block[hand'[q]] = meant'[g][hand'[q]]
         /\ pc'[q] = "recv_give" => data'[q] = meant'[g][hand'[q]]

\* A step of p that neither touches a block nor gets one from the occupied queue.
Spares(p) ==
    /\ \A b : WillCarry(Occupy, b) => Carries(Occupy, b)
    /\ shm'.gen = shm.gen \/ \A b : ~Carries(Occupy, b)
    /\ \A g \in Generation : mem'[g].block = mem[g].block
    /\ meant' = meant
    /\ pc'[p] \notin {"send_post", "recv_copy", "recv_give"}

\* The other steps touch no block that anybody reads.
LEMMA SparesMoves ==
    ASSUME TypeInv, LinkedInv, Orderly', NEW p \in Proc, Action(p),
           ~SendCopy(p), ~(SendPost(p) /\ Valid(Occupy, obj[p].m_OccupyMsqID)), ~RecvTake(p), ~RecvCopy(p)
    PROVE  Spares(p)
<1>0. pc \in [Proc -> Places]
  BY PcType
<1>1. Orderly /\ ~LockLost(p) /\ ~FreeLost(p)
  BY TroubleMoves
<1>2. msq'[Occupy].msgs = <<>> => \A b : ~WillCarry(Occupy, b)
  <2>1. DOMAIN <<>> = {}
    OBVIOUS
  <2> QED BY <2>1 DEF WillCarry
<1>3. msq'[Occupy].msgs = msq[Occupy].msgs => \A b : WillCarry(Occupy, b) => Carries(Occupy, b)
  BY DEF WillCarry, Carries
<1>4. CASE OpenAttach(p)
  <2>1. /\ pc[p] = "open_attach" /\ pc'[p] = "open_free" /\ mem' = mem /\ meant' = meant
        /\ msq' = msq \/ msq'[Occupy].msgs = <<>>
        /\ shm.live => shm' = shm
    BY <1>0, <1>4, KeysDistinct, OpenAttachDoes DEF Made, Becomes
  <2>2. ~shm.live => \A b : ~Carries(Occupy, b)
    <3>1. ~shm.live => msq[Occupy].msgs = <<>>
      BY <1>1, <2>1 DEF LinkedInv
    <3> QED BY <3>1, EmptyCarries
  <2> QED BY <1>2, <1>3, <2>1, <2>2 DEF Spares
<1>5. CASE OpenFails(p)
  <2>1. /\ pc[p] \in {"open_attach", "open_free"} /\ pc'[p] = "unlock"
        /\ mem' = mem /\ meant' = meant
        /\ msq' = msq \/ msq'[Occupy].msgs = <<>>
        /\ shm' = shm \/ (pc[p] = "open_attach" /\ ~shm.live)
    BY <1>0, <1>5, KeysDistinct, OpenFailsDoes DEF Made, Becomes
  <2>2. pc[p] = "open_attach" /\ ~shm.live => \A b : ~Carries(Occupy, b)
    <3>1. pc[p] = "open_attach" /\ ~shm.live => msq[Occupy].msgs = <<>>
      BY <1>1 DEF LinkedInv
    <3> QED BY <3>1, EmptyCarries
  <2> QED BY <1>2, <1>3, <2>1, <2>2 DEF Spares
<1>6. CASE OpenInit(p) \/ OpenCount(p) \/ CloseCount(p)
  <2>1. /\ pc'[p] \in {"open_count", "unlock", "rm_shm"} /\ meant' = meant /\ shm' = shm
        /\ msq'[Occupy].msgs = msq[Occupy].msgs
    <3>1. CASE OpenInit(p)
      BY <1>0, <3>1, OpenInitDoes DEF Becomes
    <3>2. CASE OpenCount(p)
      BY <1>0, <3>2, OpenCountDoes
    <3>3. CASE CloseCount(p)
      BY <1>0, <3>3, CloseCountDoes
    <3> QED BY <1>6, <3>1, <3>2, <3>3
  <2>2. \A g \in Generation : mem'[g].block = mem[g].block
    <3>1. CASE OpenInit(p)
      BY <3>1, OpenInitDoes
    <3>2. CASE OpenCount(p)
      BY <3>2, OpenCountDoes
    <3>3. CASE CloseCount(p)
      BY <3>3, CloseCountDoes
    <3> QED BY <1>6, <3>1, <3>2, <3>3
  <2> QED BY <1>3, <2>1, <2>2 DEF Spares
<1>7. CASE SendTake(p) \/ RecvGive(p) \/ SendPost(p)
  <2>1. /\ pc'[p] \in {"send_copy", "idle"} /\ mem' = mem /\ meant' = meant /\ shm' = shm
        /\ msq'[Occupy] = msq[Occupy]
    <3>1. CASE SendTake(p)
      BY <1>0, <3>1, KeysDistinct, SendTakeDoes DEF OthersSame
    <3>2. CASE RecvGive(p)
      BY <1>0, <3>2, KeysDistinct, RecvGiveDoes DEF OthersSame
    <3>3. CASE SendPost(p)
      BY <1>0, <3>3, KeysDistinct, SendPostDoes DEF OthersSame
    <3> QED BY <1>7, <3>1, <3>2, <3>3
  <2> QED BY <1>3, <2>1 DEF Spares
<1>8. CASE RemoveOccupy(p) \/ RemoveFree(p) \/ RemoveShm(p) \/ OpenFree(p) \/ Crash(p)
  <2>1. /\ pc'[p] \in {"rm_free", "unlock", "rm_occupy", "open_init", "open_count", "idle"}
        /\ mem' = mem /\ meant' = meant /\ shm'.gen = shm.gen
    <3>1. CASE RemoveOccupy(p)
      BY <1>0, <3>1, RemoveOccupyDoes
    <3>2. CASE RemoveFree(p)
      BY <1>0, <3>2, RemoveFreeDoes
    <3>3. CASE RemoveShm(p)
      BY <1>0, <3>3, RemoveShmDoes
    <3>4. CASE OpenFree(p)
      BY <1>0, <3>4, OpenFreeDoes
    <3>5. CASE Crash(p)
      BY <1>0, <3>5, CrashDoes
    <3> QED BY <1>8, <3>1, <3>2, <3>3, <3>4, <3>5
  <2>2. msq'[Occupy].msgs = <<>> \/ msq'[Occupy] = msq[Occupy]
    <3>1. CASE RemoveOccupy(p)
      BY <3>1, KeysDistinct, RemoveOccupyDoes DEF Gone, Becomes
    <3>2. CASE RemoveFree(p)
      BY <3>2, KeysDistinct, RemoveFreeDoes DEF OthersSame
    <3>3. CASE RemoveShm(p)
      BY <3>3, RemoveShmDoes
    <3>4. CASE OpenFree(p)
      BY <3>4, KeysDistinct, OpenFreeDoes DEF OthersSame
    <3>5. CASE Crash(p)
      BY <3>5, CrashDoes
    <3> QED BY <1>8, <3>1, <3>2, <3>3, <3>4, <3>5
  <2> QED BY <1>2, <1>3, <2>1, <2>2 DEF Spares
<1>9. CASE Open(p) \/ Close(p) \/ Release(p) \/ LockFails(p) \/ AcquireLock(p) \/ LockCreate(p) \/ LockInit(p) \/ Unlock(p)
  <2>1. /\ mem' = mem /\ meant' = meant /\ shm' = shm
        /\ pc'[p] \in {"lock_create", "close_lock", "release_lock", "open_attach", "close", "rm_shm",
                       "lock_init", "open_lock", "idle"}
    <3>1. CASE Open(p) \/ Close(p) \/ Release(p) \/ LockFails(p) \/ AcquireLock(p)
      BY <1>0, <3>1, OpenDoes, CloseDoes, ReleaseDoes, LockFailsDoes, AcquireLockDoes
    <3>2. CASE LockCreate(p) \/ LockInit(p) \/ Unlock(p)
      BY <1>0, <3>2, LockCreateDoes, LockInitDoes, UnlockDoes
    <3> QED BY <1>9, <3>1, <3>2
  <2>2. msq'[Occupy] = msq[Occupy]
    BY <1>9, KeysDistinct, OpenDoes, CloseDoes, ReleaseDoes, LockFailsDoes, AcquireLockDoes, LockCreateDoes, LockInitDoes,
       UnlockDoes DEF OthersSame
  <2> QED BY <1>3, <2>1, <2>2 DEF Spares
<1> QED BY <1>1, <1>4, <1>5, <1>6, <1>7, <1>8, <1>9 DEF Action

\* Every step keeps the contents.
LEMMA DataStep ==
    ASSUME TypeInv, LinkedInv, BlockInv, DataInv, NEW p \in Proc, Action(p)
    PROVE  DataInv'
<1> SUFFICES ASSUME Orderly' PROVE DataNext
  BY DEF DataInv, DataNext, WillCarry
<1> DEFINE g == obj[p].m_MsgQueueInfo
           h == hand[p]
<1>0. Orderly /\ pc \in [Proc -> Places] /\ hand \in [Proc -> Index \cup {None}]
  BY TroubleMoves, PcType, LocalTypes
<1>1. /\ \A b : Carries(Occupy, b) =>
             b \in Index /\ shm.gen \in Generation /\ mem[shm.gen].block[b] = meant[shm.gen][b]
      /\ \A q \in Proc :
           /\ pc[q] = "send_post" => mem[obj[q].m_MsgQueueInfo].block[hand[q]] = data[q]
           /\ pc[q] = "recv_copy" => mem[obj[q].m_MsgQueueInfo].block[hand[q]] = meant[obj[q].m_MsgQueueInfo][hand[q]]
           /\ pc[q] = "recv_give" => data[q] = meant[obj[q].m_MsgQueueInfo][hand[q]]
  BY <1>0, IndexType DEF DataInv, Carries
<1>2. \A q \in Proc : pc[q] \in InBlock =>
          User(q) /\ obj[q].m_MsgQueueInfo \in Generation /\ hand[q] \in Index
  BY InBlockHas DEF User
<1>3. \A q \in Proc : q # p =>
          pc'[q] = pc[q] /\ obj'[q] = obj[q] /\ hand'[q] = hand[q] /\ data'[q] = data[q]
  BY Frame
\* No other process, and no message, has the block that p has in hand.
<1>4. ASSUME pc[p] \in InBlock
      PROVE  /\ \A q \in Proc : q # p /\ pc[q] \in InBlock /\ obj[q].m_MsgQueueInfo = g => hand[q] # h
             /\ \A b : Carries(Occupy, b) /\ shm.gen = g => b # h
  <2>1. \A q \in Proc : q # p /\ pc[q] \in InBlock /\ obj[q].m_MsgQueueInfo = g => hand[q] # h
    <3>1. \A q \in Proc : pc[q] \in InBlock /\ obj[q].m_MsgQueueInfo = g =>
              obj[q].m_FreeMsqID = obj[p].m_FreeMsqID
      BY <1>0, <1>2, <1>4 DEF LinkedInv
    <3> QED BY <1>0, <1>4, <3>1 DEF BlockInv
  <2>2. ASSUME NEW b, Carries(Occupy, b), shm.gen = g PROVE b # h
    <3>1. msq[Occupy].msgs # <<>>
      BY <2>2, EmptyCarries
    <3>2. Valid(Free, obj[p].m_FreeMsqID)
      BY <1>0, <1>2, <1>4, <2>2, <3>1 DEF LinkedInv
    <3> QED BY <1>0, <1>4, <2>2, <3>2 DEF BlockInv
  <2> QED BY <2>1, <2>2
<1>5. CASE SendCopy(p)
  <2>1. /\ pc[p] = "send_copy" /\ pc'[p] = "send_post" /\ g \in Generation /\ h \in Index
        /\ mem'[g].block[h] = data[p] /\ \A i \in Index \ {h} : mem'[g].block[i] = mem[g].block[i]
        /\ \A f \in Generation \ {g} : mem'[f] = mem[f]
        /\ msq' = msq /\ shm' = shm /\ obj' = obj /\ hand' = hand /\ data' = data /\ meant' = meant
    BY <1>0, <1>5, SendCopyDoes
  <2>2. pc[p] \in InBlock
    BY <2>1 DEF InBlock
  <2>3. ASSUME NEW b, WillCarry(Occupy, b) PROVE mem'[shm'.gen].block[b] = meant'[shm'.gen][b] /\ shm'.gen \in Generation
    <3>1. Carries(Occupy, b)
      BY <2>1, <2>3 DEF WillCarry, Carries
    <3>2. CASE shm.gen = g
      BY <1>1, <1>4, <2>1, <2>2, <3>1, <3>2
    <3>3. CASE shm.gen # g
      BY <1>1, <2>1, <3>1, <3>3
    <3> QED BY <3>2, <3>3
  <2>4. ASSUME NEW q \in Proc, q # p, pc[q] \in InBlock
        PROVE  mem'[obj[q].m_MsgQueueInfo].block[hand[q]] = mem[obj[q].m_MsgQueueInfo].block[hand[q]]
    BY <1>2, <1>4, <2>1, <2>2, <2>4
  <2>5. \A q \in Proc : q # p =>
           /\ pc'[q] = "send_post" => mem'[obj'[q].m_MsgQueueInfo].block[hand'[q]] = data'[q]
           /\ pc'[q] = "recv_copy" => mem'[obj'[q].m_MsgQueueInfo].block[hand'[q]] = meant'[obj'[q].m_MsgQueueInfo][hand'[q]]
           /\ pc'[q] = "recv_give" => data'[q] = meant'[obj'[q].m_MsgQueueInfo][hand'[q]]
    BY <1>1, <1>3, <2>1, <2>4 DEF InBlock
  <2> QED BY <2>1, <2>3, <2>5 DEF DataNext
<1>6. CASE SendPost(p) /\ Valid(Occupy, obj[p].m_OccupyMsqID)
  <2>1. /\ pc[p] = "send_post" /\ pc'[p] = "idle" /\ g \in Generation /\ h \in Index
        /\ Put(Occupy, h)
        /\ meant'[g][h] = data[p] /\ \A i \in Index \ {h} : meant'[g][i] = meant[g][i]
        /\ \A f \in Generation \ {g} : meant'[f] = meant[f]
        /\ shm' = shm /\ mem' = mem /\ obj' = obj
    BY <1>0, <1>6, SendPostDoes
  <2>2. pc[p] \in InBlock
    BY <2>1 DEF InBlock
  <2>3. g = shm.gen /\ Valid(Free, obj[p].m_FreeMsqID)
    BY <1>0, <1>2, <1>6, <2>2 DEF LinkedInv
  <2>4. ASSUME NEW b, WillCarry(Occupy, b) PROVE mem'[shm'.gen].block[b] = meant'[shm'.gen][b] /\ shm'.gen \in Generation
    <3>1. Carries(Occupy, b) \/ b = h
      <4>1. Distinct(Occupy) /\ ~Carries(Occupy, h)
        BY <1>0, <2>2, <2>3 DEF BlockInv
      <4> QED BY <2>1, <2>4, <4>1, PutCarries
    <3>2. CASE b = h
      BY <1>1, <2>1, <2>3, <3>2
    <3>3. CASE b # h
      BY <1>1, <2>1, <2>3, <3>1, <3>3
    <3> QED BY <3>2, <3>3
  <2>5. ASSUME NEW q \in Proc, q # p, pc[q] \in InBlock
        PROVE  meant'[obj[q].m_MsgQueueInfo][hand[q]] = meant[obj[q].m_MsgQueueInfo][hand[q]]
    BY <1>2, <1>4, <2>1, <2>2, <2>5
  <2>6. \A q \in Proc : q # p =>
           /\ pc'[q] = "send_post" => mem'[obj'[q].m_MsgQueueInfo].block[hand'[q]] = data'[q]
           /\ pc'[q] = "recv_copy" => mem'[obj'[q].m_MsgQueueInfo].block[hand'[q]] = meant'[obj'[q].m_MsgQueueInfo][hand'[q]]
           /\ pc'[q] = "recv_give" => data'[q] = meant'[obj'[q].m_MsgQueueInfo][hand'[q]]
    BY <1>1, <1>3, <2>1, <2>5 DEF InBlock
  <2> QED BY <2>1, <2>4, <2>6 DEF DataNext
<1>7. CASE RecvTake(p)
  <2>1. /\ pc[p] = "idle" /\ pc'[p] = "recv_copy" /\ obj[p].m_IsOpen
        /\ Valid(Occupy, obj[p].m_OccupyMsqID) /\ msq[Occupy].msgs # <<>> /\ Taken(Occupy)
        /\ hand'[p] = Head(msq[Occupy].msgs)
        /\ shm' = shm /\ mem' = mem /\ obj' = obj /\ meant' = meant
    BY <1>0, <1>7, RecvTakeDoes
  <2>2. g = shm.gen
    <3>1. User(p)
      BY <2>1 DEF User
    <3> QED BY <1>0, <2>1, <3>1 DEF LinkedInv
  <2>3. Carries(Occupy, hand'[p]) /\ \A b : WillCarry(Occupy, b) => Carries(Occupy, b)
    <3>1. Distinct(Occupy)
      BY <1>0 DEF BlockInv
    <3> QED BY <2>1, <3>1, TakenCarries
  <2>4. \A q \in Proc : q # p =>
           /\ pc'[q] = "send_post" => mem'[obj'[q].m_MsgQueueInfo].block[hand'[q]] = data'[q]
           /\ pc'[q] = "recv_copy" => mem'[obj'[q].m_MsgQueueInfo].block[hand'[q]] = meant'[obj'[q].m_MsgQueueInfo][hand'[q]]
           /\ pc'[q] = "recv_give" => data'[q] = meant'[obj'[q].m_MsgQueueInfo][hand'[q]]
    BY <1>1, <1>3, <2>1
  <2>5. mem'[obj'[p].m_MsgQueueInfo].block[hand'[p]] = meant'[obj'[p].m_MsgQueueInfo][hand'[p]]
    BY <1>1, <2>1, <2>2, <2>3
  <2> QED BY <1>1, <2>1, <2>3, <2>4, <2>5 DEF DataNext
<1>8. CASE RecvCopy(p)
  <2>1. /\ pc[p] = "recv_copy" /\ pc'[p] = "recv_give" /\ data'[p] = mem[g].block[h]
        /\ msq' = msq /\ shm' = shm /\ mem' = mem /\ obj' = obj /\ hand' = hand /\ meant' = meant
    BY <1>0, <1>8, RecvCopyDoes
  <2>2. \A b : WillCarry(Occupy, b) => Carries(Occupy, b)
    BY <2>1 DEF WillCarry, Carries
  <2>3. \A q \in Proc : q # p => pc'[q] = pc[q] /\ data'[q] = data[q]
    BY <1>3
  <2> QED BY <1>1, <2>1, <2>2, <2>3 DEF DataNext
<1>9. CASE Spares(p)
  <2>1. /\ \A b : WillCarry(Occupy, b) => Carries(Occupy, b) /\ shm'.gen = shm.gen
        /\ \A f \in Generation : mem'[f].block = mem[f].block
        /\ meant' = meant /\ pc'[p] \notin {"send_post", "recv_copy", "recv_give"}
    BY <1>9 DEF Spares
  <2>2. \A b : WillCarry(Occupy, b) =>
           shm'.gen \in Generation /\ mem'[shm'.gen].block[b] = meant'[shm'.gen][b]
    BY <1>1, <2>1
  <2>3. \A q \in Proc : pc'[q] \in {"send_post", "recv_copy", "recv_give"} =>
           /\ q # p /\ pc[q] = pc'[q] /\ obj'[q] = obj[q] /\ hand'[q] = hand[q] /\ data'[q] = data[q]
           /\ mem'[obj[q].m_MsgQueueInfo].block = mem[obj[q].m_MsgQueueInfo].block
    BY <1>2, <1>3, <2>1 DEF InBlock
  <2> QED BY <1>1, <2>1, <2>2, <2>3 DEF DataNext
<1> QED BY <1>5, <1>6, <1>7, <1>8, <1>9, SparesMoves

\* A block that waits, or is being read, holds the message that was sent in it.
THEOREM DataHolds == Spec => []DataInv
<1>1. Init => DataInv
  <2> SUFFICES ASSUME Init PROVE DataInv
    OBVIOUS
  <2>1. msq[Occupy].msgs = <<>> /\ \A p \in Proc : pc[p] = "idle"
    BY KeysDistinct DEF Init
  <2>2. DOMAIN msq[Occupy].msgs = {}
    BY <2>1
  <2> QED BY <2>1, <2>2 DEF DataInv
<1>2. TypeInv /\ LinkedInv /\ BlockInv /\ DataInv /\ [Next]_vars => DataInv'
  <2>1. ASSUME DataInv, UNCHANGED vars PROVE DataInv'
    BY <2>1 DEF vars, DataInv, Orderly
  <2> QED BY <2>1, DataStep, NextAction
<1> QED BY <1>1, <1>2, TypeInvHolds, LinkedHolds, BlocksHold, PTL DEF Spec

\* What a receiver copies out is what the sender of that message copied in, though
\* the block is read and written without the lock.
THEOREM DataCopied == Spec => []DataIntact
<1>1. DataInv => DataIntact
  BY DEF DataInv, DataIntact
<1> QED BY <1>1, DataHolds, PTL
=============================================================================
